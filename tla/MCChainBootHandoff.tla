------------------------- MODULE MCChainBootHandoff ------------------------
(***************************************************************************)
(* ChainBootHandoff in fourteen lines: the slot, a copy region of two, one *)
(* of stacks, a low heap of five, and up to five of high memory, three of  *)
(* them in reach of the slot.  One image fills the copy region, one is     *)
(* longer by a line, as an HTTP form may be.                               *)
(***************************************************************************)
EXTENDS ChainBootHandoff

CONSTANTS k, long

MCPayloads  == {k, long}
MCImageSize == [p \in MCPayloads |-> IF p = k THEN 2 ELSE 3]

=============================================================================
