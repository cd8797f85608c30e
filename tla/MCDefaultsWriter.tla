-------------------------- MODULE MCDefaultsWriter -------------------------
(* DefaultsWriter with bytes scaled down: the block at 2, a header of 2    *)
(* and Text[3], Capacity from 0 (no room for the NUL) past sizeof.         *)
EXTENDS DefaultsWriter

MCSizes == {1, 6, 7, 9}
MCCapacities == {0, 1, 3, 5}
=============================================================================
