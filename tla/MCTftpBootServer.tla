-------------------------- MODULE MCTftpBootServer -------------------------
(***************************************************************************)
(* TftpBootServer with a buffer of three blocks and the 0x800 block in the *)
(* second.  k0 is empty, k1 too short for a 0x800 block, k2 declares a     *)
(* Capacity of two, k3 has no magic, k4 exceeds m_nMaxKernelSize.          *)
(***************************************************************************)
EXTENDS TftpBootServer, TLC

CONSTANTS k0, k1, k2, k3, k4, f0, f1, f3, p1, p2, a, b, nl

MCKernelLen == (k0 :> 0) @@ (k1 :> 1) @@ (k2 :> 2) @@ (k3 :> 3) @@ (k4 :> 4)
MCCapacity  == (k0 :> 0) @@ (k1 :> 0) @@ (k2 :> 2) @@ (k3 :> 0) @@ (k4 :> 0)

(* One that fits k2, one to be trimmed to that, one k2's Capacity refuses, *)
(* one that FileWrite refuses.                                             *)
MCTexts == {<<a>>, <<b, nl>>, <<a, b>>, <<a, b, a>>}

MCUploadLen == (f0 :> 0) @@ (f1 :> 1) @@ (f3 :> 3)
MCPathOf    == (f0 :> p1) @@ (f1 :> p2) @@ (f3 :> p1)

=============================================================================
