--------------------------- MODULE MCNetworkLoader -------------------------
(***************************************************************************)
(* NetworkLoader with a buffer of three blocks and the 0x800 block in the  *)
(* second.  k2 has a block of little Capacity and k3 has no magic.         *)
(***************************************************************************)
EXTENDS NetworkLoader, TLC

CONSTANTS k2, k3, f1, p1, a, b, nl

MCKernelLen == (k2 :> 2) @@ (k3 :> 3)
MCCapacity  == (k2 :> 2) @@ (k3 :> 0)

(* One that fits, over TFTP without its newline, and one that exceeds      *)
(* Defaults[] and m_InjectText.                                            *)
MCTexts == {<<a, nl>>, <<a, b, a>>}

Image(k) == [kind |-> "kernelimg", of |-> k]
Field(t) == [kind |-> "defaults", text |-> t]

(* A string before the image, after it, overruled by a blank field, one    *)
(* that k2's Capacity refuses and one that is cut first; two images.       *)
MCForms ==
    {<<Image(k2), Field(<<a>>)>>, <<Field(<<a>>), Image(k2), Field(<<>>)>>,
     <<Image(k3), [kind |-> "other"], Image(k2), Field(<<a, b>>)>>,
     <<Field(<<a, b, a>>), Image(k3)>>}

MCUploadLen == (f1 :> 1)
MCPathOf    == (f1 :> p1)

=============================================================================
