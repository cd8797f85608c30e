---------------------------- MODULE StagedImage ----------------------------
(***************************************************************************)
(* Images in staging memory, and BootImageWithDefaults() up to its call of *)
(* EnableChainBoot() (defaultsblock/bootimage.cpp), shared by both push    *)
(* paths of the network-loader.                                            *)
(*                                                                         *)
(* Memory is counted in TFTP blocks.  A cell [of, no, text] is block       *)
(* number no of the kernel "of"; text is the string PatchDefaults stamped  *)
(* into it, None in the bytes as they were pushed.                         *)
(***************************************************************************)
EXTENDS Integers, Sequences

CONSTANTS
    Kernels,       \* kernel*.img files clients push
    KernelLen,     \* blocks of each
    Capacity,      \* the Capacity its 0x800 block declares; 0: no magic there
    DefaultsCell,  \* the block of an image that holds its 0x800 block
    Chars,         \* characters of a defaults-string
    None           \* no kernel, no string

ASSUME StagedImageAssumption ==
    /\ \A k \in Kernels : KernelLen[k] \in Nat /\ Capacity[k] \in Nat
    /\ DefaultsCell \in Nat \ {0}
    /\ None \notin Kernels /\ None \notin Seq(Chars)

(* Measured in blocks, offset plus sizeof is DefaultsCell.                 *)
Block == INSTANCE DefaultsBlock WITH
            DefaultsBlockOffset <- DefaultsCell - 1, HeaderBytes <- 0,
            DefaultsBufferBytes <- 1, NUL <- None

Cells == [of : Kernels \cup {None}, no : Nat, text : Seq(Chars) \cup {None}]

BlankCell == [of |-> None, no |-> 0, text |-> None]

(* The blocks of kernel k as a client pushes them. *)
PushedCell(k, i) == [of |-> k, no |-> i, text |-> None]

(* PatchDefaults() reads the magic and the Capacity from the memory it is  *)
(* about to write.                                                         *)
CapacityAt(memory) ==
    LET k == memory[DefaultsCell].of IN IF k \in Kernels THEN Capacity[k] ELSE 0

(* The verdict on stamping s into the nImageSize blocks at memory; a null  *)
(* or empty string is not tried.                                           *)
BootVerdict(memory, nImageSize, s) ==
    IF s \in {None, <<>>} THEN "none"
    ELSE Block!PatchResult(nImageSize, CapacityAt(memory) # 0, CapacityAt(memory), s)

(* The memory BootImageWithDefaults() arms. *)
Stamped(memory, nImageSize, s) ==
    IF BootVerdict(memory, nImageSize, s) = "PatchOK"
    THEN [memory EXCEPT ![DefaultsCell].text = s]
    ELSE memory

(* The nImageSize blocks at memory are all of one kernel's, in order, and  *)
(* only its 0x800 block may differ from what was pushed.                   *)
IsWholePush(memory, nImageSize) ==
    \E k \in Kernels :
        /\ nImageSize = KernelLen[k] /\ nImageSize > 0
        /\ \A i \in 1..nImageSize :
            /\ memory[i].of = k /\ memory[i].no = i
            /\ memory[i].text # None => i = DefaultsCell

=============================================================================
