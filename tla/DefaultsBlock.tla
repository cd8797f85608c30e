--------------------------- MODULE DefaultsBlock ---------------------------
(***************************************************************************)
(* The 0x800 defaults block (defaultsblock/defaultsblock.h) and its only   *)
(* writer, PatchDefaults().  Both loaders stamp an argv string through it. *)
(*                                                                         *)
(* A staged image is [size, magic, capacity, length, text]: its size, the  *)
(* block's fields, and the bytes that follow the header in the staging     *)
(* memory.  "text" is the memory from +0x08 on, whether or not the image   *)
(* reaches that far.                                                       *)
(***************************************************************************)
EXTENDS Naturals, Sequences

CONSTANTS
    DefaultsBlockOffset,  \* DEFAULTS_BLOCK_OFFSET, 0x800
    HeaderBytes,          \* Magic[4], Capacity and Length: 8
    DefaultsBufferBytes,  \* DEFAULTS_BUFFER_BYTES: 512
    NUL                   \* the terminator

ASSUME DefaultsBlockAssumption ==
    DefaultsBlockOffset \in Nat /\ HeaderBytes \in Nat /\ DefaultsBufferBytes \in Nat \ {0}

(* sizeof (TDefaultsBlock): Text[] is declared with the fixed buffer size. *)
SizeofDefaultsBlock == HeaderBytes + DefaultsBufferBytes

(* Mutant: no room asked for the terminator. *)
PatchResultOffByOne(nImageSize, bMagic, nCapacity, s) ==
    IF nImageSize < DefaultsBlockOffset + SizeofDefaultsBlock THEN "PatchImageTooSmall"
    ELSE IF ~bMagic THEN "PatchNoMagic"
    ELSE IF Len(s) > nCapacity THEN "PatchTooLong"
    ELSE "PatchOK"

(* Mutant: the string is not held against the block's Capacity. *)
PatchResultNoLimit(nImageSize, bMagic, nCapacity, s) ==
    IF nImageSize < DefaultsBlockOffset + SizeofDefaultsBlock THEN "PatchImageTooSmall"
    ELSE IF ~bMagic THEN "PatchNoMagic"
    ELSE "PatchOK"

(* The verdict of PatchDefaults on an image of nImageSize whose block has  *)
(* the magic (or not) and declares nCapacity bytes, for the string s.      *)
PatchResult(nImageSize, bMagic, nCapacity, s) ==
    IF nImageSize < DefaultsBlockOffset + SizeofDefaultsBlock THEN "PatchImageTooSmall"
    ELSE IF ~bMagic THEN "PatchNoMagic"
    ELSE IF Len(s) + 1 > nCapacity THEN "PatchTooLong"
    ELSE "PatchOK"

(* Mutant: the terminator is left to the zeroes of a fresh block. *)
WriteTextOnly(text, s) == [i \in DOMAIN text |-> IF i <= Len(s) THEN s[i] ELSE text[i]]

(* memcpy of the string and the terminator over the Text[] memory; what    *)
(* lies behind the terminator keeps its old bytes.                         *)
WriteText(text, s) ==
    [i \in DOMAIN text |-> IF i <= Len(s) THEN s[i]
                           ELSE IF i = Len(s) + 1 THEN NUL ELSE text[i]]

(* PatchDefaults(): the image afterwards; refused writes change no byte.   *)
PatchDefaults(image, s) ==
    IF PatchResult(image.size, image.magic, image.capacity, s) = "PatchOK"
    THEN [image EXCEPT !.text = WriteText(image.text, s), !.length = Len(s)]
    ELSE image

(* What BootImageWithDefaults() tells the pusher.  An absent or empty      *)
(* string is no injection, and the image boots whatever the verdict.       *)
BootMessage(result) ==
    CASE result = "none"         -> "booting"
      [] result = "PatchOK"      -> "defaults stamped, booting"
      [] result = "PatchTooLong" -> "defaults too long for this image, booting unpatched"
      [] OTHER                   -> "image takes no defaults, booting unpatched"

=============================================================================
