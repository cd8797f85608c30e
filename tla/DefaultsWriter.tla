--------------------------- MODULE DefaultsWriter --------------------------
(***************************************************************************)
(* One staged image and every sequence of attempts to stamp and boot it:   *)
(* the same staging memory is patched again when a pusher presses "boot"   *)
(* twice or a second push of the same bytes meets an older stamp.          *)
(***************************************************************************)
EXTENDS DefaultsBlock

CONSTANTS
    Sizes,        \* image sizes a pusher may stage
    Capacities,   \* values of the block's Capacity field
    Chars,        \* characters of a defaults-string
    Code,         \* a byte of the payload that is not the block's
    MaxString,    \* longest string a pusher types
    TextSpan      \* bytes of staging memory modelled from Text[] on

ASSUME DefaultsWriterAssumption ==
    /\ MaxString \in Nat /\ TextSpan \in Nat
    /\ Capacities \subseteq 0..TextSpan
    /\ NUL \notin Chars /\ Code # NUL

VARIABLES
    image,        \* the staged image
    message,      \* what BootImageWithDefaults() returned last
    armedSize,    \* nImageSize given to EnableChainBoot(), 0 before
    accepted      \* history: the string the image is expected to carry

vars == <<image, message, armedSize, accepted>>

Strings == UNION {[1..n -> Chars] : n \in 0..MaxString}

(* The bytes a consuming kernel tokenises: Text[] up to the first NUL.     *)
CString(text) ==
    LET n == CHOOSE k \in DOMAIN text : text[k] = NUL /\ \A j \in 1..(k - 1) : text[j] # NUL
    IN  SubSeq(text, 1, n - 1)

(* An image as it is linked: a NUL-filled block of the Capacity it         *)
(* declares, the payload's own bytes behind it, and nothing but those in   *)
(* an image without a block.                                               *)
Shipped ==
    {[size |-> n, magic |-> m, capacity |-> c, length |-> 0,
      text |-> [i \in 1..TextSpan |-> IF m /\ i <= c THEN NUL ELSE Code]] :
        n \in Sizes, m \in BOOLEAN, c \in Capacities}

Init ==
    /\ image \in Shipped
    /\ message = "none"
    /\ armedSize = 0
    /\ accepted = <<>>

(* BootImageWithDefaults (pImage, nImageSize, pDefaults): the image boots  *)
(* whether or not the string could be stamped; an empty one is not tried.  *)
BootImageWithDefaults(s) ==
    LET verdict == IF s = <<>> THEN "none"
                   ELSE PatchResult(image.size, image.magic, image.capacity, s)
    IN  /\ image' = IF verdict = "none" THEN image ELSE PatchDefaults(image, s)
        /\ message' = BootMessage(verdict)
        /\ armedSize' = image.size
        /\ accepted' = IF verdict = "PatchOK" THEN s ELSE accepted

Next == \E s \in Strings : BootImageWithDefaults(s)

Spec == Init /\ [][Next]_vars

-----------------------------------------------------------------------------

(* Every variable has its type. *)
TypeOK ==
    /\ image \in [size : Sizes, magic : BOOLEAN, capacity : Capacities, length : 0..MaxString,
                  text : [1..TextSpan -> Chars \cup {NUL, Code}]]
    /\ image.length <= image.capacity
    /\ message \in {"none", "booting", "defaults stamped, booting",
                    "defaults too long for this image, booting unpatched",
                    "image takes no defaults, booting unpatched"}
    /\ armedSize \in Sizes \cup {0}
    /\ accepted \in Strings

(* The kernel that boots reads exactly the string that was accepted last,  *)
(* and Length says how long it is, whatever longer string was there before *)
(* (PatchDefaults: the NUL it writes behind the text, and Length).         *)
ReaderSeesAccepted ==
    image.magic /\ image.capacity > 0 =>
        CString(image.text) = accepted /\ image.length = Len(accepted)

(* No byte outside the Capacity the block declares, and none of an image   *)
(* without the magic, is ever written: "the buffer never trusts its        *)
(* writer" (PatchDefaults: the magic check and nLength + 1 > nCapacity).   *)
CapacityHonoured ==
    [][\A i \in 1..TextSpan :
            (i > image.capacity \/ ~image.magic) => image'.text[i] = image.text[i]]_vars

=============================================================================
