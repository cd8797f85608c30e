------------------------ MODULE DefaultsWriterProofs -----------------------
(***************************************************************************)
(* Theorems about DefaultsWriter, for any image sizes, capacities and      *)
(* strings.                                                                *)
(***************************************************************************)
EXTENDS DefaultsWriter, SequenceTheorems, TLAPS

Bytes == Chars \cup {NUL, Code}

Images == [size : Sizes, magic : BOOLEAN, capacity : Capacities, length : 0..MaxString,
           text : [1..TextSpan -> Bytes]]

LEMMA Assumed ==
    /\ MaxString \in Nat /\ TextSpan \in Nat /\ Capacities \subseteq 0..TextSpan
    /\ NUL \notin Chars /\ Code # NUL
BY DefaultsWriterAssumption DEF DefaultsWriterAssumption

LEMMA StringTypes ==
    ASSUME NEW s \in Strings
    PROVE  s \in Seq(Chars) /\ Len(s) \in 0..MaxString /\ s \in [1..Len(s) -> Chars]
<1>1. PICK n \in 0..MaxString : s \in [1..n -> Chars]
  BY DEF Strings
<1>2. n \in Nat
  BY <1>1, Assumed
<1>3. s \in Seq(Chars) /\ Len(s) = n
  BY <1>1, <1>2
<1> QED BY <1>1, <1>3

(* What a consuming kernel reads is what stands before the first NUL. *)
LEMMA ReadTo ==
    ASSUME NEW text \in [1..TextSpan -> Bytes], NEW n \in 1..TextSpan,
           text[n] = NUL, \A j \in 1..(n - 1) : text[j] # NUL
    PROVE  CString(text) = SubSeq(text, 1, n - 1)
<1> DEFINE First(k) == k \in 1..TextSpan /\ text[k] = NUL /\ \A j \in 1..(k - 1) : text[j] # NUL
           m == CHOOSE k \in DOMAIN text : text[k] = NUL /\ \A j \in 1..(k - 1) : text[j] # NUL
<1>1. DOMAIN text = 1..TextSpan
  OBVIOUS
<1>2. m \in 1..TextSpan /\ text[m] = NUL /\ \A j \in 1..(m - 1) : text[j] # NUL
  <2>1. \E k \in DOMAIN text : text[k] = NUL /\ \A j \in 1..(k - 1) : text[j] # NUL
    BY <1>1
  <2>2. m \in DOMAIN text /\ text[m] = NUL /\ \A j \in 1..(m - 1) : text[j] # NUL
    BY <2>1
  <2> QED BY <1>1, <2>2
<1> HIDE DEF m
<1>3. m = n
  <2>1. ~(m < n)
    <3> SUFFICES ASSUME m < n PROVE FALSE
      OBVIOUS
    <3>1. m \in 1..(n - 1)
      BY <1>2, Assumed
    <3> QED BY <1>2, <3>1
  <2>2. ~(n < m)
    <3> SUFFICES ASSUME n < m PROVE FALSE
      OBVIOUS
    <3>1. n \in 1..(m - 1)
      BY <1>2, Assumed
    <3> QED BY <1>2, <3>1
  <2>3. m \in Int /\ n \in Int
    BY <1>2, Assumed
  <2> QED BY <2>1, <2>2, <2>3
<1> QED BY <1>3 DEF CString, m

LEMMA Written ==
    ASSUME NEW text \in [1..TextSpan -> Bytes], NEW s \in Strings, Len(s) + 1 <= TextSpan
    PROVE  /\ WriteText(text, s) \in [1..TextSpan -> Bytes]
           /\ CString(WriteText(text, s)) = s
<1> DEFINE w == WriteText(text, s)
           n == Len(s)
<1>1. n \in Nat /\ n + 1 \in 1..TextSpan /\ s \in Seq(Chars) /\ s \in [1..n -> Chars]
  BY StringTypes, Assumed
<1>2. w = [i \in 1..TextSpan |-> IF i <= n THEN s[i] ELSE IF i = n + 1 THEN NUL ELSE text[i]]
  BY DEF WriteText
<1>3. \A i \in 1..n : i \in 1..TextSpan /\ s[i] \in Chars
  BY <1>1, Assumed
<1>4. w \in [1..TextSpan -> Bytes]
  <2>1. ASSUME NEW i \in 1..TextSpan PROVE w[i] \in Bytes
    BY <1>1, <1>2, <2>1, Assumed DEF Bytes
  <2> HIDE DEF w
  <2>2. w = [i \in 1..TextSpan |-> w[i]]
    BY <1>2
  <2> QED BY <2>1, <2>2
<1>5. w[n + 1] = NUL
  BY <1>1, <1>2
<1>6. \A j \in 1..n : w[j] = s[j] /\ w[j] # NUL
  BY <1>1, <1>2, <1>3, Assumed
<1> HIDE DEF w
<1>7. CString(w) = SubSeq(w, 1, n)
  <2>1. (n + 1) - 1 = n
    BY <1>1
  <2>2. \A j \in 1..((n + 1) - 1) : w[j] # NUL
    BY <1>6, <2>1
  <2>3. CString(w) = SubSeq(w, 1, (n + 1) - 1)
    BY <1>1, <1>4, <1>5, <2>2, ReadTo
  <2> QED BY <2>1, <2>3
<1>8. SubSeq(w, 1, n) = s
  <2>1. w \in Seq(Bytes) /\ Len(w) = TextSpan
    BY <1>4, Assumed
  <2>2. /\ SubSeq(w, 1, n) \in Seq(Bytes)
        /\ Len(SubSeq(w, 1, n)) = IF 1 <= n THEN n - 1 + 1 ELSE 0
        /\ \A i \in 1..(n - 1 + 1) : SubSeq(w, 1, n)[i] = w[1 + i - 1]
    <3>1. \A i \in 1..n : w[i] \in Bytes
      BY <1>3, <1>4
    <3> QED BY <1>1, <2>1, <3>1, SubSeqProperties
  <2>3. Len(SubSeq(w, 1, n)) = n /\ \A i \in 1..n : SubSeq(w, 1, n)[i] = s[i]
    <3>1. n - 1 + 1 = n /\ \A i \in 1..n : 1 + i - 1 = i
      BY <1>1
    <3>2. (IF 1 <= n THEN n - 1 + 1 ELSE 0) = n
      BY <1>1
    <3> QED BY <1>6, <2>2, <3>1, <3>2
  <2>4. s \in Seq(Bytes)
    BY <1>1 DEF Bytes
  <2> QED BY <2>2, <2>3, <2>4, SeqEqual
<1> QED BY <1>4, <1>7, <1>8 DEF w

(***************************************************************************)
(* One attempt.                                                            *)
(***************************************************************************)
LEMMA Attempt ==
    ASSUME TypeOK, NEW s \in Strings, BootImageWithDefaults(s)
    PROVE  \/ image' = image /\ accepted' = accepted
           \/ /\ image.magic /\ Len(s) + 1 <= image.capacity
              /\ image' = [image EXCEPT !.text = WriteText(image.text, s), !.length = Len(s)]
              /\ accepted' = s
<1> DEFINE r == PatchResult(image.size, image.magic, image.capacity, s)
           verdict == IF s = <<>> THEN "none" ELSE r
<1>1. /\ image' = IF verdict = "none" THEN image ELSE PatchDefaults(image, s)
      /\ accepted' = IF verdict = "PatchOK" THEN s ELSE accepted
  BY DEF BootImageWithDefaults
<1>2. ASSUME r = "PatchOK"
      PROVE  /\ image.magic /\ Len(s) + 1 <= image.capacity
             /\ PatchDefaults(image, s) = [image EXCEPT !.text = WriteText(image.text, s), !.length = Len(s)]
  <2>1. image.magic /\ ~(Len(s) + 1 > image.capacity)
    BY <1>2 DEF PatchResult
  <2>2. Len(s) \in Int /\ image.capacity \in Int
    <3>1. image.capacity \in Capacities
      BY DEF TypeOK
    <3>2. image.capacity \in 0..TextSpan
      BY <3>1, Assumed
    <3> QED BY <3>2, StringTypes, Assumed
  <2>3. PatchDefaults(image, s) = [image EXCEPT !.text = WriteText(image.text, s), !.length = Len(s)]
    BY <1>2, Zenon DEF PatchDefaults
  <2> QED BY <2>1, <2>2, <2>3
<1>3. r # "PatchOK" => PatchDefaults(image, s) = image
  BY Zenon DEF PatchDefaults
<1>4. r # "none"
  BY DEF PatchResult
<1> HIDE DEF r
<1>5. CASE verdict = "PatchOK"
  <2>1. r = "PatchOK" /\ verdict # "none"
    BY <1>5
  <2> QED BY <1>1, <1>2, <1>5, <2>1
<1>6. CASE verdict # "PatchOK"
  <2>1. verdict # "none" => r # "PatchOK"
    BY <1>6
  <2> QED BY <1>1, <1>3, <1>6, <2>1
<1> QED BY <1>5, <1>6

LEMMA Refused ==
    ASSUME NEW verdict
    PROVE  BootMessage(verdict) \in
              {"none", "booting", "defaults stamped, booting",
               "defaults too long for this image, booting unpatched",
               "image takes no defaults, booting unpatched"}
<1>1. CASE verdict = "none" BY <1>1 DEF BootMessage
<1>2. CASE verdict = "PatchOK" BY <1>2 DEF BootMessage
<1>3. CASE verdict = "PatchTooLong" BY <1>3 DEF BootMessage
<1>4. CASE verdict \notin {"none", "PatchOK", "PatchTooLong"} BY <1>4 DEF BootMessage
<1> QED BY <1>1, <1>2, <1>3, <1>4

LEMMA AttemptKeepsTypes ==
    ASSUME TypeOK, NEW s \in Strings, BootImageWithDefaults(s)
    PROVE  TypeOK'
<1>1. image \in Images /\ image.capacity \in 0..TextSpan
  BY Assumed DEF TypeOK, Images, Bytes
<1>2. image' \in Images /\ image'.length <= image'.capacity
  <2>1. CASE image' = image
    BY <1>1, <2>1 DEF TypeOK
  <2>2. CASE /\ Len(s) + 1 <= image.capacity
             /\ image' = [image EXCEPT !.text = WriteText(image.text, s), !.length = Len(s)]
    <3>1. Len(s) \in 0..MaxString /\ Len(s) + 1 <= TextSpan
      BY <1>1, <2>2, StringTypes, Assumed
    <3>2. image.text \in [1..TextSpan -> Bytes]
      BY <1>1 DEF Images
    <3>3. WriteText(image.text, s) \in [1..TextSpan -> Bytes]
      BY <3>1, <3>2, Written
    <3>4. image' \in Images
      BY <1>1, <2>2, <3>1, <3>3 DEF Images
    <3>5. image'.length = Len(s) /\ image'.capacity = image.capacity
      BY <1>1, <2>2 DEF Images
    <3> QED BY <1>1, <2>2, <3>1, <3>4, <3>5, Assumed
  <2> QED BY <2>1, <2>2, Attempt
<1>3. message' \in {"none", "booting", "defaults stamped, booting",
                    "defaults too long for this image, booting unpatched",
                    "image takes no defaults, booting unpatched"}
  BY Refused DEF BootImageWithDefaults
<1>4. armedSize' \in Sizes \cup {0} /\ accepted' \in Strings
  BY <1>1, Attempt DEF BootImageWithDefaults, TypeOK, Images
<1> QED BY <1>2, <1>3, <1>4 DEF TypeOK, Images, Bytes

LEMMA AttemptKeepsReading ==
    ASSUME TypeOK, ReaderSeesAccepted, NEW s \in Strings, BootImageWithDefaults(s)
    PROVE  ReaderSeesAccepted'
<1>1. CASE image' = image /\ accepted' = accepted
  BY <1>1 DEF ReaderSeesAccepted
<1>2. CASE /\ Len(s) + 1 <= image.capacity
           /\ image' = [image EXCEPT !.text = WriteText(image.text, s), !.length = Len(s)]
           /\ accepted' = s
  <2>1. image \in Images /\ image.capacity \in 0..TextSpan
    BY Assumed DEF TypeOK, Images, Bytes
  <2>2. Len(s) + 1 <= TextSpan
    BY <1>2, <2>1, StringTypes, Assumed
  <2>3. image.text \in [1..TextSpan -> Bytes]
    BY <2>1 DEF Images
  <2>4. CString(WriteText(image.text, s)) = s
    BY <2>2, <2>3, Written
  <2>5. image'.text = WriteText(image.text, s) /\ image'.length = Len(s)
    BY <1>2, <2>1 DEF Images
  <2> QED BY <1>2, <2>4, <2>5 DEF ReaderSeesAccepted
<1> QED BY <1>1, <1>2, Attempt

LEMMA InitHolds == Init => TypeOK /\ ReaderSeesAccepted
<1> SUFFICES ASSUME Init PROVE TypeOK /\ ReaderSeesAccepted
  OBVIOUS
<1>1. PICK n \in Sizes, m \in BOOLEAN, c \in Capacities :
        image = [size |-> n, magic |-> m, capacity |-> c, length |-> 0,
                 text |-> [i \in 1..TextSpan |-> IF m /\ i <= c THEN NUL ELSE Code]]
  BY DEF Init, Shipped
<1>2. c \in 0..TextSpan
  BY Assumed
<1>3. image.text \in [1..TextSpan -> Bytes]
  BY <1>1 DEF Bytes
<1>4. <<>> \in Strings
  <2>1. <<>> \in [1..0 -> Chars] /\ 0 \in 0..MaxString
    BY Assumed
  <2> QED BY <2>1 DEF Strings
<1>5. TypeOK
  <2>1. image \in Images /\ image.length <= image.capacity
    <3>1. image.length = 0 /\ image.capacity = c
      BY <1>1
    <3> QED BY <1>1, <1>2, <3>1, Assumed DEF Images, Bytes
  <2> QED BY <1>4, <2>1 DEF TypeOK, Images, Bytes, Init
<1>6. ASSUME image.magic, image.capacity > 0
      PROVE  CString(image.text) = accepted /\ image.length = Len(accepted)
  <2>1. 1 \in 1..TextSpan /\ image.text[1] = NUL
    BY <1>1, <1>2, <1>6, Assumed
  <2>2. CString(image.text) = SubSeq(image.text, 1, 1 - 1)
    BY <1>3, <2>1, ReadTo
  <2>3. SubSeq(image.text, 1, 1 - 1) = <<>>
    <3>1. image.text \in Seq(Bytes)
      BY <1>3, Assumed
    <3> QED BY <3>1, SubSeqEmpty
  <2> QED BY <1>1, <2>2, <2>3 DEF Init
<1> QED BY <1>5, <1>6 DEF ReaderSeesAccepted

LEMMA Invariant == Spec => [](TypeOK /\ ReaderSeesAccepted)
<1>1. TypeOK /\ ReaderSeesAccepted /\ [Next]_vars => (TypeOK /\ ReaderSeesAccepted)'
  <2>1. ASSUME TypeOK, ReaderSeesAccepted, UNCHANGED vars PROVE (TypeOK /\ ReaderSeesAccepted)'
    BY <2>1 DEF vars, TypeOK, ReaderSeesAccepted
  <2> QED BY <2>1, AttemptKeepsTypes, AttemptKeepsReading DEF Next
<1> QED BY <1>1, InitHolds, PTL DEF Spec

(* Every variable has its type, and Length is within Capacity, in          *)
(* defaultsblock.cpp and bootimage.cpp.                                    *)
THEOREM TypeCorrect == Spec => []TypeOK
BY Invariant, PTL

(* A kernel that boots reads the string PatchDefaults() accepted last,     *)
(* however often the same memory was stamped before and with what.         *)
THEOREM ReaderAlwaysSeesAccepted == Spec => []ReaderSeesAccepted
BY Invariant, PTL

(* PatchDefaults() writes no byte past the Capacity the block declares and *)
(* none of an image without the magic.                                     *)
THEOREM CapacityAlwaysHonoured == Spec => CapacityHonoured
<1>1. TypeOK /\ [Next]_vars =>
        [\A i \in 1..TextSpan :
            (i > image.capacity \/ ~image.magic) => image'.text[i] = image.text[i]]_vars
  <2> SUFFICES ASSUME TypeOK, NEW s \in Strings, BootImageWithDefaults(s), NEW i \in 1..TextSpan,
                      i > image.capacity \/ ~image.magic
               PROVE  image'.text[i] = image.text[i]
    BY DEF Next
  <2>1. CASE image' = image
    BY <2>1
  <2>2. CASE /\ image.magic /\ Len(s) + 1 <= image.capacity
             /\ image' = [image EXCEPT !.text = WriteText(image.text, s), !.length = Len(s)]
    <3>0. image \in Images
      BY DEF TypeOK, Images, Bytes
    <3>1. image.capacity \in 0..TextSpan /\ Len(s) \in Nat
      <4>1. image.capacity \in Capacities
        BY <3>0 DEF Images
      <4>2. image.capacity \in 0..TextSpan
        BY <4>1, Assumed
      <4>3. Len(s) \in 0..MaxString
        BY StringTypes
      <4>4. Len(s) \in Nat
        BY <4>3, Assumed
      <4> QED BY <4>2, <4>4
    <3>2. image'.text = WriteText(image.text, s) /\ DOMAIN image.text = 1..TextSpan
      BY <2>2, <3>0 DEF Images
    <3>3. ~(i <= Len(s)) /\ i # Len(s) + 1
      BY <2>2, <3>1, Assumed
    <3> QED BY <3>2, <3>3 DEF WriteText
  <2> QED BY <2>1, <2>2, Attempt
<1> QED BY <1>1, Invariant, PTL DEF Spec, CapacityHonoured

=============================================================================
