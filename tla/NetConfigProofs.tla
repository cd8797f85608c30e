-------------------------- MODULE NetConfigProofs --------------------------
(***************************************************************************)
(* Theorems about NetConfig, for every config.txt: the loop of             *)
(* RapiReadNetConfig() keeps, line by line, what a reader of the whole     *)
(* file would say it states so far.                                        *)
(***************************************************************************)
EXTENDS NetConfig, SequenceTheorems, TLAPS

(***************************************************************************)
(* ParseAddress() on one value.                                            *)
(***************************************************************************)
Values == Seq(Nat \cup {Dot, Junk})

MaybeAddresses == [1..4 -> Octets \cup {Garbage}]

LEMMA Separators == Dot \notin Nat /\ Junk \notin Nat /\ Garbage \notin Nat /\ Dot # Junk
BY NetConfigAssumption DEF NetConfigAssumption

(* What it takes for an address is one. *)
LEMMA ParsedIsAddress ==
    ASSUME NEW v \in Values
    PROVE  IsParsed(v) <=> IsAddress(v)
<1>1. ASSUME IsParsed(v) PROVE IsAddress(v)
  <2>1. Len(v) = 7 BY <1>1 DEF IsParsed
  <2>2. \A j \in 1..4 : v[2 * j - 1] \in Octets
    BY <1>1 DEF IsParsed, StoresOctet, OctetFits
  <2>3. \A j \in 1..3 : v[2 * j] = Dot
    BY <1>1 DEF IsParsed, StoresOctet
  <2>4. v[1] \in Octets /\ v[3] \in Octets /\ v[5] \in Octets /\ v[7] \in Octets
    <3>1. v[2 * 1 - 1] \in Octets /\ v[2 * 2 - 1] \in Octets /\ v[2 * 3 - 1] \in Octets
          /\ v[2 * 4 - 1] \in Octets
      BY <2>2
    <3> QED BY <3>1
  <2>5. v[2] = Dot /\ v[4] = Dot /\ v[6] = Dot
    <3>1. v[2 * 1] = Dot /\ v[2 * 2] = Dot /\ v[2 * 3] = Dot BY <2>3
    <3> QED BY <3>1
  <2>6. ASSUME NEW i \in 1..7
        PROVE  IF i % 2 = 1 THEN v[i] \in Octets ELSE v[i] = Dot
    <3>1. i = 1 \/ i = 2 \/ i = 3 \/ i = 4 \/ i = 5 \/ i = 6 \/ i = 7 OBVIOUS
    <3>2. 1 % 2 = 1 /\ 2 % 2 = 0 /\ 3 % 2 = 1 /\ 4 % 2 = 0 /\ 5 % 2 = 1 /\ 6 % 2 = 0 /\ 7 % 2 = 1
      OBVIOUS
    <3> QED BY <3>1, <3>2, <2>4, <2>5
  <2> QED BY <2>1, <2>6 DEF IsAddress
<1>2. ASSUME IsAddress(v) PROVE IsParsed(v)
  <2>1. Len(v) = 7 BY <1>2 DEF IsAddress
  <2>2. ASSUME NEW j \in 1..4 PROVE 2 * j - 1 <= Len(v) /\ OctetFits(v[2 * j - 1])
    <3>1. 2 * j - 1 \in 1..7 /\ (2 * j - 1) % 2 = 1 OBVIOUS
    <3> QED BY <1>2, <2>1, <3>1 DEF IsAddress, OctetFits
  <2>3. ASSUME NEW j \in 1..3 PROVE v[2 * j] = Dot
    <3>1. 2 * j \in 1..7 /\ (2 * j) % 2 # 1 OBVIOUS
    <3> QED BY <1>2, <3>1 DEF IsAddress
  <2>4. 4 - 1 = 3 OBVIOUS
  <2> QED BY <2>1, <2>2, <2>3, <2>4 DEF IsParsed, StoresOctet
<1> QED BY <1>1, <1>2

(* An octet is stored only after those before it. *)
LEMMA StoredInOrder ==
    ASSUME NEW v \in Values, NEW i \in 1..4, StoresOctet(v, i), NEW j \in 1..i
    PROVE  StoresOctet(v, j)
BY DEF StoresOctet

(* It returns octets where it stores any, and what was there elsewhere. *)
LEMMA ParseAddressType ==
    ASSUME NEW v \in Values, NEW old \in MaybeAddresses
    PROVE  /\ ParseAddress(v, old) \in MaybeAddresses
           /\ old \in Addresses => ParseAddress(v, old) \in Addresses
           /\ IsParsed(v) => ParseAddress(v, old) \in Addresses
<1>1. ASSUME NEW i \in 1..4, StoresOctet(v, i) PROVE v[2 * i - 1] \in Octets
  BY <1>1 DEF StoresOctet, OctetFits
<1>2. IsParsed(v) => \A i \in 1..4 : StoresOctet(v, i)
  BY StoredInOrder DEF IsParsed
<1> QED BY <1>1, <1>2 DEF ParseAddress, MaybeAddresses, Addresses

LEMMA ParsedIsStated ==
    ASSUME NEW v \in Values, NEW old \in MaybeAddresses, IsParsed(v)
    PROVE  v = Quad(ParseAddress(v, old))
<1> DEFINE A == ParseAddress(v, old)
<1>1. \A i \in 1..4 : StoresOctet(v, i)
  BY StoredInOrder DEF IsParsed
<1>2. A[1] = v[2 * 1 - 1] /\ A[2] = v[2 * 2 - 1] /\ A[3] = v[2 * 3 - 1] /\ A[4] = v[2 * 4 - 1]
  BY <1>1 DEF ParseAddress
<1>3. A[1] = v[1] /\ A[2] = v[3] /\ A[3] = v[5] /\ A[4] = v[7]
  BY <1>2
<1>4. v[2] = Dot /\ v[4] = Dot /\ v[6] = Dot
  <2>1. \A j \in 1..3 : v[2 * j] = Dot BY DEF IsParsed, StoresOctet
  <2>2. v[2 * 1] = Dot /\ v[2 * 2] = Dot /\ v[2 * 3] = Dot BY <2>1
  <2> QED BY <2>2
<1>5. Len(v) = 7 BY DEF IsParsed
<1>6. v = <<v[1], v[2], v[3], v[4], v[5], v[6], v[7]>>
  BY <1>5 DEF Values
<1> QED BY <1>3, <1>4, <1>6 DEF Quad

LEMMA NothingStored ==
    ASSUME NEW v \in Values, NEW old \in MaybeAddresses, ~StoresOctet(v, 1)
    PROVE  ParseAddress(v, old) = old
<1>1. \A i \in 1..4 : ~StoresOctet(v, i)
  BY StoredInOrder
<1> QED BY <1>1 DEF ParseAddress, MaybeAddresses

(***************************************************************************)
(* The invariant.                                                          *)
(***************************************************************************)

(* What NetworkGetsStated is about, before it reaches the network: of each *)
(* key, whether one was stated, and which.                                 *)
Stated(key) == \E i \in 1..Len(lines) : States(i, key)

Initially(key) == IF key = "netmask" THEN DefaultMask ELSE NoAddress

KeyInv(key) ==
    /\ have[key] <=> key = "netmask" \/ Stated(key)
    /\ have[key] => address[key] \in Addresses
    /\ ~Torn(key) =>
         IF Stated(key)
         THEN \E i \in 1..Len(lines) : States(i, key) /\ lines[i].value = Quad(address[key])
         ELSE address[key] = Initially(key)

ParseInv ==
    /\ inSection <=> Ours(Len(lines) + 1)
    /\ \A key \in Keys : KeyInv(key)

(* What m_Net has once ConfigureNetwork() has run. *)
Handed ==
    [key \in Keys |-> IF have["ipaddress"] /\ have[key] THEN address[key] ELSE None]

GivenInv ==
    /\ pc \in {"devices", "card", "lines", "configure"} => given = [key \in Keys |-> None]
    /\ pc \in {"network", "wait", "run"} => given = Handed
    /\ pc \in {"wait", "run"} =>
         /\ given["ipaddress"] = None => dhcp = TRUE
         /\ given["ipaddress"] # None /\ dhcp = TRUE => given["ipaddress"] = [i \in 1..4 |-> 0]

IInv == TypeOK /\ ParseInv /\ GivenInv

(***************************************************************************)
(* One more line.  The lines above it, and what they state, stay.          *)
(***************************************************************************)
LEMMA LineType1 ==
    ASSUME NEW line \in Lines
    PROVE  /\ line.kind \in {"section", "setting", "idle"}
           /\ line.kind = "section" => line.ours \in BOOLEAN /\ line.closed \in BOOLEAN
           /\ line.kind = "setting" => line.value \in Values
BY NetConfigAssumption DEF NetConfigAssumption, LineType, Values

LEMMA Appended ==
    ASSUME lines \in Seq(Lines), NEW line \in Lines, lines' = Append(lines, line)
    PROVE  /\ Len(lines') = Len(lines) + 1
           /\ \A i \in 1..Len(lines) : lines'[i] = lines[i]
           /\ lines'[Len(lines) + 1] = line
           /\ lines' \in Seq(Lines)
OBVIOUS

LEMMA OursKept ==
    ASSUME lines \in Seq(Lines), NEW line \in Lines, lines' = Append(lines, line),
           NEW i \in 1..(Len(lines) + 1)
    PROVE  Ours(i)' <=> Ours(i)
<1>0. Len(lines) \in Nat OBVIOUS
<1>1. \A j \in 1..(i - 1) : lines'[j] = lines[j]
  BY <1>0, Appended
<1>2. ASSUME NEW h \in 1..(i - 1) PROVE Heads(h, i)' <=> Heads(h, i)
  <2>1. \A j \in (h + 1)..(i - 1) : lines'[j].kind = lines[j].kind
    BY <1>0, <1>1
  <2>2. lines'[h].kind = lines[h].kind
    BY <1>1
  <2> QED BY <2>1, <2>2 DEF Heads
<1> QED BY <1>1, <1>2 DEF Ours

(* bInSection after the line. *)
LEMMA OursAfter ==
    ASSUME lines \in Seq(Lines), NEW line \in Lines, lines' = Append(lines, line),
           NEW n, n = Len(lines)
    PROVE  Ours(n + 2)' <=>
             IF line.kind = "section" THEN line.ours /\ line.closed ELSE Ours(n + 1)
<1>0. n \in Nat OBVIOUS
<1>1. (\A i \in 1..n : lines'[i] = lines[i]) /\ lines'[n + 1] = line
  BY Appended
<1>2. (n + 2) - 1 = n + 1 /\ (n + 1) - 1 = n
  BY <1>0
<1>3. Ours(n + 2)' <=>
        \E h \in 1..(n + 1) : Heads(h, n + 2)' /\ lines'[h].ours /\ lines'[h].closed
  BY <1>2 DEF Ours
<1>4. CASE line.kind = "section"
  <2>1. ASSUME NEW h \in 1..(n + 1) PROVE Heads(h, n + 2)' <=> h = n + 1
    BY <1>0, <1>1, <1>2, <1>4 DEF Heads
  <2>2. n + 1 \in 1..(n + 1) BY <1>0
  <2> QED BY <1>1, <1>3, <1>4, <2>1, <2>2
<1>5. CASE line.kind # "section"
  <2>1. ~Heads(n + 1, n + 2)'
    BY <1>1, <1>5 DEF Heads
  <2>2. ASSUME NEW h \in 1..n PROVE Heads(h, n + 2)' <=> Heads(h, n + 1)
    <3>1. \A j \in (h + 1)..n : lines'[j] = lines[j]
      BY <1>0, <1>1
    <3>2. (\A j \in (h + 1)..(n + 1) : lines'[j].kind # "section")
          <=> \A j \in (h + 1)..n : lines[j].kind # "section"
      BY <1>0, <1>1, <1>5, <3>1
    <3>3. h < n + 2 /\ h < n + 1
      BY <1>0
    <3> QED BY <1>1, <1>2, <3>2, <3>3 DEF Heads
  <2>3. Ours(n + 1) <=> \E h \in 1..n : Heads(h, n + 1) /\ lines[h].ours /\ lines[h].closed
    BY <1>2 DEF Ours
  <2>4. 1..(n + 1) = 1..n \cup {n + 1}
    BY <1>0
  <2> QED BY <1>1, <1>3, <1>5, <2>1, <2>2, <2>3, <2>4
<1> QED BY <1>4, <1>5

LEMMA LinesOfAfter ==
    ASSUME lines \in Seq(Lines), NEW line \in Lines, lines' = Append(lines, line),
           NEW n, n = Len(lines), NEW key \in Keys
    PROVE  LinesOf(key)' =
             LinesOf(key) \cup (IF line.kind = "setting" /\ line.key = key /\ Ours(n + 1)
                                THEN {n + 1} ELSE {})
<1>0. n \in Nat OBVIOUS
<1>1. \A i \in 1..(n + 1) : Ours(i)' <=> Ours(i)
  BY OursKept
<1>2. Len(lines') = n + 1 /\ (\A i \in 1..n : lines'[i] = lines[i]) /\ lines'[n + 1] = line
  BY Appended
<1>3. LinesOf(key) = {i \in 1..n : lines[i].kind = "setting" /\ lines[i].key = key /\ Ours(i)}
  BY DEF LinesOf
<1>4. LinesOf(key)' =
        {i \in 1..(n + 1) : lines'[i].kind = "setting" /\ lines'[i].key = key /\ Ours(i)'}
  BY <1>2 DEF LinesOf
<1>5. 1..(n + 1) = 1..n \cup {n + 1} /\ n + 1 \notin 1..n
  BY <1>0
<1> QED BY <1>1, <1>2, <1>3, <1>4, <1>5

LEMMA LinesOfRange ==
    ASSUME lines \in Seq(Lines), NEW key \in Keys, NEW i \in LinesOf(key)
    PROVE  i \in 1..Len(lines) /\ lines[i].kind = "setting" /\ lines[i].value \in Values
BY LineType1 DEF LinesOf

(***************************************************************************)
(* What the loop has made of a key, line by line.                          *)
(***************************************************************************)

(* A line that is nothing to a key leaves it alone. *)
LEMMA KeyKept ==
    ASSUME TypeOK, ParseInv, NEW line \in Lines, ReadLine(line), NEW key \in Keys,
           ~(inSection /\ line.kind = "setting" /\ line.key = key)
    PROVE  KeyInv(key)'
<1> DEFINE n == Len(lines)
<1>0. lines \in Seq(Lines) /\ lines' = Append(lines, line) /\ (inSection <=> Ours(n + 1))
  BY DEF TypeOK, ParseInv, ReadLine
<1>1. LinesOf(key)' = LinesOf(key)
  BY <1>0, LinesOfAfter
<1>2. Len(lines') = n + 1 /\ n \in Nat /\ \A i \in LinesOf(key) : i \in 1..n /\ lines'[i] = lines[i]
  BY <1>0, Appended DEF LinesOf
<1>3. address'[key] = address[key] /\ have'[key] = have[key]
  BY DEF TypeOK, ReadLine
<1>4. ASSUME NEW i PROVE States(i, key)' <=> States(i, key)
  BY <1>1, <1>2 DEF States
<1>5. Stated(key)' <=> Stated(key)
  <2>1. ASSUME NEW i, States(i, key) PROVE i \in 1..n /\ i \in 1..(n + 1)
    BY <1>2, <2>1 DEF States
  <2>2. Stated(key) <=> \E i : States(i, key)
    BY <2>1 DEF Stated
  <2>3. ASSUME NEW i, States(i, key)' PROVE i \in 1..(n + 1)
    BY <1>4, <2>1, <2>3
  <2>4. Stated(key)' <=> \E i : States(i, key)'
    BY <1>2, <2>3 DEF Stated
  <2> QED BY <1>4, <2>2, <2>4
<1>6. Torn(key)' <=> Torn(key)
  BY <1>1, <1>2 DEF Torn
<1>7. ASSUME NEW i \in 1..n, States(i, key) PROVE i \in 1..(n + 1) /\ lines'[i] = lines[i]
  BY <1>2, <1>7 DEF States
<1>8. KeyInv(key)
  BY DEF ParseInv
<1>9. (Stated(key) /\ ~Torn(key)) =>
         \E i \in 1..Len(lines') : States(i, key)' /\ lines'[i].value = Quad(address'[key])
  <2> SUFFICES ASSUME Stated(key), ~Torn(key)
               PROVE  \E i \in 1..Len(lines') : States(i, key)' /\ lines'[i].value = Quad(address'[key])
    OBVIOUS
  <2>1. PICK i \in 1..n : States(i, key) /\ lines[i].value = Quad(address[key])
    BY <1>8 DEF KeyInv
  <2> QED BY <1>2, <1>3, <1>4, <1>7, <2>1
<1> QED BY <1>3, <1>5, <1>6, <1>8, <1>9 DEF KeyInv, Initially

(* A line for the key that holds an address is what the key has then. *)
LEMMA KeyStated ==
    ASSUME TypeOK, ParseInv, NEW line \in Lines, ReadLine(line), NEW key \in Keys,
           inSection, line.kind = "setting", line.key = key, IsAddress(line.value)
    PROVE  KeyInv(key)'
<1> DEFINE n == Len(lines)
<1>0. lines \in Seq(Lines) /\ lines' = Append(lines, line) /\ Ours(n + 1)
  BY DEF TypeOK, ParseInv, ReadLine
<1>1. LinesOf(key)' = LinesOf(key) \cup {n + 1}
  BY <1>0, LinesOfAfter
<1>2. Len(lines') = n + 1 /\ n \in Nat /\ lines'[n + 1] = line
      /\ \A i \in LinesOf(key) : i \in 1..n /\ lines'[i] = lines[i]
  BY <1>0, Appended DEF LinesOf
<1>3. line.value \in Values /\ IsParsed(line.value) /\ address[key] \in MaybeAddresses
  BY LineType1, ParsedIsAddress DEF TypeOK, MaybeAddresses
<1>4. address'[key] = ParseAddress(line.value, address[key]) /\ have'[key] = TRUE
  BY <1>3 DEF TypeOK, ReadLine
<1>5. address'[key] \in Addresses /\ line.value = Quad(address'[key])
  BY <1>3, <1>4, ParseAddressType, ParsedIsStated
<1>6. PICK k \in 1..Len(lines') : k = n + 1
  BY <1>2
<1>7. States(k, key)'
  BY <1>1, <1>2, <1>6 DEF States
<1> QED BY <1>2, <1>4, <1>5, <1>6, <1>7 DEF KeyInv, Stated

(* Any other line for it changes nothing, or tears it. *)
LEMMA KeyIgnored ==
    ASSUME TypeOK, ParseInv, NEW line \in Lines, ReadLine(line), NEW key \in Keys,
           inSection, line.kind = "setting", line.key = key, ~IsAddress(line.value)
    PROVE  KeyInv(key)'
<1> DEFINE n == Len(lines)
<1>0. lines \in Seq(Lines) /\ lines' = Append(lines, line) /\ Ours(n + 1)
  BY DEF TypeOK, ParseInv, ReadLine
<1>1. LinesOf(key)' = LinesOf(key) \cup {n + 1}
  BY <1>0, LinesOfAfter
<1>2. Len(lines') = n + 1 /\ n \in Nat /\ lines'[n + 1] = line
      /\ \A i \in LinesOf(key) : i \in 1..n /\ lines'[i] = lines[i]
  BY <1>0, Appended DEF LinesOf
<1>3. line.value \in Values /\ ~IsParsed(line.value) /\ address[key] \in MaybeAddresses
  BY LineType1, ParsedIsAddress DEF TypeOK, MaybeAddresses
<1>4. address'[key] = ParseAddress(line.value, address[key]) /\ have'[key] = have[key]
  BY <1>3 DEF TypeOK, ReadLine
<1>5. ASSUME NEW i \in 1..n PROVE States(i, key)' <=> States(i, key)
  BY <1>1, <1>2 DEF States
<1>6. ASSUME NEW i \in 1..(n + 1), i \notin 1..n PROVE ~States(i, key)'
  <2>1. i = n + 1 BY <1>2, <1>6
  <2> QED BY <1>2, <2>1 DEF States
<1>7. Stated(key)' <=> Stated(key)
  BY <1>2, <1>5, <1>6 DEF Stated
<1>8. KeyInv(key)
  BY DEF ParseInv
<1>9. have'[key] => address'[key] \in Addresses
  BY <1>3, <1>4, <1>8, ParseAddressType DEF KeyInv
<1>10. CASE StoresOctet(line.value, 1)
  <2>1. \A j \in LinesOf(key)' : IsAddress(lines'[j].value) => j < n + 1
    BY <1>1, <1>2
  <2>2. Torn(key)'
    BY <1>1, <1>2, <1>10, <2>1 DEF Torn
  <2> QED BY <1>4, <1>7, <1>8, <1>9, <2>2 DEF KeyInv
<1>11. CASE ~StoresOctet(line.value, 1)
  <2>1. address'[key] = address[key]
    BY <1>3, <1>4, <1>11, NothingStored
  <2>2. Torn(key) => Torn(key)'
    BY <1>1, <1>2 DEF Torn
  <2>3. (Stated(key) /\ ~Torn(key)) =>
           \E i \in 1..Len(lines') : States(i, key)' /\ lines'[i].value = Quad(address'[key])
    <3> SUFFICES ASSUME Stated(key), ~Torn(key)
                 PROVE  \E i \in 1..Len(lines') : States(i, key)' /\ lines'[i].value = Quad(address'[key])
      OBVIOUS
    <3>1. PICK i \in 1..n : States(i, key) /\ lines[i].value = Quad(address[key])
      BY <1>8 DEF KeyInv
    <3>2. lines'[i] = lines[i]
      BY <1>2, <3>1 DEF States
    <3> QED BY <1>2, <1>5, <2>1, <3>1, <3>2
  <2> QED BY <1>4, <1>7, <1>8, <1>9, <2>1, <2>2, <2>3 DEF KeyInv, Initially
<1> QED BY <1>10, <1>11

LEMMA LineRead ==
    ASSUME TypeOK, ParseInv, NEW line \in Lines, ReadLine(line)
    PROVE  ParseInv'
<1>1. ASSUME NEW key \in Keys PROVE KeyInv(key)'
  BY KeyKept, KeyStated, KeyIgnored
<1>2. PICK n : n = Len(lines)
  OBVIOUS
<1>3. lines \in Seq(Lines) /\ lines' = Append(lines, line) /\ (inSection <=> Ours(n + 1))
  BY <1>2 DEF TypeOK, ParseInv, ReadLine
<1>4. Len(lines') + 1 = n + 2
  BY <1>2, <1>3, Appended
<1>5. inSection' <=> Ours(n + 2)'
  BY <1>2, <1>3, OursAfter DEF ReadLine, SectionOf
<1>6. (inSection <=> Ours(Len(lines) + 1))'
  BY <1>4, <1>5 DEF Ours
<1> QED BY <1>1, <1>6 DEF ParseInv

(***************************************************************************)
(* The steps.                                                              *)
(***************************************************************************)
LEMMA InitHolds == Init => IInv
<1> SUFFICES ASSUME Init PROVE IInv
  OBVIOUS
<1>1. lines = <<>> /\ Len(lines) = 0
  BY DEF Init
<1>2. TypeOK
  <2>1. DefaultMask \in MaybeAddresses /\ NoAddress \in MaybeAddresses
    BY DEF DefaultMask, NoAddress, MaybeAddresses, Octets
  <2>2. lines \in Seq(Lines)
    BY <1>1
  <2>3. have \in [Keys -> BOOLEAN]
    <3>1. \A key \in Keys : (key = "netmask") \in BOOLEAN
      OBVIOUS
    <3> QED BY <3>1, Zenon DEF Init
  <2>4. address \in [Keys -> MaybeAddresses]
    BY <2>1 DEF Init
  <2> QED BY <2>2, <2>3, <2>4 DEF Init, TypeOK, MaybeAddresses
<1>3. ParseInv
  <2>1. ~Ours(Len(lines) + 1)
    BY <1>1 DEF Ours
  <2>2. ASSUME NEW key \in Keys PROVE KeyInv(key)
    <3>1. ~Stated(key)
      BY <1>1 DEF Stated
    <3>2. DefaultMask \in Addresses
      BY DEF DefaultMask, Addresses, Octets
    <3> QED BY <3>1, <3>2 DEF Init, KeyInv, Initially
  <2> QED BY <2>1, <2>2 DEF Init, ParseInv
<1>4. GivenInv
  BY DEF Init, GivenInv
<1> QED BY <1>2, <1>3, <1>4 DEF IInv

LEMMA ParseInvKept ==
    ASSUME ParseInv, UNCHANGED parsed
    PROVE  ParseInv'
<1>1. lines' = lines /\ inSection' = inSection /\ have' = have /\ address' = address
  BY DEF parsed
<1>2. ASSUME NEW i PROVE Ours(i)' <=> Ours(i)
  BY <1>1 DEF Ours, Heads
<1>3. ASSUME NEW key PROVE LinesOf(key)' = LinesOf(key)
  BY <1>1, <1>2 DEF LinesOf
<1>4. ASSUME NEW i, NEW key PROVE States(i, key)' <=> States(i, key)
  BY <1>1, <1>3 DEF States
<1>5. ASSUME NEW key PROVE Torn(key)' <=> Torn(key)
  BY <1>1, <1>3 DEF Torn
<1>6. ASSUME NEW key \in Keys PROVE KeyInv(key)'
  BY <1>1, <1>4, <1>5 DEF ParseInv, KeyInv, Stated, Initially
<1>7. (inSection <=> Ours(Len(lines) + 1))'
  BY <1>1 DEF ParseInv, Ours, Heads
<1> QED BY <1>6, <1>7 DEF ParseInv

LEMMA NextKeeps == IInv /\ [Next]_vars => IInv'
<1> SUFFICES ASSUME IInv, [Next]_vars PROVE IInv'
  OBVIOUS
<1> USE DEF IInv
<1>1. CASE Devices
  <2>1. ParseInv' BY <1>1, ParseInvKept DEF Devices
  <2>2. TypeOK' BY <1>1 DEF Devices, TypeOK, Goto, parsed
  <2>3. GivenInv' BY <1>1 DEF Devices, GivenInv, Goto, Handed, parsed
  <2> QED BY <2>1, <2>2, <2>3
<1>2. CASE OpenConfig
  <2>1. ParseInv' BY <1>2, ParseInvKept DEF OpenConfig
  <2>2. TypeOK' BY <1>2 DEF OpenConfig, TypeOK, Goto, parsed
  <2>3. GivenInv' BY <1>2 DEF OpenConfig, GivenInv, Goto, Handed, parsed
  <2> QED BY <2>1, <2>2, <2>3
<1>3. ASSUME NEW line \in Lines, ReadLine(line) PROVE IInv'
  <2>1. ParseInv' BY <1>3, LineRead
  <2>2. TypeOK'
    <3>1. lines' \in Seq(Lines) BY <1>3, Appended DEF ReadLine, TypeOK
    <3>2. inSection' \in BOOLEAN BY <1>3, LineType1 DEF ReadLine, TypeOK, SectionOf
    <3>3. address' \in [Keys -> MaybeAddresses] /\ have' \in [Keys -> BOOLEAN]
      <4>1. CASE inSection /\ line.kind = "setting" /\ line.key \in Keys
        <5>1. ParseAddress(line.value, address[line.key]) \in MaybeAddresses
          BY <4>1, LineType1, ParseAddressType DEF TypeOK, MaybeAddresses
        <5>2. (have[line.key] \/ IsParsed(line.value)) \in BOOLEAN
          OBVIOUS
        <5> QED BY <1>3, <4>1, <5>1, <5>2 DEF ReadLine, TypeOK, MaybeAddresses
      <4>2. CASE ~(inSection /\ line.kind = "setting" /\ line.key \in Keys)
        BY <1>3, <4>2 DEF ReadLine, TypeOK, MaybeAddresses
      <4> QED BY <4>1, <4>2
    <3> QED BY <1>3, <3>1, <3>2, <3>3 DEF ReadLine, TypeOK, MaybeAddresses
  <2>3. GivenInv' BY <1>3 DEF ReadLine, GivenInv
  <2> QED BY <2>1, <2>2, <2>3
<1>4. CASE EndOfFile
  <2>1. ParseInv' BY <1>4, ParseInvKept DEF EndOfFile
  <2>2. TypeOK' BY <1>4 DEF EndOfFile, TypeOK, Goto, parsed
  <2>3. GivenInv' BY <1>4 DEF EndOfFile, GivenInv, Goto, Handed, parsed
  <2> QED BY <2>1, <2>2, <2>3
<1>5. CASE ConfigureNetwork
  <2>1. ParseInv' BY <1>5, ParseInvKept DEF ConfigureNetwork
  <2>2. TypeOK' BY <1>5 DEF ConfigureNetwork, TypeOK, Goto, parsed
  <2>3. GivenInv' BY <1>5 DEF ConfigureNetwork, GivenInv, Goto, Handed, parsed
  <2> QED BY <2>1, <2>2, <2>3
<1>6. CASE NetInitialize
  <2>1. ParseInv' BY <1>6, ParseInvKept DEF NetInitialize
  <2>2. TypeOK' BY <1>6 DEF NetInitialize, TypeOK, Goto, parsed
  <2>3. GivenInv' BY <1>6 DEF NetInitialize, GivenInv, Goto, Handed, parsed
  <2> QED BY <2>1, <2>2, <2>3
<1>7. CASE WaitForNetwork
  <2>1. ParseInv' BY <1>7, ParseInvKept DEF WaitForNetwork
  <2>2. TypeOK' BY <1>7 DEF WaitForNetwork, TypeOK, Goto, parsed
  <2>3. GivenInv' BY <1>7 DEF WaitForNetwork, GivenInv, Goto, Handed, parsed
  <2> QED BY <2>1, <2>2, <2>3
<1>8. CASE UNCHANGED vars
  <2>1. ParseInv' BY <1>8, ParseInvKept DEF vars, parsed
  <2>2. TypeOK' BY <1>8 DEF vars, TypeOK
  <2>3. GivenInv' BY <1>8 DEF vars, GivenInv, Handed
  <2> QED BY <2>1, <2>2, <2>3
<1> QED BY <1>1, <1>2, <1>3, <1>4, <1>5, <1>6, <1>7, <1>8 DEF Next

LEMMA GivesStated == IInv => NetworkGetsStated
<1> SUFFICES ASSUME IInv, pc \in {"wait", "run"} PROVE NetworkGetsStated
  BY DEF NetworkGetsStated
<1> DEFINE static == \E i \in 1..Len(lines) : States(i, "ipaddress")
<1>1. static <=> have["ipaddress"]
  BY DEF IInv, ParseInv, KeyInv, Stated, Keys
<1>2. given = Handed /\ "ipaddress" \in Keys
  BY DEF IInv, GivenInv, Keys
<1>3. CASE ~static
  <2>1. given = [key \in Keys |-> None]
    BY <1>1, <1>2, <1>3 DEF Handed
  <2> QED BY <1>2, <1>3, <2>1 DEF IInv, GivenInv, NetworkGetsStated
<1>4. CASE static
  <2>1. ASSUME NEW key \in Keys
        PROVE  /\ ~Torn(key) =>
                    \/ \E i \in 1..Len(lines) : States(i, key) /\ lines[i].value = Quad(given[key])
                    \/ /\ \A i \in 1..Len(lines) : ~States(i, key)
                       /\ given[key] = IF key = "netmask" THEN DefaultMask ELSE None
               /\ given[key] # None => given[key] \in Addresses
    <3>1. KeyInv(key)
      BY DEF IInv, ParseInv
    <3>2. given[key] = IF have[key] THEN address[key] ELSE None
      BY <1>1, <1>2, <1>4 DEF Handed
    <3> QED BY <3>1, <3>2 DEF KeyInv, Stated, Initially
  <2>2. given["ipaddress"] # None
    <3>1. address["ipaddress"] \in Addresses
      BY <1>1, <1>2, <1>4 DEF IInv, ParseInv, KeyInv
    <3>2. None \notin Addresses
      BY NetConfigAssumption DEF NetConfigAssumption, Addresses
    <3> QED BY <1>1, <1>2, <1>4, <3>1, <3>2 DEF Handed
  <2>3. dhcp => given["ipaddress"] = [i \in 1..4 |-> 0]
    BY <1>2, <2>2 DEF IInv, GivenInv, TypeOK
  <2> QED BY <1>4, <2>1, <2>3 DEF NetworkGetsStated
<1> QED BY <1>3, <1>4

LEMMA Inductive == Spec => []IInv
BY InitHolds, NextKeeps, PTL DEF Spec

(***************************************************************************)
(* The theorems.                                                           *)
(***************************************************************************)

(* Every variable has its type, for every file.                            *)
THEOREM TypeCorrect == Spec => []TypeOK
<1>1. IInv => TypeOK BY DEF IInv
<1> QED BY <1>1, Inductive, PTL

(* However the lines of a file are ordered, repeated and mistyped, the     *)
(* network is brought up with what it states.                              *)
THEOREM NetworkAlwaysGetsStated == Spec => []NetworkGetsStated
<1>1. IInv => NetworkGetsStated BY GivesStated
<1> QED BY <1>1, Inductive, PTL

=============================================================================
