--------------------------- MODULE BootMenuProofs --------------------------
(***************************************************************************)
(* Theorems about BootMenu: for every bootmenu.cfg, however long, the menu *)
(* is the file's entries in file order, up to MaxEntries of them.          *)
(***************************************************************************)
EXTENDS BootMenu, FiniteSetTheorems, SequenceTheorems, WellFoundedInduction, TLAPS

LineType == Seq(Chars)
FileType == Seq(LineType)

(***************************************************************************)
(* Least and greatest members.                                             *)
(***************************************************************************)
LEMMA LeastMember ==
    ASSUME NEW S, S \subseteq Nat, S # {}
    PROVE  \E x \in S : \A y \in S : x <= y
<1>1. PICK x \in S : \A y \in S : ~(<<y, x>> \in OpToRel(<, Nat))
  BY NatLessThanWellFounded, WFMin
<1>2. ASSUME NEW y \in S, y < x PROVE <<y, x>> \in OpToRel(<, Nat)
  BY <1>2 DEF OpToRel
<1>3. \A y \in S : ~(y < x)
  BY <1>1, <1>2, Zenon
<1> QED BY <1>3

LEMMA MinOfPositions ==
    ASSUME NEW S, S \subseteq Nat, S # {}
    PROVE  Min(S) \in S /\ \A y \in S : Min(S) <= y
<1>1. \E x \in S : \A y \in S : x <= y
  BY LeastMember
<1> QED BY <1>1 DEF Min

LEMMA MaxOfPositions ==
    ASSUME NEW m \in Nat, NEW S, S \subseteq 0..m, S # {}
    PROVE  Max(S) \in S /\ \A y \in S : Max(S) >= y
<1> DEFINE T == {z \in 0..m : m - z \in S}
<1>1. T # {}
  <2>1. PICK s \in S : TRUE
    OBVIOUS
  <2>2. m - s \in 0..m /\ m - (m - s) = s
    BY <2>1
  <2> QED BY <2>2
<1>2. PICK x \in T : \A y \in T : x <= y
  <2>1. T \subseteq Nat
    OBVIOUS
  <2> HIDE DEF T
  <2> QED BY <1>1, <2>1, LeastMember
<1>3. m - x \in S /\ x \in 0..m
  BY <1>2
<1>4. ASSUME NEW y \in S PROVE m - x >= y
  <2>1. y \in 0..m /\ m - y \in 0..m /\ m - (m - y) = y
    OBVIOUS
  <2>2. x <= m - y
    BY <1>2, <2>1
  <2> QED BY <1>3, <2>1, <2>2
<1> QED BY <1>3, <1>4 DEF Max

(***************************************************************************)
(* The walk of Load() over the lines.                                      *)
(***************************************************************************)
WalksTo(file, f, m) ==
    f = [n \in 0..m |-> IF n = 0 THEN <<>> ELSE ParseLine(f[n - 1], file[n])]

(* There is such a walk over any number of lines, a line at a time.        *)
LEMMA WalkExists ==
    ASSUME NEW file, NEW l \in Nat
    PROVE  \E f : WalksTo(file, f, l)
<1> DEFINE B == {m \in Nat : ~\E f : WalksTo(file, f, m)}
<1>1. SUFFICES ASSUME B # {} PROVE FALSE
  OBVIOUS
<1>2. PICK m \in B : \A y \in B : m <= y
  BY <1>1, LeastMember
<1>3. m # 0
  <2>1. WalksTo(file, [n \in 0..0 |-> <<>>], 0)
    BY DEF WalksTo
  <2> QED BY <2>1
<1>4. m - 1 \in Nat /\ m - 1 \notin B
  BY <1>2, <1>3
<1>5. PICK f : WalksTo(file, f, m - 1)
  BY <1>4
<1> DEFINE g == [n \in 0..m |-> IF n = m THEN ParseLine(f[m - 1], file[m]) ELSE f[n]]
<1>6. ASSUME NEW n \in 0..m
      PROVE  g[n] = IF n = 0 THEN <<>> ELSE ParseLine(g[n - 1], file[n])
  <2>1. CASE n = m
    <3>1. m - 1 \in 0..m /\ m - 1 # m
      BY <1>4
    <3> QED BY <1>3, <2>1, <3>1
  <2>2. CASE n # m
    <3>1. n \in 0..(m - 1) /\ (n # 0 => n - 1 \in 0..m /\ n - 1 # m)
      BY <2>2
    <3>2. f[n] = IF n = 0 THEN <<>> ELSE ParseLine(f[n - 1], file[n])
      BY <1>5, <3>1 DEF WalksTo
    <3>3. g[n] = f[n] /\ (n # 0 => g[n - 1] = f[n - 1])
      BY <2>2, <3>1
    <3> QED BY <3>2, <3>3
  <2> QED BY <2>1, <2>2
<1>7. g = [n \in 0..m |-> g[n]]
  OBVIOUS
<1> HIDE DEF g
<1>8. WalksTo(file, g, m)
  BY <1>6, <1>7 DEF WalksTo
<1> QED BY <1>2, <1>8

LEMMA WalkIs ==
    ASSUME NEW file, Len(file) \in Nat
    PROVE  WalksTo(file, Walk(file), Len(file))
<1>1. \E f : WalksTo(file, f, Len(file))
  BY WalkExists
<1>2. Walk(file) = CHOOSE f : WalksTo(file, f, Len(file))
  BY DEF Walk, WalksTo
<1> QED BY <1>1, <1>2, Zenon

(***************************************************************************)
(* What ParseLine() makes of a line.                                       *)
(***************************************************************************)
Black(line, from, to) == {i \in from..to : line[i] # Blank}

LEMMA StrippedIs ==
    ASSUME NEW line \in LineType, NEW from \in Nat, 1 <= from, NEW to \in Nat, to <= Len(line)
    PROVE  \/ Black(line, from, to) = {} /\ Stripped(line, from, to) = <<>>
           \/ \E a, z \in Black(line, from, to) :
                 /\ \A i \in Black(line, from, to) : a <= i /\ i <= z
                 /\ Stripped(line, from, to) = SubSeq(line, a, z)
<1> DEFINE black == Black(line, from, to)
<1>1. black \subseteq Nat /\ black \subseteq 0..to
  BY DEF Black
<1>2. Stripped(line, from, to) = IF black = {} THEN <<>> ELSE SubSeq(line, Min(black), Max(black))
  BY DEF Stripped, Black
<1> HIDE DEF black
<1>3. CASE black # {}
  <2>1. Min(black) \in black /\ \A i \in black : Min(black) <= i
    BY <1>1, <1>3, MinOfPositions
  <2>2. Max(black) \in black /\ \A i \in black : Max(black) >= i
    BY <1>1, <1>3, MaxOfPositions
  <2>3. \A i \in black : i <= Max(black)
    BY <1>1, <2>2
  <2>4. PICK a, z : a = Min(black) /\ z = Max(black)
    OBVIOUS
  <2> QED BY <1>2, <1>3, <2>1, <2>2, <2>3, <2>4 DEF black
<1> QED BY <1>2, <1>3 DEF black

LEMMA FitIs ==
    ASSUME NEW s \in LineType, NEW max \in Nat \ {0}
    PROVE  Fit(s, max) \in LineType /\ Len(Fit(s, max)) < max
<1> DEFINE n == IF Len(s) >= max THEN max - 1 ELSE Len(s)
<1>1. n \in Nat /\ n <= Len(s) /\ n < max
  BY LenProperties DEF LineType
<1>2. Fit(s, max) = SubSeq(s, 1, n)
  BY DEF Fit
<1> HIDE DEF n
<1>3. SubSeq(s, 1, n) \in LineType /\ Len(SubSeq(s, 1, n)) = n
  BY <1>1 DEF LineType
<1> QED BY <1>1, <1>2, <1>3

LEMMA StrippedType ==
    ASSUME NEW line \in LineType, NEW from \in Nat, 1 <= from, NEW to \in Nat, to <= Len(line)
    PROVE  Stripped(line, from, to) \in LineType
<1>1. CASE Stripped(line, from, to) = <<>>
  BY <1>1 DEF LineType
<1>2. CASE \E a, z \in Black(line, from, to) : Stripped(line, from, to) = SubSeq(line, a, z)
  <2>1. PICK a, z \in Black(line, from, to) : Stripped(line, from, to) = SubSeq(line, a, z)
    BY <1>2
  <2>2. a \in Nat /\ 1 <= a /\ z \in Nat /\ z <= Len(line) /\ Len(line) \in Nat
    BY LenProperties DEF Black, LineType
  <2>3. SubSeq(line, a, z) \in LineType
    BY <2>2 DEF LineType
  <2> QED BY <2>1, <2>3
<1> QED BY <1>1, <1>2, StrippedIs

LEMMA SplitIs ==
    ASSUME NEW line \in LineType, Pipes(line) # {}
    PROVE  /\ Split(line) \in 1..Len(line) /\ line[Split(line)] = Pipe
           /\ \A i \in 1..(Split(line) - 1) : line[i] # Pipe
<1>1. Pipes(line) \subseteq Nat /\ Len(line) \in Nat
  BY LenProperties DEF Pipes, LineType
<1>2. Split(line) \in Pipes(line) /\ \A i \in Pipes(line) : Split(line) <= i
  BY <1>1, MinOfPositions DEF Split
<1>3. PICK p \in Pipes(line) : p = Split(line)
  BY <1>2
<1>4. p \in 1..Len(line) /\ line[p] = Pipe
  BY DEF Pipes
<1>5. ASSUME NEW i \in 1..(p - 1), line[i] = Pipe PROVE FALSE
  <2>1. i \in Pipes(line)
    BY <1>1, <1>4, <1>5 DEF Pipes
  <2>2. p <= i
    BY <1>2, <1>3, <2>1
  <2> QED BY <1>4, <2>2
<1> QED BY <1>3, <1>4, <1>5

(* ParseLine() makes entries of the lines bootmenu.h means.                *)
LEMMA UsableIsEntry ==
    ASSUME NEW line \in LineType
    PROVE  Usable(line) <=> Entry(line)
<1> DEFINE n     == Len(line)
           black == Black(line, 1, n)
<1>0. n \in Nat
  BY LenProperties DEF LineType
<1>1. CASE black = {}
  <2>1. Pipes(line) = {}
    BY <1>1, BootMenuAssumption DEF Pipes, Black, BootMenuAssumption
  <2> QED BY <2>1 DEF Usable, Entry, Pipes
<1>2. CASE black # {}
  <2>1. PICK a, z \in black : /\ \A i \in black : a <= i /\ i <= z
                            /\ Stripped(line, 1, n) = SubSeq(line, a, z)
    BY <1>0, <1>2, StrippedIs
  <2>2. a \in 1..n /\ z \in 1..n /\ a <= z /\ line[a] # Blank
    BY <1>0, <2>1 DEF Black
  <2>3. ASSUME NEW j \in 1..(a - 1) PROVE line[j] = Blank
    <3>1. j \in 1..n /\ ~(a <= j)
      BY <1>0, <2>2
    <3>2. j \notin black
      BY <2>1, <3>1
    <3> QED BY <3>1, <3>2 DEF Black
  <2>4. Stripped(line, 1, n)[1] = line[a]
    <3> HIDE DEF n
    <3>1. SubSeq(line, a, z)[1] = line[a]
      BY <1>0, <2>2 DEF n, LineType
    <3> QED BY <2>1, <3>1
  <2>5. Usable(line) <=> (\E i \in 1..n : line[i] = Pipe) /\ line[a] # Hash
    BY <2>4 DEF Usable, Pipes
  <2>6. line[a] # Hash <=> \E i \in 1..n : line[i] \notin {Blank, Hash} /\ \A j \in 1..(i - 1) : line[j] = Blank
    <3>1. ASSUME NEW i \in 1..n, line[i] \notin {Blank, Hash}, \A j \in 1..(i - 1) : line[j] = Blank
          PROVE  i = a
      <4>1. i \in black
        BY <3>1 DEF Black
      <4>2. a <= i
        BY <2>1, <4>1
      <4>3. ~(a <= i - 1)
        BY <2>2, <3>1
      <4> QED BY <1>0, <2>2, <4>2, <4>3
    <3>2. line[a] # Hash => line[a] \notin {Blank, Hash}
      BY <2>2
    <3> QED BY <2>2, <2>3, <3>1, <3>2
  <2> QED BY <2>5, <2>6 DEF Entry
<1> QED BY <1>1, <1>2

(* The string of an entry is the one bootmenu.h speaks of.                 *)
LEMMA StringIs ==
    ASSUME NEW line \in LineType, Usable(line)
    PROVE  IsStringOf(line, EntryOf(line).string)
<1> DEFINE n == Len(line)
           t == Stripped(line, Split(line) + 1, n)
<1>0. n \in Nat
  BY LenProperties DEF LineType
<1>1. PICK p \in 1..n : /\ p = Split(line) /\ line[p] = Pipe
                        /\ \A i \in 1..(p - 1) : line[i] # Pipe
  BY SplitIs DEF Usable
<1>2. EntryOf(line).string = Fit(t, MaxString)
  BY DEF EntryOf
<1>3. p + 1 \in Nat /\ 1 <= p + 1 /\ n <= Len(line) /\ p + 1 = Split(line) + 1
  BY <1>0, <1>1
<1>4. \/ Black(line, p + 1, n) = {} /\ t = <<>>
      \/ \E a, z \in Black(line, p + 1, n) :
            (\A i \in Black(line, p + 1, n) : a <= i /\ i <= z) /\ t = SubSeq(line, a, z)
  <2>1. PICK from : from = p + 1
    OBVIOUS
  <2> HIDE DEF n
  <2>2. \/ Black(line, from, n) = {} /\ Stripped(line, from, n) = <<>>
        \/ \E a, z \in Black(line, from, n) :
              /\ \A i \in Black(line, from, n) : a <= i /\ i <= z
              /\ Stripped(line, from, n) = SubSeq(line, a, z)
    BY <1>0, <1>3, <2>1, StrippedIs
  <2> QED BY <1>3, <2>1, <2>2
<1> HIDE DEF t
<1>5. \E z \in 1..n : \E a \in (p + 1)..(z + 1) :
          /\ \A i \in (p + 1)..(a - 1) : line[i] = Blank
          /\ \A i \in (z + 1)..n : line[i] = Blank
          /\ a <= z => line[a] # Blank /\ line[z] # Blank
          /\ t = SubSeq(line, a, z)
  <2>1. CASE Black(line, p + 1, n) = {} /\ t = <<>>
    <3>1. SubSeq(line, p + 1, p) = <<>>
      BY <1>0 DEF LineType
    <3>2. \A i \in (p + 1)..n : line[i] = Blank
      BY <2>1 DEF Black
    <3>3. p + 1 \in (p + 1)..(p + 1) /\ ~(p + 1 <= p) /\ (p + 1)..(p + 1 - 1) = {}
      BY <1>0
    <3> QED BY <2>1, <3>1, <3>2, <3>3
  <2>2. ASSUME NEW a \in Black(line, p + 1, n), NEW z \in Black(line, p + 1, n),
               \A i \in Black(line, p + 1, n) : a <= i /\ i <= z, t = SubSeq(line, a, z)
        PROVE  \E y \in 1..n : \E b \in (p + 1)..(y + 1) :
                  /\ \A i \in (p + 1)..(b - 1) : line[i] = Blank
                  /\ \A i \in (y + 1)..n : line[i] = Blank
                  /\ b <= y => line[b] # Blank /\ line[y] # Blank
                  /\ t = SubSeq(line, b, y)
    <3>1. a \in (p + 1)..n /\ z \in (p + 1)..n /\ a <= z /\ line[a] # Blank /\ line[z] # Blank
      BY <2>2 DEF Black
    <3>2. z \in 1..n /\ a \in (p + 1)..(z + 1)
      BY <1>0, <3>1
    <3>3. ASSUME NEW i \in (p + 1)..n, ~(a <= i) \/ ~(i <= z) PROVE line[i] = Blank
      <4>1. i \notin Black(line, p + 1, n)
        BY <2>2, <3>3
      <4> QED BY <4>1 DEF Black
    <3>4. \A i \in (p + 1)..(a - 1) : i \in (p + 1)..n /\ ~(a <= i)
      BY <1>0, <3>1
    <3>5. \A i \in (z + 1)..n : i \in (p + 1)..n /\ ~(i <= z)
      BY <1>0, <3>1
    <3> QED BY <2>2, <3>1, <3>2, <3>3, <3>4, <3>5
  <2> QED BY <1>4, <2>1, <2>2
<1> QED BY <1>1, <1>2, <1>5 DEF IsStringOf

LEMMA EntryTypes ==
    ASSUME NEW line \in LineType, Usable(line)
    PROVE  /\ EntryOf(line) \in [label : LineType, string : LineType]
           /\ Len(EntryOf(line).label) < MaxLabel /\ Len(EntryOf(line).string) < MaxString
<1>1. PICK p \in 1..Len(line) : p = Split(line)
  BY SplitIs DEF Usable
<1>2. p \in Nat /\ p - 1 \in Nat /\ p - 1 <= Len(line) /\ p + 1 \in Nat /\ 1 <= p + 1
      /\ Len(line) \in Nat /\ Len(line) <= Len(line) /\ 1 \in Nat /\ 1 <= 1
  BY LenProperties DEF LineType
<1>3. Stripped(line, 1, p - 1) \in LineType /\ Stripped(line, p + 1, Len(line)) \in LineType
  BY <1>2, StrippedType
<1>4. PICK label \in LineType, string \in LineType :
         label = Fit(Stripped(line, 1, p - 1), MaxLabel) /\ Len(label) < MaxLabel
         /\ string = Fit(Stripped(line, p + 1, Len(line)), MaxString) /\ Len(string) < MaxString
  BY <1>3, FitIs, BootMenuAssumption DEF BootMenuAssumption
<1>5. EntryOf(line) = [label |-> label, string |-> string]
  BY <1>1, <1>4 DEF EntryOf
<1> QED BY <1>4, <1>5

(***************************************************************************)
(* The menu of a file.                                                     *)
(***************************************************************************)
MenuType == Seq([label : LineType, string : LineType])

(* The entry lines among the first n. *)
UpTo(file, n) == {q \in EntryLines(file) : q <= n}

LEMMA UpToIs ==
    ASSUME NEW file \in FileType, NEW n \in 1..Len(file)
    PROVE  /\ UpTo(file, n) = IF Entry(file[n]) THEN UpTo(file, n - 1) \cup {n} ELSE UpTo(file, n - 1)
           /\ n \notin UpTo(file, n - 1) /\ UpTo(file, n - 1) \subseteq UpTo(file, n)
<1>1. file # Missing /\ Len(file) \in Nat
  BY BootMenuAssumption, LenProperties DEF BootMenuAssumption, FileType, LineType
<1>2. EntryLines(file) = {p \in 1..Len(file) : Entry(file[p])}
  BY <1>1 DEF EntryLines
<1>3. ASSUME NEW q \in 1..Len(file) PROVE q <= n <=> q <= n - 1 \/ q = n
  BY <1>1
<1>4. ~(n <= n - 1)
  BY <1>1
<1>5. ASSUME NEW q PROVE q \in UpTo(file, n) <=> q \in UpTo(file, n - 1) \/ (q = n /\ Entry(file[n]))
  BY <1>2, <1>3 DEF UpTo
<1>6. n \notin UpTo(file, n - 1)
  BY <1>4 DEF UpTo
<1>7. UpTo(file, n - 1) \subseteq UpTo(file, n)
  BY <1>5
<1>8. CASE Entry(file[n])
  <2>1. UpTo(file, n) = UpTo(file, n - 1) \cup {n}
    BY <1>5, <1>8
  <2> QED BY <1>6, <1>7, <1>8, <2>1
<1>9. CASE ~Entry(file[n])
  <2>1. UpTo(file, n) = UpTo(file, n - 1)
    BY <1>5, <1>9
  <2> QED BY <1>6, <1>7, <1>9, <2>1
<1> QED BY <1>8, <1>9

LEMMA UpToFinite ==
    ASSUME NEW file \in FileType, NEW n \in 0..Len(file)
    PROVE  IsFiniteSet(UpTo(file, n)) /\ Cardinality(UpTo(file, n)) \in Nat
<1>1. file # Missing /\ Len(file) \in Nat
  BY BootMenuAssumption, LenProperties DEF BootMenuAssumption, FileType, LineType
<1>2. UpTo(file, n) \subseteq 1..Len(file)
  BY <1>1 DEF UpTo, EntryLines
<1>3. IsFiniteSet(1..Len(file))
  BY <1>1, FS_Interval
<1> QED BY <1>2, <1>3, FS_Subset, FS_CardinalityType

(* What the walk has made of the first n lines.                            *)
MenuOf(file, n, menu) ==
    /\ menu \in MenuType
    /\ Len(menu) = IF Cardinality(UpTo(file, n)) < MaxEntries
                   THEN Cardinality(UpTo(file, n)) ELSE MaxEntries
    /\ \A i \in 1..Len(menu) :
          \E p \in UpTo(file, n) : /\ Cardinality(UpTo(file, p)) = i
                                  /\ menu[i] = EntryOf(file[p])

(* The next line is another entry or nothing. *)
LEMMA ParseLineIs ==
    ASSUME NEW file \in FileType, NEW n \in 1..Len(file), NEW menu, MenuOf(file, n - 1, menu)
    PROVE  MenuOf(file, n, ParseLine(menu, file[n]))
<1>0. file[n] \in LineType /\ Len(file) \in Nat /\ n - 1 \in 0..Len(file) /\ n \in 0..Len(file)
  BY LenProperties, ElementOfSeq DEF FileType
<1>1. PICK k, c : k = Cardinality(UpTo(file, n - 1)) /\ c = Cardinality(UpTo(file, n))
  OBVIOUS
<1>2. k \in Nat /\ c \in Nat /\ MaxEntries \in Nat
  BY <1>0, <1>1, UpToFinite, BootMenuAssumption DEF BootMenuAssumption
<1>3. c = IF Entry(file[n]) THEN k + 1 ELSE k
  <2>1. IsFiniteSet(UpTo(file, n - 1))
    BY <1>0, UpToFinite
  <2>2. CASE Entry(file[n])
    <3>1. UpTo(file, n) = UpTo(file, n - 1) \cup {n} /\ n \notin UpTo(file, n - 1)
      BY <2>2, UpToIs
    <3> QED BY <1>1, <2>1, <2>2, <3>1, FS_AddElement
  <2>3. CASE ~Entry(file[n])
    BY <1>1, <2>3, UpToIs
  <2> QED BY <2>2, <2>3
<1>4. menu \in MenuType /\ Len(menu) \in Nat /\ Len(menu) = IF k < MaxEntries THEN k ELSE MaxEntries
  BY <1>1, <1>2 DEF MenuOf
<1>5. ASSUME NEW i \in 1..Len(menu)
      PROVE  \E p \in UpTo(file, n) : Cardinality(UpTo(file, p)) = i /\ menu[i] = EntryOf(file[p])
  BY UpToIs DEF MenuOf
<1>6. Usable(file[n]) <=> Entry(file[n])
  BY <1>0, UsableIsEntry
<1>7. CASE Usable(file[n]) /\ Len(menu) < MaxEntries
  <2> DEFINE e    == EntryOf(file[n])
             more == Append(menu, e)
  <2>1. e \in [label : LineType, string : LineType]
    BY <1>0, <1>7, EntryTypes
  <2>2. c = k + 1 /\ Len(menu) = k /\ k + 1 <= MaxEntries
    BY <1>2, <1>3, <1>4, <1>6, <1>7
  <2>3. n \in UpTo(file, n)
    BY <1>6, <1>7, UpToIs
  <2>4. ParseLine(menu, file[n]) = more
    BY <1>7 DEF ParseLine
  <2> HIDE DEF e
  <2>5. more \in MenuType /\ Len(more) = Len(menu) + 1 /\ more[Len(menu) + 1] = e
        /\ \A i \in 1..Len(menu) : more[i] = menu[i]
    BY <1>4, <2>1, AppendProperties DEF MenuType
  <2> HIDE DEF more
  <2>6. ASSUME NEW i \in 1..Len(more)
        PROVE  \E p \in UpTo(file, n) : Cardinality(UpTo(file, p)) = i /\ more[i] = EntryOf(file[p])
    <3>1. CASE i \in 1..Len(menu)
      BY <1>5, <2>5, <3>1
    <3>2. CASE i = Len(menu) + 1
      BY <1>1, <2>2, <2>3, <2>5, <3>2 DEF e
    <3> QED BY <1>4, <2>5, <3>1, <3>2
  <2>7. Len(more) = IF c < MaxEntries THEN c ELSE MaxEntries
    BY <1>2, <2>2, <2>5
  <2> QED BY <1>1, <2>4, <2>5, <2>6, <2>7 DEF MenuOf
<1>8. CASE ~(Usable(file[n]) /\ Len(menu) < MaxEntries)
  <2>1. ParseLine(menu, file[n]) = menu
    BY <1>8 DEF ParseLine
  <2>2. Len(menu) = IF c < MaxEntries THEN c ELSE MaxEntries
    BY <1>2, <1>3, <1>4, <1>6, <1>8
  <2> QED BY <1>1, <1>4, <1>5, <2>1, <2>2 DEF MenuOf
<1> QED BY <1>7, <1>8

LEMMA WalkMakes ==
    ASSUME NEW file \in FileType
    PROVE  MenuOf(file, Len(file), Walk(file)[Len(file)])
<1> DEFINE l == Len(file)
           w == Walk(file)
           B == {n \in Nat : n <= l /\ ~MenuOf(file, n, w[n])}
<1>0. l \in Nat
  BY LenProperties DEF FileType
<1>1. WalksTo(file, w, l)
  BY <1>0, WalkIs
<1> HIDE DEF w
<1>2. w[0] = <<>> /\ \A n \in 1..l : w[n] = ParseLine(w[n - 1], file[n])
  <2>1. \A n \in 0..l : w[n] = IF n = 0 THEN <<>> ELSE ParseLine(w[n - 1], file[n])
    BY <1>1 DEF WalksTo
  <2>2. 0 \in 0..l /\ \A n \in 1..l : n \in 0..l /\ n # 0
    BY <1>0
  <2> QED BY <2>1, <2>2
<1>3. MenuOf(file, 0, <<>>)
  <2>1. UpTo(file, 0) = {}
    BY <1>0, BootMenuAssumption DEF UpTo, EntryLines
  <2>2. Cardinality({}) = 0 /\ 0 < MaxEntries
    BY FS_EmptySet, BootMenuAssumption DEF BootMenuAssumption
  <2>3. <<>> \in MenuType /\ Len(<<>>) = 0 /\ 1..0 = {}
    BY DEF MenuType
  <2> QED BY <2>1, <2>2, <2>3 DEF MenuOf
<1>4. SUFFICES ASSUME B # {} PROVE FALSE
  BY <1>0 DEF w
<1>5. PICK n \in B : \A m \in B : n <= m
  <2>1. B \subseteq Nat
    OBVIOUS
  <2> HIDE DEF B
  <2> QED BY <1>4, <2>1, LeastMember
<1>6. n # 0 /\ n \in 1..l /\ n - 1 \in Nat /\ n - 1 <= l
  BY <1>0, <1>2, <1>3, <1>5
<1>7. MenuOf(file, n - 1, w[n - 1])
  <2>1. ~(n <= n - 1)
    BY <1>6
  <2> QED BY <1>5, <1>6, <2>1
<1>8. MenuOf(file, n, w[n])
  BY <1>2, <1>6, <1>7, ParseLineIs
<1> QED BY <1>5, <1>8

(* Load(): the menu has as many entries as the file, up to MaxEntries, and *)
(* its i-th one is what ParseLine() makes of the i-th entry line of the    *)
(* file; a file that cannot be read makes an empty menu.                   *)
THEOREM MenuIsTheFile ==
    ASSUME NEW file \in FileType \cup {Missing}
    PROVE  LET n == Cardinality(EntryLines(file)) IN
           /\ n \in Nat
           /\ Loaded(file) \in MenuType
           /\ Len(Loaded(file)) = IF n < MaxEntries THEN n ELSE MaxEntries
           /\ \A i \in 1..Len(Loaded(file)) :
                 \E p \in EntryLines(file) :
                    /\ EntriesUpTo(file, p) = i
                    /\ file[p] \in LineType /\ Usable(file[p])
                    /\ Loaded(file)[i] = EntryOf(file[p])
<1>1. CASE file = Missing
  <2>1. EntryLines(file) = {} /\ Loaded(file) = <<>>
    BY <1>1 DEF EntryLines, Loaded
  <2>2. Cardinality({}) = 0 /\ 0 < MaxEntries
    BY FS_EmptySet, BootMenuAssumption DEF BootMenuAssumption
  <2>3. <<>> \in MenuType /\ Len(<<>>) = 0 /\ 1..0 = {}
    BY DEF MenuType
  <2> QED BY <2>1, <2>2, <2>3
<1>2. CASE file \in FileType
  <2>0. file # Missing /\ Len(file) \in Nat /\ Len(file) \in 0..Len(file)
    BY <1>2, BootMenuAssumption, LenProperties DEF BootMenuAssumption, FileType, LineType
  <2>1. EntryLines(file) = UpTo(file, Len(file))
    BY <2>0 DEF EntryLines, UpTo
  <2>2. Loaded(file) = Walk(file)[Len(file)]
    BY <2>0 DEF Loaded
  <2>3. MenuOf(file, Len(file), Loaded(file))
    BY <1>2, <2>2, WalkMakes
  <2>4. Cardinality(EntryLines(file)) \in Nat
    BY <1>2, <2>0, <2>1, UpToFinite
  <2>5. ASSUME NEW p \in EntryLines(file)
        PROVE  file[p] \in LineType /\ Usable(file[p]) /\ EntriesUpTo(file, p) = Cardinality(UpTo(file, p))
    <3>1. p \in 1..Len(file) /\ Entry(file[p])
      BY <2>0 DEF EntryLines
    <3>2. file[p] \in LineType
      BY <1>2, <3>1, ElementOfSeq DEF FileType
    <3> QED BY <3>1, <3>2, UsableIsEntry DEF EntriesUpTo, UpTo
  <2> QED BY <2>1, <2>3, <2>4, <2>5 DEF MenuOf
<1> QED BY <1>1, <1>2
=============================================================================
