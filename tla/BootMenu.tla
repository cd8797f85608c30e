------------------------------ MODULE BootMenu ------------------------------
(***************************************************************************)
(* menu-loader/bootmenu.cpp: how CBootMenu::Load() makes a menu of the     *)
(* lines of bootmenu.cfg, as operators.  A line is a sequence of           *)
(* characters without its newline; a menu is a sequence of entries in      *)
(* file order.                                                             *)
(***************************************************************************)
EXTENDS Integers, Sequences, SequencesExt, FiniteSets

CONSTANTS
    Chars,          \* the characters of a line
    Pipe,           \* '|'
    Hash,           \* '#'
    Blank,          \* what IsSpace() takes
    Missing,        \* no such file, or not to be read
    MaxEntries, MaxLabel, MaxString

ASSUME BootMenuAssumption ==
    /\ MaxEntries \in Nat \ {0, 1} /\ MaxLabel \in Nat \ {0} /\ MaxString \in Nat \ {0}
    /\ Pipe # Hash /\ Pipe # Blank /\ Hash # Blank
    /\ Missing \notin Seq(Seq(Chars))

(* The characters from one position to another without the blanks around  *)
(* them.                                                                   *)
Stripped(line, from, to) ==
    LET black == {i \in from..to : line[i] # Blank}
    IN  IF black = {} THEN <<>> ELSE SubSeq(line, Min(black), Max(black))

(* What a buffer of max characters holds of s besides its NUL. *)
Fit(s, max) == SubSeq(s, 1, IF Len(s) >= max THEN max - 1 ELSE Len(s))

Pipes(line) == {i \in 1..Len(line) : line[i] = Pipe}

(* Mutant: the line is split at its last pipe. *)
LastSplit(line) == Max(Pipes(line))

Split(line) == Min(Pipes(line))

(* Blank lines, comments and lines without a pipe are ignored. *)
Usable(line) ==
    /\ Pipes(line) # {}
    /\ Stripped(line, 1, Len(line))[1] # Hash

EntryOf(line) ==
    [label  |-> Fit(Stripped(line, 1, Split(line) - 1), MaxLabel),
     string |-> Fit(Stripped(line, Split(line) + 1, Len(line)), MaxString)]

(* m_Menu after one more line: what is beyond MaxEntries is ignored too.   *)
ParseLine(menu, line) ==
    IF Usable(line) /\ Len(menu) < MaxEntries THEN Append(menu, EntryOf(line)) ELSE menu

(* m_Menu after the first n lines, for every n. *)
Walk(file) ==
    LET after[n \in 0..Len(file)] == IF n = 0 THEN <<>> ELSE ParseLine(after[n - 1], file[n])
    IN  after

(* m_Menu after Load(). *)
Loaded(file) == IF file = Missing THEN <<>> ELSE Walk(file)[Len(file)]

-----------------------------------------------------------------------------
(* What bootmenu.h says of a file, to hold the menu against: "one option   *)
(* per line", in file order.                                               *)
Entry(line) ==
    /\ \E i \in 1..Len(line) : line[i] = Pipe
    /\ \E i \in 1..Len(line) :
          line[i] \notin {Blank, Hash} /\ \A j \in 1..(i - 1) : line[j] = Blank

(* "The string after the first '|'", without the blanks around it, and     *)
(* "preserved up to MaxString".                                            *)
IsStringOf(line, t) ==
    \E p \in 1..Len(line), z \in 1..Len(line) : \E a \in (p + 1)..(z + 1) :
        /\ line[p] = Pipe /\ \A i \in 1..(p - 1) : line[i] # Pipe
        /\ \A i \in (p + 1)..(a - 1) : line[i] = Blank
        /\ \A i \in (z + 1)..Len(line) : line[i] = Blank
        /\ a <= z => line[a] # Blank /\ line[z] # Blank
        /\ t = Fit(SubSeq(line, a, z), MaxString)

EntryLines(file) ==
    IF file = Missing THEN {} ELSE {p \in 1..Len(file) : Entry(file[p])}

(* How many entries there are up to a line. *)
EntriesUpTo(file, p) == Cardinality({q \in EntryLines(file) : q <= p})

=============================================================================
