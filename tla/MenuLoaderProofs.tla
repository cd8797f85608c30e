------------------------- MODULE MenuLoaderProofs --------------------------
(***************************************************************************)
(* Proofs about MenuLoader: what Enter would boot is on the screen, and    *)
(* whoever waits for the screen between two keystrokes boots what they     *)
(* selected - for menus and pages of any length, any number of keystrokes, *)
(* and interrupts at every point of the main loop.                         *)
(*                                                                         *)
(* The invariant says where the main loop stands with what was typed.      *)
(* Without haste at most one keystroke is on its way at a time: either all *)
(* are in cursor, and at most a scroll away from the screen (Drained), or  *)
(* one is still in its intent, or in the register it is drained through,   *)
(* and the screen shows the state it is going to act on (Pending).         *)
(*                                                                         *)
(* A second invariant, RunInv, holds for the hasty too.  It follows what   *)
(* is armed back to the line of bootmenu.cfg it came from (by              *)
(* BootMenuProofs), to the Enter that chose it, and to the image's last    *)
(* byte.                                                                   *)
(***************************************************************************)
EXTENDS MenuLoader, BootMenuProofs, TLAPS

Visible(c, top, n) ==
    /\ c \in 0..(n - 1) /\ top \in Nat
    /\ top <= c /\ c < top + VisibleRows
    /\ top + VisibleRows <= n \/ top = 0

Showing == drawn = [cursor |-> cursor, top |-> topVisible]

LoopStates == {"plug", "serial", "inject", "injectStore", "move", "moveZero",
               "page", "pageZero", "jump", "jumpZero", "draw", "select"}
MidRound   == {"page", "pageZero", "jump", "jumpZero", "draw"}
BootStates == {"open", "read", "fatal", "sleep", "returned"}

TypeInv ==
    /\ reg \in Int /\ moveAccum \in Int /\ pageAccum \in Int
    /\ jumpTo \in Int /\ jumpTo >= -1
    /\ batch \in Seq(Keys) /\ script \in Seq(Keys)
    /\ redraw \in BOOLEAN /\ selectPending \in BOOLEAN /\ hasty \in BOOLEAN
    /\ menuFile \in MenuFiles /\ down \subseteq Keys

(* Nothing has been typed or chosen. *)
Fresh ==
    /\ cursor = 0 /\ topVisible = 0 /\ ~keyboard /\ ~hasty
    /\ moveAccum = 0 /\ pageAccum = 0 /\ jumpTo = -1 /\ ~selectPending
    /\ prevRawKeys = {} /\ down = {}
    /\ wanted = [cursor |-> 0, top |-> 0, chosen |-> None] /\ armed = None

Phases ==
    /\ pc \in {"load", "idle"} \cup LoopStates \cup BootStates
    /\ pc = "load" => Fresh
    /\ pc # "load" => count \in Nat
    /\ pc \in LoopStates => count > 1
    /\ pc = "jumpZero" => reg >= 0
    /\ pc = "injectStore" => batch # <<>> /\ Head(batch).kind \in {"move", "page"}

ScreenInv ==
    pc \in LoopStates \cup BootStates /\ count > 1 =>
        /\ cursor \in 0..(count - 1) /\ topVisible \in Nat
        /\ Visible(drawn.cursor, drawn.top, count)
        /\ Showing \/ (pc \in MidRound /\ redraw)

Wanted(c, top, chosen) == [cursor |-> c, top |-> top, chosen |-> chosen]

(* Every keystroke is in cursor. *)
Drained ==
    /\ moveAccum = 0 /\ pageAccum = 0 /\ jumpTo = -1 /\ ~selectPending
    /\ wanted = Wanted(cursor, Scrolled(cursor, topVisible, count), None)
    /\ pc \notin {"moveZero", "pageZero", "jumpZero"}
    /\ pc = "injectStore" => reg = 0

(* Keystroke k is in its intent only. *)
Pending(k) ==
    /\ moveAccum = (IF k.kind = "move" THEN k.n ELSE 0)
    /\ pageAccum = (IF k.kind = "page" THEN k.n ELSE 0)
    /\ jumpTo = (IF k.kind = "jump" THEN k.n ELSE -1)
    /\ selectPending <=> k.kind = "enter"
    /\ wanted = ActedOn(Wanted(cursor, topVisible, None), k, count)
    /\ Showing
    /\ pc = "moveZero" => k.kind = "move" /\ reg = k.n
    /\ pc = "pageZero" => k.kind = "page" /\ reg = k.n
    /\ pc = "jumpZero" => k.kind = "jump" /\ reg = k.n

Typed == pc \in LoopStates => Drained \/ \E k \in Keys : Pending(k)

Chosen == pc \in BootStates => wanted.chosen = cursor

PatientInv ==
    count > 1 /\ ~hasty =>
        /\ prevRawKeys = down
        /\ Typed
        /\ Chosen
        /\ armed # None => pc \in BootStates /\ armed.index = cursor

IInv == TypeInv /\ Phases /\ ScreenInv /\ PatientInv

-----------------------------------------------------------------------------
(* What moving, paging and scrolling make of the window. *)

(* DrawMenu() brings the cursor into the window, whatever it was.          *)
LEMMA ScrolledShows ==
    ASSUME NEW n \in Nat, NEW c \in 0..(n - 1), NEW top \in Nat
    PROVE  Visible(c, Scrolled(c, top, n), n)
BY MenuAssumption DEF Visible, Scrolled

(* It leaves a window that shows the cursor where it is.                   *)
LEMMA VisibleIsFixed ==
    ASSUME NEW n \in Nat, NEW c, NEW top, Visible(c, top, n)
    PROVE  Scrolled(c, top, n) = top
BY MenuAssumption DEF Visible, Scrolled

LEMMA ScrolledTop ==
    ASSUME NEW n \in Nat, n > 0
    PROVE  Scrolled(0, 0, n) = 0
BY MenuAssumption DEF Scrolled

LEMMA MovedInList ==
    ASSUME NEW n \in Nat, n > 0, NEW c \in Int, NEW m \in Int
    PROVE  Moved(c, m, n) \in 0..(n - 1)
BY DEF Moved, Clamped

LEMMA ClampedShows ==
    ASSUME NEW n \in Nat, n > 0, NEW x \in Int
    PROVE  LET c == Clamped(x, IF n > VisibleRows THEN n - VisibleRows ELSE 0)
           IN  Visible(c, c, n)
BY MenuAssumption DEF Visible, Clamped

(* A page's window top, where the cursor goes too, is a window of the list.*)
LEMMA PagedShows ==
    ASSUME NEW n \in Nat, n > 0, NEW top \in Int, NEW p \in Int
    PROVE  Visible(Paged(top, p, n), Paged(top, p, n), n)
<1> DEFINE x == top + p * VisibleRows
<1>1. VisibleRows \in Int
  BY MenuAssumption
<1>2. x \in Int
  BY <1>1
<1> HIDE DEF x
<1>3. Visible(Clamped(x, IF n > VisibleRows THEN n - VisibleRows ELSE 0),
              Clamped(x, IF n > VisibleRows THEN n - VisibleRows ELSE 0), n)
  BY <1>2, ClampedShows
<1> QED
  BY <1>3 DEF Paged, x

(* What each kind of keystroke makes of a menu nobody has chosen from.     *)
LEMMA ActedOnForms ==
    ASSUME NEW k \in Keys, NEW c, NEW t, NEW n
    PROVE  /\ k.kind = "move" => ActedOn(Wanted(c, t, None), k, n) =
                 Wanted(Moved(c, k.n, n), Scrolled(Moved(c, k.n, n), t, n), None)
           /\ k.kind = "page" => ActedOn(Wanted(c, t, None), k, n) =
                 Wanted(Paged(t, k.n, n), Scrolled(Paged(t, k.n, n), Paged(t, k.n, n), n), None)
           /\ k.kind = "jump" /\ k.n < n => ActedOn(Wanted(c, t, None), k, n) =
                 Wanted(k.n, Scrolled(k.n, t, n), None)
           /\ k.kind = "jump" /\ ~(k.n < n) => ActedOn(Wanted(c, t, None), k, n) =
                 Wanted(c, t, None)
           /\ k.kind = "enter" => ActedOn(Wanted(c, t, None), k, n) = Wanted(c, t, c)
<1> DEFINE w == Wanted(c, t, None)
<1>1. w.cursor = c /\ w.top = t /\ w.chosen = None
  BY DEF Wanted
<1>2. [w EXCEPT !.chosen = c] = Wanted(c, t, c)
  BY DEF Wanted
<1> HIDE DEF w
<1>3. k.kind = "move" => ActedOn(w, k, n) =
        Wanted(Moved(c, k.n, n), Scrolled(Moved(c, k.n, n), t, n), None)
  BY <1>1 DEF ActedOn, Wanted
<1>4. k.kind = "page" => ActedOn(w, k, n) =
        Wanted(Paged(t, k.n, n), Scrolled(Paged(t, k.n, n), Paged(t, k.n, n), n), None)
  BY <1>1 DEF ActedOn, Wanted
<1>5. k.kind = "jump" => ActedOn(w, k, n) =
        IF k.n < n THEN Wanted(k.n, Scrolled(k.n, t, n), None) ELSE w
  BY <1>1 DEF ActedOn, Wanted
<1>6. k.kind = "enter" => ActedOn(w, k, n) = Wanted(c, t, c)
  BY <1>1, <1>2 DEF ActedOn
<1> QED
  BY <1>3, <1>4, <1>5, <1>6 DEF w

(* Once an entry is chosen nothing more is acted on. *)
LEMMA ChosenStays ==
    ASSUME NEW w, NEW k, NEW n, w.chosen # None
    PROVE  ActedOn(w, k, n) = w
BY DEF ActedOn

LEMMA KeyForms ==
    ASSUME NEW k \in Keys
    PROVE  /\ k.kind \in {"move", "page", "jump", "enter"}
           /\ k.kind \in {"move", "page"} => k.n \in {-1, 1}
           /\ k.kind = "jump" => k.n \in 0..8
           /\ k.n \in Int
           /\ k = [kind |-> k.kind, n |-> k.n]
BY MenuAssumption

-----------------------------------------------------------------------------

LEMMA InitInv == Init => IInv
<1> SUFFICES ASSUME Init PROVE IInv
  OBVIOUS
<1>1. TypeInv
  <2>1. script \in Seq(Keys) /\ batch \in Seq(Keys)
    BY MenuAssumption DEF Init
  <2>2. reg \in Int /\ moveAccum \in Int /\ pageAccum \in Int /\ jumpTo \in Int /\ jumpTo >= -1
    BY DEF Init
  <2>3. /\ redraw \in BOOLEAN /\ selectPending \in BOOLEAN /\ hasty \in BOOLEAN
        /\ menuFile \in MenuFiles /\ down \subseteq Keys
    BY Zenon DEF Init
  <2> QED
    BY <2>1, <2>2, <2>3 DEF TypeInv
<1>2. Phases
  BY DEF Init, Phases, Fresh, LoopStates
<1>3. ScreenInv
  BY DEF Init, ScreenInv, LoopStates, BootStates
<1>4. PatientInv
  BY DEF Init, PatientInv, Typed, Chosen, LoopStates, BootStates
<1> QED
  BY <1>1, <1>2, <1>3, <1>4 DEF IInv

(* A keystroke that waited for the screen is the only one on its way.      *)
LEMMA RecordedInLoop ==
    ASSUME IInv, NEW k \in Keys, Recorded(k), ~hasty', count > 1, pc \in LoopStates
    PROVE  /\ ~hasty /\ Drained /\ Showing
           /\ wanted' = ActedOn(Wanted(cursor, topVisible, None), k, count)
<1>1. ~hasty /\ AllShown
  BY Zenon DEF Recorded
<1>2. Showing
  BY <1>1 DEF AllShown, Showing
<1>3. ASSUME NEW j \in Keys, Pending(j) PROVE FALSE
  BY <1>1, <1>3, KeyForms DEF AllShown, Pending
<1>4. Drained
  BY <1>1, <1>3 DEF IInv, PatientInv, Typed
<1>5. Visible(cursor, topVisible, count) /\ count \in Nat
  BY <1>2 DEF IInv, ScreenInv, Showing, Phases, LoopStates
<1>6. Scrolled(cursor, topVisible, count) = topVisible
  BY <1>5, VisibleIsFixed
<1>7. wanted' = ActedOn(wanted, k, count)
  BY DEF Recorded
<1> QED
  BY <1>1, <1>2, <1>4, <1>6, <1>7 DEF Drained

(* Once the loader boots a keystroke changes nothing. *)
LEMMA RecordedInBoot ==
    ASSUME IInv, NEW k \in Keys, Recorded(k), ~hasty', count > 1, pc \in BootStates
    PROVE  ~hasty /\ wanted' = wanted
<1>1. ~hasty
  BY Zenon DEF Recorded
<1>2. wanted.chosen = cursor
  BY <1>1 DEF IInv, PatientInv, Chosen
<1>3. cursor \in Nat /\ count \in Nat
  BY DEF IInv, ScreenInv, Phases, BootStates
<1>4. wanted.chosen # None
  BY <1>2, <1>3, MenuAssumption
<1> QED
  BY <1>1, <1>4, ChosenStays DEF Recorded

(* The menu is loaded, and drawn if there is a choice to make. *)
LEMMA LoadKeeps == IInv /\ Load => IInv'
<1> SUFFICES ASSUME IInv, Load PROVE IInv'
  OBVIOUS
<1> USE DEF IInv
<1>a. pc = "load" /\ Fresh
  BY DEF Load, Phases
<1>b. count' \in Nat
  <2>1. menuFile \in FileType \cup {Missing}
    BY MenuAssumption DEF TypeInv, FileType, LineType
  <2>2. Loaded(menuFile) \in MenuType
    BY <2>1, MenuIsTheFile
  <2> QED
    BY <2>2 DEF Load, count, MenuType
<1>1. TypeInv'
  <2>1. /\ reg' \in Int /\ moveAccum' \in Int /\ pageAccum' \in Int
        /\ jumpTo' \in Int /\ jumpTo' >= -1
        /\ batch' \in Seq(Keys) /\ script' \in Seq(Keys)
    BY DEF TypeInv, Load, intents
  <2>2. /\ redraw' \in BOOLEAN /\ selectPending' \in BOOLEAN /\ hasty' \in BOOLEAN
        /\ menuFile' \in MenuFiles /\ down' \subseteq Keys
    BY Zenon DEF TypeInv, Load, intents, history, keyVars
  <2> QED
    BY <2>1, <2>2 DEF TypeInv
<1>2. Phases'
  BY <1>a, <1>b DEF Phases, Load, Fresh, OneEntry, LoopStates, BootStates
<1>3. ScreenInv'
  <2> SUFFICES ASSUME count' > 1 PROVE ScreenInv'
    BY DEF ScreenInv
  <2>1. topVisible' = Scrolled(0, 0, count') /\ drawn' = [cursor |-> 0, top |-> topVisible'] /\ cursor' = 0
    BY <1>a, <1>b DEF Load, DrawMenu, OneEntry, Phases, Fresh
  <2>2. Visible(0, topVisible', count')
    BY <1>b, <2>1, ScrolledShows
  <2> QED
    BY <1>b, <2>1, <2>2 DEF ScreenInv, Showing, Visible
<1>4. PatientInv'
  <2> SUFFICES ASSUME count' > 1 PROVE PatientInv'
    BY DEF PatientInv
  <2>1. pc' = "plug"
    BY <1>b DEF Load, OneEntry
  <2>2. topVisible' = Scrolled(0, 0, count') /\ cursor' = 0
    BY <1>a, <1>b DEF Load, DrawMenu, OneEntry, Phases, Fresh
  <2>3. topVisible' = 0 /\ Scrolled(cursor', topVisible', count') = 0
    <3>1. PICK n \in Nat : n = count' /\ n > 0
      BY <1>b
    <3>2. Scrolled(0, 0, n) = 0
      BY <3>1, ScrolledTop
    <3> QED
      BY <2>2, <3>1, <3>2
  <2>4. Drained'
    BY <1>a, <2>1, <2>2, <2>3 DEF Drained, Wanted, Fresh, Load, intents, history
  <2> QED
    BY <1>a, <2>1, <2>4 DEF PatientInv, Typed, Chosen, BootStates, Fresh, Load, keyVars, bootVars
<1> QED
  BY <1>1, <1>2, <1>3, <1>4

(* Plug and play: only a keyboard pulled out with keys held matters.       *)
LEMMA PlugAndPlayKeeps == IInv /\ PlugAndPlay => IInv'
<1> SUFFICES ASSUME IInv, PlugAndPlay PROVE IInv'
  OBVIOUS
<1> USE DEF IInv
<1>1. TypeInv'
  <2>1. /\ reg' \in Int /\ moveAccum' \in Int /\ pageAccum' \in Int
        /\ jumpTo' \in Int /\ jumpTo' >= -1
    BY DEF TypeInv, PlugAndPlay, intents, menuVars, history
  <2>2. batch' \in Seq(Keys) /\ script' \in Seq(Keys)
    BY DEF TypeInv, PlugAndPlay, intents, menuVars, history
  <2>3. /\ redraw' \in BOOLEAN /\ selectPending' \in BOOLEAN /\ hasty' \in BOOLEAN
        /\ menuFile' \in MenuFiles /\ down' \subseteq Keys
    BY Zenon DEF TypeInv, PlugAndPlay, intents, menuVars, history, keyVars
  <2> QED
    BY <2>1, <2>2, <2>3 DEF TypeInv
<1>2. Phases'
  BY DEF Phases, PlugAndPlay, LoopStates, BootStates, menuVars, count
<1>3. ScreenInv'
  BY DEF ScreenInv, PlugAndPlay, LoopStates, BootStates, MidRound, menuVars, Showing, count
<1>4. PatientInv'
  <2> SUFFICES ASSUME count' > 1, ~hasty' PROVE PatientInv'
    BY DEF PatientInv
  <2>0. count > 1 /\ ~hasty
    <3>1. ~hasty
      BY Zenon DEF PlugAndPlay
    <3> QED
      BY <3>1 DEF PlugAndPlay, menuVars, count
  <2>1. prevRawKeys = down
    BY <2>0 DEF PatientInv
  <2>2. down' = down
    BY <2>1 DEF PlugAndPlay
  <2>3. Typed'
    <3>1. CASE Drained
      BY <3>1 DEF Drained, Typed, PlugAndPlay, menuVars, intents, count, LoopStates
    <3>2. ASSUME NEW k \in Keys, Pending(k) PROVE Pending(k)'
      BY <3>2 DEF Pending, PlugAndPlay, menuVars, intents, count, Showing
    <3> QED
      BY <2>0, <3>1, <3>2 DEF PatientInv, Typed, PlugAndPlay, LoopStates
  <2> QED
    BY <2>0, <2>1, <2>2, <2>3 DEF PatientInv, Chosen, PlugAndPlay, BootStates, LoopStates, bootVars
<1> QED
  BY <1>1, <1>2, <1>3, <1>4

(* Reading the console takes bytes from what is still to come.             *)
LEMMA ReadSerialKeeps == IInv /\ ReadSerial => IInv'
<1> SUFFICES ASSUME IInv, ReadSerial PROVE IInv'
  OBVIOUS
<1> USE DEF IInv
<1>1. TypeInv'
  <2>1. /\ reg' \in Int /\ moveAccum' \in Int /\ pageAccum' \in Int
        /\ jumpTo' \in Int /\ jumpTo' >= -1
    BY DEF TypeInv, ReadSerial, intents, menuVars, history
  <2>2. batch' \in Seq(Keys) /\ script' \in Seq(Keys)
    BY DEF TypeInv, ReadSerial
  <2>3. /\ redraw' \in BOOLEAN /\ selectPending' \in BOOLEAN /\ hasty' \in BOOLEAN
        /\ menuFile' \in MenuFiles /\ down' \subseteq Keys
    BY Zenon DEF TypeInv, ReadSerial, intents, menuVars, history, keyVars
  <2> QED
    BY <2>1, <2>2, <2>3 DEF TypeInv
<1>2. Phases'
  BY DEF Phases, ReadSerial, LoopStates, BootStates, menuVars, count
<1>3. ScreenInv'
  BY DEF ScreenInv, ReadSerial, LoopStates, BootStates, MidRound, menuVars, Showing, count
<1>4. PatientInv'
  <2> SUFFICES ASSUME count' > 1, ~hasty' PROVE PatientInv'
    BY DEF PatientInv
  <2>1. count > 1 /\ ~hasty
    BY DEF ReadSerial, menuVars, history, count
  <2>2. Typed'
    <3>1. CASE Drained
      BY <3>1 DEF Drained, Typed, ReadSerial, menuVars, intents, history, count, LoopStates
    <3>2. ASSUME NEW k \in Keys, Pending(k) PROVE Pending(k)'
      BY <3>2 DEF Pending, ReadSerial, menuVars, intents, history, count, Showing
    <3> QED
      BY <2>1, <3>1, <3>2 DEF PatientInv, Typed, ReadSerial, LoopStates
  <2> QED
    BY <2>1, <2>2 DEF PatientInv, Chosen, ReadSerial, BootStates, LoopStates, bootVars, keyVars
<1> QED
  BY <1>1, <1>2, <1>3, <1>4

(* The loop over a batch: jumps and Enter are recorded here.               *)
LEMMA InjectKeeps == IInv /\ Inject => IInv'
<1> SUFFICES ASSUME IInv, Inject PROVE IInv'
  OBVIOUS
<1> USE DEF IInv
<1>k. batch # <<>> => Head(batch) \in Keys /\ Tail(batch) \in Seq(Keys)
  BY DEF TypeInv
<1>j. batch # <<>> /\ Head(batch).kind = "jump" => Head(batch).n \in 0..8
  BY <1>k, KeyForms
<1>b. selectPending' \in BOOLEAN /\ hasty' \in BOOLEAN
  BY Zenon DEF TypeInv, Inject, history, Recorded, AllShown
<1>1. TypeInv'
  <2>1. /\ reg' \in Int /\ moveAccum' \in Int /\ pageAccum' \in Int
        /\ jumpTo' \in Int /\ jumpTo' >= -1
    BY <1>j DEF TypeInv, Inject
  <2>2. batch' \in Seq(Keys) /\ script' \in Seq(Keys)
    BY <1>k DEF TypeInv, Inject
  <2>3. /\ redraw' \in BOOLEAN /\ selectPending' \in BOOLEAN /\ hasty' \in BOOLEAN
        /\ menuFile' \in MenuFiles /\ down' \subseteq Keys
    BY <1>b, Zenon DEF TypeInv, Inject, menuVars, keyVars
  <2> QED
    BY <2>1, <2>2, <2>3 DEF TypeInv
<1>2. Phases'
  BY DEF Phases, Inject, LoopStates, BootStates, menuVars, count
<1>3. ScreenInv'
  BY DEF ScreenInv, Inject, LoopStates, BootStates, MidRound, menuVars, Showing, count
<1>4. PatientInv'
  <2> SUFFICES ASSUME count' > 1, ~hasty' PROVE PatientInv'
    BY DEF PatientInv
  <2>1. count > 1 /\ pc \in LoopStates /\ pc \notin BootStates /\ pc' \in LoopStates /\ pc' \notin BootStates
    BY DEF Inject, menuVars, count, LoopStates, BootStates
  <2>2. CASE batch = <<>> \/ Head(batch).kind \in {"move", "page"}
    <3>1. ~hasty
      BY <2>2 DEF Inject, history
    <3>2. CASE Drained
      <4>1. Drained'
        BY <2>2, <3>2 DEF Drained, Inject, menuVars, history, count
      <4> QED
        BY <2>1, <3>1, <4>1 DEF PatientInv, Typed, Chosen, Inject, keyVars, bootVars
    <3>3. ASSUME NEW k \in Keys, Pending(k) PROVE Pending(k)'
      BY <2>2, <3>3 DEF Pending, Inject, menuVars, history, count, Showing
    <3> QED
      BY <2>1, <3>1, <3>2, <3>3 DEF PatientInv, Typed, Chosen, Inject, keyVars, bootVars
  <2>3. CASE batch # <<>> /\ Head(batch).kind \in {"jump", "enter"}
    <3>1. PICK k \in Keys : k = Head(batch) /\ Recorded(k)
      BY <1>k, <2>3 DEF Inject
    <3>2. /\ ~hasty /\ Drained /\ Showing
          /\ wanted' = ActedOn(Wanted(cursor, topVisible, None), k, count)
      BY <2>1, <3>1, RecordedInLoop
    <3>3. pc' = "inject"
      BY <2>3 DEF Inject
    <3>4. Pending(k)'
      <4>1. selectPending' <=> k.kind = "enter"
        BY Zenon, <2>3, <3>1, <3>2 DEF Drained, Inject
      <4>2. jumpTo' = (IF k.kind = "jump" THEN k.n ELSE -1)
        BY <2>3, <3>1, <3>2 DEF Drained, Inject
      <4> QED
        BY <2>3, <3>1, <3>2, <3>3, <4>1, <4>2 DEF Pending, Drained, Inject, menuVars, count, Showing
    <3> QED
      BY <2>1, <3>1, <3>2, <3>4 DEF PatientInv, Typed, Chosen, Inject, keyVars, bootVars
  <2> QED
    BY <2>2, <2>3 DEF Inject
<1> QED
  BY <1>1, <1>2, <1>3, <1>4

(* A cursor or page key of the batch is recorded.                          *)
LEMMA InjectStoreKeeps == IInv /\ InjectStore => IInv'
<1> SUFFICES ASSUME IInv, InjectStore PROVE IInv'
  OBVIOUS
<1> USE DEF IInv
<1>k. Head(batch) \in Keys /\ Tail(batch) \in Seq(Keys)
  BY DEF TypeInv, Phases, InjectStore
<1>1. TypeInv'
  <2>1. /\ reg' \in Int /\ moveAccum' \in Int /\ pageAccum' \in Int
        /\ jumpTo' \in Int /\ jumpTo' >= -1
    BY <1>k, KeyForms DEF TypeInv, InjectStore, Phases
  <2>2. batch' \in Seq(Keys) /\ script' \in Seq(Keys)
    BY <1>k DEF TypeInv, InjectStore
  <2>3. /\ redraw' \in BOOLEAN /\ selectPending' \in BOOLEAN /\ hasty' \in BOOLEAN
        /\ menuFile' \in MenuFiles /\ down' \subseteq Keys
    BY Zenon DEF TypeInv, InjectStore, menuVars, Recorded, AllShown, keyVars
  <2> QED
    BY <2>1, <2>2, <2>3 DEF TypeInv
<1>2. Phases'
  BY DEF Phases, InjectStore, LoopStates, BootStates, menuVars, count
<1>3. ScreenInv'
  BY DEF ScreenInv, InjectStore, LoopStates, BootStates, MidRound, menuVars, Showing, count
<1>4. PatientInv'
  <2> SUFFICES ASSUME count' > 1, ~hasty' PROVE PatientInv'
    BY DEF PatientInv
  <2>1. count > 1 /\ pc = "injectStore" /\ pc \in LoopStates /\ pc' = "inject"
    BY DEF InjectStore, menuVars, count, LoopStates
  <2>2. PICK k \in Keys : k = Head(batch) /\ Recorded(k) /\ k.kind \in {"move", "page"} /\ k.n \in Int
    BY <1>k, <2>1, KeyForms DEF InjectStore, Phases
  <2>3. /\ ~hasty /\ Drained /\ Showing
        /\ wanted' = ActedOn(Wanted(cursor, topVisible, None), k, count)
    BY <2>1, <2>2, RecordedInLoop
  <2>4. Pending(k)'
    <3>1. moveAccum' = (IF k.kind = "move" THEN k.n ELSE 0) /\ pageAccum' = (IF k.kind = "page" THEN k.n ELSE 0)
      BY <2>1, <2>2, <2>3 DEF Drained, InjectStore
    <3> QED
      BY <2>1, <2>2, <2>3, <3>1 DEF Pending, Drained, InjectStore, menuVars, count, Showing
  <2> QED
    BY <2>1, <2>2, <2>3, <2>4 DEF PatientInv, Typed, Chosen, LoopStates, BootStates, InjectStore, keyVars, bootVars
<1> QED
  BY <1>1, <1>2, <1>3, <1>4

(* The cursor keys' intent is read.                                        *)
LEMMA MoveReadKeeps == IInv /\ MoveRead => IInv'
<1> SUFFICES ASSUME IInv, MoveRead PROVE IInv'
  OBVIOUS
<1> USE DEF IInv
<1>1. TypeInv'
  <2>1. /\ reg' \in Int /\ moveAccum' \in Int /\ pageAccum' \in Int
        /\ jumpTo' \in Int /\ jumpTo' >= -1
    BY DEF TypeInv, MoveRead, Goto, menuVars, intents, history, count
  <2>2. batch' \in Seq(Keys) /\ script' \in Seq(Keys)
    BY DEF TypeInv, MoveRead, Goto, menuVars, intents, history, count
  <2>3. /\ redraw' \in BOOLEAN /\ selectPending' \in BOOLEAN /\ hasty' \in BOOLEAN
        /\ menuFile' \in MenuFiles /\ down' \subseteq Keys
    BY Zenon DEF TypeInv, MoveRead, Goto, menuVars, intents, history, count, keyVars
  <2> QED
    BY <2>1, <2>2, <2>3 DEF TypeInv
<1>2. Phases'
  BY DEF Phases, MoveRead, LoopStates, BootStates, TypeInv, Goto, menuVars, intents, history, count
<1>3. ScreenInv'
  BY DEF ScreenInv, MoveRead, LoopStates, BootStates, MidRound, Showing, Goto, menuVars, intents, history, count
<1>4. PatientInv'
  <2> SUFFICES ASSUME count' > 1, ~hasty' PROVE PatientInv'
    BY DEF PatientInv
  <2>1. count > 1 /\ ~hasty /\ pc = "move"
    BY DEF MoveRead, Goto, menuVars, intents, history, count
  <2>2. CASE Drained
    BY <2>1, <2>2 DEF Drained, PatientInv, Typed, Chosen, MoveRead, LoopStates, BootStates, keyVars, bootVars, Goto, menuVars, intents, history, count
  <2>3. ASSUME NEW k \in Keys, Pending(k) PROVE Pending(k)'
    <3>1. moveAccum # 0 => k.kind = "move" /\ moveAccum = k.n
      BY <2>3, KeyForms DEF Pending
    <3> QED
      BY <2>1, <2>3, <3>1 DEF Pending, Showing, MoveRead, Goto, menuVars, intents, history, count
  <2> QED
    BY <2>1, <2>2, <2>3 DEF PatientInv, Typed, Chosen, MoveRead, LoopStates, BootStates, keyVars, bootVars, Goto, menuVars, intents, history, count
<1> QED
  BY <1>1, <1>2, <1>3, <1>4

(* The page keys' intent is read.                                          *)
LEMMA PageReadKeeps == IInv /\ PageRead => IInv'
<1> SUFFICES ASSUME IInv, PageRead PROVE IInv'
  OBVIOUS
<1> USE DEF IInv
<1>1. TypeInv'
  <2>1. /\ reg' \in Int /\ moveAccum' \in Int /\ pageAccum' \in Int
        /\ jumpTo' \in Int /\ jumpTo' >= -1
    BY DEF TypeInv, PageRead, Goto, menuVars, intents, history, count
  <2>2. batch' \in Seq(Keys) /\ script' \in Seq(Keys)
    BY DEF TypeInv, PageRead, Goto, menuVars, intents, history, count
  <2>3. /\ redraw' \in BOOLEAN /\ selectPending' \in BOOLEAN /\ hasty' \in BOOLEAN
        /\ menuFile' \in MenuFiles /\ down' \subseteq Keys
    BY Zenon DEF TypeInv, PageRead, Goto, menuVars, intents, history, count, keyVars
  <2> QED
    BY <2>1, <2>2, <2>3 DEF TypeInv
<1>2. Phases'
  BY DEF Phases, PageRead, LoopStates, BootStates, TypeInv, Goto, menuVars, intents, history, count
<1>3. ScreenInv'
  BY DEF ScreenInv, PageRead, LoopStates, BootStates, MidRound, Showing, Goto, menuVars, intents, history, count
<1>4. PatientInv'
  <2> SUFFICES ASSUME count' > 1, ~hasty' PROVE PatientInv'
    BY DEF PatientInv
  <2>1. count > 1 /\ ~hasty /\ pc = "page"
    BY DEF PageRead, Goto, menuVars, intents, history, count
  <2>2. CASE Drained
    BY <2>1, <2>2 DEF Drained, PatientInv, Typed, Chosen, PageRead, LoopStates, BootStates, keyVars, bootVars, Goto, menuVars, intents, history, count
  <2>3. ASSUME NEW k \in Keys, Pending(k) PROVE Pending(k)'
    <3>1. pageAccum # 0 => k.kind = "page" /\ pageAccum = k.n
      BY <2>3, KeyForms DEF Pending
    <3> QED
      BY <2>1, <2>3, <3>1 DEF Pending, Showing, PageRead, Goto, menuVars, intents, history, count
  <2> QED
    BY <2>1, <2>2, <2>3 DEF PatientInv, Typed, Chosen, PageRead, LoopStates, BootStates, keyVars, bootVars, Goto, menuVars, intents, history, count
<1> QED
  BY <1>1, <1>2, <1>3, <1>4

(* The jump is read.                                                       *)
LEMMA JumpReadKeeps == IInv /\ JumpRead => IInv'
<1> SUFFICES ASSUME IInv, JumpRead PROVE IInv'
  OBVIOUS
<1> USE DEF IInv
<1>1. TypeInv'
  <2>1. /\ reg' \in Int /\ moveAccum' \in Int /\ pageAccum' \in Int
        /\ jumpTo' \in Int /\ jumpTo' >= -1
    BY DEF TypeInv, JumpRead, Goto, menuVars, intents, history, count
  <2>2. batch' \in Seq(Keys) /\ script' \in Seq(Keys)
    BY DEF TypeInv, JumpRead, Goto, menuVars, intents, history, count
  <2>3. /\ redraw' \in BOOLEAN /\ selectPending' \in BOOLEAN /\ hasty' \in BOOLEAN
        /\ menuFile' \in MenuFiles /\ down' \subseteq Keys
    BY Zenon DEF TypeInv, JumpRead, Goto, menuVars, intents, history, count, keyVars
  <2> QED
    BY <2>1, <2>2, <2>3 DEF TypeInv
<1>2. Phases'
  BY DEF Phases, JumpRead, LoopStates, BootStates, TypeInv, Goto, menuVars, intents, history, count
<1>3. ScreenInv'
  BY DEF ScreenInv, JumpRead, LoopStates, BootStates, MidRound, Showing, Goto, menuVars, intents, history, count
<1>4. PatientInv'
  <2> SUFFICES ASSUME count' > 1, ~hasty' PROVE PatientInv'
    BY DEF PatientInv
  <2>1. count > 1 /\ ~hasty /\ pc = "jump"
    BY DEF JumpRead, Goto, menuVars, intents, history, count
  <2>2. CASE Drained
    BY <2>1, <2>2 DEF Drained, PatientInv, Typed, Chosen, JumpRead, LoopStates, BootStates, keyVars, bootVars, Goto, menuVars, intents, history, count
  <2>3. ASSUME NEW k \in Keys, Pending(k) PROVE Pending(k)'
    <3>1. jumpTo >= 0 => k.kind = "jump" /\ jumpTo = k.n
      BY <2>3, KeyForms DEF Pending
    <3> QED
      BY <2>1, <2>3, <3>1 DEF Pending, Showing, JumpRead, Goto, menuVars, intents, history, count
  <2> QED
    BY <2>1, <2>2, <2>3 DEF PatientInv, Typed, Chosen, JumpRead, LoopStates, BootStates, keyVars, bootVars, Goto, menuVars, intents, history, count
<1> QED
  BY <1>1, <1>2, <1>3, <1>4

(* The cursor keys' sum is acted on.                                       *)
LEMMA MoveZeroKeeps == IInv /\ MoveZero => IInv'
<1> SUFFICES ASSUME IInv, MoveZero PROVE IInv'
  OBVIOUS
<1> USE DEF IInv
<1>r. pc = "moveZero" /\ count > 1 /\ count \in Nat /\ count' = count /\ cursor \in 0..(count - 1) /\ topVisible \in Nat
  BY DEF MoveZero, Phases, ScreenInv, LoopStates, Goto, menuVars, intents, history, count
<1>s. /\ cursor' \in 0..(count - 1) /\ topVisible' \in Nat
      /\ Visible(drawn.cursor, drawn.top, count)
      /\ Showing \/ redraw
  <2>1. Moved(cursor, reg, count) \in 0..(count - 1)
    <3>1. cursor \in Int /\ reg \in Int /\ count > 0
      BY <1>r DEF TypeInv
    <3> QED
      BY <1>r, <3>1, MovedInList
  <2> QED
    BY <1>r, <2>1 DEF MoveZero, Place, ScreenInv, LoopStates, MidRound
<1>1. TypeInv'
  <2>1. /\ reg' \in Int /\ moveAccum' \in Int /\ pageAccum' \in Int
        /\ jumpTo' \in Int /\ jumpTo' >= -1
    BY DEF TypeInv, MoveZero, Place, Goto, menuVars, intents, history, count
  <2>2. batch' \in Seq(Keys) /\ script' \in Seq(Keys)
    BY DEF TypeInv, MoveZero, Place, Goto, menuVars, intents, history, count
  <2>3. /\ redraw' \in BOOLEAN /\ selectPending' \in BOOLEAN /\ hasty' \in BOOLEAN
        /\ menuFile' \in MenuFiles /\ down' \subseteq Keys
    BY Zenon DEF TypeInv, MoveZero, Place, Goto, menuVars, history, keyVars
  <2> QED
    BY <2>1, <2>2, <2>3 DEF TypeInv
<1>2. Phases'
  BY <1>r DEF Phases, MoveZero, Place, LoopStates, BootStates, Goto, menuVars, intents, history, count
<1>3. ScreenInv'
  <2>1. redraw' = (redraw \/ cursor' # cursor \/ topVisible' # topVisible) /\ drawn' = drawn
    BY DEF MoveZero, Place
  <2>2. Showing' \/ redraw'
    BY <2>1, <1>s DEF Showing
  <2> QED
    BY <1>r, <1>s, <2>1, <2>2 DEF ScreenInv, MoveZero, LoopStates, BootStates, MidRound, Goto, menuVars, intents, history, count
<1>4. PatientInv'
  <2> SUFFICES ASSUME count' > 1, ~hasty' PROVE PatientInv'
    BY DEF PatientInv
  <2>1. ~hasty /\ prevRawKeys' = down' /\ pc' \in LoopStates /\ pc' \notin BootStates
    BY <1>r DEF MoveZero, PatientInv, LoopStates, BootStates, keyVars, Goto, menuVars, intents, history, count
  <2>2. ~Drained
    BY <1>r DEF Drained
  <2>3. PICK k \in Keys : Pending(k)
    BY <1>r, <2>1, <2>2 DEF PatientInv, Typed, LoopStates
  <2>4. k.kind = "move" /\ reg = k.n /\ wanted = ActedOn(Wanted(cursor, topVisible, None), k, count)
    BY <1>r, <2>3 DEF Pending
  <2>5. wanted = Wanted(cursor', Scrolled(cursor', topVisible', count), None)
    BY <2>4, ActedOnForms DEF MoveZero, Place
  <2>6. Drained'
    BY <1>r, <2>3, <2>4, <2>5 DEF Pending, Drained, MoveZero, Place, Goto, menuVars, intents, history, count
  <2> QED
    BY <1>r, <2>1, <2>6 DEF PatientInv, Typed, Chosen, MoveZero, LoopStates, BootStates, keyVars, bootVars, Goto, menuVars, intents, history, count
<1> QED
  BY <1>1, <1>2, <1>3, <1>4

(* The page keys' sum is acted on.                                         *)
LEMMA PageZeroKeeps == IInv /\ PageZero => IInv'
<1> SUFFICES ASSUME IInv, PageZero PROVE IInv'
  OBVIOUS
<1> USE DEF IInv
<1>r. pc = "pageZero" /\ count > 1 /\ count \in Nat /\ count' = count /\ cursor \in 0..(count - 1) /\ topVisible \in Nat
  BY DEF PageZero, Phases, ScreenInv, LoopStates, Goto, menuVars, intents, history, count
<1>s. /\ cursor' \in 0..(count - 1) /\ topVisible' \in Nat
      /\ Visible(drawn.cursor, drawn.top, count)
      /\ Showing \/ redraw
  <2>1. Visible(Paged(topVisible, reg, count), Paged(topVisible, reg, count), count)
    <3>1. topVisible \in Int /\ reg \in Int /\ count > 0
      BY <1>r DEF TypeInv
    <3> QED
      BY <1>r, <3>1, PagedShows
  <2>2. cursor' = Paged(topVisible, reg, count) /\ topVisible' = cursor'
    BY DEF PageZero, Place
  <2> QED
    BY <1>r, <2>1, <2>2 DEF ScreenInv, LoopStates, Visible
<1>1. TypeInv'
  <2>1. /\ reg' \in Int /\ moveAccum' \in Int /\ pageAccum' \in Int
        /\ jumpTo' \in Int /\ jumpTo' >= -1
    BY DEF TypeInv, PageZero, Place, Goto, menuVars, intents, history, count
  <2>2. batch' \in Seq(Keys) /\ script' \in Seq(Keys)
    BY DEF TypeInv, PageZero, Place, Goto, menuVars, intents, history, count
  <2>3. /\ redraw' \in BOOLEAN /\ selectPending' \in BOOLEAN /\ hasty' \in BOOLEAN
        /\ menuFile' \in MenuFiles /\ down' \subseteq Keys
    BY Zenon DEF TypeInv, PageZero, Place, Goto, menuVars, history, keyVars
  <2> QED
    BY <2>1, <2>2, <2>3 DEF TypeInv
<1>2. Phases'
  BY <1>r DEF Phases, PageZero, Place, LoopStates, BootStates, Goto, menuVars, intents, history, count
<1>3. ScreenInv'
  <2>1. redraw' = (redraw \/ cursor' # cursor \/ topVisible' # topVisible) /\ drawn' = drawn
    BY DEF PageZero, Place
  <2>2. Showing' \/ redraw'
    BY <2>1, <1>s DEF Showing
  <2> QED
    BY <1>r, <1>s, <2>1, <2>2 DEF ScreenInv, PageZero, LoopStates, BootStates, MidRound, Goto, menuVars, intents, history, count
<1>4. PatientInv'
  <2> SUFFICES ASSUME count' > 1, ~hasty' PROVE PatientInv'
    BY DEF PatientInv
  <2>1. ~hasty /\ prevRawKeys' = down' /\ pc' \in LoopStates /\ pc' \notin BootStates
    BY <1>r DEF PageZero, PatientInv, LoopStates, BootStates, keyVars, Goto, menuVars, intents, history, count
  <2>2. ~Drained
    BY <1>r DEF Drained
  <2>3. PICK k \in Keys : Pending(k)
    BY <1>r, <2>1, <2>2 DEF PatientInv, Typed, LoopStates
  <2>4. k.kind = "page" /\ reg = k.n /\ wanted = ActedOn(Wanted(cursor, topVisible, None), k, count)
    BY <1>r, <2>3 DEF Pending
  <2>5. wanted = Wanted(cursor', Scrolled(cursor', topVisible', count), None)
    BY <2>4, ActedOnForms DEF PageZero, Place
  <2>6. Drained'
    BY <1>r, <2>3, <2>4, <2>5 DEF Pending, Drained, PageZero, Place, Goto, menuVars, intents, history, count
  <2> QED
    BY <1>r, <2>1, <2>6 DEF PatientInv, Typed, Chosen, PageZero, LoopStates, BootStates, keyVars, bootVars, Goto, menuVars, intents, history, count
<1> QED
  BY <1>1, <1>2, <1>3, <1>4

(* The jump is acted on, if there is such an entry.                        *)
LEMMA JumpZeroKeeps == IInv /\ JumpZero => IInv'
<1> SUFFICES ASSUME IInv, JumpZero PROVE IInv'
  OBVIOUS
<1> USE DEF IInv
<1>r. pc = "jumpZero" /\ count > 1 /\ count \in Nat /\ count' = count /\ cursor \in 0..(count - 1) /\ topVisible \in Nat
  BY DEF JumpZero, Phases, ScreenInv, LoopStates, Goto, menuVars, intents, history, count
<1>s. /\ cursor' \in 0..(count - 1) /\ topVisible' \in Nat
      /\ Visible(drawn.cursor, drawn.top, count)
      /\ Showing \/ redraw
  <2>1. reg >= 0 /\ reg \in Int
    BY <1>r DEF Phases, TypeInv
  <2> QED
    BY <1>r, <2>1 DEF JumpZero, Place, ScreenInv, LoopStates
<1>1. TypeInv'
  <2>1. /\ reg' \in Int /\ moveAccum' \in Int /\ pageAccum' \in Int
        /\ jumpTo' \in Int /\ jumpTo' >= -1
    BY DEF TypeInv, JumpZero, Place, Goto, menuVars, intents, history, count
  <2>2. batch' \in Seq(Keys) /\ script' \in Seq(Keys)
    BY DEF TypeInv, JumpZero, Place, Goto, menuVars, intents, history, count
  <2>3. /\ redraw' \in BOOLEAN /\ selectPending' \in BOOLEAN /\ hasty' \in BOOLEAN
        /\ menuFile' \in MenuFiles /\ down' \subseteq Keys
    BY Zenon DEF TypeInv, JumpZero, Place, Goto, menuVars, history, keyVars
  <2> QED
    BY <2>1, <2>2, <2>3 DEF TypeInv
<1>2. Phases'
  BY <1>r DEF Phases, JumpZero, Place, LoopStates, BootStates, Goto, menuVars, intents, history, count
<1>3. ScreenInv'
  <2>1. redraw' = (redraw \/ cursor' # cursor \/ topVisible' # topVisible) /\ drawn' = drawn
    BY DEF JumpZero, Place
  <2>2. Showing' \/ redraw'
    BY <2>1, <1>s DEF Showing
  <2> QED
    BY <1>r, <1>s, <2>1, <2>2 DEF ScreenInv, JumpZero, LoopStates, BootStates, MidRound, Goto, menuVars, intents, history, count
<1>4. PatientInv'
  <2> SUFFICES ASSUME count' > 1, ~hasty' PROVE PatientInv'
    BY DEF PatientInv
  <2>1. ~hasty /\ prevRawKeys' = down' /\ pc' \in LoopStates /\ pc' \notin BootStates
    BY <1>r DEF JumpZero, PatientInv, LoopStates, BootStates, keyVars, Goto, menuVars, intents, history, count
  <2>2. ~Drained
    BY <1>r DEF Drained
  <2>3. PICK k \in Keys : Pending(k)
    BY <1>r, <2>1, <2>2 DEF PatientInv, Typed, LoopStates
  <2>4. k.kind = "jump" /\ reg = k.n /\ wanted = ActedOn(Wanted(cursor, topVisible, None), k, count)
    BY <1>r, <2>3 DEF Pending
  <2>5. wanted = Wanted(cursor', Scrolled(cursor', topVisible', count), None)
    <3>1. Scrolled(cursor, topVisible, count) = topVisible
      <4>1. Visible(cursor, topVisible, count)
        BY <1>s, <2>3 DEF Pending, Showing
      <4> QED
        BY <1>r, <4>1, VisibleIsFixed
    <3>2. CASE reg < count
      BY <2>4, <3>2, ActedOnForms DEF JumpZero, Place
    <3>3. CASE ~(reg < count)
      BY <2>4, <3>1, <3>3, ActedOnForms DEF JumpZero, Place
    <3> QED
      BY <3>2, <3>3
  <2>6. Drained'
    BY <1>r, <2>3, <2>4, <2>5 DEF Pending, Drained, JumpZero, Place, Goto, menuVars, intents, history, count
  <2> QED
    BY <1>r, <2>1, <2>6 DEF PatientInv, Typed, Chosen, JumpZero, LoopStates, BootStates, keyVars, bootVars, Goto, menuVars, intents, history, count
<1> QED
  BY <1>1, <1>2, <1>3, <1>4

(* The menu is drawn if something has changed it.                          *)
LEMMA DrawKeeps == IInv /\ Draw => IInv'
<1> SUFFICES ASSUME IInv, Draw PROVE IInv'
  OBVIOUS
<1> USE DEF IInv
<1>r. pc = "draw" /\ count > 1 /\ count \in Nat /\ count' = count /\ cursor \in 0..(count - 1) /\ topVisible \in Nat /\ cursor' = cursor
  BY DEF Draw, Phases, ScreenInv, LoopStates, Goto, menuVars, intents, history, count
<1>s. /\ Visible(cursor, topVisible', count) /\ Showing'
      /\ topVisible' = topVisible \/ topVisible' = Scrolled(cursor, topVisible, count)
  <2>1. CASE NeedsDraw
    <3>1. Visible(cursor, Scrolled(cursor, topVisible, count), count)
      BY <1>r, ScrolledShows
    <3>2. topVisible' = Scrolled(cursor, topVisible, count) /\ drawn' = [cursor |-> cursor, top |-> topVisible']
      BY <1>r, <2>1 DEF Draw, DrawMenu
    <3> QED
      BY <1>r, <3>1, <3>2 DEF Showing
  <2>2. CASE ~NeedsDraw
    BY <1>r, <2>2 DEF Draw, NeedsDraw, ScreenInv, Showing, LoopStates
  <2> QED
    BY <2>1, <2>2
<1>1. TypeInv'
  <2>1. /\ reg' \in Int /\ moveAccum' \in Int /\ pageAccum' \in Int
        /\ jumpTo' \in Int /\ jumpTo' >= -1
    BY DEF TypeInv, Draw, Goto, menuVars, intents, history, count
  <2>2. batch' \in Seq(Keys) /\ script' \in Seq(Keys)
    BY DEF TypeInv, Draw, Goto, menuVars, intents, history, count
  <2>3. /\ redraw' \in BOOLEAN /\ selectPending' \in BOOLEAN /\ hasty' \in BOOLEAN
        /\ menuFile' \in MenuFiles /\ down' \subseteq Keys
    BY Zenon DEF TypeInv, Draw, Goto, menuVars, intents, history, count, keyVars
  <2> QED
    BY <2>1, <2>2, <2>3 DEF TypeInv
<1>2. Phases'
  BY DEF Phases, Draw, LoopStates, BootStates, Goto, menuVars, intents, history, count
<1>3. ScreenInv'
  BY <1>r, <1>s DEF ScreenInv, Draw, Showing, Visible, LoopStates, Goto, menuVars, intents, history, count
<1>4. PatientInv'
  <2> SUFFICES ASSUME count' > 1, ~hasty' PROVE PatientInv'
    BY DEF PatientInv
  <2>1. ~hasty /\ prevRawKeys' = down' /\ pc' \in LoopStates /\ pc' \notin BootStates
    BY <1>r DEF Draw, PatientInv, LoopStates, BootStates, keyVars, Goto, menuVars, intents, history, count
  <2>2. Scrolled(cursor, topVisible', count) = topVisible'
    BY <1>r, <1>s, VisibleIsFixed DEF Showing
  <2>3. CASE Drained
    <3>1. Scrolled(cursor, topVisible, count) = topVisible'
      BY <1>s, <2>2
    <3>2. Drained'
      BY <1>r, <2>2, <2>3, <3>1 DEF Drained, Draw, Goto, menuVars, intents, history, count
    <3> QED
      BY <1>r, <2>1, <3>2 DEF PatientInv, Typed, Chosen, Draw, LoopStates, BootStates, bootVars, Goto, menuVars, intents, history, count
  <2>4. ASSUME NEW k \in Keys, Pending(k) PROVE Pending(k)'
    <3>1. topVisible' = topVisible
      <4>1. Visible(cursor, topVisible, count)
        BY <1>r, <2>4 DEF Pending, Showing, ScreenInv, LoopStates
      <4>2. Scrolled(cursor, topVisible, count) = topVisible
        BY <1>r, <4>1, VisibleIsFixed
      <4> QED
        BY <1>s, <4>2
    <3> QED
      BY <1>r, <1>s, <2>4, <3>1 DEF Pending, Draw, Goto, menuVars, intents, history, count
  <2>5. Drained \/ \E k \in Keys : Pending(k)
    BY <1>r, <2>1 DEF PatientInv, Typed, LoopStates
  <2> QED
    BY <1>r, <2>1, <2>3, <2>4, <2>5 DEF PatientInv, Typed, Chosen, Draw, LoopStates, BootStates, bootVars, Goto, menuVars, intents, history, count
<1> QED
  BY <1>1, <1>2, <1>3, <1>4

(* Enter, if it was pressed, ends the loop.                                *)
LEMMA SelectKeeps == IInv /\ Select => IInv'
<1> SUFFICES ASSUME IInv, Select PROVE IInv'
  OBVIOUS
<1> USE DEF IInv
<1>1. TypeInv'
  <2>1. /\ reg' \in Int /\ moveAccum' \in Int /\ pageAccum' \in Int
        /\ jumpTo' \in Int /\ jumpTo' >= -1
    BY DEF TypeInv, Select, Goto, menuVars, intents, history, keyVars
  <2>2. batch' \in Seq(Keys) /\ script' \in Seq(Keys)
    BY DEF TypeInv, Select, Goto, menuVars, intents, history, keyVars
  <2>3. /\ redraw' \in BOOLEAN /\ selectPending' \in BOOLEAN /\ hasty' \in BOOLEAN
        /\ menuFile' \in MenuFiles /\ down' \subseteq Keys
    BY Zenon DEF TypeInv, Select, Goto, menuVars, intents, history, keyVars
  <2> QED
    BY <2>1, <2>2, <2>3 DEF TypeInv
<1>2. Phases'
  BY DEF Phases, Select, LoopStates, BootStates, Goto, menuVars, intents, history, count
<1>3. ScreenInv'
  BY DEF ScreenInv, Select, LoopStates, BootStates, MidRound, Showing, Goto, menuVars, intents, history, count
<1>4. PatientInv'
  <2> SUFFICES ASSUME count' > 1, ~hasty' PROVE PatientInv'
    BY DEF PatientInv
  <2>1. count > 1 /\ ~hasty /\ prevRawKeys' = down' /\ pc = "select" /\ armed' = armed /\ armed = None
    BY DEF Select, PatientInv, keyVars, bootVars, BootStates, Goto, menuVars, intents, history, count
  <2>2. CASE Drained
    BY <2>1, <2>2 DEF Drained, TakesEnter, PatientInv, Typed, Chosen, Select, LoopStates, BootStates, Goto, menuVars, intents, history, count
  <2>3. ASSUME NEW k \in Keys, Pending(k) PROVE PatientInv'
    <3>1. CASE k.kind = "enter"
      <4>1. wanted' = Wanted(cursor, topVisible, cursor) /\ pc' = "open" /\ cursor' = cursor
        BY <2>3, <3>1, ActedOnForms DEF Pending, TakesEnter, Select, Goto, menuVars, intents, history, count
      <4> QED
        BY <2>1, <4>1 DEF PatientInv, Typed, Chosen, Wanted, LoopStates, BootStates
    <3>2. CASE k.kind # "enter"
      <4>1. pc' = "plug" /\ ~selectPending'
        BY <2>3, <3>2 DEF Pending, TakesEnter, Select, Goto, menuVars, intents, history, count
      <4>2. Pending(k)'
        BY <2>1, <2>3, <3>2, <4>1 DEF Pending, Select, Showing, Goto, menuVars, intents, history, count
      <4> QED
        BY <2>1, <4>1, <4>2 DEF PatientInv, Typed, Chosen, LoopStates, BootStates
    <3> QED
      BY <3>1, <3>2
  <2> QED
    BY <2>1, <2>2, <2>3 DEF PatientInv, Typed, LoopStates
<1> QED
  BY <1>1, <1>2, <1>3, <1>4

(* Booting, the loop neither moves the cursor nor looks at the keys.       *)
LEMMA AtBootKeeps ==
    ASSUME IInv, NEW to \in {"read", "fatal", "sleep"}, AtBoot(to),
           armed' = armed \/ armed'.index = cursor
    PROVE  IInv'
<1> USE DEF IInv
<1>1. TypeInv'
  <2>1. /\ reg' \in Int /\ moveAccum' \in Int /\ pageAccum' \in Int
        /\ jumpTo' \in Int /\ jumpTo' >= -1
    BY DEF TypeInv, AtBoot, menuVars, intents, history, keyVars
  <2>2. batch' \in Seq(Keys) /\ script' \in Seq(Keys)
    BY DEF TypeInv, AtBoot, menuVars, intents, history, keyVars
  <2>3. /\ redraw' \in BOOLEAN /\ selectPending' \in BOOLEAN /\ hasty' \in BOOLEAN
        /\ menuFile' \in MenuFiles /\ down' \subseteq Keys
    BY Zenon DEF TypeInv, AtBoot, menuVars, intents, history, keyVars
  <2> QED
    BY <2>1, <2>2, <2>3 DEF TypeInv
<1>2. Phases'
  BY DEF Phases, AtBoot, LoopStates, BootStates, menuVars, count
<1>3. ScreenInv'
  BY DEF ScreenInv, AtBoot, LoopStates, BootStates, MidRound, Showing, menuVars, count
<1>4. PatientInv'
  BY DEF PatientInv, Typed, Chosen, AtBoot, LoopStates, BootStates, menuVars, history, keyVars, count
<1> QED
  BY <1>1, <1>2, <1>3, <1>4

(* The loader returns with the image armed.                                *)
LEMMA ReturnKeeps == IInv /\ Return => IInv'
<1> SUFFICES ASSUME IInv, Return PROVE IInv'
  OBVIOUS
<1> USE DEF IInv
<1>1. TypeInv'
  <2>1. /\ reg' \in Int /\ moveAccum' \in Int /\ pageAccum' \in Int
        /\ jumpTo' \in Int /\ jumpTo' >= -1
    BY DEF TypeInv, Return, Goto, menuVars, intents, history, keyVars
  <2>2. batch' \in Seq(Keys) /\ script' \in Seq(Keys)
    BY DEF TypeInv, Return, Goto, menuVars, intents, history, keyVars
  <2>3. /\ redraw' \in BOOLEAN /\ selectPending' \in BOOLEAN /\ hasty' \in BOOLEAN
        /\ menuFile' \in MenuFiles /\ down' \subseteq Keys
    BY Zenon DEF TypeInv, Return, Goto, menuVars, intents, history, keyVars
  <2> QED
    BY <2>1, <2>2, <2>3 DEF TypeInv
<1>2. Phases'
  BY DEF Phases, Return, LoopStates, BootStates, Goto, menuVars, intents, history, count
<1>3. ScreenInv'
  BY DEF ScreenInv, Return, LoopStates, BootStates, MidRound, Showing, Goto, menuVars, intents, history, count
<1>4. PatientInv'
  BY DEF PatientInv, Typed, Chosen, Return, LoopStates, BootStates, keyVars, bootVars, Goto, menuVars, intents, history, count
<1> QED
  BY <1>1, <1>2, <1>3, <1>4

(* A report leaves the intents integers, and the jump one of an entry.     *)
LEMMA ReportTypes ==
    ASSUME IInv, NEW raw \in SUBSET Keys, KeyStatusHandlerRaw(raw)
    PROVE  /\ moveAccum' \in Int /\ pageAccum' \in Int
           /\ jumpTo' \in Int /\ jumpTo' >= -1 /\ jumpTo' \in {jumpTo} \cup 0..8
           /\ selectPending' \in BOOLEAN
<1> DEFINE new   == NewKeys(raw)
           jumps == {k.n : k \in {k \in new : k.kind = "jump"}}
<1>1. ASSUME NEW a, NEW b PROVE Net(new, a, b) \in Int
  BY DEF Net
<1>2. moveAccum' = moveAccum + Net(new, Move(1), Move(-1)) /\ pageAccum' = pageAccum + Net(new, Page(1), Page(-1))
  BY DEF KeyStatusHandlerRaw
<1>3. jumps \subseteq 0..8
  BY KeyForms DEF NewKeys
<1>4. jumpTo' \in IF jumps = {} THEN {jumpTo} ELSE jumps
  BY Zenon DEF KeyStatusHandlerRaw
<1>5. selectPending' \in BOOLEAN
  BY Zenon DEF KeyStatusHandlerRaw
<1> HIDE DEF new, jumps
<1>6. jumpTo' \in Int /\ jumpTo' >= -1 /\ jumpTo' \in {jumpTo} \cup 0..8
  BY <1>3, <1>4 DEF IInv, TypeInv
<1>7. moveAccum' \in Int /\ pageAccum' \in Int
  BY <1>1, <1>2 DEF IInv, TypeInv
<1> QED
  BY <1>5, <1>6, <1>7

(* A report with one key more records that key. *)
LEMMA ReportOfOne ==
    ASSUME IInv, NEW k \in Keys, k \notin down, prevRawKeys = down,
           KeyStatusHandlerRaw(down \cup {k}), Drained
    PROVE  /\ moveAccum' = (IF k.kind = "move" THEN k.n ELSE 0)
           /\ pageAccum' = (IF k.kind = "page" THEN k.n ELSE 0)
           /\ jumpTo' = (IF k.kind = "jump" THEN k.n ELSE -1)
           /\ selectPending' <=> k.kind = "enter"
<1> DEFINE raw == down \cup {k}
<1>1. NewKeys(raw) = {k}
  BY DEF NewKeys
<1>2. moveAccum' = Net({k}, Move(1), Move(-1)) /\ pageAccum' = Net({k}, Page(1), Page(-1))
  <2>1. moveAccum' = 0 + Net(NewKeys(raw), Move(1), Move(-1)) /\ pageAccum' = 0 + Net(NewKeys(raw), Page(1), Page(-1))
    BY DEF KeyStatusHandlerRaw, Drained
  <2>2. ASSUME NEW a, NEW b PROVE Net({k}, a, b) \in Int
    BY DEF Net
  <2> QED
    BY <1>1, <2>1, <2>2
<1>3. jumpTo' \in (LET jumps == {j.n : j \in {j \in {k} : j.kind = "jump"}}
                   IN  IF jumps = {} THEN {jumpTo} ELSE jumps)
  BY <1>1, Zenon DEF KeyStatusHandlerRaw
<1>4. selectPending' = (selectPending \/ \E j \in {k} : j.kind = "enter")
  BY <1>1, Zenon DEF KeyStatusHandlerRaw
<1>5. /\ Net({k}, Move(1), Move(-1)) = (IF k.kind = "move" THEN k.n ELSE 0)
      /\ Net({k}, Page(1), Page(-1)) = (IF k.kind = "page" THEN k.n ELSE 0)
  <2>1. PICK kind, n : k = [kind |-> kind, n |-> n] /\ (kind \in {"move", "page"} => n \in {-1, 1})
    BY KeyForms
  <2> QED
    BY <2>1 DEF Net, Move, Page
<1>6. jumpTo' = (IF k.kind = "jump" THEN k.n ELSE -1)
  <2>1. CASE k.kind = "jump"
    <3>1. {j.n : j \in {j \in {k} : j.kind = "jump"}} = {k.n}
      BY <2>1
    <3> QED
      BY <1>3, <2>1, <3>1
  <2>2. CASE k.kind # "jump"
    <3>1. {j.n : j \in {j \in {k} : j.kind = "jump"}} = {}
      BY <2>2
    <3> QED
      BY <1>3, <2>2, <3>1 DEF Drained
  <2> QED
    BY <2>1, <2>2
<1>7. selectPending' <=> k.kind = "enter"
  BY <1>4, Zenon DEF Drained
<1> QED
  BY <1>2, <1>5, <1>6, <1>7

(* A report of the same keys or fewer records nothing. *)
LEMMA ReportOfNone ==
    ASSUME IInv, NEW raw \in SUBSET prevRawKeys, KeyStatusHandlerRaw(raw)
    PROVE  /\ moveAccum' = moveAccum /\ pageAccum' = pageAccum /\ jumpTo' = jumpTo
           /\ selectPending' <=> selectPending
<1>1. NewKeys(raw) = {}
  BY DEF NewKeys
<1>2. Net({}, Move(1), Move(-1)) = 0 /\ Net({}, Page(1), Page(-1)) = 0
  BY DEF Net
<1>3. moveAccum' = moveAccum + 0 /\ pageAccum' = pageAccum + 0
  BY <1>1, <1>2 DEF KeyStatusHandlerRaw
<1>4. jumpTo' \in (LET jumps == {j.n : j \in {j \in {} : j.kind = "jump"}}
                   IN  IF jumps = {} THEN {jumpTo} ELSE jumps)
  BY <1>1, Zenon DEF KeyStatusHandlerRaw
<1>5. selectPending' = (selectPending \/ \E j \in {} : j.kind = "enter")
  BY <1>1, Zenon DEF KeyStatusHandlerRaw
<1>6. selectPending' <=> selectPending
  BY <1>5, Zenon DEF IInv, TypeInv
<1> QED
  BY <1>3, <1>4, <1>6 DEF IInv, TypeInv

(* A key goes down.                                                        *)
LEMMA PressKeeps ==
    ASSUME IInv, NEW k \in Keys, Press(k)
    PROVE  IInv'
<1> USE DEF IInv
<1>r. (down \cup {k}) \in SUBSET Keys /\ KeyStatusHandlerRaw((down \cup {k}))
  BY DEF TypeInv, Press
<1>h. hasty' \in BOOLEAN
  BY Zenon DEF TypeInv, Press, Recorded, AllShown, history
<1>1. TypeInv'
  <2>1. /\ reg' \in Int /\ moveAccum' \in Int /\ pageAccum' \in Int
        /\ jumpTo' \in Int /\ jumpTo' >= -1
    BY <1>r, ReportTypes DEF TypeInv, KeyStatusHandlerRaw, Press
  <2>2. batch' \in Seq(Keys) /\ script' \in Seq(Keys)
    BY DEF TypeInv, KeyStatusHandlerRaw, Press
  <2>3. /\ redraw' \in BOOLEAN /\ selectPending' \in BOOLEAN /\ hasty' \in BOOLEAN
        /\ menuFile' \in MenuFiles /\ down' \subseteq Keys
    BY <1>r, <1>h, ReportTypes, Zenon DEF TypeInv, KeyStatusHandlerRaw, Press, menuVars
  <2> QED
    BY <2>1, <2>2, <2>3 DEF TypeInv
<1>2. Phases'
  BY DEF Phases, Fresh, Press, KeyStatusHandlerRaw, LoopStates, BootStates, menuVars, count
<1>3. ScreenInv'
  BY DEF ScreenInv, Press, KeyStatusHandlerRaw, Showing, menuVars, count
<1>4. PatientInv'
  <2> SUFFICES ASSUME count' > 1, ~hasty' PROVE PatientInv'
    BY DEF PatientInv
  <2>1. /\ count > 1 /\ count' = count /\ pc' = pc /\ prevRawKeys' = down' /\ cursor' = cursor
        /\ topVisible' = topVisible /\ drawn' = drawn /\ reg' = reg /\ armed' = armed
    BY DEF Press, KeyStatusHandlerRaw, menuVars, bootVars, count
  <2>2. ~hasty
    BY Zenon DEF Press, Recorded
  <2>3. Typed'
    <3> SUFFICES ASSUME pc \in LoopStates PROVE Typed'
      BY <2>1 DEF Typed
    <3>1. /\ Drained /\ Showing
          /\ wanted' = ActedOn(Wanted(cursor, topVisible, None), k, count)
      BY <2>1, RecordedInLoop DEF Press
    <3>2. prevRawKeys = down /\ k \notin down
      BY <2>1, <2>2 DEF PatientInv, Press
    <3>3. /\ moveAccum' = (IF k.kind = "move" THEN k.n ELSE 0)
          /\ pageAccum' = (IF k.kind = "page" THEN k.n ELSE 0)
          /\ jumpTo' = (IF k.kind = "jump" THEN k.n ELSE -1)
          /\ selectPending' <=> k.kind = "enter"
      BY <1>r, <3>1, <3>2, ReportOfOne
    <3>4. Pending(k)'
      BY <2>1, <3>1, <3>3 DEF Pending, Drained, Showing
    <3> QED
      BY <3>4 DEF Typed
  <2>4. Chosen'
    <3> SUFFICES ASSUME pc \in BootStates PROVE Chosen'
      BY <2>1 DEF Chosen
    <3>1. wanted' = wanted
      BY <2>1, RecordedInBoot DEF Press
    <3> QED
      BY <2>1, <2>2, <3>1 DEF PatientInv, Chosen
  <2> QED
    BY <2>1, <2>2, <2>3, <2>4 DEF PatientInv
<1> QED
  BY <1>1, <1>2, <1>3, <1>4

(* A key goes up.                                                          *)
LEMMA ReleaseKeeps ==
    ASSUME IInv, NEW k \in Keys, Release(k)
    PROVE  IInv'
<1> USE DEF IInv
<1>r. (down \ {k}) \in SUBSET Keys /\ KeyStatusHandlerRaw((down \ {k}))
  BY DEF TypeInv, Release
<1>h. hasty' \in BOOLEAN
  BY Zenon DEF TypeInv, Release, Recorded, AllShown, history
<1>1. TypeInv'
  <2>1. /\ reg' \in Int /\ moveAccum' \in Int /\ pageAccum' \in Int
        /\ jumpTo' \in Int /\ jumpTo' >= -1
    BY <1>r, ReportTypes DEF TypeInv, KeyStatusHandlerRaw, Release
  <2>2. batch' \in Seq(Keys) /\ script' \in Seq(Keys)
    BY DEF TypeInv, KeyStatusHandlerRaw, Release
  <2>3. /\ redraw' \in BOOLEAN /\ selectPending' \in BOOLEAN /\ hasty' \in BOOLEAN
        /\ menuFile' \in MenuFiles /\ down' \subseteq Keys
    BY <1>r, <1>h, ReportTypes, Zenon DEF TypeInv, KeyStatusHandlerRaw, Release, menuVars
  <2> QED
    BY <2>1, <2>2, <2>3 DEF TypeInv
<1>2. Phases'
  BY DEF Phases, Fresh, Release, KeyStatusHandlerRaw, LoopStates, BootStates, menuVars, count
<1>3. ScreenInv'
  BY DEF ScreenInv, Release, KeyStatusHandlerRaw, Showing, menuVars, count
<1>4. PatientInv'
  <2> SUFFICES ASSUME count' > 1, ~hasty' PROVE PatientInv'
    BY DEF PatientInv
  <2>1. /\ count > 1 /\ count' = count /\ pc' = pc /\ prevRawKeys' = down' /\ cursor' = cursor
        /\ topVisible' = topVisible /\ drawn' = drawn /\ reg' = reg /\ armed' = armed
    BY DEF Release, KeyStatusHandlerRaw, menuVars, bootVars, count
  <2>2. ~hasty /\ wanted' = wanted
    BY DEF Release, history
  <2>3. Typed'
    <3>1. (down \ {k}) \in SUBSET prevRawKeys
      BY <2>1, <2>2 DEF PatientInv
    <3>2. /\ moveAccum' = moveAccum /\ pageAccum' = pageAccum /\ jumpTo' = jumpTo
          /\ selectPending' <=> selectPending
      BY <1>r, <3>1, ReportOfNone
    <3>3. CASE Drained
      BY <2>1, <2>2, <3>2, <3>3 DEF Drained, Typed
    <3>4. ASSUME NEW j \in Keys, Pending(j) PROVE Pending(j)'
      BY <2>1, <2>2, <3>2, <3>4 DEF Pending, Showing
    <3> QED
      BY <2>1, <2>2, <3>3, <3>4 DEF PatientInv, Typed
  <2>4. Chosen'
    BY <2>1, <2>2 DEF PatientInv, Chosen
  <2> QED
    BY <2>1, <2>2, <2>3, <2>4 DEF PatientInv
<1> QED
  BY <1>1, <1>2, <1>3, <1>4

-----------------------------------------------------------------------------

LEMMA StutterKeeps == IInv /\ UNCHANGED vars => IInv'
<1> SUFFICES ASSUME IInv, UNCHANGED vars PROVE IInv'
  OBVIOUS
<1> USE DEF IInv, vars, menuVars, intents, keyVars, bootVars, history
<1>1. TypeInv'
  BY DEF TypeInv
<1>2. Phases'
  BY DEF Phases, Fresh, count
<1>3. ScreenInv'
  BY DEF ScreenInv, Showing, count
<1>4. PatientInv'
  <2>1. CASE Drained
    BY <2>1 DEF Drained, PatientInv, Typed, Chosen, count
  <2>2. ASSUME NEW k \in Keys, Pending(k) PROVE Pending(k)'
    BY <2>2 DEF Pending, Showing, count
  <2> QED
    BY <2>1, <2>2 DEF PatientInv, Typed, Chosen, count
<1> QED
  BY <1>1, <1>2, <1>3, <1>4

LEMMA StepKeeps == IInv /\ [Next]_vars => IInv'
<1> SUFFICES ASSUME IInv, [Next]_vars PROVE IInv'
  OBVIOUS
<1>1. CASE Main
  <2>1. CASE Fatal
    BY <2>1, AtBootKeeps DEF Fatal, bootVars
  <2>2. CASE OpenKernel
    BY <2>2, AtBootKeeps DEF OpenKernel
  <2>3. CASE ReadKernel
    BY <2>3, AtBootKeeps DEF ReadKernel
  <2>4. CASE ArmKernel
    <3>1. armed'.index = cursor /\ AtBoot("sleep")
      BY <2>4 DEF ArmKernel
    <3> QED
      BY <3>1, AtBootKeeps
  <2> QED
    BY <1>1, <2>1, <2>2, <2>3, <2>4, LoadKeeps, PlugAndPlayKeeps, ReadSerialKeeps, InjectKeeps,
       InjectStoreKeeps, MoveReadKeeps, MoveZeroKeeps, PageReadKeeps, PageZeroKeeps, JumpReadKeeps,
       JumpZeroKeeps, DrawKeeps, SelectKeeps, ReturnKeeps DEF Main
<1>2. CASE Keyboard
  BY <1>2, PressKeeps, ReleaseKeeps DEF Keyboard
<1>3. CASE Halted \/ UNCHANGED vars
  BY <1>3, StutterKeeps DEF Halted
<1> QED
  BY <1>1, <1>2, <1>3 DEF Next

(* IInv holds in every reachable state of the main loop. *)
THEOREM InvAlways == Spec => []IInv
BY InitInv, StepKeeps, PTL DEF Spec

(* Whenever Run() may act on a selection the screen shows it, in a page    *)
(* without blank rows before the end of the list - for menus of any length *)
(* and screens of any number of rows.                                      *)
THEOREM ScreenAlwaysShowsSelection == Spec => []ScreenShowsSelection
<1>1. IInv => ScreenShowsSelection
  <2> SUFFICES ASSUME IInv, MenuShown,
                      pc \in {"plug", "serial", "inject", "move", "select", "open", "read", "sleep"}
               PROVE  /\ drawn = [cursor |-> cursor, top |-> topVisible]
                      /\ cursor < count
                      /\ drawn.top <= drawn.cursor /\ drawn.cursor < drawn.top + VisibleRows
                      /\ drawn.top + VisibleRows <= count \/ drawn.top = 0
    BY DEF ScreenShowsSelection
  <2>1. pc \in LoopStates \cup BootStates /\ pc \notin MidRound /\ count > 1 /\ count \in Nat
    BY DEF LoopStates, BootStates, MidRound, MenuShown, IInv, Phases
  <2>2. Showing /\ Visible(drawn.cursor, drawn.top, count) /\ cursor \in 0..(count - 1)
    BY <2>1 DEF IInv, ScreenInv
  <2> QED
    BY <2>1, <2>2 DEF Showing, Visible
<1> QED
  BY <1>1, InvAlways, PTL

(* Whoever waits for the screen after each key boots the entry they        *)
(* selected - whatever the menu, however many keys, and wherever in the    *)
(* loop the keyboard interrupts it.                                        *)
THEOREM PatientKeysAlwaysBoot == Spec => []PatientKeysBoot
<1>1. IInv => PatientKeysBoot
  BY DEF IInv, PatientInv, PatientKeysBoot, BootsWhatWasKeyed, MenuShown, Chosen
<1> QED
  BY <1>1, InvAlways, PTL

-----------------------------------------------------------------------------
(***************************************************************************)
(* What is armed.  RunInv follows the menu to the file it was made of, an  *)
(* Enter to the entry it chose, and the image to its last byte; it needs   *)
(* IInv for the position, and no patience of whoever types.                *)
(***************************************************************************)
PlaceInv ==
    /\ cursor \in Nat /\ topVisible \in Nat /\ drawn \in [cursor : Nat, top : Nat]
    /\ pc = "load" => menu = <<>>
    /\ pc # "load" => menu = Loaded(menuFile)
    /\ pc \in BootStates => count >= 1

KeysInv ==
    /\ jumpTo <= 8
    /\ prevRawKeys \subseteq Keys /\ down \subseteq prevRawKeys
    /\ keyboard \in BOOLEAN /\ presses \in 0..MaxPresses
    /\ keyboard => pc # "load" /\ count > 1

ChosenInv ==
    /\ wanted \in [cursor : Nat, top : Nat, chosen : Nat \cup {None}]
    /\ selectPending => wanted.chosen # None
    /\ pc \in BootStates /\ count > 1 => wanted.chosen # None

ImageInv ==
    /\ file \in Files \cup {None} /\ offset \in Nat
    /\ pc \in {"read", "sleep", "returned"} => file \in Files /\ offset <= file.size
    /\ armed # None =>
          /\ pc \in {"sleep", "returned"} /\ offset = file.size
          /\ \E text \in {None, GetString(cursor)} :
                /\ armed = [index |-> cursor, size |-> file.size, text |-> text]
                /\ text # None => cursor < count

RunInv == PlaceInv /\ KeysInv /\ ChosenInv /\ ImageInv

WantedType == [cursor : Nat, top : Nat, chosen : Nat \cup {None}]

LEMMA ScrolledType ==
    ASSUME NEW n \in Nat, NEW c \in Nat, NEW top \in Nat
    PROVE  Scrolled(c, top, n) \in Nat
BY MenuAssumption DEF Scrolled

(* A keystroke keeps a choice, and an Enter makes one. *)
LEMMA ActedOnType ==
    ASSUME NEW k \in Keys, NEW n \in Nat, n > 0, NEW w \in WantedType
    PROVE  /\ ActedOn(w, k, n) \in WantedType
           /\ w.chosen # None \/ k.kind = "enter" => ActedOn(w, k, n).chosen # None
<1>1. CASE w.chosen # None
  BY <1>1, ChosenStays
<1>2. CASE w.chosen = None
  <2>1. PICK c \in Nat, t \in Nat : w = Wanted(c, t, None)
    BY <1>2 DEF WantedType, Wanted
  <2>2. ASSUME NEW x \in Nat, NEW y \in Nat PROVE Wanted(x, y, None) \in WantedType
    BY DEF Wanted, WantedType
  <2>3. CASE k.kind = "move"
    <3>1. Moved(c, k.n, n) \in Nat
      BY KeyForms, MovedInList
    <3>2. Scrolled(Moved(c, k.n, n), t, n) \in Nat
      BY <3>1, ScrolledType
    <3>3. ActedOn(w, k, n) = Wanted(Moved(c, k.n, n), Scrolled(Moved(c, k.n, n), t, n), None)
      BY <2>1, <2>3, ActedOnForms
    <3> QED BY <1>2, <2>2, <2>3, <3>1, <3>2, <3>3
  <2>4. CASE k.kind = "page"
    <3>1. Paged(t, k.n, n) \in Nat
      BY KeyForms, PagedShows DEF Visible
    <3>2. Scrolled(Paged(t, k.n, n), Paged(t, k.n, n), n) \in Nat
      BY <3>1, ScrolledType
    <3>3. ActedOn(w, k, n) = Wanted(Paged(t, k.n, n), Scrolled(Paged(t, k.n, n), Paged(t, k.n, n), n), None)
      BY <2>1, <2>4, ActedOnForms
    <3> QED BY <1>2, <2>2, <2>4, <3>1, <3>2, <3>3
  <2>5. CASE k.kind = "jump"
    <3>1. k.n \in Nat
      BY <2>5, KeyForms
    <3>2. Scrolled(k.n, t, n) \in Nat
      BY <3>1, ScrolledType
    <3>3. ActedOn(w, k, n) \in {Wanted(k.n, Scrolled(k.n, t, n), None), Wanted(c, t, None)}
      BY <2>1, <2>5, ActedOnForms
    <3> QED BY <1>2, <2>2, <2>5, <3>1, <3>2, <3>3
  <2>6. CASE k.kind = "enter"
    <3>1. c # None
      BY MenuAssumption
    <3>2. ActedOn(w, k, n) = Wanted(c, t, c)
      BY <2>1, <2>6, ActedOnForms
    <3>3. Wanted(c, t, c) \in WantedType /\ Wanted(c, t, c).chosen = c
      BY DEF Wanted, WantedType
    <3> QED BY <3>1, <3>2, <3>3
  <2> QED BY <2>3, <2>4, <2>5, <2>6, KeyForms
<1> QED BY <1>1, <1>2

(* What the steps leave alone. *)
LEMMA LoopSteps ==
    ASSUME PlugAndPlay \/ ReadSerial \/ Inject \/ InjectStore \/ MoveRead \/ PageRead \/ JumpRead
    PROVE  /\ pc \in LoopStates /\ pc' \in LoopStates
           /\ UNCHANGED <<menuFile, menu, cursor, topVisible, drawn, bootVars>>
<1>1. CASE PlugAndPlay
  BY <1>1 DEF PlugAndPlay, menuVars, LoopStates
<1>2. CASE ReadSerial
  BY <1>2 DEF ReadSerial, menuVars, LoopStates
<1>3. CASE Inject
  BY <1>3 DEF Inject, menuVars, LoopStates
<1>4. CASE InjectStore
  BY <1>4 DEF InjectStore, menuVars, LoopStates
<1>5. CASE MoveRead
  BY <1>5 DEF MoveRead, Goto, LoopStates
<1>6. CASE PageRead
  BY <1>6 DEF PageRead, Goto, LoopStates
<1>7. CASE JumpRead
  BY <1>7 DEF JumpRead, Goto, LoopStates
<1> QED BY <1>1, <1>2, <1>3, <1>4, <1>5, <1>6, <1>7

LEMMA BootSteps ==
    ASSUME Fatal \/ OpenKernel \/ ReadKernel \/ ArmKernel \/ Return
    PROVE  /\ pc \in BootStates /\ pc' \in BootStates
           /\ UNCHANGED <<menuVars, intents, keyVars, history>>
<1>1. CASE Return
  BY <1>1 DEF Return, Goto, menuVars, BootStates
<1>2. ASSUME NEW to \in BootStates, AtBoot(to)
      PROVE  /\ pc \in BootStates /\ pc' \in BootStates
             /\ UNCHANGED <<menuVars, intents, keyVars, history>>
  BY <1>2 DEF AtBoot, BootStates
<1> QED BY <1>1, <1>2 DEF Fatal, OpenKernel, ReadKernel, ArmKernel, BootStates

LEMMA ReportSteps ==
    ASSUME NEW k \in Keys, Press(k) \/ Release(k)
    PROVE  UNCHANGED <<pc, reg, batch, script, menuVars, keyboard, bootVars>>
BY DEF Press, Release, KeyStatusHandlerRaw

-----------------------------------------------------------------------------

LEMMA InitRun == Init => RunInv
<1> SUFFICES ASSUME Init PROVE RunInv
  OBVIOUS
<1>1. PlaceInv
  BY DEF Init, PlaceInv, BootStates
<1>2. KeysInv
  <2>1. jumpTo <= 8 /\ presses \in 0..MaxPresses
    BY MenuAssumption DEF Init
  <2>2. ~keyboard /\ prevRawKeys = {} /\ down = {} /\ keyboard \in BOOLEAN
    BY DEF Init
  <2> QED BY <2>1, <2>2 DEF KeysInv
<1>3. ChosenInv
  BY DEF Init, ChosenInv, BootStates
<1>4. ImageInv
  BY DEF Init, ImageInv
<1> QED BY <1>1, <1>2, <1>3, <1>4 DEF RunInv

(* The position stays a position of the menu that was made of the file.    *)
LEMMA PlaceKept ==
    ASSUME IInv, RunInv, [Next]_vars
    PROVE  PlaceInv'
<1> DEFINE Same == UNCHANGED <<menuFile, menu, cursor, topVisible, drawn>>
<1>p. PlaceInv
  BY DEF RunInv
<1>l. pc \in LoopStates => pc # "load" /\ count \in Nat /\ count > 1 /\ menu = Loaded(menuFile)
  BY <1>p DEF IInv, Phases, PlaceInv, LoopStates
<1>q. ASSUME Same, pc \in LoopStates, pc' \in LoopStates PROVE PlaceInv'
  BY <1>p, <1>q DEF PlaceInv, LoopStates, BootStates, count
<1>1. CASE Load
  <2>1. pc = "load" /\ cursor = 0 /\ topVisible = 0 /\ cursor' = 0 /\ menuFile' = menuFile
    BY <1>1 DEF Load, IInv, Phases, Fresh
  <2>2. menu' = Loaded(menuFile') /\ pc' # "load"
    BY <1>1, <2>1 DEF Load
  <2>3. count' \in Nat
    BY <1>1, <2>1, LoadKeeps DEF Load, IInv, Phases
  <2>4. pc' \in BootStates => count' >= 1
    BY <1>1, <2>3 DEF Load, OneEntry, BootStates
  <2>5. \/ topVisible' = 0 /\ drawn' = drawn
        \/ topVisible' = Scrolled(0, 0, count') /\ drawn' = [cursor |-> 0, top |-> topVisible']
    BY <1>1, <2>1 DEF Load, DrawMenu
  <2>6. topVisible' \in Nat
    <3>1. Scrolled(0, 0, count') \in Nat
      BY <2>3, ScrolledType
    <3> QED BY <2>5, <3>1
  <2>7. drawn' \in [cursor : Nat, top : Nat]
    BY <1>p, <2>5, <2>6 DEF PlaceInv
  <2> QED BY <2>1, <2>2, <2>4, <2>6, <2>7 DEF PlaceInv
<1>2. CASE PlugAndPlay \/ ReadSerial \/ Inject \/ InjectStore \/ MoveRead \/ PageRead \/ JumpRead
  BY <1>2, <1>q, LoopSteps
<1>3. ASSUME Goto(pc, pc'), pc \in LoopStates, pc' \in LoopStates,
             cursor' \in Nat, topVisible' \in Nat, drawn' \in [cursor : Nat, top : Nat]
      PROVE  PlaceInv'
  BY <1>3, <1>l DEF PlaceInv, Goto, LoopStates, BootStates
<1>4. CASE MoveZero
  <2>1. cursor' = Moved(cursor, reg, count) /\ topVisible' = topVisible /\ drawn' = drawn
        /\ Goto(pc, pc') /\ pc \in LoopStates /\ pc' \in LoopStates
    BY <1>4 DEF MoveZero, Place, Goto, LoopStates
  <2>2. cursor' \in Nat
    <3>1. PICK n \in Nat : n = count /\ n > 0
      BY <1>l, <2>1
    <3>2. reg \in Int /\ cursor \in Int
      BY <1>p DEF IInv, TypeInv, PlaceInv
    <3>3. Moved(cursor, reg, n) \in 0..(n - 1)
      BY <3>1, <3>2, MovedInList
    <3> QED BY <2>1, <3>1, <3>3
  <2> QED BY <1>3, <1>p, <2>1, <2>2 DEF PlaceInv
<1>5. CASE PageZero
  <2>1. cursor' = Paged(topVisible, reg, count) /\ topVisible' = cursor' /\ drawn' = drawn
        /\ Goto(pc, pc') /\ pc \in LoopStates /\ pc' \in LoopStates
    BY <1>5 DEF PageZero, Place, Goto, LoopStates
  <2>2. cursor' \in Nat
    <3>1. PICK n \in Nat : n = count /\ n > 0
      BY <1>l, <2>1
    <3>2. reg \in Int /\ topVisible \in Int
      BY <1>p DEF IInv, TypeInv, PlaceInv
    <3>3. Visible(Paged(topVisible, reg, n), Paged(topVisible, reg, n), n)
      BY <3>1, <3>2, PagedShows
    <3> QED BY <2>1, <3>1, <3>3 DEF Visible
  <2> QED BY <1>3, <1>p, <2>1, <2>2 DEF PlaceInv
<1>6. CASE JumpZero
  <2>1. cursor' \in {reg, cursor} /\ topVisible' = topVisible /\ drawn' = drawn
        /\ Goto(pc, pc') /\ pc \in LoopStates /\ pc' \in LoopStates /\ pc = "jumpZero"
    BY <1>6 DEF JumpZero, Place, Goto, LoopStates
  <2>2. reg \in Nat
    BY <2>1 DEF IInv, TypeInv, Phases
  <2> QED BY <1>3, <1>p, <2>1, <2>2 DEF PlaceInv
<1>7. CASE Draw
  <2>1. /\ Goto(pc, pc') /\ pc \in LoopStates /\ pc' \in LoopStates /\ cursor' = cursor
        /\ count' = count
    BY <1>7 DEF Draw, Goto, LoopStates, count
  <2>2. \/ topVisible' = topVisible /\ drawn' = drawn
        \/ topVisible' = Scrolled(cursor, topVisible, count) /\ drawn' = [cursor |-> cursor, top |-> topVisible']
    BY <1>7, <2>1 DEF Draw, DrawMenu
  <2>3. topVisible' \in Nat
    <3>1. PICK n \in Nat : n = count
      BY <1>l, <2>1
    <3>2. Scrolled(cursor, topVisible, n) \in Nat
      BY <1>p, ScrolledType DEF PlaceInv
    <3> QED BY <1>p, <2>2, <3>1, <3>2 DEF PlaceInv
  <2> QED BY <1>3, <1>p, <2>1, <2>2, <2>3 DEF PlaceInv
<1>8. CASE Select
  BY <1>8, <1>l, <1>p DEF Select, Goto, PlaceInv, LoopStates, BootStates, count
<1>9. CASE Fatal \/ OpenKernel \/ ReadKernel \/ ArmKernel \/ Return
  <2>1. Same /\ pc \in BootStates /\ pc' \in BootStates
    BY <1>9, BootSteps DEF menuVars
  <2> QED BY <2>1, <1>p DEF PlaceInv, BootStates, count
<1>10. CASE Keyboard \/ Halted \/ UNCHANGED vars
  <2>1. Same /\ pc' = pc
    BY <1>10, ReportSteps DEF Keyboard, Halted, vars, menuVars
  <2> QED BY <2>1, <1>p DEF PlaceInv, count
<1> QED
  BY <1>1, <1>2, <1>4, <1>5, <1>6, <1>7, <1>8, <1>9, <1>10 DEF Next, Main

(* The reports and the console leave intents of Keys. *)
LEMMA KeysKept ==
    ASSUME IInv, RunInv, [Next]_vars
    PROVE  KeysInv'
<1>k. KeysInv
  BY DEF RunInv
<1>l. pc \in LoopStates => pc # "load" /\ count > 1
  BY DEF IInv, Phases, LoopStates
<1>q. ASSUME UNCHANGED <<keyVars, menu>>, jumpTo' \in {jumpTo, -1},
             pc' # "load" \/ pc' = pc
      PROVE  KeysInv'
  <2>1. jumpTo' <= 8
    BY <1>k, <1>q DEF KeysInv
  <2> QED BY <1>k, <1>q, <2>1 DEF KeysInv, keyVars, count
<1>1. CASE Load
  <2>1. UNCHANGED keyVars /\ jumpTo' = jumpTo /\ ~keyboard
    BY <1>1 DEF Load, intents, IInv, Phases, Fresh
  <2> QED BY <1>k, <2>1 DEF KeysInv, keyVars
<1>2. CASE PlugAndPlay
  <2>1. /\ pc \in LoopStates /\ pc' \in LoopStates /\ menu' = menu
        /\ UNCHANGED <<jumpTo, prevRawKeys, presses>>
        /\ down' = down \/ down' = {}
    BY <1>2 DEF PlugAndPlay, LoopStates, menuVars, intents
  <2>2. keyboard' \in BOOLEAN
    BY <1>2, <1>k DEF PlugAndPlay, KeysInv
  <2>3. count' = count /\ pc' # "load"
    BY <2>1 DEF count, LoopStates
  <2> QED BY <1>k, <1>l, <2>1, <2>2, <2>3 DEF KeysInv
<1>3. CASE Inject
  <2>1. UNCHANGED <<keyVars, menu>> /\ pc' # "load"
    BY <1>3 DEF Inject, menuVars
  <2>2. jumpTo' = jumpTo \/ (batch # <<>> /\ Head(batch).kind = "jump" /\ jumpTo' = Head(batch).n)
    BY <1>3 DEF Inject
  <2>3. jumpTo' <= 8
    <3>1. CASE batch # <<>> /\ Head(batch).kind = "jump" /\ jumpTo' = Head(batch).n
      <4>1. Head(batch) \in Keys
        BY <3>1 DEF IInv, TypeInv
      <4> QED BY <3>1, <4>1, KeyForms
    <3> QED BY <1>k, <2>2, <3>1 DEF KeysInv
  <2> QED BY <1>k, <2>1, <2>3 DEF KeysInv, keyVars, count
<1>4. CASE ReadSerial
  BY <1>4, <1>q DEF ReadSerial, menuVars, intents
<1>5. CASE InjectStore
  BY <1>5, <1>q DEF InjectStore, menuVars
<1>6. CASE MoveRead \/ PageRead \/ JumpRead
  BY <1>6, <1>q DEF MoveRead, PageRead, JumpRead, Goto, intents
<1>7. CASE MoveZero \/ PageZero \/ JumpZero
  BY <1>7, <1>q DEF MoveZero, PageZero, JumpZero, Goto
<1>8. CASE Draw
  BY <1>8, <1>q DEF Draw, Goto, intents
<1>9. CASE Select
  BY <1>9, <1>q DEF Select, Goto
<1>10. CASE Fatal \/ OpenKernel \/ ReadKernel \/ ArmKernel \/ Return
  <2>1. UNCHANGED <<keyVars, menu>> /\ jumpTo' = jumpTo /\ pc' # "load"
    BY <1>10, BootSteps DEF menuVars, intents, BootStates
  <2> QED BY <1>q, <2>1
<1>11. CASE Keyboard
  <2>1. PICK k \in Keys : Press(k) \/ Release(k)
    BY <1>11 DEF Keyboard
  <2>2. PICK raw \in SUBSET Keys : KeyStatusHandlerRaw(raw)
    <3>1. (down \cup {k}) \in SUBSET Keys /\ (down \ {k}) \in SUBSET Keys
      BY DEF IInv, TypeInv
    <3> QED BY <2>1, <3>1 DEF Press, Release
  <2>3. jumpTo' <= 8
    <3>1. jumpTo' \in {jumpTo} \cup 0..8
      BY <2>2, ReportTypes
    <3> QED BY <1>k, <3>1 DEF KeysInv
  <2>4. prevRawKeys' = raw /\ down' = raw /\ keyboard' = keyboard
    BY <2>2 DEF KeyStatusHandlerRaw
  <2>5. presses' \in 0..MaxPresses
    <3>1. presses \in 0..MaxPresses /\ MaxPresses \in Nat
      BY <1>k, MenuAssumption DEF KeysInv
    <3> QED BY <2>1, <3>1 DEF Press, Release
  <2>6. pc' = pc /\ count' = count
    BY <2>1, ReportSteps DEF menuVars, count
  <2> QED BY <1>k, <2>3, <2>4, <2>5, <2>6 DEF KeysInv
<1>12. CASE Halted \/ UNCHANGED vars
  BY <1>12, <1>q DEF Halted, vars, menuVars, intents
<1> QED
  BY <1>1, <1>2, <1>3, <1>4, <1>5, <1>6, <1>7, <1>8, <1>9, <1>10, <1>11, <1>12 DEF Next, Main

(* An Enter that is on its way has chosen. *)
LEMMA RecordedChooses ==
    ASSUME ChosenInv, count \in Nat, count > 0, NEW k \in Keys, Recorded(k)
    PROVE  /\ wanted' \in WantedType
           /\ wanted.chosen # None \/ k.kind = "enter" => wanted'.chosen # None
<1>1. wanted \in WantedType /\ wanted' = ActedOn(wanted, k, count)
  BY DEF ChosenInv, WantedType, Recorded
<1> QED BY <1>1, ActedOnType

LEMMA ChosenKept ==
    ASSUME IInv, RunInv, [Next]_vars
    PROVE  ChosenInv'
<1>c. ChosenInv
  BY DEF RunInv
<1>l. pc \in LoopStates => count \in Nat /\ count > 0 /\ pc \notin BootStates
  BY DEF IInv, Phases, LoopStates, BootStates
<1>q. ASSUME UNCHANGED <<wanted, selectPending, menu>>, pc' \in BootStates => pc \in BootStates
      PROVE  ChosenInv'
  BY <1>c, <1>q DEF ChosenInv, count
<1>r. ASSUME NEW k \in Keys, Recorded(k), count \in Nat, count > 0, menu' = menu,
             selectPending' => selectPending \/ k.kind = "enter",
             pc' \in BootStates => pc \in BootStates
      PROVE  ChosenInv'
  <2>1. wanted' \in WantedType /\ (wanted.chosen # None \/ k.kind = "enter" => wanted'.chosen # None)
    BY <1>c, <1>r, RecordedChooses
  <2> QED BY <1>c, <1>r, <2>1 DEF ChosenInv, WantedType, count
<1>1. CASE Load
  <2>1. wanted' = wanted /\ selectPending' = selectPending /\ ~selectPending
    BY <1>1 DEF Load, history, intents, IInv, Phases, Fresh
  <2>2. pc' \in BootStates => count' = 1
    BY <1>1 DEF Load, OneEntry, BootStates
  <2> QED BY <1>c, <2>1, <2>2 DEF ChosenInv
<1>2. CASE PlugAndPlay
  BY <1>2, <1>q DEF PlugAndPlay, menuVars, intents, BootStates
<1>3. CASE ReadSerial
  BY <1>3, <1>q DEF ReadSerial, menuVars, intents, history, BootStates
<1>4. CASE Inject
  <2>1. /\ pc \in LoopStates /\ menu' = menu /\ pc' \notin BootStates
        /\ \/ UNCHANGED <<wanted, selectPending>>
           \/ /\ batch # <<>> /\ Recorded(Head(batch))
              /\ selectPending' = (selectPending \/ Head(batch).kind = "enter")
    BY <1>4 DEF Inject, LoopStates, BootStates, menuVars, history
  <2>2. CASE UNCHANGED <<wanted, selectPending>>
    BY <1>q, <2>1, <2>2
  <2>3. CASE batch # <<>> /\ Recorded(Head(batch))
             /\ selectPending' = (selectPending \/ Head(batch).kind = "enter")
    <3>1. Head(batch) \in Keys
      BY <2>3 DEF IInv, TypeInv
    <3> QED BY <1>l, <1>r, <2>1, <2>3, <3>1
  <2> QED BY <2>1, <2>2, <2>3
<1>5. CASE InjectStore
  <2>1. /\ pc = "injectStore" /\ pc \in LoopStates /\ menu' = menu /\ pc' \notin BootStates
        /\ selectPending' = selectPending /\ Recorded(Head(batch))
    BY <1>5 DEF InjectStore, LoopStates, BootStates, menuVars
  <2>2. Head(batch) \in Keys
    BY <2>1 DEF IInv, TypeInv, Phases
  <2> QED BY <1>l, <1>r, <2>1, <2>2
<1>6. CASE MoveRead \/ PageRead \/ JumpRead
  BY <1>6, <1>q DEF MoveRead, PageRead, JumpRead, Goto, intents, history, BootStates
<1>7. CASE MoveZero \/ PageZero \/ JumpZero
  BY <1>7, <1>q DEF MoveZero, PageZero, JumpZero, Goto, Place, history, BootStates
<1>8. CASE Draw
  BY <1>8, <1>q DEF Draw, Goto, intents, history, BootStates
<1>9. CASE Select
  <2>1. /\ wanted' = wanted /\ ~selectPending'
        /\ pc' \in BootStates => selectPending
    BY <1>9 DEF Select, Goto, TakesEnter, history, BootStates
  <2> QED BY <1>c, <2>1 DEF ChosenInv
<1>10. CASE Fatal \/ OpenKernel \/ ReadKernel \/ ArmKernel \/ Return
  BY <1>10, <1>q, BootSteps DEF menuVars, intents, history
<1>11. ASSUME NEW k \in Keys, Press(k) PROVE ChosenInv'
  <2>1. keyboard /\ pc' = pc /\ menu' = menu /\ Recorded(k) /\ KeyStatusHandlerRaw(down \cup {k})
    BY <1>11 DEF Press, KeyStatusHandlerRaw, menuVars
  <2>2. count \in Nat /\ count > 0
    BY <2>1 DEF RunInv, KeysInv, IInv, Phases
  <2>3. NewKeys(down \cup {k}) \subseteq {k}
    BY DEF NewKeys, RunInv, KeysInv
  <2>4. selectPending' => selectPending \/ k.kind = "enter"
    BY <2>1, <2>3, Zenon DEF KeyStatusHandlerRaw
  <2> QED BY <1>r, <2>1, <2>2, <2>4
<1>12. ASSUME NEW k \in Keys, Release(k) PROVE ChosenInv'
  <2>1. /\ pc' = pc /\ menu' = menu /\ wanted' = wanted /\ KeyStatusHandlerRaw(down \ {k})
    BY <1>12 DEF Release, KeyStatusHandlerRaw, menuVars, history
  <2>2. (down \ {k}) \in SUBSET prevRawKeys
    BY DEF RunInv, KeysInv
  <2>3. selectPending' <=> selectPending
    BY <2>1, <2>2, ReportOfNone
  <2> QED BY <1>c, <2>1, <2>3 DEF ChosenInv, count
<1>13. CASE Halted \/ UNCHANGED vars
  BY <1>13, <1>q DEF Halted, vars, menuVars, intents, history
<1> QED
  BY <1>1, <1>2, <1>3, <1>4, <1>5, <1>6, <1>7, <1>8, <1>9, <1>10, <1>11, <1>12, <1>13
  DEF Next, Main, Keyboard

(* The image is armed at its last byte, for the entry the cursor is on. *)
LEMMA ImageKept ==
    ASSUME IInv, RunInv, [Next]_vars
    PROVE  ImageInv'
<1>i. ImageInv
  BY DEF RunInv
<1>q. ASSUME UNCHANGED bootVars, pc \notin {"sleep", "returned"},
             pc' \notin {"read", "sleep", "returned"}
      PROVE  ImageInv'
  BY <1>i, <1>q DEF ImageInv, bootVars
<1>s. ASSUME UNCHANGED <<bootVars, menu, cursor>>,
             pc' = pc \/ (pc = "sleep" /\ pc' = "returned")
      PROVE  ImageInv'
  BY <1>i, <1>s DEF ImageInv, bootVars, count, GetString
<1>1. CASE Load
  BY <1>1, <1>q DEF Load
<1>2. CASE PlugAndPlay \/ ReadSerial \/ Inject \/ InjectStore \/ MoveRead \/ PageRead \/ JumpRead
  BY <1>2, <1>q, LoopSteps DEF LoopStates
<1>3. CASE MoveZero \/ PageZero \/ JumpZero
  BY <1>3, <1>q DEF MoveZero, PageZero, JumpZero, Goto
<1>4. CASE Draw
  BY <1>4, <1>q DEF Draw, Goto
<1>5. CASE Select
  BY <1>5, <1>q DEF Select, Goto
<1>6. CASE Fatal
  BY <1>6, <1>q DEF Fatal, AtBoot
<1>7. CASE OpenKernel
  <2>1. pc = "open" /\ pc' = "read" /\ file' \in Files /\ offset' = 0 /\ armed' = armed
    BY <1>7 DEF OpenKernel, AtBoot
  <2>2. armed' = None
    BY <1>i, <2>1 DEF ImageInv
  <2>3. 0 <= file'.size
    BY <2>1, MenuAssumption
  <2> QED BY <2>1, <2>2, <2>3 DEF ImageInv
<1>8. CASE ReadKernel
  <2>1. pc = "read" /\ pc' = "read" /\ file' = file /\ armed' = armed
    BY <1>8 DEF ReadKernel, AtBoot
  <2>2. armed' = None /\ file' \in Files
    BY <1>i, <2>1 DEF ImageInv
  <2>3. PICK size \in Nat : size = file.size
    BY <2>1, <2>2, MenuAssumption
  <2>4. PICK n \in 1..(size - offset) : offset' = offset + n
    BY <1>8, <2>3 DEF ReadKernel
  <2>5. offset' \in Nat /\ offset' <= size
    BY <1>i, <2>4 DEF ImageInv
  <2> QED BY <2>1, <2>2, <2>3, <2>5 DEF ImageInv
<1>9. CASE ArmKernel
  <2>1. /\ pc = "read" /\ pc' = "sleep" /\ offset = file.size /\ UNCHANGED <<file, offset, cursor, menu>>
    BY <1>9 DEF ArmKernel, AtBoot, ReadToTheEnd, menuVars
  <2>2. file' \in Files /\ offset' \in Nat /\ offset' <= file'.size
    BY <1>i, <2>1 DEF ImageInv
  <2>3. PICK text \in {None, GetString(cursor)} :
           /\ armed' = [index |-> cursor, size |-> file.size, text |-> text]
           /\ text # None => GetString(cursor) # <<>>
    BY <1>9 DEF ArmKernel
  <2>4. text # None => cursor < count
    BY <2>3 DEF GetString
  <2> QED BY <2>1, <2>2, <2>3, <2>4 DEF ImageInv, count, GetString
<1>10. CASE Return
  BY <1>10, <1>s DEF Return, Goto
<1>11. CASE Keyboard \/ Halted \/ UNCHANGED vars
  <2>1. pc' = pc /\ UNCHANGED <<bootVars, menu, cursor>>
    BY <1>11, ReportSteps DEF Keyboard, Halted, vars, menuVars
  <2> QED BY <1>s, <2>1
<1> QED
  BY <1>1, <1>2, <1>3, <1>4, <1>5, <1>6, <1>7, <1>8, <1>9, <1>10, <1>11 DEF Next, Main

(* RunInv holds in every reachable state of the main loop. *)
THEOREM RunInvAlways == Spec => []RunInv
<1>1. IInv /\ RunInv /\ [Next]_vars => RunInv'
  BY PlaceKept, KeysKept, ChosenKept, ImageKept DEF RunInv
<1> QED
  BY <1>1, InitRun, InvAlways, PTL DEF Spec

(* The menu that was loaded is the file's: as many entries as it has, up   *)
(* to MaxEntries, and each with the string of its line.                    *)
LEMMA MenuHeld ==
    ASSUME IInv, RunInv, pc # "load"
    PROVE  LET n == Cardinality(EntryLines(menuFile)) IN
           /\ n \in Nat
           /\ count = IF n < MaxEntries THEN n ELSE MaxEntries
           /\ \A i \in 1..count :
                 /\ Len(menu[i].label) < MaxLabel /\ Len(menu[i].string) < MaxString
                 /\ \E p \in EntryLines(menuFile) :
                       /\ EntriesUpTo(menuFile, p) = i
                       /\ IsStringOf(menuFile[p], menu[i].string)
<1>1. menuFile \in FileType \cup {Missing} /\ menu = Loaded(menuFile)
  BY MenuAssumption DEF IInv, TypeInv, RunInv, PlaceInv, FileType, LineType
<1>2. ASSUME NEW i \in 1..count
      PROVE  /\ Len(menu[i].label) < MaxLabel /\ Len(menu[i].string) < MaxString
             /\ \E p \in EntryLines(menuFile) :
                   /\ EntriesUpTo(menuFile, p) = i
                   /\ IsStringOf(menuFile[p], menu[i].string)
  <2>1. PICK p \in EntryLines(menuFile) :
           /\ EntriesUpTo(menuFile, p) = i
           /\ menuFile[p] \in LineType /\ Usable(menuFile[p])
           /\ menu[i] = EntryOf(menuFile[p])
    BY <1>1, MenuIsTheFile DEF count
  <2>2. IsStringOf(menuFile[p], EntryOf(menuFile[p]).string)
    BY <2>1, StringIs
  <2>3. /\ Len(EntryOf(menuFile[p]).label) < MaxLabel
        /\ Len(EntryOf(menuFile[p]).string) < MaxString
    BY <2>1, EntryTypes
  <2> QED BY <2>1, <2>2, <2>3
<1> QED BY <1>1, <1>2, MenuIsTheFile DEF count

(* Every variable has its type, whatever is typed and whatever the card    *)
(* holds: the menu never outgrows MaxEntries, nor an entry its buffers.    *)
THEOREM TypesAlwaysHold == Spec => []TypeOK
<1>1. ASSUME IInv, RunInv PROVE TypeOK
  <2>1. /\ reg \in Int /\ moveAccum \in Int /\ pageAccum \in Int /\ jumpTo \in -1..8
    BY <1>1 DEF IInv, TypeInv, RunInv, KeysInv
  <2>2. batch \in Seq(Keys) /\ script \in Seq(Keys) /\ menuFile \in MenuFiles
    BY <1>1 DEF IInv, TypeInv
  <2>3. /\ count \in 0..MaxEntries
        /\ \A i \in 1..count : Len(menu[i].label) < MaxLabel /\ Len(menu[i].string) < MaxString
    <3>1. CASE pc = "load"
      BY <1>1, <3>1, BootMenuAssumption DEF RunInv, PlaceInv, count
    <3>2. CASE pc # "load"
      <4>1. PICK n \in Nat : count = IF n < MaxEntries THEN n ELSE MaxEntries
        BY <1>1, <3>2, MenuHeld
      <4>2. count \in 0..MaxEntries
        BY <4>1, BootMenuAssumption
      <4> QED BY <1>1, <3>2, <4>2, MenuHeld
    <3> QED BY <3>1, <3>2
  <2>4. cursor \in Nat /\ topVisible \in Nat /\ drawn \in [cursor : Nat, top : Nat]
    BY <1>1 DEF RunInv, PlaceInv
  <2>5. /\ redraw \in BOOLEAN /\ selectPending \in BOOLEAN /\ keyboard \in BOOLEAN
        /\ hasty \in BOOLEAN
    BY <1>1, Zenon DEF IInv, TypeInv, RunInv, KeysInv
  <2>6. prevRawKeys \subseteq Keys /\ down \subseteq Keys /\ presses \in 0..MaxPresses
    BY <1>1 DEF RunInv, KeysInv
  <2>7. file \in Files \cup {None} /\ offset \in Nat
    BY <1>1 DEF RunInv, ImageInv
  <2>8. armed = None \/ (armed.index \in Nat /\ armed.size \in Nat)
    BY <1>1, <2>4, <2>7 DEF RunInv, ImageInv
  <2>9. pc \in {"load", "idle", "plug", "serial", "inject", "injectStore", "move", "moveZero",
                "page", "pageZero", "jump", "jumpZero", "draw", "select",
                "open", "read", "fatal", "sleep", "returned"}
    BY <1>1 DEF IInv, Phases, LoopStates, BootStates
  <2> QED BY <2>1, <2>2, <2>3, <2>4, <2>5, <2>6, <2>7, <2>8, <2>9 DEF TypeOK
<1> QED
  BY <1>1, InvAlways, RunInvAlways, PTL

(* What is armed is the whole image, for the entry on the screen, with the *)
(* string of that entry's own line of bootmenu.cfg, however long the file  *)
(* and whatever lines of it do not count.                                  *)
THEOREM ArmedIsAlwaysSelection == Spec => []ArmedIsSelection
<1>1. ASSUME IInv, RunInv, armed # None
      PROVE  /\ armed.size = file.size /\ offset = file.size
             /\ armed.index = cursor
             /\ MenuShown => armed.index = drawn.cursor
             /\ armed.text # None =>
                   \E p \in EntryLines(menuFile) :
                       EntriesUpTo(menuFile, p) = cursor + 1 /\ IsStringOf(menuFile[p], armed.text)
  <2>1. pc \in {"sleep", "returned"} /\ offset = file.size
    BY <1>1 DEF RunInv, ImageInv
  <2>2. PICK text \in {None, GetString(cursor)} :
           /\ armed = [index |-> cursor, size |-> file.size, text |-> text]
           /\ text # None => cursor < count
    BY <1>1 DEF RunInv, ImageInv
  <2>3. MenuShown => cursor = drawn.cursor
    BY <1>1, <2>1 DEF MenuShown, IInv, ScreenInv, Showing, BootStates, MidRound
  <2>4. ASSUME text # None
        PROVE  \E p \in EntryLines(menuFile) :
                   EntriesUpTo(menuFile, p) = cursor + 1 /\ IsStringOf(menuFile[p], text)
    <3>1. cursor + 1 \in 1..count /\ text = menu[cursor + 1].string
      BY <1>1, <2>1, <2>2, <2>4 DEF GetString, RunInv, PlaceInv, IInv, Phases
    <3> QED BY <1>1, <2>1, <3>1, MenuHeld
  <2> QED BY <2>1, <2>2, <2>3, <2>4
<1> QED
  BY <1>1, InvAlways, RunInvAlways, PTL DEF ArmedIsSelection

(* Without an Enter only the entry of a file with no other is armed, and   *)
(* of a file without entries, or that cannot be read, nothing ever is.     *)
THEOREM NothingEverBootsUnasked == Spec => []NothingBootsUnasked
<1>1. ASSUME IInv, RunInv, armed # None
      PROVE  LET n == Cardinality(EntryLines(menuFile))
             IN  n = 1 \/ (n > 1 /\ wanted.chosen # None)
  <2>1. pc \in BootStates /\ pc # "load"
    BY <1>1 DEF RunInv, ImageInv, BootStates
  <2>2. PICK n \in Nat : /\ n = Cardinality(EntryLines(menuFile))
                         /\ count = IF n < MaxEntries THEN n ELSE MaxEntries
    BY <1>1, <2>1, MenuHeld
  <2>3. count >= 1 /\ (count > 1 => wanted.chosen # None)
    BY <1>1, <2>1 DEF RunInv, PlaceInv, ChosenInv
  <2>4. n = 1 \/ (n > 1 /\ wanted.chosen # None)
    BY <2>2, <2>3, BootMenuAssumption
  <2> QED BY <2>2, <2>4
<1> QED
  BY <1>1, InvAlways, RunInvAlways, PTL DEF NothingBootsUnasked

=============================================================================
