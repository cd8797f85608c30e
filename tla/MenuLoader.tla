----------------------------- MODULE MenuLoader ----------------------------
(***************************************************************************)
(* menu-loader/kernel.cpp: the boot picker's main loop, CKernel::Run(),    *)
(* interleaved with the keyboard's interrupt handler.                      *)
(*                                                                         *)
(* KeyStatusHandlerRaw() runs in interrupt context on the core of the main *)
(* loop and is never interrupted by it, so it is one action.  The main     *)
(* loop can be interrupted between any two of its accesses to the four     *)
(* "intents" the handler records, so each read of one and each write that  *)
(* depends on the read is an action of its own; "reg" is the local copy    *)
(* (nMove, nPage, nJump, or the register of a ++).  The serial console's   *)
(* bytes are read and recorded by the main loop itself.                    *)
(***************************************************************************)
EXTENDS BootMenu

CONSTANTS
    MenuFiles,     \* bootmenu.cfg: sequences of lines, or Missing
    VisibleRows,   \* VisibleRows(), at least one
    Keys,          \* the intents a key or a byte of the serial console stands for
    Scripts,       \* what a serial console may send
    InjBufSize,    \* sizeof InjBuf: 32
    KeySlots,      \* keys a raw report has room for: 6
    MaxPresses,    \* bound: keystrokes typed
    Files,         \* kernel images the card may hold: [size, capacity]
    DefaultsEnd,   \* the size an image needs to hold a 0x800 block
    None

VARIABLES
    pc,             \* where Run() is
    reg,            \* the local copy of the intent being drained
    batch,          \* InjBuf, what is left of it
    script,         \* what the console has not sent yet
    menuFile,       \* the bootmenu.cfg that was read
    menu,           \* m_Menu
    cursor,         \* m_nCursor
    topVisible,     \* m_nTopVisible
    redraw,         \* bRedraw
    drawn,          \* what DrawMenu() put on the screen last
    moveAccum, pageAccum, jumpTo, selectPending,   \* the intents
    keyboard,       \* m_pKeyboard # 0, its handlers registered
    prevRawKeys,    \* m_PrevRawKeys
    down,           \* the last report of the keyboard attached now
    presses,        \* keystrokes typed
    file, offset,   \* the open image and nOffset
    armed,          \* what EnableChainBoot() was given
    wanted,         \* history: the menu if each keystroke were acted on at once
    hasty           \* history: has a keystroke not waited for the screen?

Block == INSTANCE DefaultsBlock WITH
            DefaultsBlockOffset <- DefaultsEnd - 1, HeaderBytes <- 0,
            DefaultsBufferBytes <- 1, NUL <- None

ASSUME MenuAssumption ==
    /\ MenuFiles \subseteq Seq(Seq(Chars)) \cup {Missing}
    /\ VisibleRows \in Nat \ {0}
    /\ Keys \subseteq [kind : {"move", "page"}, n : {-1, 1}]
                 \cup [kind : {"jump"}, n : 0..8] \cup [kind : {"enter"}, n : {0}]
    /\ Scripts \subseteq Seq(Keys) /\ InjBufSize \in Nat
    /\ KeySlots \in Nat /\ MaxPresses \in Nat
    /\ \A f \in Files : f.size \in Nat \ {0} /\ f.capacity \in Nat
    /\ DefaultsEnd \in Nat \ {0}
    /\ None \notin Nat

intents  == <<moveAccum, pageAccum, jumpTo, selectPending>>
menuVars == <<menuFile, menu, cursor, topVisible, redraw, drawn>>
keyVars  == <<keyboard, prevRawKeys, down, presses>>
bootVars == <<file, offset, armed>>
history  == <<wanted, hasty>>
vars == <<pc, reg, batch, script, menuVars, intents, keyVars, bootVars, history>>

(* m_Menu.GetCount() and GetString(), whose null stamps as little as "".   *)
count == Len(menu)
GetString(nIndex) == IF nIndex < count THEN menu[nIndex + 1].string ELSE <<>>

-----------------------------------------------------------------------------
(* What a drained intent does to the menu. *)

(* DrawMenu: the window top for cursor c in a list of n entries, moved the *)
(* least that keeps the cursor visible and never past a full last page.    *)
Scrolled(c, top, n) ==
    LET follow == IF c < top THEN c
                  ELSE IF c >= top + VisibleRows THEN c - VisibleRows + 1 ELSE top
    IN  IF n <= VisibleRows THEN 0 ELSE IF follow > n - VisibleRows THEN n - VisibleRows ELSE follow

(* Mutant: the position is not held against the top of the list. *)
ClampedAbove(i, max) == IF i > max THEN max ELSE i

Clamped(i, max) == IF i < 0 THEN 0 ELSE IF i > max THEN max ELSE i

(* The cursor nMove entries further on. *)
Moved(c, nMove, n) == Clamped(c + nMove, n - 1)

(* The window top nPage pages further on. *)
Paged(top, nPage, n) ==
    Clamped(top + nPage * VisibleRows, IF n > VisibleRows THEN n - VisibleRows ELSE 0)

(* The menu of n entries after one keystroke that is acted on before the   *)
(* next.                                                                   *)
ActedOn(w, k, n) ==
    LET at(c, top) == [cursor |-> c, top |-> Scrolled(c, top, n), chosen |-> None]
        page       == Paged(w.top, k.n, n)
    IN  CASE w.chosen # None                         -> w
          [] w.chosen = None /\ k.kind = "move"      -> at(Moved(w.cursor, k.n, n), w.top)
          [] w.chosen = None /\ k.kind = "page"      -> at(page, page)
          [] w.chosen = None /\ k.kind = "jump"      -> IF k.n < n THEN at(k.n, w.top) ELSE w
          [] w.chosen = None /\ k.kind = "enter"     -> [w EXCEPT !.chosen = w.cursor]

(* Nothing is left to do, and the screen shows what was done. *)
AllShown ==
    /\ moveAccum = 0 /\ pageAccum = 0 /\ jumpTo = -1 /\ ~selectPending
    /\ drawn = [cursor |-> cursor, top |-> topVisible]

(* Keystroke k is recorded. *)
Recorded(k) ==
    /\ wanted' = ActedOn(wanted, k, count)
    /\ hasty' = (hasty \/ ~AllShown)

-----------------------------------------------------------------------------

Init ==
    /\ pc = "load" /\ reg = 0 /\ batch = <<>> /\ script \in Scripts
    /\ menuFile \in MenuFiles /\ menu = <<>>
    /\ cursor = 0 /\ topVisible = 0 /\ redraw = FALSE
    /\ drawn = [cursor |-> 0, top |-> 0]
    /\ moveAccum = 0 /\ pageAccum = 0 /\ jumpTo = -1 /\ selectPending = FALSE
    /\ keyboard = FALSE /\ prevRawKeys = {} /\ down = {} /\ presses = 0
    /\ file = None /\ offset = 0 /\ armed = None
    /\ wanted = [cursor |-> 0, top |-> 0, chosen |-> None] /\ hasty = FALSE

DrawMenu ==
    /\ topVisible' = Scrolled(cursor, topVisible, count')
    /\ drawn' = [cursor |-> cursor, top |-> topVisible']

(* Mutant: an empty menu boots like one of a single entry. *)
OneEntryOrNone(n) == n <= 1

OneEntry(n) == n = 1

(* CBootMenu::Load(), whose result is not looked at, then: no entries, idle for good; one entry, boot it  *)
(* unasked; more, show the menu.                                           *)
Load ==
    /\ pc = "load"
    /\ menu' = Loaded(menuFile)
    /\ \/ OneEntry(count') /\ pc' = "open" /\ UNCHANGED <<topVisible, drawn>>
       \/ ~OneEntry(count') /\ count' = 0 /\ pc' = "idle" /\ UNCHANGED <<topVisible, drawn>>
       \/ ~OneEntry(count') /\ count' # 0 /\ DrawMenu /\ pc' = "plug"
    /\ UNCHANGED <<reg, batch, script, menuFile, cursor, redraw, intents, keyVars, bootVars, history>>

(* UpdatePlugAndPlay() may call KeyboardRemovedHandler(); after any change *)
(* Run() looks for a keyboard if it has none.  m_PrevRawKeys is left as it *)
(* is, also when another keyboard takes the removed one's place.           *)
PlugAndPlay ==
    /\ pc = "plug"
    /\ pc' = "serial"
    /\ \/ UNCHANGED <<keyboard, down, hasty>>
       \/ ~keyboard /\ keyboard' = TRUE /\ UNCHANGED <<down, hasty>>
       \/ /\ keyboard
          /\ keyboard' \in BOOLEAN
          /\ down' = {}
          /\ hasty' = (hasty \/ down # {})   \* pulled out with keys held
    /\ UNCHANGED <<reg, batch, script, menuVars, intents, prevRawKeys, presses, bootVars, wanted>>

ReadSerial ==
    /\ pc = "serial"
    /\ pc' = "inject"
    /\ \E n \in 0..Len(script) :            \* as much as has arrived
        /\ n <= InjBufSize
        /\ batch' = SubSeq(script, 1, n)
        /\ script' = SubSeq(script, n + 1, Len(script))
    /\ UNCHANGED <<reg, menuVars, intents, keyVars, bootVars, history>>

(* The loop over InjBuf, a byte at a time; ++ and -- load the intent here  *)
(* and store it in InjectStore.                                            *)
Inject ==
    /\ pc = "inject"
    /\ \/ batch = <<>> /\ pc' = "move" /\ UNCHANGED <<reg, batch, jumpTo, selectPending, history>>
       \/ /\ batch # <<>> /\ Head(batch).kind \in {"move", "page"}
          /\ reg' = IF Head(batch).kind = "move" THEN moveAccum ELSE pageAccum
          /\ pc' = "injectStore"
          /\ UNCHANGED <<batch, jumpTo, selectPending, history>>
       \/ /\ batch # <<>> /\ Head(batch).kind \in {"jump", "enter"}
          /\ jumpTo' = IF Head(batch).kind = "jump" THEN Head(batch).n ELSE jumpTo
          /\ selectPending' = (selectPending \/ Head(batch).kind = "enter")
          /\ batch' = Tail(batch)
          /\ Recorded(Head(batch))
          /\ UNCHANGED <<pc, reg>>
    /\ UNCHANGED <<script, menuVars, moveAccum, pageAccum, keyVars, bootVars>>

InjectStore ==
    /\ pc = "injectStore"
    /\ pc' = "inject"
    /\ LET k == Head(batch) IN
       /\ moveAccum' = IF k.kind = "move" THEN reg + k.n ELSE moveAccum
       /\ pageAccum' = IF k.kind = "page" THEN reg + k.n ELSE pageAccum
       /\ Recorded(k)
    /\ batch' = Tail(batch)
    /\ UNCHANGED <<reg, script, menuVars, jumpTo, selectPending, keyVars, bootVars>>

-----------------------------------------------------------------------------
(* Draining the intents. *)

Goto(from, to) ==
    /\ pc = from /\ pc' = to
    /\ UNCHANGED <<batch, script, menuFile, menu, keyVars, bootVars, history>>

(* The cursor is placed; a change is drawn at the end of the round. *)
Place(c, top) ==
    /\ cursor' = c /\ topVisible' = top
    /\ redraw' = (redraw \/ c # cursor \/ top # topVisible)
    /\ UNCHANGED <<reg, drawn, selectPending>>

MoveRead ==
    /\ Goto("move", IF moveAccum # 0 THEN "moveZero" ELSE "page")
    /\ reg' = moveAccum /\ redraw' = FALSE
    /\ UNCHANGED <<cursor, topVisible, drawn, intents>>

MoveZero ==
    /\ Goto("moveZero", "page")
    /\ moveAccum' = 0
    /\ Place(Moved(cursor, reg, count), topVisible)
    /\ UNCHANGED <<pageAccum, jumpTo>>

PageRead ==
    /\ Goto("page", IF pageAccum # 0 THEN "pageZero" ELSE "jump")
    /\ reg' = pageAccum
    /\ UNCHANGED <<cursor, topVisible, redraw, drawn, intents>>

PageZero ==
    /\ Goto("pageZero", "jump")
    /\ pageAccum' = 0
    /\ LET top == Paged(topVisible, reg, count) IN Place(top, top)
    /\ UNCHANGED <<moveAccum, jumpTo>>

JumpRead ==
    /\ Goto("jump", IF jumpTo >= 0 THEN "jumpZero" ELSE "draw")
    /\ reg' = jumpTo
    /\ UNCHANGED <<cursor, topVisible, redraw, drawn, intents>>

JumpZero ==
    /\ Goto("jumpZero", "draw")
    /\ jumpTo' = -1
    /\ Place(IF reg < count THEN reg ELSE cursor, topVisible)
    /\ UNCHANGED <<moveAccum, pageAccum>>

(* Mutant: a jump on its own is not drawn. *)
NeedsDrawNoJump == redraw /\ reg < 0

NeedsDraw == redraw

Draw ==
    /\ Goto("draw", "select")
    /\ \/ NeedsDraw /\ DrawMenu
       \/ ~NeedsDraw /\ UNCHANGED <<topVisible, drawn>>
    /\ UNCHANGED <<reg, cursor, redraw, intents>>

(* Mutant: an Enter that meets a redraw is dropped. *)
TakesEnterUndrawn == selectPending /\ ~redraw

TakesEnter == selectPending

Select ==
    /\ Goto("select", IF TakesEnter THEN "open" ELSE "plug")
    /\ selectPending' = FALSE
    /\ UNCHANGED <<reg, cursor, topVisible, redraw, drawn, moveAccum, pageAccum, jumpTo>>

-----------------------------------------------------------------------------
(* BootSelection(). *)

AtBoot(to) ==
    /\ pc \in {"open", "read"} /\ pc' = to
    /\ UNCHANGED <<reg, batch, script, menuVars, intents, keyVars, history>>

(* No staging memory, no such file, a bad size, or a failed read: Fatal(). *)
Fatal == AtBoot("fatal") /\ UNCHANGED bootVars

OpenKernel ==
    /\ pc = "open" /\ AtBoot("read")
    /\ file' \in Files
    /\ offset' = 0
    /\ UNCHANGED armed

ReadKernel ==
    /\ pc = "read" /\ offset < file.size /\ AtBoot("read")
    /\ \E n \in 1..(file.size - offset) : offset' = offset + n
    /\ UNCHANGED <<file, armed>>

(* Mutant: a short read is taken for the end of the file. *)
ReadToSomePoint == offset > 0

ReadToTheEnd == offset = file.size

(* BootImageWithDefaults(): arms the image, stamped if it takes the string.*)
ArmKernel ==
    /\ pc = "read" /\ ReadToTheEnd /\ AtBoot("sleep")
    /\ LET s     == GetString(cursor)
           takes == /\ s # <<>>
                    /\ Block!PatchResult(file.size, file.capacity # 0, file.capacity, s) = "PatchOK"
       IN  armed' = [index |-> cursor, size |-> file.size, text |-> IF takes THEN s ELSE None]
    /\ UNCHANGED <<file, offset>>

(* Sleep (1), RapiChainBootMainReturning(), return ShutdownReboot. *)
Return ==
    /\ Goto("sleep", "returned")
    /\ UNCHANGED <<reg, cursor, topVisible, redraw, drawn, intents>>

(* for (;;) Yield(), or the payload runs. *)
Halted == pc \in {"idle", "fatal", "returned"} /\ UNCHANGED vars

-----------------------------------------------------------------------------
(* The keyboard, in interrupt context. *)

Move(n) == [kind |-> "move", n |-> n]
Page(n) == [kind |-> "page", n |-> n]

(* +1 for a key among the new ones, -1 for its opposite. *)
Net(new, plus, minus) ==
    (IF plus \in new THEN 1 ELSE 0) - (IF minus \in new THEN 1 ELSE 0)

(* Mutant: a key that is held fires with every report. *)
AllKeys(raw) == raw

NewKeys(raw) == raw \ prevRawKeys

(* A report of the keys that are down: act on those that were not in the   *)
(* previous one.                                                           *)
KeyStatusHandlerRaw(raw) ==
    LET new   == NewKeys(raw)
        jumps == {k.n : k \in {k \in new : k.kind = "jump"}}
    IN  /\ keyboard /\ pc # "returned"
        /\ moveAccum' = moveAccum + Net(new, Move(1), Move(-1))
        /\ pageAccum' = pageAccum + Net(new, Page(1), Page(-1))
        /\ jumpTo' \in IF jumps = {} THEN {jumpTo} ELSE jumps
        /\ selectPending' = (selectPending \/ \E k \in new : k.kind = "enter")
        /\ prevRawKeys' = raw
        /\ down' = raw
        /\ UNCHANGED <<pc, reg, batch, script, menuVars, keyboard, bootVars>>

Press(k) ==
    /\ presses < MaxPresses
    /\ k \notin down
    /\ Cardinality(down) < KeySlots
    /\ KeyStatusHandlerRaw(down \cup {k})
    /\ presses' = presses + 1
    /\ Recorded(k)

Release(k) ==
    /\ k \in down
    /\ KeyStatusHandlerRaw(down \ {k})
    /\ UNCHANGED <<presses, history>>

-----------------------------------------------------------------------------

Main ==
    \/ Load \/ PlugAndPlay \/ ReadSerial \/ Inject \/ InjectStore
    \/ MoveRead \/ MoveZero \/ PageRead \/ PageZero \/ JumpRead \/ JumpZero
    \/ Draw \/ Select
    \/ Fatal \/ OpenKernel \/ ReadKernel \/ ArmKernel \/ Return

Keyboard == \E k \in Keys : Press(k) \/ Release(k)

Next == Main \/ Keyboard \/ Halted

Spec == Init /\ [][Next]_vars

(* The interrupt handler returns, so the main loop goes on. *)
FairSpec == Spec /\ WF_vars(Main)

-----------------------------------------------------------------------------

(* Every variable has its type. *)
TypeOK ==
    /\ pc \in {"load", "idle", "plug", "serial", "inject", "injectStore", "move", "moveZero",
              "page", "pageZero", "jump", "jumpZero", "draw", "select",
              "open", "read", "fatal", "sleep", "returned"}
    /\ reg \in Int /\ moveAccum \in Int /\ pageAccum \in Int /\ jumpTo \in -1..8
    /\ batch \in Seq(Keys) /\ script \in Seq(Keys)
    /\ menuFile \in MenuFiles /\ count \in 0..MaxEntries
    /\ \A i \in 1..count : Len(menu[i].label) < MaxLabel /\ Len(menu[i].string) < MaxString
    /\ cursor \in Nat /\ topVisible \in Nat
    /\ drawn \in [cursor : Nat, top : Nat]
    /\ redraw \in BOOLEAN /\ selectPending \in BOOLEAN /\ keyboard \in BOOLEAN
    /\ prevRawKeys \subseteq Keys /\ down \subseteq Keys
    /\ presses \in 0..MaxPresses /\ hasty \in BOOLEAN
    /\ file \in Files \cup {None} /\ offset \in Nat
    /\ armed = None \/ (armed.index \in Nat /\ armed.size \in Nat)

MenuShown == count > 1

(* The screen shows the selection Enter would boot, whenever Run() may act *)
(* on one: the highlighted row is the entry, and it is inside the drawn    *)
(* page, which has no blank rows before the end of a list that fills it    *)
(* (Run() draws only when bRedraw says so, after three kinds of moves).    *)
ScreenShowsSelection ==
    MenuShown /\ pc \in {"plug", "serial", "inject", "move", "select", "open", "read", "sleep"} =>
        /\ drawn = [cursor |-> cursor, top |-> topVisible]
        /\ cursor < count
        /\ drawn.top <= drawn.cursor /\ drawn.cursor < drawn.top + VisibleRows
        /\ drawn.top + VisibleRows <= count \/ drawn.top = 0

(* What is armed is the image of the card to its last byte, for the entry  *)
(* on the screen (or the only one), with no string or the one on that      *)
(* entry's line of bootmenu.cfg, whatever comments, blanks and malformed   *)
(* lines are between the lines that count.                                 *)
ArmedIsSelection ==
    armed # None =>
        /\ armed.size = file.size /\ offset = file.size
        /\ armed.index = cursor
        /\ MenuShown => armed.index = drawn.cursor
        /\ armed.text # None =>
              \E p \in EntryLines(menuFile) :
                  EntriesUpTo(menuFile, p) = cursor + 1 /\ IsStringOf(menuFile[p], armed.text)

(* "Never auto-boot anything": only a file of a single entry boots without *)
(* an Enter, and one of no entries, or none that can be read, boots not    *)
(* even then.                                                              *)
NothingBootsUnasked ==
    armed # None =>
        LET n == Cardinality(EntryLines(menuFile)) IN n = 1 \/ (n > 1 /\ wanted.chosen # None)

(* menu-loader/README.md: Up and Down move the selection, Enter boots the  *)
(* selected entry: what boots is what the keystrokes select when each acts *)
(* on what the one before has left.                                        *)
BootsWhatWasKeyed == armed # None /\ MenuShown => armed.index = wanted.chosen

(* It is so for whoever waits until the screen shows what each key and     *)
(* each byte did before the next, holding and releasing keys as they like, *)
(* and pulls out no keyboard with keys held (m_PrevRawKeys, the drains of  *)
(* Run()).                                                                 *)
PatientKeysBoot == ~hasty => BootsWhatWasKeyed

(* An Enter is answered: the loader boots or says why it cannot.           *)
EnterBoots == selectPending ~> pc \in {"fatal", "returned"}

=============================================================================
