--------------------------- MODULE NetworkLoader ---------------------------
(***************************************************************************)
(* The network-loader between power-on and the payload: the TFTP server    *)
(* task (TftpBootServer), the HTTP server's workers, the main task in      *)
(* CKernel::Run(), and sysinit() after main() has returned.                *)
(*                                                                         *)
(* The loader runs on one core under a cooperative scheduler.  A task is   *)
(* not interrupted between two calls that yield, so a callback, a          *)
(* GetContent() call and each stretch of Run() between two yields are one  *)
(* action each.  The server tasks go on running while Run() quiesces USB   *)
(* and sleeps; when main() returns there is no scheduler any more.         *)
(***************************************************************************)
EXTENDS TftpBootServer, SequencesExt

CONSTANTS
    Forms,          \* what browsers may post: sequences of FormParts
    Boards,         \* RASPPI: the boards the loader may be built for
    ResetMark       \* stands for a reset where an image would stand

(* A part of a form: a kernel*.img upload that is not empty, the "defaults" *)
(* field, empty when it was left blank, or anything else.                  *)
FormParts == [kind : {"kernelimg"}, of : {k \in Kernels : KernelLen[k] \in 1..MaxKernelSize}]
             \cup [kind : {"defaults"}, text : Seq(Chars)] \cup [kind : {"other"}]

ASSUME LoaderAssumption ==
    /\ Boards \subseteq {3, 4, 5} /\ Boards # {}
    /\ \A form \in Forms : form \in Seq(FormParts)

VARIABLES
    board,            \* the board this build is for
    httpImage,        \* the staged image HTTP armed last
    httpReply,        \* the string its form asked for and the page it got
    rebootRequested,  \* g_bRebootRequested
    pc,               \* where CKernel::Run() or its caller is
    mainReturned,     \* s_bLoaderMainReturned
    started           \* what the machine ended in, and how

tftpVars   == <<mode, kernelVars, injectVars, cardVars, promised, xfer>>
httpVars   == <<httpImage, httpReply>>
runVars    == <<board, pc, mainReturned, started>>
loaderVars == <<tftpVars, chainBoot, httpVars, rebootRequested, runVars>>

(* chainboot/rapi_chainboot.cpp replaces Circle's chain-boot. *)
Pi5 == board >= 5

Running == [how |-> "running", image |-> None]

LoaderInit ==
    /\ board \in Boards
    /\ Init
    /\ httpImage = <<>>
    /\ httpReply = [asked |-> None, message |-> "none"]
    /\ rebootRequested = FALSE
    /\ pc = "poll"
    /\ mainReturned = FALSE
    /\ started = Running

Armed == chainBoot.ptr # "none"

(* The bytes the hand-off would copy now. *)
ArmedImage ==
    LET memory == IF chainBoot.ptr = "http" THEN httpImage ELSE kernelBuffer
    IN  [i \in 1..chainBoot.size |-> memory[i]]

(* Tasks run as long as Run() yields to them. *)
TasksRun == pc \in {"poll", "quiesceBoot", "sleepBoot", "quiesceReboot", "sleepReboot"}

(* Mutant: to sysinit() only a marked hand-off counts as enabled. *)
IsChainBootEnabledIfMarked == Armed /\ (mainReturned \/ pc = "poll")

(* The answer IsChainBootEnabled() returns, if it returns. *)
IsChainBootEnabled == Armed

-----------------------------------------------------------------------------
(* The server tasks. *)

TftpRequest ==
    /\ TasksRun
    /\ Request
    /\ UNCHANGED <<httpVars, rebootRequested, runVars>>

TftpServe ==
    /\ TasksRun
    /\ Serve
    /\ UNCHANGED <<httpVars, rebootRequested, runVars>>

(* What fits the Defaults[] array of a "defaults" part. *)
Kept(t) == SubSeq(t, 1, IF Len(t) < InjectBytes - 1 THEN Len(t) ELSE InjectBytes - 1)

(* Mutant: a later part is written without its NUL. *)
DefaultsNotEnded(old, t) == Kept(t) \o SubSeq(old, Len(Kept(t)) + 1, Len(old))

(* Defaults[] once another part has been copied over what it held. *)
DefaultsCopied(old, t) == Kept(t)

DefaultsParts(form) == {i \in DOMAIN form : form[i].kind = "defaults"}

(* Defaults[] after the loop over the parts. *)
Defaults(form) ==
    LET after[n \in 0..Len(form)] ==
            IF n = 0 THEN <<>>
            ELSE IF n \in DefaultsParts(form) THEN DefaultsCopied(after[n - 1], form[n].text)
            ELSE after[n - 1]
    IN  after[Len(form)]

(* The string a form asks for: its last "defaults" part. *)
AskedFor(form) ==
    IF DefaultsParts(form) = {} THEN <<>> ELSE form[Max(DefaultsParts(form))].text

(* Mutant: what follows the part is taken for its end. *)
FormImageLong(k) == [i \in 1..(KernelLen[k] + 1) |-> PushedCell(k, i)]

(* A kernel*.img part, copied to staging memory of its own. *)
FormImage(k) == [i \in 1..KernelLen[k] |-> PushedCell(k, i)]

KernelParts(form) == {i \in DOMAIN form : form[i].kind = "kernelimg"}

(* A form with a kernel*.img part: the last one is booted with the last    *)
(* "defaults" part, whatever is staged already.                            *)
GetContentForm(form) ==
    /\ TasksRun
    /\ KernelParts(form) # {}
    /\ LET k     == form[Max(KernelParts(form))].of
           image == FormImage(k)
       IN
       /\ httpImage' = Stamped(image, KernelLen[k], Defaults(form))
       /\ httpReply' = [asked   |-> AskedFor(form),
                        message |-> Block!BootMessage(BootVerdict(image, KernelLen[k], Defaults(form)))]
       /\ chainBoot' = [ptr |-> "http", size |-> KernelLen[k]]
    /\ UNCHANGED <<tftpVars, rebootRequested, runVars>>

(* No image in the form, or StageAlloc() cannot place the last one: an     *)
(* earlier one in the same form is not booted instead.                     *)
GetContentInvalid ==
    /\ TasksRun
    /\ UNCHANGED loaderVars

GetContentReboot ==
    /\ TasksRun
    /\ rebootRequested' = TRUE
    /\ UNCHANGED <<tftpVars, chainBoot, httpVars, runVars>>

-----------------------------------------------------------------------------
(* CKernel::Run() and what follows it. *)

RunGoto(from, to) ==
    /\ pc = from
    /\ pc' = to
    /\ UNCHANGED <<board, tftpVars, chainBoot, httpVars, rebootRequested, started>>

(* The loop's condition is IsChainBootEnabled(), so a push wins over a     *)
(* reboot request noticed in the same round.                               *)
RunSeesArmed  == IsChainBootEnabled /\ RunGoto("poll", "quiesceBoot") /\ UNCHANGED mainReturned
RunSeesReboot == ~IsChainBootEnabled /\ rebootRequested /\ RunGoto("poll", "quiesceReboot")
                 /\ UNCHANGED mainReturned

(* Mutant: the /reboot branch waits for a quiescence nobody signals. *)
RunQuiescedOnlyBoot == RunGoto("quiesceBoot", "sleepBoot") /\ UNCHANGED mainReturned

(* QuiesceUSB(): two seconds of pumping, then Sleep (1). *)
RunQuiesced == /\ \/ RunGoto("quiesceBoot", "sleepBoot")
                  \/ RunGoto("quiesceReboot", "sleepReboot")
               /\ UNCHANGED mainReturned

(* Mutant: the call is forgotten. *)
RunReturnsUnmarked == RunGoto("sleepBoot", "sysinit") /\ UNCHANGED mainReturned

(* Sleep (1) is over: RapiChainBootMainReturning(), which is empty on the  *)
(* Pi 3 and 4, and return ShutdownReboot.                                  *)
RunReturns       == RunGoto("sleepBoot", "sysinit") /\ mainReturned' = Pi5
(* The /reboot branch returns without the call. *)
RunReturnsReboot == RunGoto("sleepReboot", "sysinit") /\ UNCHANGED mainReturned

Ends(how, image) ==
    /\ pc = "sysinit"
    /\ pc' = "ended"
    /\ started' = [how |-> how, image |-> image]
    /\ UNCHANGED <<board, tftpVars, chainBoot, httpVars, rebootRequested, mainReturned>>

(* sysinit() after main() returned EXIT_REBOOT asks IsChainBootEnabled().  *)
(* With no image it resets the machine.                                    *)
SysinitResets == ~IsChainBootEnabled /\ Ends("reset", None)

(* Pi 5, main() marked as returned: IsChainBootEnabled() itself performs   *)
(* DoChainBoot(), before any teardown of sysinit()'s.                      *)
RapiHandoff == Pi5 /\ IsChainBootEnabled /\ mainReturned /\ Ends("coherent", ArmedImage)

(* Otherwise it answers TRUE, and sysinit() takes the memory system down   *)
(* and then calls DoChainBoot(): Circle's own on the Pi 3 and 4, ours,     *)
(* with caches already off, on the Pi 5.                                   *)
SysinitHandoff == IsChainBootEnabled /\ ~mainReturned /\ Ends("torndown", ArmedImage)

Run == RunSeesArmed \/ RunSeesReboot \/ RunQuiesced \/ RunReturns \/ RunReturnsReboot
Sysinit == SysinitResets \/ RapiHandoff \/ SysinitHandoff

LoaderNext ==
    \/ TftpRequest \/ TftpServe
    \/ \E form \in Forms : GetContentForm(form)
    \/ GetContentInvalid \/ GetContentReboot
    \/ Run \/ Sysinit

LoaderSpec == LoaderInit /\ [][LoaderNext]_loaderVars

(* The scheduler is round-robin and every task yields, so Run() goes on;   *)
(* sysinit() is straight-line code.                                        *)
FairLoader == LoaderSpec /\ WF_loaderVars(Run) /\ WF_loaderVars(Sysinit)

-----------------------------------------------------------------------------

(* Every variable has its type; those of the TFTP server are typed in its  *)
(* own module.                                                             *)
LoaderTypeOK ==
    /\ board \in Boards
    /\ chainBoot \in [ptr : {"none", "tftp", "http"}, size : 0..MaxKernelSize]
    /\ httpImage \in Seq(Cells)
    /\ chainBoot.ptr = "http" => Len(httpImage) = chainBoot.size
    /\ rebootRequested \in BOOLEAN /\ mainReturned \in BOOLEAN
    /\ pc \in {"poll", "quiesceBoot", "sleepBoot", "quiesceReboot", "sleepReboot",
               "sysinit", "ended"}
    /\ started.how \in {"running", "reset", "coherent", "torndown"}

(* Whatever was pushed, by which way and in which order, what starts is    *)
(* one whole push (EnableChainBoot() takes a pointer; the hand-off reads   *)
(* it three seconds later).                                                *)
StartedIsWholePush ==
    started.how \in {"coherent", "torndown"} =>
        IsWholePush(started.image, Len(started.image))

(* A completed push is never lost to a reset: also one that arrives while  *)
(* Run() is on its way out for /reboot starts.                             *)
NoResetOverPush == started.how = "reset" => ~Armed

(* On the Pi 5 the hand-off happens while execution is still coherent,     *)
(* never after sysinit()'s own teardown, as long as nobody asked for       *)
(* /reboot (RapiChainBootMainReturning() before the return of Run()).      *)
CoherentUnlessReboot ==
    Pi5 /\ ~rebootRequested => started.how # "torndown"

(* rapi_chainboot.h: the Pi 5 hand-off happens "before sysinit()'s own     *)
(* teardown - which the A76 does not survive".                             *)
HandoffIsCoherent == Pi5 => started.how # "torndown"

(* A request for /reboot ends the loader, in a reset or in a push.         *)
RebootEndsLoader == rebootRequested ~> started.how # "running"

(* Whatever parts a form had, in whatever order, a string that fits        *)
(* Defaults[] is in the image it came with when the page says so, and no   *)
(* string is when it says otherwise: nothing is left of an earlier part    *)
(* (httpbootserver.cpp, the loop over the parts).                          *)
FormStampsAsked ==
    chainBoot.ptr = "http" /\ Len(httpReply.asked) < InjectBytes =>
        LET stamped == httpReply.message = "defaults stamped, booting" IN
        IF chainBoot.size < DefaultsCell THEN ~stamped
        ELSE httpImage[DefaultsCell].text = IF stamped THEN httpReply.asked ELSE None

(* The strings that may be in an image: what clients push to "inject" and  *)
(* what is left of the "defaults" parts of forms.                          *)
StampableTexts ==
    ({Trimmed(t) : t \in Texts} \cup {Defaults(form) : form \in Forms}) \ {<<>>}

(* Each kernel as it was pushed or with a string that, with its NUL, its   *)
(* block takes.                                                            *)
WholeImages ==
    LET pushed(k) == [i \in 1..KernelLen[k] |-> PushedCell(k, i)]
        takes(k)  == {t \in StampableTexts :
                        KernelLen[k] >= DefaultsCell /\ ~(Len(t) + 1 > Capacity[k])}
    IN  {pushed(k) : k \in {k \in Kernels : KernelLen[k] > 0}}
        \cup UNION {{[pushed(k) EXCEPT ![DefaultsCell].text = t] : t \in takes(k)} : k \in Kernels}

(* The marks that stand for no image are none. *)
ASSUME MarksAssumption == None \notin WholeImages /\ ResetMark \notin WholeImages \cup {None}

(* The loader keeps what PushToBoot promises. *)
Promise == INSTANCE PushToBoot WITH
    Images  <- WholeImages,
    Reset   <- ResetMark,
    armed   <- IF Armed THEN ArmedImage ELSE None,
    started <- CASE started.how = "running" -> None
                 [] started.how = "reset"   -> ResetMark
                 [] OTHER                   -> started.image

PromiseKept == Promise!Spec

=============================================================================
