------------------------ MODULE NetworkLoaderProofs ------------------------
(***************************************************************************)
(* Proofs about NetworkLoader, for every value of its constants.  What the *)
(* TFTP server keeps by itself comes from TftpBootServerProofs.            *)
(***************************************************************************)
EXTENDS NetworkLoader, TftpBootServerProofs

-----------------------------------------------------------------------------
(* A step of the loader is one of the server's with everything else at     *)
(* rest, a form, a request, or one of the main task's.                     *)

ServerStep ==
    /\ TasksRun /\ Next
    /\ UNCHANGED <<httpVars, rebootRequested, runVars>>

FormStep ==
    /\ TasksRun
    /\ \E form \in Forms : GetContentForm(form)

(* Steps that neither receive nor arm anything. *)
QuietStep == UNCHANGED <<tftpVars, chainBoot, httpVars>>

LEMMA LoaderSteps ==
    ASSUME [LoaderNext]_loaderVars
    PROVE  ServerStep \/ FormStep \/ QuietStep
<1>1. CASE TftpRequest \/ TftpServe
  BY <1>1 DEF TftpRequest, TftpServe, ServerStep, Next
<1>2. CASE \E form \in Forms : GetContentForm(form)
  BY <1>2 DEF FormStep, GetContentForm
<1>3. CASE GetContentInvalid \/ GetContentReboot
  BY <1>3 DEF GetContentInvalid, GetContentReboot, QuietStep, loaderVars
<1>4. CASE Run
  BY <1>4 DEF Run, RunSeesArmed, RunSeesReboot, RunQuiesced, RunReturns, RunReturnsReboot,
              RunGoto, QuietStep
<1>5. CASE Sysinit
  BY <1>5 DEF Sysinit, SysinitResets, RapiHandoff, SysinitHandoff, Ends, QuietStep
<1>6. CASE UNCHANGED loaderVars
  BY <1>6 DEF loaderVars, QuietStep
<1> QED BY <1>1, <1>2, <1>3, <1>4, <1>5, <1>6 DEF LoaderNext

-----------------------------------------------------------------------------
(* Where the main task is, and what a reset or a late hand-off needs.      *)

Progress ==
    /\ pc # "ended" => started = Running
    /\ pc = "poll" \/ pc = "quiesceBoot" \/ pc = "sleepBoot" => ~mainReturned
    /\ pc = "quiesceReboot" \/ pc = "sleepReboot" => rebootRequested
    /\ pc = "sysinit" => mainReturned \/ rebootRequested \/ ~Pi5
    /\ NoResetOverPush
    /\ CoherentUnlessReboot

LEMMA ProgressKept ==
    ASSUME Progress, [LoaderNext]_loaderVars
    PROVE  Progress'
<1> USE DEF Progress, NoResetOverPush, CoherentUnlessReboot, Pi5, Running, Armed,
            runVars, httpVars
<1>1. CASE TftpRequest \/ TftpServe \/ \E form \in Forms : GetContentForm(form)
  <2>1. /\ pc # "ended" /\ pc' # "ended" /\ pc' = pc
        /\ started' = started /\ mainReturned' = mainReturned
        /\ rebootRequested' = rebootRequested /\ board' = board
    BY <1>1 DEF TftpRequest, TftpServe, GetContentForm, TasksRun
  <2>2. started'.how = "running"
    BY <2>1
  <2> QED BY <2>1, <2>2
<1>2. CASE GetContentInvalid \/ UNCHANGED loaderVars
  BY <1>2 DEF GetContentInvalid, loaderVars
<1>3. CASE GetContentReboot
  BY <1>3 DEF GetContentReboot
<1>4. CASE Run
  <2>1. ASSUME NEW from, NEW to, RunGoto(from, to), from \in {"poll", "quiesceBoot", "quiesceReboot",
                                                              "sleepBoot", "sleepReboot"}
        PROVE  /\ pc = from /\ pc' = to /\ started' = started /\ started = Running
               /\ chainBoot' = chainBoot /\ rebootRequested' = rebootRequested
               /\ Pi5' = Pi5
    BY <2>1 DEF RunGoto
  <2> HIDE DEF Pi5
  <2>2. CASE RunSeesArmed
    BY <2>1, <2>2 DEF RunSeesArmed
  <2>3. CASE RunSeesReboot
    BY <2>1, <2>3 DEF RunSeesReboot
  <2>4. CASE RunQuiesced
    BY <2>1, <2>4 DEF RunQuiesced
  <2>5. CASE RunReturns
    <3>1. RunGoto("sleepBoot", "sysinit") /\ mainReturned' = Pi5
      BY <2>5 DEF RunReturns
    <3>2. mainReturned' \/ ~Pi5
      BY <3>1, Zenon
    <3>3. /\ pc' = "sysinit" /\ started' = started /\ started = Running
          /\ rebootRequested' = rebootRequested /\ Pi5' = Pi5
      BY <2>1, <3>1
    <3>4. started'.how = "running"
      BY <3>3
    <3>5. NoResetOverPush' /\ CoherentUnlessReboot'
      BY <3>4
    <3>6. mainReturned' \/ rebootRequested' \/ ~Pi5'
      BY <3>2, <3>3, Zenon
    <3> HIDE DEF NoResetOverPush, CoherentUnlessReboot, Running
    <3> QED BY <3>3, <3>5, <3>6
  <2>6. CASE RunReturnsReboot
    BY <2>1, <2>6 DEF RunReturnsReboot
  <2> QED BY <1>4, <2>2, <2>3, <2>4, <2>5, <2>6 DEF Run
<1>5. CASE Sysinit
  BY <1>5 DEF Sysinit, SysinitResets, RapiHandoff, SysinitHandoff, Ends, IsChainBootEnabled
<1> QED BY <1>1, <1>2, <1>3, <1>4, <1>5 DEF LoaderNext

LEMMA ProgressInvariance == LoaderSpec => []Progress
<1>1. LoaderInit => Progress
  BY DEF LoaderInit, Progress, NoResetOverPush, CoherentUnlessReboot, Running
<1> QED BY <1>1, ProgressKept, PTL DEF LoaderSpec

(* sysinit() resets the machine only when nothing is armed, also after a   *)
(* push that completed while Run() was on its way out for /reboot.         *)
THEOREM NoPushLostToReset == LoaderSpec => []NoResetOverPush
<1>1. Progress => NoResetOverPush
  BY DEF Progress
<1> QED BY <1>1, ProgressInvariance, PTL

(* On the Pi 5 nothing is handed off after the teardown unless /reboot was *)
(* asked for: main() has said that it returns before it does.              *)
THEOREM CoherentWithoutReboot == LoaderSpec => []CoherentUnlessReboot
<1>1. Progress => CoherentUnlessReboot
  BY DEF Progress
<1> QED BY <1>1, ProgressInvariance, PTL

-----------------------------------------------------------------------------
(* What a form arms is the whole upload it carried last.                   *)

(* A set of positions in a sequence has a last one. *)
LEMMA LastPosition ==
    ASSUME NEW n \in Nat, NEW S \in SUBSET (1..n), S # {}
    PROVE  Max(S) \in S /\ \A i \in S : i <= Max(S)
<1> DEFINE Bounds == {m \in Nat : \A i \in S : i <= m}
<1>1. PICK m \in Bounds : \A b \in Bounds : m <= b
  <2>1. n \in Bounds
    OBVIOUS
  <2>2. Bounds \subseteq Nat /\ Bounds # {}
    BY <2>1
  <2> HIDE DEF Bounds
  <2> QED BY <2>2, LeastNatural
<1>2. m \in S
  <2> SUFFICES ASSUME m \notin S PROVE FALSE
    OBVIOUS
  <2>1. m \in Nat /\ \A i \in S : i \in Nat /\ i > 0 /\ i <= m /\ i # m
    BY <1>1
  <2>2. PICK i \in S : TRUE
    OBVIOUS
  <2>3. m - 1 \in Nat /\ \A j \in S : j <= m - 1
    BY <2>1, <2>2
  <2>4. m <= m - 1
    BY <1>1, <2>3
  <2> QED BY <2>1, <2>4
<1>3. \A i \in S : m >= i
  BY <1>1
<1> HIDE DEF Bounds
<1> QED BY <1>2, <1>3 DEF Max

(* The part of a form that is booted is a kernel image that fits.          *)
LEMMA LastImage ==
    ASSUME NEW form \in Forms, KernelParts(form) # {}
    PROVE  /\ form[Max(KernelParts(form))].of \in Kernels
           /\ KernelLen[form[Max(KernelParts(form))].of] \in 1..MaxKernelSize
<1>1. form \in Seq(FormParts) /\ Len(form) \in Nat
  BY LoaderAssumption, LenProperties
<1>2. KernelParts(form) \subseteq 1..Len(form)
  BY <1>1, LenProperties DEF KernelParts
<1>3. PICK i \in KernelParts(form) : i = Max(KernelParts(form))
  BY <1>1, <1>2, LastPosition
<1>4. form[i] \in FormParts /\ form[i].kind = "kernelimg"
  <2>1. i \in 1..Len(form)
    BY <1>2, <1>3
  <2>2. form[i] \in FormParts
    BY <1>1, <2>1, ElementOfSeq
  <2> QED BY <1>3, <2>2 DEF KernelParts
<1>5. form[i].of \in {k \in Kernels : KernelLen[k] \in 1..MaxKernelSize}
  BY <1>4 DEF FormParts
<1> QED BY <1>3, <1>5

(* Stamping a pushed image, whatever its length and the string, leaves it  *)
(* a whole push.                                                           *)
LEMMA StampedStaysWhole ==
    ASSUME NEW k \in Kernels, KernelLen[k] \in Nat \ {0}, NEW s
    PROVE  /\ DOMAIN Stamped(FormImage(k), KernelLen[k], s) = 1..KernelLen[k]
           /\ IsWholePush(Stamped(FormImage(k), KernelLen[k], s), KernelLen[k])
<1> DEFINE image == FormImage(k)
           armed == Stamped(image, KernelLen[k], s)
<1>1. /\ image = [i \in 1..KernelLen[k] |-> PushedCell(k, i)]
      /\ armed \in {image, [image EXCEPT ![DefaultsCell].text = s]}
  <2>1. image = [i \in 1..(KernelLen[k]) |-> PushedCell(k, i)]
    BY DEF FormImage
  <2> QED BY <2>1 DEF Stamped
<1> HIDE DEF image, armed
<1>2. DOMAIN armed = 1..KernelLen[k]
  BY <1>1
<1>3. \A i \in 1..KernelLen[k] :
        /\ armed[i].of = k /\ armed[i].no = i
        /\ armed[i].text # None => i = DefaultsCell
  <2> SUFFICES ASSUME NEW i \in 1..KernelLen[k]
               PROVE  /\ armed[i].of = k /\ armed[i].no = i
                      /\ armed[i].text # None => i = DefaultsCell
    OBVIOUS
  <2>1. image[i] = [of |-> k, no |-> i, text |-> None]
    BY <1>1 DEF PushedCell
  <2>2. armed[i] \in {image[i], [image[i] EXCEPT !.text = s]}
    BY <1>1
  <2>3. i # DefaultsCell => armed[i] = image[i]
    BY <1>1
  <2> QED BY <2>1, <2>2, <2>3
<1> QED BY <1>2, <1>3 DEF IsWholePush, armed, image

-----------------------------------------------------------------------------
(* The server beside the rest of the loader.                               *)

(* HTTP and the main task leave what the server relies on alone.           *)
LEMMA OthersKeepServer ==
    ASSUME TypeInv, PushInv, UNCHANGED tftpVars,
           chainBoot' \in [ptr : {"none", "tftp", "http"}, size : 0..MaxKernelSize]
    PROVE  TypeInv' /\ PushInv'
<1>1. UNCHANGED <<mode, bufferReady, kernelBuffer, currentOffset, kernelHash, kernelClosed,
                  injectPending, injectText, writeBufReady, writeBuf, card, promised, xfer>>
  BY DEF tftpVars, kernelVars, injectVars, cardVars
<1>2. TypeOK'
  BY <1>1 DEF TypeInv, TypeOK
<1>3. ModeFollowsTransfer' /\ OpenFile'
  BY <1>1 DEF TypeInv, ModeFollowsTransfer, OpenFile
<1>4. PushInv'
  BY <1>1 DEF PushInv, KernelBufferHoldsPush, HashCoversImage
<1> QED BY <1>2, <1>3, <1>4 DEF TypeInv

(* What a form does to the machine. *)
LEMMA FormArmsWhole ==
    ASSUME FormStep
    PROVE  /\ UNCHANGED <<tftpVars, runVars>>
           /\ chainBoot'.ptr = "http"
           /\ chainBoot' \in [ptr : {"none", "tftp", "http"}, size : 0..MaxKernelSize]
           /\ DOMAIN httpImage' = 1..chainBoot'.size
           /\ IsWholePush(httpImage', chainBoot'.size)
<1>1. PICK form \in Forms : GetContentForm(form)
  BY DEF FormStep
<1> DEFINE k == form[Max(KernelParts(form))].of
<1>2. /\ UNCHANGED <<tftpVars, rebootRequested, runVars>>
      /\ KernelParts(form) # {}
      /\ chainBoot' = [ptr |-> "http", size |-> KernelLen[k]]
      /\ httpImage' = Stamped(FormImage(k), KernelLen[k], Defaults(form))
  BY <1>1 DEF GetContentForm
<1>3. k \in Kernels /\ KernelLen[k] \in 1..MaxKernelSize
  BY <1>2, LastImage
<1> HIDE DEF k
<1>4. KernelLen[k] \in Nat \ {0}
  BY <1>3
<1>5. /\ DOMAIN httpImage' = 1..KernelLen[k]
      /\ IsWholePush(httpImage', KernelLen[k])
  BY <1>2, <1>3, <1>4, StampedStaysWhole
<1>6. KernelLen[k] \in 0..MaxKernelSize
  BY <1>3
<1>7. chainBoot'.ptr = "http" /\ chainBoot'.size = KernelLen[k]
  BY <1>2
<1> QED BY <1>2, <1>5, <1>6, <1>7

ServerInv == TypeInv /\ PushInv

LEMMA ServerInvKept ==
    ASSUME ServerInv, [LoaderNext]_loaderVars
    PROVE  ServerInv'
<1> USE DEF ServerInv
<1>1. CASE ServerStep
  BY <1>1, NextKeepsTypes, NextKeepsPush DEF ServerStep
<1>2. CASE FormStep
  <2>1. /\ UNCHANGED tftpVars
        /\ chainBoot' \in [ptr : {"none", "tftp", "http"}, size : 0..MaxKernelSize]
    BY <1>2, FormArmsWhole
  <2> QED BY <2>1, OthersKeepServer
<1>3. CASE QuietStep
  <2>1. UNCHANGED tftpVars /\ chainBoot' = chainBoot
    BY <1>3 DEF QuietStep
  <2>2. chainBoot' \in [ptr : {"none", "tftp", "http"}, size : 0..MaxKernelSize]
    BY <2>1 DEF TypeInv, TypeOK
  <2> QED BY <2>1, <2>2, OthersKeepServer
<1> QED BY <1>1, <1>2, <1>3, LoaderSteps

LEMMA ServerInvariance == LoaderSpec => []ServerInv
<1>1. LoaderInit => ServerInv
  <2> SUFFICES ASSUME LoaderInit PROVE ServerInv
    OBVIOUS
  <2>1. Init
    BY DEF LoaderInit
  <2>2. TypeInv
    BY <2>1, InitTypes
  <2>3. PushInv
    BY <2>1 DEF Init, PushInv, KernelBufferHoldsPush, HashCoversImage
  <2> QED BY <2>2, <2>3 DEF ServerInv
<1> QED BY <1>1, ServerInvKept, PTL DEF LoaderSpec

-----------------------------------------------------------------------------
(* What starts.                                                            *)

HttpWhole ==
    chainBoot.ptr = "http" =>
        DOMAIN httpImage = 1..chainBoot.size /\ IsWholePush(httpImage, chainBoot.size)

(* A whole push read through the armed pointer is one. *)
LEMMA CopyIsWhole ==
    ASSUME NEW memory, NEW size \in Nat, IsWholePush(memory, size)
    PROVE  /\ IsWholePush([i \in 1..size |-> memory[i]], size)
           /\ Len([i \in 1..size |-> memory[i]]) = size
<1> DEFINE copy == [i \in 1..size |-> memory[i]]
<1>1. \A i \in 1..size : copy[i] = memory[i]
  OBVIOUS
<1>2. Len(copy) = size
  <2>1. copy \in Seq({memory[i] : i \in 1..size})
    OBVIOUS
  <2>2. DOMAIN copy = 1..size /\ DOMAIN copy = 1..Len(copy) /\ Len(copy) \in Nat
    BY <2>1, LenProperties
  <2> HIDE DEF copy
  <2> QED BY <2>2
<1> HIDE DEF copy
<1>3. IsWholePush(copy, size)
  <2>1. PICK k \in Kernels :
          /\ size = KernelLen[k] /\ size > 0
          /\ \A i \in 1..size :
              /\ memory[i].of = k /\ memory[i].no = i
              /\ memory[i].text # None => i = DefaultsCell
    BY DEF IsWholePush
  <2> QED BY <1>1, <2>1 DEF IsWholePush
<1> QED BY <1>2, <1>3 DEF copy

(* Whatever is armed, over TFTP or HTTP, is one whole push. *)
ArmedWhole == Undisturbed /\ HttpWhole

LEMMA ArmedWholeKept ==
    ASSUME ~PushWhileArmed, ServerInv, ServerInv', ArmedWhole, [LoaderNext]_loaderVars
    PROVE  ArmedWhole'
<1> USE DEF ArmedWhole, ServerInv
<1>1. CASE ServerStep
  <2>1. Next /\ UNCHANGED httpImage
    BY <1>1 DEF ServerStep, httpVars
  <2>2. Undisturbed'
    BY <2>1, NextKeepsArmed
  <2>3. HttpWhole'
    <3>1. CASE chainBoot' = chainBoot
      BY <2>1, <3>1 DEF HttpWhole
    <3>2. CASE chainBoot' # chainBoot
      <4>1. UpdateStatusCompleted
        BY <2>1, <3>2, OnlyCompletedArms
      <4>2. chainBoot'.ptr = "tftp"
        BY <4>1, CompletedArmsWhole
      <4> QED BY <4>2 DEF HttpWhole
    <3> QED BY <3>1, <3>2
  <2> QED BY <2>2, <2>3
<1>2. CASE FormStep
  BY <1>2, FormArmsWhole DEF Undisturbed, HttpWhole
<1>3. CASE QuietStep
  BY <1>3 DEF QuietStep, tftpVars, kernelVars, httpVars, Undisturbed, HttpWhole
<1> QED BY <1>1, <1>2, <1>3, LoaderSteps

(* The image a hand-off would copy now is one whole push.                  *)
LEMMA ArmedImageIsWhole ==
    ASSUME ServerInv, ArmedWhole, Armed
    PROVE  /\ IsWholePush(ArmedImage, chainBoot.size)
           /\ Len(ArmedImage) = chainBoot.size
<1>1. chainBoot.size \in Nat /\ chainBoot.ptr \in {"tftp", "http"}
  BY TftpAssumption DEF ServerInv, TypeInv, TypeOK, Armed
<1>2. CASE chainBoot.ptr = "http"
  <2>1. IsWholePush(httpImage, chainBoot.size)
    BY <1>2 DEF ArmedWhole, HttpWhole
  <2>2. ArmedImage = [i \in 1..chainBoot.size |-> httpImage[i]]
    BY <1>2 DEF ArmedImage
  <2> QED BY <1>1, <2>1, <2>2, CopyIsWhole
<1>3. CASE chainBoot.ptr = "tftp"
  <2>1. IsWholePush(kernelBuffer, chainBoot.size)
    BY <1>3 DEF ArmedWhole, Undisturbed
  <2>2. ArmedImage = [i \in 1..chainBoot.size |-> kernelBuffer[i]]
    BY <1>3 DEF ArmedImage
  <2> QED BY <1>1, <2>1, <2>2, CopyIsWhole
<1> QED BY <1>1, <1>2, <1>3

(* The machine ends once, in a reset with nothing armed or in the armed    *)
(* image; no other step touches what it ended in.                          *)
LEMMA HowItEnds ==
    ASSUME [LoaderNext]_loaderVars, started' # started
    PROVE  /\ pc = "sysinit"
           /\ UNCHANGED <<tftpVars, chainBoot, httpVars>>
           /\ \/ ~Armed /\ started' = [how |-> "reset", image |-> None]
              \/ Armed /\ started' = [how |-> "coherent", image |-> ArmedImage]
              \/ Armed /\ started' = [how |-> "torndown", image |-> ArmedImage]
<1>1. Sysinit
  <2>1. ~(TftpRequest \/ TftpServe)
    BY DEF TftpRequest, TftpServe, runVars
  <2>2. ~\E form \in Forms : GetContentForm(form)
    BY DEF GetContentForm, runVars
  <2>3. ~(GetContentInvalid \/ GetContentReboot)
    BY DEF GetContentInvalid, GetContentReboot, loaderVars, runVars
  <2>4. ~Run
    BY DEF Run, RunSeesArmed, RunSeesReboot, RunQuiesced, RunReturns, RunReturnsReboot, RunGoto
  <2>5. ~UNCHANGED loaderVars
    BY DEF loaderVars, runVars
  <2> QED BY <2>1, <2>2, <2>3, <2>4, <2>5 DEF LoaderNext
<1> QED BY <1>1 DEF Sysinit, SysinitResets, RapiHandoff, SysinitHandoff, Ends, IsChainBootEnabled

(* What the loader knows of itself from start to end. *)
LoaderInv == ServerInv /\ ArmedWhole /\ StartedIsWholePush

LEMMA LoaderInvariance == ~PushWhileArmed => (LoaderSpec => []LoaderInv)
<1> SUFFICES ASSUME ~PushWhileArmed PROVE LoaderSpec => []LoaderInv
  OBVIOUS
<1>1. LoaderInit => ArmedWhole /\ StartedIsWholePush
  BY DEF LoaderInit, Init, NotArmed, ArmedWhole, Undisturbed, HttpWhole, StartedIsWholePush, Running
<1>2. ASSUME LoaderInv, ServerInv', [LoaderNext]_loaderVars PROVE LoaderInv'
  <2>1. ArmedWhole'
    BY <1>2, ArmedWholeKept DEF LoaderInv
  <2>2. StartedIsWholePush'
    <3>1. CASE started' = started
      BY <1>2, <3>1 DEF LoaderInv, StartedIsWholePush
    <3>2. CASE started' # started
      <4>1. CASE started'.how \in {"coherent", "torndown"}
        <5>1. Armed /\ started'.image = ArmedImage
          BY <1>2, <3>2, <4>1, HowItEnds
        <5>2. IsWholePush(started'.image, Len(started'.image))
          BY <1>2, <5>1, ArmedImageIsWhole DEF LoaderInv
        <5> QED BY <5>2 DEF StartedIsWholePush
      <4> QED BY <4>1 DEF StartedIsWholePush
    <3> QED BY <3>1, <3>2
  <2> QED BY <1>2, <2>1, <2>2 DEF LoaderInv
<1>3. LoaderInv /\ ServerInv' /\ [LoaderNext]_loaderVars => LoaderInv'
  BY <1>2
<1>4. ServerInv /\ ArmedWhole /\ StartedIsWholePush => LoaderInv
  BY DEF LoaderInv
<1> QED BY <1>1, <1>3, <1>4, ServerInvariance, PTL DEF LoaderSpec

(* Whatever is pushed, over TFTP and HTTP, in whichever order and however  *)
(* transfers end, the machine starts one whole push, as long as clients do *)
(* not push into the armed buffer while the loader is on its way out.      *)
THEOREM WholePushStarts == ~PushWhileArmed => (LoaderSpec => []StartedIsWholePush)
<1> SUFFICES ASSUME ~PushWhileArmed PROVE LoaderSpec => []StartedIsWholePush
  OBVIOUS
<1>1. LoaderInv => StartedIsWholePush
  BY DEF LoaderInv
<1> QED BY <1>1, LoaderInvariance, PTL

(* The memory the TFTP server armed stays one whole push whatever HTTP and *)
(* the main task do beside the server.                                     *)
THEOREM ArmedRemainsWholeInLoader == ~PushWhileArmed => (LoaderSpec => []ArmedStaysWhole)
<1> SUFFICES ASSUME ~PushWhileArmed PROVE LoaderSpec => []ArmedStaysWhole
  OBVIOUS
<1>1. LoaderInv => ArmedStaysWhole
  BY DEF LoaderInv, ArmedWhole, Undisturbed, ArmedStaysWhole
<1> QED BY <1>1, LoaderInvariance, PTL

-----------------------------------------------------------------------------
(* What the page says of a form.                                           *)

(* What Defaults[] holds after the first m parts: the last string of them. *)
PartsUpTo(form, m) == {i \in DefaultsParts(form) : i <= m}

HeldAfter(form, m) ==
    IF PartsUpTo(form, m) = {} THEN <<>> ELSE Kept(form[Max(PartsUpTo(form, m))].text)

(* The loop over the parts of a form, as a function of how many were read. *)
PartsLoop(form, f) ==
    f = [n \in 0..Len(form) |->
            IF n = 0 THEN <<>>
            ELSE IF n \in DefaultsParts(form) THEN DefaultsCopied(f[n - 1], form[n].text)
            ELSE f[n - 1]]

(* One more part leaves Defaults[] alone or replaces all of it. *)
LEMMA HeldStep ==
    ASSUME NEW form, Len(form) \in Nat, DefaultsParts(form) \subseteq 1..Len(form),
           NEW m \in 0..Len(form)
    PROVE  HeldAfter(form, m) = IF m = 0 THEN <<>>
                                ELSE IF m \in DefaultsParts(form) THEN Kept(form[m].text)
                                ELSE HeldAfter(form, m - 1)
<1>1. CASE m = 0
  <2>1. PartsUpTo(form, m) = {}
    BY <1>1 DEF PartsUpTo
  <2> QED BY <1>1, <2>1 DEF HeldAfter
<1>2. CASE m # 0 /\ m \in DefaultsParts(form)
  <2>1. m \in PartsUpTo(form, m) /\ PartsUpTo(form, m) \in SUBSET (1..m) /\ m \in Nat
    BY <1>2 DEF PartsUpTo
  <2>2. Max(PartsUpTo(form, m)) \in 1..m /\ m <= Max(PartsUpTo(form, m))
    BY <2>1, LastPosition
  <2>3. Max(PartsUpTo(form, m)) = m
    BY <2>1, <2>2
  <2> QED BY <1>2, <2>1, <2>3 DEF HeldAfter
<1>3. CASE m # 0 /\ m \notin DefaultsParts(form)
  <2>1. PartsUpTo(form, m) = PartsUpTo(form, m - 1)
    BY <1>3 DEF PartsUpTo
  <2> QED BY <1>3, <2>1 DEF HeldAfter
<1> QED BY <1>1, <1>2, <1>3

(* A form stamps what fits Defaults[] of the string it asks for. *)
LEMMA DefaultsIs ==
    ASSUME NEW form \in Forms
    PROVE  Defaults(form) = Kept(AskedFor(form)) /\ AskedFor(form) \in Seq(Chars)
<1>1. form \in Seq(FormParts) /\ Len(form) \in Nat
  BY LoaderAssumption, LenProperties
<1>2. DefaultsParts(form) \subseteq 1..Len(form)
  BY <1>1, LenProperties DEF DefaultsParts
<1> DEFINE held == [m \in 0..Len(form) |-> HeldAfter(form, m)]
           read == CHOOSE f : PartsLoop(form, f)
<1>3. PartsLoop(form, held)
  <2>1. ASSUME NEW m \in 0..Len(form)
        PROVE  held[m] = IF m = 0 THEN <<>>
                         ELSE IF m \in DefaultsParts(form) THEN DefaultsCopied(held[m - 1], form[m].text)
                         ELSE held[m - 1]
    <3>1. held[m] = HeldAfter(form, m) /\ (m # 0 => held[m - 1] = HeldAfter(form, m - 1))
      BY <1>1
    <3> QED BY <1>1, <1>2, <3>1, HeldStep DEF DefaultsCopied
  <2>2. held = [m \in 0..Len(form) |-> held[m]]
    OBVIOUS
  <2> HIDE DEF held
  <2> QED BY <2>1, <2>2 DEF PartsLoop
<1>4. PartsLoop(form, read)
  <2> HIDE DEF held
  <2> QED BY <1>3, Zenon
<1>5. Defaults(form) = read[Len(form)]
  BY DEF Defaults, PartsLoop
<1> HIDE DEF held, read
<1>6. ASSUME NEW m \in 0..Len(form)
      PROVE  read[m] = IF m = 0 THEN <<>>
                       ELSE IF m \in DefaultsParts(form) THEN Kept(form[m].text)
                       ELSE read[m - 1]
  BY <1>4 DEF PartsLoop, DefaultsCopied
<1>7. \A m \in 0..Len(form) : read[m] = HeldAfter(form, m)
  <2> DEFINE B == {m \in Nat : m <= Len(form) /\ read[m] # HeldAfter(form, m)}
  <2>1. SUFFICES ASSUME B # {} PROVE FALSE
    BY <1>1
  <2>2. B \subseteq Nat
    OBVIOUS
  <2> HIDE DEF B
  <2>3. PICK m \in B : \A b \in B : m <= b
    BY <2>1, <2>2, LeastNatural
  <2> USE DEF B
  <2>4. m \in 0..Len(form) /\ read[m] # HeldAfter(form, m)
    BY <1>1, <2>3
  <2>5. m # 0 => read[m - 1] = HeldAfter(form, m - 1)
    <3>1. CASE m # 0
      <4>1. m - 1 \in Nat /\ m - 1 <= Len(form) /\ ~(m <= m - 1)
        BY <1>1, <2>4, <3>1
      <4> QED BY <2>3, <4>1
    <3> QED BY <3>1
  <2> HIDE DEF B
  <2> QED BY <1>1, <1>2, <1>6, <2>4, <2>5, HeldStep
<1>8. Defaults(form) = HeldAfter(form, Len(form))
  BY <1>1, <1>5, <1>7
<1>9. PartsUpTo(form, Len(form)) = DefaultsParts(form)
  BY <1>1, <1>2 DEF PartsUpTo
<1>10. CASE DefaultsParts(form) = {}
  <2>1. AskedFor(form) = <<>> /\ Defaults(form) = <<>>
    BY <1>8, <1>9, <1>10 DEF AskedFor, HeldAfter
  <2>2. Kept(<<>>) = <<>> /\ <<>> \in Seq(Chars)
    BY TftpAssumption DEF Kept
  <2> QED BY <2>1, <2>2
<1>11. CASE DefaultsParts(form) # {}
  <2>1. PICK i \in DefaultsParts(form) : i = Max(DefaultsParts(form))
    BY <1>1, <1>2, <1>11, LastPosition
  <2>2. AskedFor(form) = form[i].text /\ Defaults(form) = Kept(form[i].text)
    BY <1>8, <1>9, <1>11, <2>1 DEF AskedFor, HeldAfter
  <2>3. form[i] \in FormParts /\ form[i].kind = "defaults"
    <3>1. i \in 1..Len(form)
      BY <1>2
    <3>2. form[i] \in FormParts
      BY <1>1, <3>1, ElementOfSeq
    <3> QED BY <3>2 DEF DefaultsParts
  <2>4. form[i].text \in Seq(Chars)
    BY <2>3 DEF FormParts
  <2> QED BY <2>2, <2>4
<1> QED BY <1>10, <1>11

(* A string that fits Defaults[] is kept as it is. *)
LEMMA KeptIs ==
    ASSUME NEW t \in Seq(Chars)
    PROVE  Kept(t) \in Seq(Chars) /\ (Len(t) < InjectBytes => Kept(t) = t)
<1>1. PICK n \in Nat : n = Len(t)
  BY LenProperties
<1>2. PICK b \in Nat \ {0} : b = InjectBytes
  BY TftpAssumption
<1>3. PICK m \in 0..n : Kept(t) = SubSeq(t, 1, m) /\ (n < b => m = n)
  BY <1>1, <1>2 DEF Kept
<1>4. SubSeq(t, 1, m) \in Seq(Chars)
  <2>1. \A i \in 1..m : t[i] \in Chars
    BY <1>1, <1>3, ElementOfSeq
  <2> QED BY <2>1, SubSeqProperties
<1>5. SubSeq(t, 1, n) = t
  BY <1>1
<1> QED BY <1>1, <1>2, <1>3, <1>4, <1>5

PageInv ==
    /\ httpImage \in Seq(Cells)
    /\ chainBoot.ptr = "http" => Len(httpImage) = chainBoot.size
    /\ FormStampsAsked

(* The page says "stamped" of the forms whose whole string is in the image.*)
LEMMA FormPage ==
    ASSUME FormStep
    PROVE  PageInv'
<1>1. PICK form \in Forms : GetContentForm(form)
  BY DEF FormStep
<1> DEFINE k == form[Max(KernelParts(form))].of
           verdict == BootVerdict(FormImage(k), KernelLen[k], Defaults(form))
<1>2. /\ KernelParts(form) # {}
      /\ chainBoot' = [ptr |-> "http", size |-> KernelLen[k]]
      /\ httpImage' = Stamped(FormImage(k), KernelLen[k], Defaults(form))
      /\ httpReply' = [asked |-> AskedFor(form), message |-> Block!BootMessage(verdict)]
  BY <1>1 DEF GetContentForm
<1>3. k \in Kernels /\ KernelLen[k] \in 1..MaxKernelSize
  BY <1>2, LastImage
<1> HIDE DEF k
<1>4. PICK n \in Nat : n = KernelLen[k] /\ n > 0
  BY <1>3
<1>5. PICK s \in Seq(Chars) : s = Defaults(form) /\ (Len(AskedFor(form)) < InjectBytes => s = AskedFor(form))
  BY DefaultsIs, KeptIs
<1>6. verdict = "PatchOK" \/ verdict # "PatchOK"
  OBVIOUS
<1>m. Block!BootMessage(verdict) = "defaults stamped, booting" <=> verdict = "PatchOK"
  BY DEF Block!BootMessage
<1>v. verdict = "PatchOK" => DefaultsCell \in 1..n
  <2>1. verdict = "PatchOK" => Block!PatchResult(n, CapacityAt(FormImage(k)) # 0, CapacityAt(FormImage(k)), s) = "PatchOK"
    BY <1>4, <1>5 DEF BootVerdict
  <2>2. verdict = "PatchOK" => ~(n < DefaultsCell - 1 + (0 + 1))
    BY <2>1 DEF Block!PatchResult, Block!SizeofDefaultsBlock
  <2> QED BY <2>2, StagedImageAssumption
<1>i. FormImage(k) = [i \in 1..n |-> PushedCell(k, i)]
  BY <1>4 DEF FormImage
<1>t. \A i \in 1..n : PushedCell(k, i) \in Cells /\ PushedCell(k, i).text = None
  BY <1>3 DEF PushedCell, Cells
<1>s. httpImage' = IF verdict = "PatchOK" THEN [FormImage(k) EXCEPT ![DefaultsCell].text = s]
                   ELSE FormImage(k)
  BY <1>2, <1>5 DEF Stamped
<1> HIDE DEF verdict
<1>7. httpImage' \in [1..n -> Cells]
  <2>1. FormImage(k) \in [1..n -> Cells]
    BY <1>i, <1>t
  <2>2. ASSUME verdict = "PatchOK" PROVE [FormImage(k) EXCEPT ![DefaultsCell].text = s] \in [1..n -> Cells]
    <3>1. PICK c \in Cells : c = FormImage(k)[DefaultsCell]
      BY <1>v, <2>1, <2>2
    <3>2. [c EXCEPT !.text = s] \in Cells
      BY DEF Cells
    <3> QED BY <2>1, <3>1, <3>2
  <2> QED BY <1>s, <2>1, <2>2
<1>8. httpImage' \in Seq(Cells) /\ Len(httpImage') = n
  BY <1>7
<1>9. ASSUME DefaultsCell \in 1..n
      PROVE  httpImage'[DefaultsCell].text = IF verdict = "PatchOK" THEN s ELSE None
  <2>1. FormImage(k)[DefaultsCell] = PushedCell(k, DefaultsCell)
    BY <1>9, <1>i
  <2>2. [PushedCell(k, DefaultsCell) EXCEPT !.text = s].text = s
    BY DEF PushedCell
  <2>3. [FormImage(k) EXCEPT ![DefaultsCell].text = s][DefaultsCell]
           = [PushedCell(k, DefaultsCell) EXCEPT !.text = s]
    BY <1>9, <1>i, <2>1
  <2> QED BY <1>9, <1>s, <1>t, <2>1, <2>2, <2>3
<1>10. /\ chainBoot'.size = n /\ httpReply'.asked = AskedFor(form)
       /\ httpReply'.message = "defaults stamped, booting" <=> verdict = "PatchOK"
  BY <1>2, <1>4, <1>m
<1>11. FormStampsAsked'
  <2> SUFFICES ASSUME Len(httpReply'.asked) < InjectBytes
               PROVE  IF n < DefaultsCell THEN verdict # "PatchOK"
                      ELSE httpImage'[DefaultsCell].text =
                              IF verdict = "PatchOK" THEN httpReply'.asked ELSE None
    BY <1>10 DEF FormStampsAsked
  <2>1. s = httpReply'.asked
    BY <1>5, <1>10
  <2>2. n < DefaultsCell => verdict # "PatchOK"
    BY <1>v
  <2>3. ~(n < DefaultsCell) => DefaultsCell \in 1..n
    BY StagedImageAssumption
  <2> QED BY <1>9, <2>1, <2>2, <2>3
<1> QED BY <1>8, <1>10, <1>11 DEF PageInv

LEMMA PageKept ==
    ASSUME ServerInv, PageInv, [LoaderNext]_loaderVars
    PROVE  PageInv'
<1>1. CASE ServerStep
  <2>1. Next /\ UNCHANGED <<httpImage, httpReply>>
    BY <1>1 DEF ServerStep, httpVars
  <2>2. CASE chainBoot' = chainBoot
    BY <2>1, <2>2 DEF PageInv, FormStampsAsked
  <2>3. CASE chainBoot' # chainBoot
    <3>1. chainBoot'.ptr = "tftp"
      BY <2>1, <2>3, OnlyCompletedArms, CompletedArmsWhole DEF ServerInv
    <3> QED BY <2>1, <3>1 DEF PageInv, FormStampsAsked
  <2> QED BY <2>2, <2>3
<1>2. CASE FormStep
  BY <1>2, FormPage
<1>3. CASE QuietStep
  BY <1>3 DEF QuietStep, httpVars, PageInv, FormStampsAsked
<1> QED BY <1>1, <1>2, <1>3, LoaderSteps

LEMMA PageInvariance == LoaderSpec => []PageInv
<1>1. LoaderInit => PageInv
  BY DEF LoaderInit, Init, NotArmed, PageInv, FormStampsAsked
<1>2. ServerInv /\ PageInv /\ [LoaderNext]_loaderVars => PageInv'
  BY PageKept
<1> QED BY <1>1, <1>2, ServerInvariance, PTL DEF LoaderSpec

(* Whatever parts a form had and in whatever order, the string that fits   *)
(* is in the image when the page says so, and none is when it says not.    *)
THEOREM FormAlwaysStampsAsked == LoaderSpec => []FormStampsAsked
<1>1. PageInv => FormStampsAsked
  BY DEF PageInv
<1> QED BY <1>1, PageInvariance, PTL

(* What the main task keeps to itself. *)
ControlInv ==
    /\ board \in Boards
    /\ rebootRequested \in BOOLEAN /\ mainReturned \in BOOLEAN
    /\ pc \in {"poll", "quiesceBoot", "sleepBoot", "quiesceReboot", "sleepReboot",
               "sysinit", "ended"}
    /\ started.how \in {"running", "reset", "coherent", "torndown"}

LEMMA ControlKept ==
    ASSUME ControlInv, [LoaderNext]_loaderVars
    PROVE  ControlInv'
<1>1. CASE TftpRequest \/ TftpServe \/ (\E form \in Forms : GetContentForm(form))
  BY <1>1 DEF TftpRequest, TftpServe, GetContentForm, runVars, ControlInv
<1>2. CASE GetContentInvalid \/ UNCHANGED loaderVars
  BY <1>2 DEF GetContentInvalid, loaderVars, runVars, ControlInv
<1>3. CASE GetContentReboot
  BY <1>3 DEF GetContentReboot, runVars, ControlInv
<1>4. CASE Run
  <2>1. Pi5 \in BOOLEAN
    BY LoaderAssumption DEF ControlInv, Pi5
  <2>2. mainReturned' \in BOOLEAN
    BY <1>4, <2>1, Zenon DEF Run, RunSeesArmed, RunSeesReboot, RunQuiesced, RunReturns,
                             RunReturnsReboot, ControlInv
  <2>3. /\ UNCHANGED <<board, rebootRequested, started>>
        /\ pc' \in {"quiesceBoot", "sleepBoot", "quiesceReboot", "sleepReboot", "sysinit"}
    BY <1>4 DEF Run, RunSeesArmed, RunSeesReboot, RunQuiesced, RunReturns, RunReturnsReboot, RunGoto
  <2> QED BY <2>2, <2>3 DEF ControlInv
<1>5. CASE Sysinit
  BY <1>5 DEF Sysinit, SysinitResets, RapiHandoff, SysinitHandoff, Ends, ControlInv
<1> QED BY <1>1, <1>2, <1>3, <1>4, <1>5 DEF LoaderNext

(* Every variable of the loader has its type. *)
THEOREM LoaderTypeCorrect == LoaderSpec => []LoaderTypeOK
<1>1. LoaderInit => ControlInv
  <2> SUFFICES ASSUME LoaderInit PROVE ControlInv
    OBVIOUS
  <2>1. rebootRequested \in BOOLEAN /\ mainReturned \in BOOLEAN
    BY Zenon DEF LoaderInit
  <2>2. board \in Boards /\ pc = "poll" /\ started.how = "running"
    BY DEF LoaderInit, Running
  <2> QED BY <2>1, <2>2 DEF ControlInv
<1>2. ControlInv /\ PageInv /\ ServerInv => LoaderTypeOK
  BY DEF ControlInv, PageInv, ServerInv, TypeInv, TypeOK, LoaderTypeOK
<1> QED BY <1>1, <1>2, ControlKept, PageInvariance, ServerInvariance, PTL DEF LoaderSpec

-----------------------------------------------------------------------------
(* The loader implements PushToBoot: every step is one of the promise's or *)
(* leaves what it speaks of alone.  What is armed must not only be whole   *)
(* but one of WholeImages, so the strings are followed too.                *)

PromisedKnown == promised \in {None} \cup {Trimmed(t) : t \in Texts}

StringInv == InjectIsAllOrNothing /\ PromisedKnown

LEMMA StringInvKept ==
    ASSUME ServerInv, StringInv, [LoaderNext]_loaderVars
    PROVE  StringInv'
<1> USE DEF ServerInv, StringInv
<1>1. CASE ServerStep
  <2>1. InjectIsAllOrNothing'
    BY <1>1, InjectNextKeeps DEF ServerStep
  <2>2. PromisedKnown'
    <3>1. CASE UNCHANGED promised
      BY <3>1 DEF PromisedKnown
    <3>2. CASE UpdateStatusCompleted
      BY <3>2 DEF UpdateStatusCompleted, PromisedKnown
    <3>3. CASE UpdateStatusIgnored
      <4>1. CASE xfer.op = "inject" /\ xfer.st = "completed"
        <5>1. xfer.what \in Texts
          BY <4>1 DEF TypeInv, TypeOK, TransfersOf, Idle
        <5>2. promised' = Trimmed(xfer.what)
          BY <3>3, <4>1 DEF UpdateStatusIgnored
        <5> QED BY <5>1, <5>2 DEF PromisedKnown
      <4>2. CASE ~(xfer.op = "inject" /\ xfer.st = "completed")
        BY <3>3, <4>2 DEF UpdateStatusIgnored, PromisedKnown
      <4> QED BY <4>1, <4>2
    <3>4. UNCHANGED promised \/ UpdateStatusCompleted \/ UpdateStatusIgnored
      BY <1>1 DEF ServerStep, Next, Request, Serve, FileCreateKernel, FileCreateInject,
                  FileCreateSD, FileOpen, FileWriteKernel, FileWriteInject, FileWriteSD,
                  FileRead, FileCloseKernel, FileCloseInject, FileCloseSDWrite,
                  FileCloseSDRead, UpdateStatusAborted, bootVars
    <3> QED BY <3>1, <3>2, <3>3, <3>4
  <2> QED BY <2>1, <2>2
<1>2. CASE FormStep \/ QuietStep
  <2>1. UNCHANGED <<xfer, injectPending, injectText, promised>>
    BY <1>2, FormArmsWhole DEF QuietStep, tftpVars, injectVars
  <2> QED BY <2>1 DEF InjectIsAllOrNothing, BlocksOf, PromisedKnown
<1> QED BY <1>1, <1>2, LoaderSteps

(* A pushed kernel, wherever it lies, is one of WholeImages once it has    *)
(* been through BootImageWithDefaults().                                   *)
LEMMA StampedIsKnown ==
    ASSUME NEW k \in Kernels, NEW n \in Nat, n = KernelLen[k], n > 0,
           NEW m \in Nat, n <= m, NEW memory, DOMAIN memory = 1..m,
           \A i \in 1..n : memory[i] = PushedCell(k, i),
           NEW s \in StampableTexts \cup {None, <<>>}
    PROVE  [i \in 1..n |-> Stamped(memory, n, s)[i]] \in WholeImages
<1> DEFINE Pushed(x) == [i \in 1..KernelLen[x] |-> PushedCell(x, i)]
           Takes(x)  == {t \in StampableTexts :
                            KernelLen[x] >= DefaultsCell /\ ~(Len(t) + 1 > Capacity[x])}
           With(x, t) == [Pushed(x) EXCEPT ![DefaultsCell].text = t]
           armed == Stamped(memory, n, s)
           copy  == [i \in 1..n |-> armed[i]]
<1> SUFFICES copy \in WholeImages
  OBVIOUS
<1>w. /\ Pushed(k) \in WholeImages
      /\ \A t \in Takes(k) : With(k, t) \in WholeImages
  <2>1. WholeImages = {Pushed(x) : x \in {x \in Kernels : KernelLen[x] > 0}}
                      \cup UNION {{With(x, t) : t \in Takes(x)} : x \in Kernels}
    BY DEF WholeImages
  <2>2. k \in {x \in Kernels : KernelLen[x] > 0}
    OBVIOUS
  <2> HIDE DEF Pushed, With, Takes
  <2> QED BY <2>1, <2>2
<1>p. Pushed(k) = [i \in 1..n |-> PushedCell(k, i)]
  OBVIOUS
<1>a. armed = IF BootVerdict(memory, n, s) = "PatchOK"
              THEN [memory EXCEPT ![DefaultsCell].text = s] ELSE memory
  BY DEF Stamped
<1>1. CASE BootVerdict(memory, n, s) # "PatchOK"
  <2>1. copy = Pushed(k)
    BY <1>1, <1>a
  <2> QED BY <1>w, <2>1
<1>2. CASE BootVerdict(memory, n, s) = "PatchOK"
  <2>1. /\ s \notin {None, <<>>}
        /\ Block!PatchResult(n, CapacityAt(memory) # 0, CapacityAt(memory), s) = "PatchOK"
    BY <1>2 DEF BootVerdict
  <2>2. /\ ~(n < DefaultsCell - 1 + (0 + 1))
        /\ ~(Len(s) + 1 > CapacityAt(memory))
    BY <2>1 DEF Block!PatchResult, Block!SizeofDefaultsBlock
  <2>3. DefaultsCell \in 1..n /\ n >= DefaultsCell
    BY <2>2, StagedImageAssumption
  <2>4. CapacityAt(memory) = Capacity[k]
    <3>1. memory[DefaultsCell] = [of |-> k, no |-> DefaultsCell, text |-> None]
      BY <2>3 DEF PushedCell
    <3> QED BY <3>1 DEF CapacityAt
  <2>5. s \in Takes(k)
    BY <2>1, <2>2, <2>3, <2>4
  <2>6. copy = With(k, s)
    <3>1. \A i \in 1..n : armed[i] = IF i = DefaultsCell
                                     THEN [PushedCell(k, i) EXCEPT !.text = s]
                                     ELSE PushedCell(k, i)
      BY <1>2, <1>a
    <3>2. \A i \in 1..n : With(k, s)[i] = IF i = DefaultsCell
                                          THEN [PushedCell(k, i) EXCEPT !.text = s]
                                          ELSE PushedCell(k, i)
      BY <1>p
    <3>3. With(k, s) = [i \in 1..n |-> With(k, s)[i]]
      BY <1>p
    <3>4. \A i \in 1..n : armed[i] = With(k, s)[i]
      BY <3>1, <3>2
    <3> HIDE DEF armed, With
    <3> QED BY <3>3, <3>4
  <2> HIDE DEF copy, Takes, With
  <2> QED BY <1>w, <2>5, <2>6
<1> QED BY <1>1, <1>2

(* Whatever becomes armed is one of WholeImages. *)
LEMMA ArmingIsKnown ==
    ASSUME ServerInv, StringInv, FormStep \/ UpdateStatusCompleted
    PROVE  Armed' /\ ArmedImage' \in WholeImages
<1>1. CASE FormStep
  <2>1. PICK form \in Forms : GetContentForm(form)
    BY <1>1 DEF FormStep
  <2> DEFINE k == form[Max(KernelParts(form))].of
  <2>2. /\ KernelParts(form) # {}
        /\ chainBoot' = [ptr |-> "http", size |-> KernelLen[k]]
        /\ httpImage' = Stamped(FormImage(k), KernelLen[k], Defaults(form))
    BY <2>1 DEF GetContentForm
  <2>3. k \in Kernels /\ KernelLen[k] \in 1..MaxKernelSize
    BY <2>2, LastImage
  <2> HIDE DEF k
  <2>4. Defaults(form) \in StampableTexts \cup {None, <<>>}
    BY DEF StampableTexts
  <2>5. PICK n \in Nat : n = KernelLen[k] /\ n > 0
    BY <2>3
  <2>6. /\ DOMAIN FormImage(k) = 1..n
        /\ \A i \in 1..n : FormImage(k)[i] = PushedCell(k, i)
    BY <2>5 DEF FormImage
  <2>7. [i \in 1..n |-> Stamped(FormImage(k), n, Defaults(form))[i]] \in WholeImages
    <3>1. PICK memory, t : memory = FormImage(k) /\ t = Defaults(form)
      OBVIOUS
    <3>2. /\ n \in Nat /\ n = KernelLen[k] /\ n > 0 /\ n <= n /\ k \in Kernels
          /\ DOMAIN memory = 1..n /\ \A i \in 1..n : memory[i] = PushedCell(k, i)
          /\ t \in StampableTexts \cup {None, <<>>}
      BY <2>3, <2>4, <2>5, <2>6, <3>1
    <3>3. [i \in 1..n |-> Stamped(memory, n, t)[i]] \in WholeImages
      BY <3>2, StampedIsKnown
    <3> QED BY <3>1, <3>3
  <2>8. ArmedImage' = [i \in 1..n |-> httpImage'[i]]
    BY <2>2, <2>5 DEF ArmedImage
  <2> QED BY <2>2, <2>5, <2>7, <2>8 DEF Armed
<1>2. CASE UpdateStatusCompleted
  <2>1. /\ xfer.op = "kernel" /\ currentOffset > 0
        /\ currentOffset = KernelLen[xfer.what]
        /\ \A i \in 1..currentOffset : kernelBuffer[i] = PushedCell(xfer.what, i)
    BY <1>2 DEF UpdateStatusCompleted, StatusWriteCompleted, ServerInv, PushInv,
                KernelBufferHoldsPush
  <2>2. PICK k \in Kernels : k = xfer.what
    BY <2>1 DEF ServerInv, TypeInv, TypeOK, TransfersOf, Idle
  <2>3. PICK s : s = IF injectPending THEN injectText ELSE None
    OBVIOUS
  <2>4. s \in StampableTexts \cup {None, <<>>}
    <3>1. s \in {None, <<>>, promised}
      BY <2>1, <2>3 DEF StringInv, InjectIsAllOrNothing
    <3> QED BY <3>1 DEF StringInv, PromisedKnown, StampableTexts
  <2>5. /\ currentOffset \in Nat /\ MaxKernelSize \in Nat /\ currentOffset <= MaxKernelSize
        /\ DOMAIN kernelBuffer = 1..MaxKernelSize
    BY TftpAssumption DEF ServerInv, TypeInv, TypeOK
  <2>6. [i \in 1..currentOffset |-> Stamped(kernelBuffer, currentOffset, s)[i]] \in WholeImages
    <3>1. PICK n, m : n = currentOffset /\ m = MaxKernelSize
      OBVIOUS
    <3>2. /\ n \in Nat /\ n = KernelLen[k] /\ n > 0 /\ m \in Nat /\ n <= m
          /\ DOMAIN kernelBuffer = 1..m
          /\ \A i \in 1..n : kernelBuffer[i] = PushedCell(k, i)
      BY <2>1, <2>2, <2>5, <3>1
    <3>3. PICK image : image = kernelBuffer
      OBVIOUS
    <3>4. DOMAIN image = 1..m /\ \A i \in 1..n : image[i] = PushedCell(k, i)
      BY <3>2, <3>3
    <3>5. [i \in 1..n |-> Stamped(image, n, s)[i]] \in WholeImages
      BY <2>4, <3>2, <3>4, StampedIsKnown
    <3> QED BY <3>1, <3>3, <3>5
  <2>7. /\ kernelBuffer' = Stamped(kernelBuffer, currentOffset, s)
        /\ chainBoot' = [ptr |-> "tftp", size |-> currentOffset]
    BY <1>2, <2>3 DEF UpdateStatusCompleted
  <2>8. ArmedImage' = [i \in 1..currentOffset |-> kernelBuffer'[i]]
    BY <2>7 DEF ArmedImage
  <2> QED BY <2>6, <2>7, <2>8 DEF Armed
<1> QED BY <1>1, <1>2

(* Every other step leaves what is armed alone. *)
LEMMA ArmedAtRest ==
    ASSUME ~PushWhileArmed, ServerInv, ArmedWhole, [LoaderNext]_loaderVars,
           ~FormStep, ~(ServerStep /\ UpdateStatusCompleted)
    PROVE  Armed' = Armed /\ (Armed => ArmedImage' = ArmedImage)
<1>1. CASE ServerStep
  <2>1. /\ Next /\ UNCHANGED httpImage /\ ~UpdateStatusCompleted
    BY <1>1 DEF ServerStep, httpVars
  <2>2. chainBoot' = chainBoot
    BY <2>1, OnlyCompletedArms
  <2>3. FileWriteKernel \/ kernelBuffer' = kernelBuffer
    BY <2>1 DEF Next, Request, Serve, FileCreateKernel, FileCreateInject, FileCreateSD, FileOpen,
                FileWriteInject, FileWriteSD, FileRead, FileCloseKernel, FileCloseInject,
                FileCloseSDWrite, FileCloseSDRead, UpdateStatusIgnored, UpdateStatusAborted,
                kernelVars
  <2>4. chainBoot.ptr = "tftp" => kernelBuffer' = kernelBuffer
    BY <2>3 DEF ArmedWhole, Undisturbed, FileWriteKernel
  <2>5. Armed => chainBoot.ptr \in {"tftp", "http"}
    BY DEF Armed, ServerInv, TypeInv, TypeOK
  <2>6. Armed => ArmedImage' = ArmedImage
    BY <2>1, <2>2, <2>4, <2>5 DEF ArmedImage
  <2> QED BY <2>2, <2>6 DEF Armed
<1>2. CASE QuietStep
  <2>1. UNCHANGED <<kernelBuffer, httpImage, chainBoot>>
    BY <1>2 DEF QuietStep, tftpVars, kernelVars, httpVars
  <2> QED BY <2>1 DEF Armed, ArmedImage
<1> QED BY <1>1, <1>2, LoaderSteps

KnownArmed == Armed => ArmedImage \in WholeImages

PromiseInv == LoaderInv /\ Progress /\ StringInv /\ KnownArmed

LEMMA KnownArmedKept ==
    ASSUME ~PushWhileArmed, PromiseInv, [LoaderNext]_loaderVars
    PROVE  KnownArmed'
<1>1. CASE FormStep \/ UpdateStatusCompleted
  BY <1>1, ArmingIsKnown DEF PromiseInv, LoaderInv, KnownArmed
<1>2. CASE ~FormStep /\ ~UpdateStatusCompleted
  BY <1>2, ArmedAtRest DEF PromiseInv, LoaderInv, KnownArmed
<1> QED BY <1>1, <1>2

LEMMA PromiseInvariance == ~PushWhileArmed => (LoaderSpec => []PromiseInv)
<1> SUFFICES ASSUME ~PushWhileArmed PROVE LoaderSpec => []PromiseInv
  OBVIOUS
<1>1. LoaderInit => StringInv /\ KnownArmed
  BY DEF LoaderInit, Init, NotArmed, Idle, StringInv, InjectIsAllOrNothing, PromisedKnown,
         KnownArmed, Armed
<1>2. LoaderInv /\ StringInv /\ [LoaderNext]_loaderVars => StringInv'
  BY StringInvKept DEF LoaderInv
<1>3. PromiseInv /\ [LoaderNext]_loaderVars => KnownArmed'
  BY KnownArmedKept
<1>4. PromiseInv <=> LoaderInv /\ Progress /\ StringInv /\ KnownArmed
  BY DEF PromiseInv
<1> QED BY <1>1, <1>2, <1>3, <1>4, LoaderInvariance, ProgressInvariance, PTL DEF LoaderSpec

(* What the promise speaks of, seen from the loader. *)
ArmedMapped == IF Armed THEN ArmedImage ELSE None

StartedMapped == CASE started.how = "running" -> None
                   [] started.how = "reset"   -> ResetMark
                   [] OTHER                   -> started.image

LEMMA StepIsPromised ==
    ASSUME ~PushWhileArmed, PromiseInv, [LoaderNext]_loaderVars
    PROVE  [Promise!Next]_(Promise!vars)
<1> USE DEF PromiseInv, LoaderInv
<1>1. CASE started' # started
  <2>1. /\ pc = "sysinit" /\ UNCHANGED <<tftpVars, chainBoot, httpVars>>
        /\ \/ ~Armed /\ started' = [how |-> "reset", image |-> None]
           \/ Armed /\ started' = [how |-> "coherent", image |-> ArmedImage]
           \/ Armed /\ started' = [how |-> "torndown", image |-> ArmedImage]
    BY <1>1, HowItEnds
  <2>2. StartedMapped = None
    <3>1. started.how = "running"
      BY <2>1 DEF Progress, Running
    <3> QED BY <3>1 DEF StartedMapped
  <2>3. Armed' = Armed /\ ArmedImage' = ArmedImage
    BY <2>1 DEF Armed, ArmedImage, tftpVars, kernelVars, httpVars
  <2>4. ArmedMapped' = ArmedMapped
    BY <2>3 DEF ArmedMapped
  <2>5. CASE ~Armed
    <3>1. StartedMapped' = ResetMark
      <4>1. started'.how = "reset"
        BY <2>1, <2>5
      <4> QED BY <4>1 DEF StartedMapped
    <3>2. ArmedMapped = None
      BY <2>5 DEF ArmedMapped
    <3>3. Promise!GiveUp
      BY <2>2, <2>4, <3>1, <3>2 DEF Promise!GiveUp, ArmedMapped, StartedMapped
    <3> QED BY <3>3 DEF Promise!Next
  <2>6. CASE Armed
    <3>1. StartedMapped' = ArmedImage
      <4>1. started'.how \in {"coherent", "torndown"} /\ started'.image = ArmedImage
        BY <2>1, <2>6
      <4> QED BY <4>1 DEF StartedMapped
    <3>2. ArmedMapped = ArmedImage /\ ArmedImage # None
      BY <2>6, MarksAssumption DEF ArmedMapped, KnownArmed
    <3>3. Promise!Start
      BY <2>2, <2>4, <3>1, <3>2 DEF Promise!Start, ArmedMapped, StartedMapped
    <3> QED BY <3>3 DEF Promise!Next
  <2> QED BY <2>5, <2>6
<1>2. CASE started' = started /\ (FormStep \/ (ServerStep /\ UpdateStatusCompleted))
  <2>1. Armed' /\ ArmedImage' \in WholeImages
    BY <1>2, ArmingIsKnown
  <2>2. StartedMapped = None /\ StartedMapped' = None
    <3>1. pc # "ended"
      BY <1>2 DEF FormStep, ServerStep, TasksRun
    <3>2. started.how = "running"
      BY <3>1 DEF Progress, Running
    <3> QED BY <1>2, <3>2 DEF StartedMapped
  <2>3. ArmedMapped' \in WholeImages
    BY <2>1 DEF ArmedMapped
  <2>4. \E image \in WholeImages : Promise!Arm(image)
    BY <2>2, <2>3 DEF Promise!Arm, ArmedMapped, StartedMapped
  <2> QED BY <2>4 DEF Promise!Next
<1>3. CASE started' = started /\ ~FormStep /\ ~(ServerStep /\ UpdateStatusCompleted)
  <2>1. Armed' = Armed /\ (Armed => ArmedImage' = ArmedImage)
    BY <1>3, ArmedAtRest
  <2>2. ArmedMapped' = ArmedMapped /\ StartedMapped' = StartedMapped
    BY <1>3, <2>1 DEF ArmedMapped, StartedMapped
  <2> QED BY <2>2 DEF Promise!vars, ArmedMapped, StartedMapped
<1> QED BY <1>1, <1>2, <1>3

(* The loader does what PushToBoot promises and nothing else: it arms only *)
(* whole pushes, as they were pushed or with a string its pusher gave,     *)
(* starts the one armed last, and resets only when there is none.          *)
THEOREM LoaderImplementsPromise ==
    ~PushWhileArmed => (LoaderSpec => Promise!Init /\ [][Promise!Next]_(Promise!vars))
<1> SUFFICES ASSUME ~PushWhileArmed
             PROVE  LoaderSpec => Promise!Init /\ [][Promise!Next]_(Promise!vars)
  OBVIOUS
<1>1. LoaderInit => Promise!Init
  <2> SUFFICES ASSUME LoaderInit PROVE Promise!Init
    OBVIOUS
  <2>1. ~Armed /\ started.how = "running"
    BY DEF LoaderInit, Init, NotArmed, Armed, Running
  <2>2. ArmedMapped = None /\ StartedMapped = None
    BY <2>1 DEF ArmedMapped, StartedMapped
  <2> QED BY <2>2 DEF Promise!Init, ArmedMapped, StartedMapped
<1>2. PromiseInv /\ [LoaderNext]_loaderVars => [Promise!Next]_(Promise!vars)
  BY StepIsPromised
<1> QED BY <1>1, <1>2, PromiseInvariance, PTL DEF LoaderSpec

=============================================================================
