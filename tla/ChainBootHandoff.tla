-------------------------- MODULE ChainBootHandoff -------------------------
(***************************************************************************)
(* chainboot/: how an armed image takes the running loader's place on the  *)
(* Raspberry Pi 5.                                                         *)
(*                                                                         *)
(* Memory is counted in cache lines.  A line has a content in DRAM and may *)
(* have copies in the memory-side system cache ("sys") and in the caches   *)
(* of the core ("core"); "dirty" names the caches whose copy is newer than *)
(* what lies below.  A cache may write a line back and drop it at any      *)
(* moment, and may be filled with one as long as somebody reads memory.    *)
(*                                                                         *)
(* Maintenance of a range of lines is one action: it does to each line     *)
(* what it does whatever the others hold, so only what happens to a line   *)
(* before and after matters.  The copy goes line by line.                  *)
(***************************************************************************)
EXTENDS Integers, FiniteSets

CONSTANTS
    KernelStart, KernelEnd,  \* MEM_KERNEL_START, MEM_KERNEL_END
    HeapStart,     \* MEM_HEAP_START; the loader's stacks lie below it
    Gigabyte,      \* GIGABYTE, where high memory starts
    FourGB,        \* what a pointer of 32 bits reaches
    MemTop,        \* the first line no board has
    HighMemSizes,  \* GetHighMemSize() of the boards
    LowHeapUsed,   \* how far the loader may have filled its low heap
    Payloads,      \* images clients push
    ImageSize,     \* of each, in lines
    DTBSize,       \* lines of the firmware's device tree
    MaxArms,       \* bound: images armed, each in memory of its own
    MaxRestless,   \* bound: lines whose cached copies come and go by themselves
    None

Slot  == 0                  \* the line of ARM_DTB_PTR32, 0xF8
Lines == 0..(MemTop - 1)

ASSUME HandoffAssumption ==
    /\ KernelStart \in Nat /\ KernelEnd \in Nat /\ HeapStart \in Nat
    /\ Gigabyte \in Nat /\ FourGB \in Nat /\ MemTop \in Nat
    /\ 0 < KernelStart /\ KernelStart < KernelEnd /\ KernelEnd <= HeapStart
    /\ HeapStart < Gigabyte /\ Gigabyte < FourGB /\ FourGB <= MemTop
    /\ HighMemSizes \subseteq 0..(MemTop - Gigabyte)
    /\ LowHeapUsed \subseteq HeapStart..Gigabyte
    /\ \A p \in Payloads : ImageSize[p] \in 1..(HeapStart - KernelStart)
    /\ DTBSize \in Nat \ {0}
    /\ MaxArms \in Nat /\ MaxRestless \in Nat

VARIABLES
    pc,          \* where the loader, DoChainBoot() or its stub is
    memory,      \* [Lines -> what is in DRAM and in the caches]
    restless,    \* the lines whose cached copies come and go
    highMem,     \* GetHighMemSize()
    dtbFound,    \* CaptureDTB() finds a device tree that passes its checks
    heap,        \* the next free line of the low and of the high heap
    arms,        \* images armed
    image,       \* s_pKernelImage and which payload it holds
    stub,        \* s_pStub, 0 before it is staged
    dtbCopy,     \* s_pDTBCopy, 0 if there is none
    copied       \* lines the stub has copied

armVars == <<highMem, dtbFound, heap, arms, image, stub, dtbCopy>>
vars == <<pc, memory, restless, armVars, copied>>

(* What a line may hold. *)
Data(is, of, no) == [is |-> is, of |-> of, no |-> no]

Loaders       == Data("loader", None, 0)     \* code, stacks and data of the loader
Image(p, i)   == Data("image", p, i)
StubCode      == Data("stub", None, 0)
Blob(j)       == Data("blob", None, j)       \* the device tree
Pointer(a)    == Data("pointer", None, a)    \* in the slot

Contents == [is : {"loader", "image", "stub", "blob", "pointer"},
             of : Payloads \cup {None}, no : Nat]

ASSUME NoneAssumption == None \notin Contents /\ None \notin [at : Nat, of : Payloads]

-----------------------------------------------------------------------------
(* One line in its three places. *)

LineStates ==
    {x \in [dram : Contents, sys : Contents \cup {None}, core : Contents \cup {None},
            dirty : SUBSET {"sys", "core"}] :
        ("sys" \in x.dirty => x.sys # None) /\ ("core" \in x.dirty => x.core # None)}

(* What the line's newest dirty copy, or DRAM, holds. *)
Newest(x) ==
    IF "core" \in x.dirty THEN x.core ELSE IF "sys" \in x.dirty THEN x.sys ELSE x.dram

(* An ordinary store of the loader, caches on. *)
Stored(x, v) == [x EXCEPT !.core = v, !.dirty = @ \cup {"core"}]

(* Clean by set and way: it reaches the core's own caches only, so a dirty *)
(* line ends up dirty in the system cache.                                 *)
CleanedSetWay(x) ==
    IF "core" \in x.dirty THEN [x EXCEPT !.sys = x.core, !.dirty = {"sys"}] ELSE x

(* dc cvac: the newest copy is written to DRAM, cached copies stay. *)
Cleaned(x) ==
    [x EXCEPT !.dram = Newest(x), !.sys = IF @ = None THEN None ELSE Newest(x), !.dirty = {}]

(* dc civac: the same, and no copy stays.  A clean one is only dropped. *)
Evicted(x) == [dram |-> Newest(x), sys |-> None, core |-> None, dirty |-> {}]

(* What a read with MMU and caches of the core off may return, and what a  *)
(* store may leave: either goes past the system cache or into it.          *)
UncachedReads(x) == {x.dram, IF x.sys = None THEN x.dram ELSE x.sys}
UncachedStores(x, v) ==
    {[x EXCEPT !.dram = v], [x EXCEPT !.sys = v, !.dirty = @ \cup {"sys"}]}

(* What anybody may still find in the line, however it is read. *)
Views(x) == {x.dram, x.sys, x.core} \ {None}

(* The core drops its copy; the system cache drops its copy. *)
CoreDrops(x) == [CleanedSetWay(x) EXCEPT !.core = None]
SysDrops(x)  == [x EXCEPT !.dram = IF "sys" \in x.dirty THEN x.sys ELSE @,
                          !.sys = None, !.dirty = @ \ {"sys"}]

(* The core reads the line, caches on; the system cache takes it in. *)
CoreFills(x) == IF x.core = None
                THEN [x EXCEPT !.core = IF x.sys = None THEN x.dram ELSE x.sys] ELSE x
SysFills(x)  == IF x.sys = None THEN [x EXCEPT !.sys = x.dram] ELSE x

Span(from, size) == from..(from + size - 1)

-----------------------------------------------------------------------------
(* Staging memory. *)

(* Mutant: the low heap is not asked whether there is room. *)
StageAllocUnasked(h, n) ==
    IF highMem >= n /\ Gigabyte + highMem - h.high >= n
    THEN [at |-> h.high, heap |-> [h EXCEPT !.high = @ + n]]
    ELSE [at |-> h.low, heap |-> [h EXCEPT !.low = @ + n]]

(* n lines from heaps filled up to h: of the high heap if the board has    *)
(* one with room, else of the low one; at = 0 if neither has.              *)
StageAlloc(h, n) ==
    CASE highMem >= n /\ Gigabyte + highMem - h.high >= n ->
            [at |-> h.high, heap |-> [h EXCEPT !.high = @ + n]]
      [] ~(highMem >= n /\ Gigabyte + highMem - h.high >= n) /\ Gigabyte - h.low >= n ->
            [at |-> h.low, heap |-> [h EXCEPT !.low = @ + n]]
      [] OTHER -> [at |-> 0, heap |-> h]

(* Mutant: any address will do for the slot. *)
AddressableAny(copy) == TRUE

(* The slot is 32 bits wide. *)
Addressable(copy) == copy.at + DTBSize <= FourGB

(* s_pDTBCopy after CaptureDTB().  A copy the slot cannot point at stays   *)
(* allocated, for nothing.                                                 *)
CaptureDTB(h) ==
    LET copy == StageAlloc(h, DTBSize) IN
    CASE dtbCopy # 0 \/ ~dtbFound -> [at |-> dtbCopy, heap |-> h]
      [] dtbCopy = 0 /\ dtbFound /\ Addressable(copy) -> copy
      [] OTHER -> [at |-> 0, heap |-> copy.heap]

(* s_pStub, from the heap the first time. *)
StagedStub(h) ==
    IF stub # 0 THEN [at |-> stub, heap |-> h]
    ELSE [at |-> h.low, heap |-> [h EXCEPT !.low = @ + 1]]

-----------------------------------------------------------------------------

Cold(v) == [dram |-> v, sys |-> None, core |-> None, dirty |-> {}]

(* All the loader has written so far is still dirty in the core's caches,  *)
(* its zero in the slot the firmware had filled too.                       *)
Init ==
    /\ pc = "loader"
    /\ memory = [l \in Lines |-> IF l = Slot THEN Stored(Cold(Pointer(MemTop)), Pointer(0))
                                             ELSE Stored(Cold(Loaders), Loaders)]
    /\ restless \in {r \in SUBSET Lines : Cardinality(r) <= MaxRestless}
    /\ highMem \in HighMemSizes
    /\ dtbFound \in BOOLEAN
    /\ \E low \in LowHeapUsed : heap = [low |-> low, high |-> Gigabyte]
    /\ arms = 0 /\ image = None /\ stub = 0 /\ dtbCopy = 0
    /\ copied = 0

(* A boot server stages an image and calls EnableChainBoot(). *)
EnableChainBoot(p) ==
    LET img  == StageAlloc(heap, ImageSize[p])
        dtb  == CaptureDTB(img.heap)
        code == StagedStub(dtb.heap)
    IN  /\ pc = "loader" /\ arms < MaxArms
        /\ img.at # 0
        /\ stub = 0 => dtb.heap.low < Gigabyte      \* or new panics
        /\ image' = [at |-> img.at, of |-> p]
        /\ dtbCopy' = dtb.at /\ stub' = code.at /\ heap' = code.heap
        /\ memory' = [l \in Lines |->
              CASE l \in Span(img.at, ImageSize[p]) -> Stored(memory[l], Image(p, l - img.at))
                [] dtb.at # dtbCopy /\ l \in Span(dtb.at, DTBSize) ->
                        Stored(memory[l], Blob(l - dtb.at))
                [] l = code.at -> Stored(memory[l], StubCode)
                [] OTHER -> memory[l]]
        /\ arms' = arms + 1
        /\ UNCHANGED <<pc, restless, highMem, dtbFound, copied>>

InImage(l) == image # None /\ l \in Span(image.at, ImageSize[image.of])
InDTB(l)   == dtbCopy # 0 /\ l \in Span(dtbCopy, DTBSize)
InStub(l)  == stub # 0 /\ l = stub
Staged(l)  == InImage(l) \/ InDTB(l) \/ InStub(l)

(* The loader stores to memory of its own: anywhere as long as it runs, to *)
(* its stack while DoChainBoot() does.                                     *)
LoaderStore(l) ==
    /\ \/ pc = "loader" /\ l # Slot /\ ~Staged(l)
       \/ pc \in {"slot", "clean", "ranges", "off"} /\ l \in KernelEnd..(HeapStart - 1)
    /\ memory' = [memory EXCEPT ![l] = Stored(@, Loaders)]
    /\ UNCHANGED <<pc, restless, armVars, copied>>

-----------------------------------------------------------------------------
(* DoChainBoot(), entered from IsChainBootEnabled() after main() returned. *)

HandoffStep(from, to) ==
    /\ pc = from /\ pc' = to
    /\ UNCHANGED <<restless, armVars>>

(* Interrupts are masked: no other code of the loader runs any more. *)
IsChainBootEnabled ==
    /\ image # None
    /\ HandoffStep("loader", "slot") /\ UNCHANGED <<memory, copied>>

PointSlot ==
    /\ HandoffStep("slot", "clean")
    /\ memory' = IF dtbCopy # 0
                 THEN [memory EXCEPT ![Slot] = Stored(@, Pointer(dtbCopy % FourGB))]
                 ELSE memory
    /\ UNCHANGED copied

CleanDataCache ==
    /\ HandoffStep("clean", "ranges")
    /\ memory' = [l \in Lines |-> CleanedSetWay(memory[l])]
    /\ UNCHANGED copied

(* Mutants: the stub, or the staged image, is left to the set/way clean. *)
RangesNoStub  == {l \in Lines : Staged(l) /\ ~InStub(l)}
RangesNoImage == {l \in Lines : Staged(l) /\ ~InImage(l)}

(* The lines cleaned by address: stub, staged image and device tree. *)
Ranges == {l \in Lines : Staged(l)}

CleanDataCacheRanges ==
    /\ HandoffStep("ranges", "off")
    /\ memory' = [l \in Lines |->
          CASE l \in Ranges -> Cleaned(memory[l])
            [] l = Slot /\ dtbCopy # 0 -> Evicted(memory[l])
            [] OTHER -> memory[l]]
    /\ UNCHANGED copied

(* MMU and data cache off, hvc to EL2, jump to the stub. *)
EnterStub ==
    /\ HandoffStep("off", "sweep")
    /\ UNCHANGED <<memory, copied>>

-----------------------------------------------------------------------------
(* RapiChainBootStub(). *)

(* The first gigabyte evicted, from MEM_KERNEL_START on. *)
Swept(m) == [l \in Lines |-> IF l \in KernelStart..(Gigabyte - 1) THEN Evicted(m[l]) ELSE m[l]]

(* Mutant: one sweep after the copy will do. *)
SweepBeforeOmitted ==
    /\ HandoffStep("sweep", "copy")
    /\ copied' = 0
    /\ UNCHANGED memory

SweepBefore ==
    /\ HandoffStep("sweep", "copy")
    /\ memory' = Swept(memory)
    /\ copied' = 0

CopyLine ==
    /\ HandoffStep("copy", "copy")
    /\ copied < ImageSize[image.of]
    /\ \E v \in UncachedReads(memory[image.at + copied]) :
       \E x \in UncachedStores(memory[KernelStart + copied], v) :
            memory' = [memory EXCEPT ![KernelStart + copied] = x]
    /\ copied' = copied + 1

(* Mutant: one sweep before the copy will do. *)
SweepAfterOmitted ==
    /\ HandoffStep("copy", "enter")
    /\ copied = ImageSize[image.of]
    /\ UNCHANGED <<memory, copied>>

SweepAfter ==
    /\ HandoffStep("copy", "enter")
    /\ copied = ImageSize[image.of]
    /\ memory' = Swept(memory)
    /\ UNCHANGED copied

EnterPayload ==
    /\ HandoffStep("enter", "payload")
    /\ UNCHANGED <<memory, copied>>

-----------------------------------------------------------------------------
(* The caches, by themselves. *)

(* Caches fill as long as the loader or its stub reads memory; behind the  *)
(* second sweep the stub reads nothing but its own instructions.           *)
CachesChange(l) ==
    /\ l \in restless
    /\ \/ memory' = [memory EXCEPT ![l] = CoreDrops(@)]
       \/ memory' = [memory EXCEPT ![l] = SysDrops(@)]
       \/ /\ pc \in {"loader", "slot", "clean", "ranges", "off"}
          /\ memory' = [memory EXCEPT ![l] = CoreFills(@)]
       \/ /\ pc # "payload" /\ (pc = "enter" => l = stub)
          /\ memory' = [memory EXCEPT ![l] = SysFills(@)]
    /\ UNCHANGED <<pc, restless, armVars, copied>>

Handoff ==
    \/ PointSlot \/ CleanDataCache \/ CleanDataCacheRanges \/ EnterStub
    \/ SweepBefore \/ CopyLine \/ SweepAfter \/ EnterPayload

Next ==
    \/ \E p \in Payloads : EnableChainBoot(p)
    \/ \E l \in restless : LoaderStore(l) \/ CachesChange(l)
    \/ IsChainBootEnabled \/ Handoff

Spec == Init /\ [][Next]_vars

(* main() returns once an image is armed, and what follows is straight-line*)
(* code.                                                                   *)
FairSpec == Spec /\ WF_vars(IsChainBootEnabled) /\ WF_vars(Handoff)

-----------------------------------------------------------------------------

(* Every variable has its type. *)
TypeOK ==
    /\ pc \in {"loader", "slot", "clean", "ranges", "off", "sweep", "copy", "enter", "payload"}
    /\ memory \in [Lines -> LineStates]
    /\ restless \subseteq Lines
    /\ highMem \in HighMemSizes /\ dtbFound \in BOOLEAN
    /\ heap \in [low : HeapStart..Gigabyte, high : Gigabyte..(Gigabyte + highMem)]
    /\ arms \in 0..MaxArms
    /\ image = None \/ image \in [at : HeapStart..(MemTop - 1), of : Payloads]
    /\ stub = 0 \/ stub \in HeapStart..(Gigabyte - 1)
    /\ dtbCopy = 0 \/ dtbCopy \in HeapStart..(FourGB - 1)
    /\ copied \in 0..(HeapStart - KernelStart)

(* The payload finds the armed image in every line, by whatever way it     *)
(* reads it and whatever the caches still write back: sweep, copy and      *)
(* sweep leave no hole of the loader's in it.                              *)
PayloadReadsImage ==
    pc = "payload" =>
        \A i \in 0..(ImageSize[image.of] - 1) :
            Views(memory[KernelStart + i]) = {Image(image.of, i)}

(* Of the first gigabyte no cache holds anything the loader left, but the  *)
(* stub's own code: a payload that writes there with its caches off reads  *)
(* its own stores later.                                                   *)
LoaderEvicted ==
    pc = "payload" =>
        \A l \in KernelStart..(Gigabyte - 1) :
            LET x == memory[l] IN x.dirty = {} /\ (l # stub => x.sys = None /\ x.core = None)

(* The slot points at the whole device tree once one was staged, also if   *)
(* the loader's zero in the slot was never written back before.            *)
SlotPointsAtCopy ==
    pc = "payload" /\ dtbCopy # 0 =>
        \E a \in Lines \ {Slot} :
            /\ Views(memory[Slot]) = {Pointer(a)}
            /\ \A j \in 0..(DTBSize - 1) : Views(memory[a + j]) = {Blob(j)}

(* The stub, which overwrites the loader and runs with the caches off,     *)
(* fetches its own code to the end.                                        *)
StubFetchesStub ==
    pc \in {"sweep", "copy", "enter"} => UncachedReads(memory[stub]) = {StubCode}

(* The hand-off keeps what PushToBoot promises: what starts is the image   *)
(* armed last, and something armed does start.                             *)
Whole(p)   == [i \in 0..(ImageSize[p] - 1) |-> {Image(p, i)}]
InMemory   == [i \in 0..(ImageSize[image.of] - 1) |-> Views(memory[KernelStart + i])]

ASSUME WholeAssumption == \A p \in Payloads : Whole(p) # None

Promise == INSTANCE PushToBoot WITH
    Images  <- {Whole(p) : p \in Payloads},
    Reset   <- {},
    armed   <- IF image = None THEN None ELSE Whole(image.of),
    started <- IF pc = "payload" THEN InMemory ELSE None

HandoffKeepsPromise == Promise!Spec

=============================================================================
