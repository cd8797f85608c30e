----------------------- MODULE ChainBootHandoffProofs ----------------------
(***************************************************************************)
(* Proofs about ChainBootHandoff, for every memory map, every number of    *)
(* payloads and every behaviour of the caches.                             *)
(***************************************************************************)
EXTENDS ChainBootHandoff, TLAPS

-----------------------------------------------------------------------------
(* One line, as the hand-off goes on. *)

(* With the caches on: a copy that is not dirty agrees with what is below. *)
Coherent(x) ==
    /\ x.core # None /\ "core" \notin x.dirty =>
            x.core = (IF x.sys = None THEN x.dram ELSE x.sys)
    /\ x.sys # None /\ "sys" \notin x.dirty => x.sys = x.dram

(* What the loader reads in a coherent line. *)
Held(x) == IF x.core # None THEN x.core ELSE IF x.sys # None THEN x.sys ELSE x.dram

(* v in DRAM, and nothing else in any cache. *)
Settled(x, v) == x.dram = v /\ x.sys \in {None, v} /\ x.core \in {None, v}

(* Swept, and at most stored to past the core's caches since. *)
Quiet(x) == x.core = None /\ "core" \notin x.dirty

(* What the caches may do to a line by themselves. *)
Drops(x) == {CoreDrops(x), SysDrops(x)}
Fills(x) == {CoreFills(x), SysFills(x)}

(* Whatever the loader, the stub and the caches do to a line leaves a line.*)
LEMMA LineTypes ==
    ASSUME NEW x \in LineStates
    PROVE  /\ Newest(x) \in Contents
           /\ CleanedSetWay(x) \in LineStates
           /\ Cleaned(x) \in LineStates
           /\ Evicted(x) \in LineStates
           /\ Drops(x) \subseteq LineStates
           /\ Fills(x) \subseteq LineStates
           /\ UncachedReads(x) \subseteq Contents
           /\ \A v \in Contents : /\ Stored(x, v) \in LineStates
                                 /\ UncachedStores(x, v) \subseteq LineStates
<1>1. Newest(x) \in Contents
  BY DEF LineStates, Newest
<1>2. CleanedSetWay(x) \in LineStates
  BY DEF LineStates, CleanedSetWay
<1>3. Cleaned(x) \in LineStates
  BY <1>1, NoneAssumption DEF LineStates, Cleaned
<1>4. Evicted(x) \in LineStates
  BY <1>1 DEF LineStates, Evicted
<1>5. Drops(x) \subseteq LineStates
  <2>1. CoreDrops(x) \in LineStates
    BY <1>2 DEF LineStates, CoreDrops, CleanedSetWay
  <2>2. SysDrops(x) \in LineStates
    BY DEF LineStates, SysDrops
  <2> QED BY <2>1, <2>2 DEF Drops
<1>6. Fills(x) \subseteq LineStates
  BY DEF LineStates, Fills, CoreFills, SysFills
<1>7. UncachedReads(x) \subseteq Contents
  BY DEF LineStates, UncachedReads
<1>8. ASSUME NEW v \in Contents
      PROVE  Stored(x, v) \in LineStates /\ UncachedStores(x, v) \subseteq LineStates
  <2>1. Stored(x, v) \in LineStates
    BY NoneAssumption DEF LineStates, Stored
  <2>2. [x EXCEPT !.dram = v] \in LineStates
    BY DEF LineStates
  <2>3. [x EXCEPT !.sys = v, !.dirty = @ \cup {"sys"}] \in LineStates
    BY NoneAssumption DEF LineStates
  <2> QED BY <2>1, <2>2, <2>3 DEF UncachedStores
<1> QED BY <1>1, <1>2, <1>3, <1>4, <1>5, <1>6, <1>7, <1>8

(* With the caches on nothing they do by themselves, and no clean, changes *)
(* what the loader reads.                                                  *)
LEMMA CoherentKept ==
    ASSUME NEW x \in LineStates, Coherent(x)
    PROVE  \A y \in Drops(x) \cup Fills(x) \cup {CleanedSetWay(x)} :
                Coherent(y) /\ Held(y) = Held(x)
<1>1. Coherent(CleanedSetWay(x)) /\ Held(CleanedSetWay(x)) = Held(x)
  BY DEF Coherent, Held, LineStates, CleanedSetWay
<1>2. Coherent(CoreDrops(x)) /\ Held(CoreDrops(x)) = Held(x)
  BY DEF Coherent, Held, LineStates, CleanedSetWay, CoreDrops
<1>3. Coherent(SysDrops(x)) /\ Held(SysDrops(x)) = Held(x)
  BY DEF Coherent, Held, LineStates, SysDrops
<1>4. \A y \in Fills(x) : Coherent(y) /\ Held(y) = Held(x)
  BY NoneAssumption DEF Coherent, Held, LineStates, Fills, CoreFills, SysFills
<1> QED BY <1>1, <1>2, <1>3, <1>4 DEF Drops

(* A store is what is read afterwards. *)
LEMMA StoredHolds ==
    ASSUME NEW x \in LineStates, NEW v \in Contents, Coherent(x)
    PROVE  Coherent(Stored(x, v)) /\ Held(Stored(x, v)) = v
BY NoneAssumption DEF Coherent, Held, LineStates, Stored

(* What is written back is what the loader reads. *)
LEMMA NewestIsHeld ==
    ASSUME NEW x \in LineStates, Coherent(x)
    PROVE  Newest(x) = Held(x)
BY DEF Coherent, Held, LineStates, Newest

(* A clean by address brings what the loader reads to DRAM. *)
LEMMA CleanedSettles ==
    ASSUME NEW x \in LineStates, Coherent(x)
    PROVE  Settled(Cleaned(x), Held(x))
BY NoneAssumption DEF Coherent, Held, Settled, LineStates, Cleaned, Newest

(* A settled line stays settled: no cache has anything else to write back. *)
LEMMA SettledKept ==
    ASSUME NEW x \in LineStates, NEW v \in Contents, Settled(x, v)
    PROVE  \A y \in Drops(x) \cup Fills(x) \cup {Evicted(x)} : Settled(y, v)
<1>1. Settled(CoreDrops(x), v)
  BY DEF Settled, LineStates, CleanedSetWay, CoreDrops
<1>2. Settled(SysDrops(x), v)
  BY DEF Settled, LineStates, SysDrops
<1>3. \A y \in Fills(x) : Settled(y, v)
  BY DEF Settled, LineStates, Fills, CoreFills, SysFills
<1>4. Settled(Evicted(x), v)
  BY DEF Settled, LineStates, Evicted, Newest
<1> QED BY <1>1, <1>2, <1>3, <1>4 DEF Drops

(* Everybody reads the same in a settled line. *)
LEMMA SettledViews ==
    ASSUME NEW x \in LineStates, NEW v \in Contents, Settled(x, v)
    PROVE  UncachedReads(x) = {v} /\ Views(x) = {v}
BY NoneAssumption DEF Settled, LineStates, UncachedReads, Views

(* A sweep leaves a line quiet, and settled at what was written last. *)
LEMMA EvictedIsQuiet ==
    ASSUME NEW x \in LineStates
    PROVE  Quiet(Evicted(x)) /\ Evicted(x).dirty = {} /\ Settled(Evicted(x), Newest(x))
BY DEF Settled, Quiet, LineStates, Evicted

(* A quiet line stays quiet, with the core's caches off, and what it will  *)
(* be settled at does not change.                                          *)
LEMMA QuietKept ==
    ASSUME NEW x \in LineStates, Quiet(x)
    PROVE  \A y \in Drops(x) \cup {SysFills(x)} :
                Quiet(y) /\ Newest(y) = Newest(x) /\ (x.dirty = {} => y.dirty = {})
<1>1. CoreDrops(x) = [x EXCEPT !.core = None]
  BY DEF Quiet, CoreDrops, CleanedSetWay
<1>2. /\ Quiet(CoreDrops(x)) /\ Newest(CoreDrops(x)) = Newest(x)
      /\ x.dirty = {} => CoreDrops(x).dirty = {}
  BY <1>1 DEF Quiet, LineStates, Newest
<1>3. /\ Quiet(SysDrops(x)) /\ Newest(SysDrops(x)) = Newest(x)
      /\ x.dirty = {} => SysDrops(x).dirty = {}
  BY DEF Quiet, LineStates, Newest, SysDrops
<1>4. /\ Quiet(SysFills(x)) /\ Newest(SysFills(x)) = Newest(x)
      /\ x.dirty = {} => SysFills(x).dirty = {}
  BY DEF Quiet, LineStates, Newest, SysFills
<1> QED BY <1>2, <1>3, <1>4 DEF Drops

(* A line evicted for good stays out of the caches as they drop lines.     *)
LEMMA SweptKept ==
    ASSUME NEW x \in LineStates, x.dirty = {}, x.core = None
    PROVE  /\ \A y \in Drops(x) \cup {SysFills(x)} : y.dirty = {} /\ y.core = None
           /\ \A y \in Drops(x) : x.sys = None => y.sys = None
<1>1. CoreDrops(x).dirty = {} /\ CoreDrops(x).core = None /\ CoreDrops(x).sys = x.sys
  BY DEF LineStates, CoreDrops, CleanedSetWay
<1>2. SysDrops(x).dirty = {} /\ SysDrops(x).core = None /\ SysDrops(x).sys = None
  BY DEF LineStates, SysDrops
<1>3. SysFills(x).dirty = {} /\ SysFills(x).core = None
  BY DEF LineStates, SysFills
<1> QED BY <1>1, <1>2, <1>3 DEF Drops

(* The stub's store is what the second sweep settles the line at, whether  *)
(* it went past the system cache or into it.                               *)
LEMMA QuietStored ==
    ASSUME NEW x \in LineStates, NEW v \in Contents, Quiet(x), x.dirty = {}
    PROVE  \A y \in UncachedStores(x, v) : Quiet(y) /\ Newest(y) = v
<1>1. LET y == [x EXCEPT !.dram = v] IN Quiet(y) /\ Newest(y) = v
  BY DEF Quiet, LineStates, Newest
<1>2. LET y == [x EXCEPT !.sys = v, !.dirty = @ \cup {"sys"}] IN Quiet(y) /\ Newest(y) = v
  BY NoneAssumption DEF Quiet, LineStates, Newest
<1> QED BY <1>1, <1>2 DEF UncachedStores

-----------------------------------------------------------------------------
(* The heaps. *)

Heaps == [low : HeapStart..Gigabyte, high : Gigabyte..(Gigabyte + highMem)]

(* StageAlloc() returns memory no earlier call has returned, in one heap   *)
(* or the other.                                                           *)
LEMMA StageAllocProperties ==
    ASSUME NEW h \in Heaps, NEW n \in Nat \ {0}, highMem \in HighMemSizes
    PROVE  LET a == StageAlloc(h, n) IN
           /\ a.heap \in Heaps /\ h.low <= a.heap.low /\ h.high <= a.heap.high
           /\ a.at # 0 =>
                /\ a.at \in HeapStart..(MemTop - 1) /\ a.at + n <= MemTop
                /\ \/ h.low <= a.at /\ a.at + n <= a.heap.low
                   \/ h.high <= a.at /\ a.at + n <= a.heap.high
<1>1. highMem \in 0..(MemTop - Gigabyte)
  BY HandoffAssumption
<1> DEFINE InHigh == highMem >= n /\ Gigabyte + highMem - h.high >= n
<1>2. CASE InHigh
  <2>1. StageAlloc(h, n) = [at |-> h.high, heap |-> [h EXCEPT !.high = @ + n]]
    BY <1>2 DEF StageAlloc
  <2> QED BY <2>1, <1>1, <1>2, HandoffAssumption DEF Heaps
<1>3. CASE ~InHigh /\ Gigabyte - h.low >= n
  <2>1. StageAlloc(h, n) = [at |-> h.low, heap |-> [h EXCEPT !.low = @ + n]]
    BY <1>3 DEF StageAlloc
  <2> QED BY <2>1, <1>1, <1>3, HandoffAssumption DEF Heaps
<1>4. CASE ~InHigh /\ ~(Gigabyte - h.low >= n)
  <2>1. StageAlloc(h, n) = [at |-> 0, heap |-> h]
    BY <1>4 DEF StageAlloc
  <2> QED BY <2>1, HandoffAssumption DEF Heaps
<1> QED BY <1>2, <1>3, <1>4

-----------------------------------------------------------------------------
(* The invariant. *)

(* What is staged lies in memory that was handed out, each in its own.     *)
Layout ==
    /\ image # None => image.at + ImageSize[image.of] <= MemTop
    /\ stub # 0 => stub < heap.low
    /\ dtbCopy # 0 => /\ dtbCopy + DTBSize <= MemTop
                      /\ dtbCopy + DTBSize <= heap.low \/ Gigabyte <= dtbCopy
                      /\ Gigabyte <= dtbCopy => dtbCopy + DTBSize <= heap.high
    /\ \A l \in Lines : /\ InStub(l) => ~InImage(l) /\ ~InDTB(l)
                        /\ InDTB(l) => ~InImage(l)

(* What a staged line is for. *)
Wanted(l) ==
    IF InStub(l) THEN StubCode
    ELSE IF InDTB(l) THEN Blob(l - dtbCopy) ELSE Image(image.of, l - image.at)

(* From the loader to the payload: the loader reads what it staged; after  *)
(* the cleans by address anybody does; copied lines will be settled by the *)
(* second sweep; then anybody reads the image where it belongs.            *)
CachesOn == pc \in {"loader", "slot", "clean", "ranges"}

CoherentWhileOn == CachesOn => \A l \in Lines : Coherent(memory[l])

SourceReady(l) ==
    /\ CachesOn => Held(memory[l]) = Wanted(l)
    /\ ~CachesOn => Settled(memory[l], Wanted(l))

SlotReady ==
    dtbCopy # 0 =>
        /\ pc \in {"clean", "ranges"} => Held(memory[Slot]) = Pointer(dtbCopy)
        /\ ~CachesOn => Settled(memory[Slot], Pointer(dtbCopy))

TargetQuiet(j) ==
    LET x == memory[KernelStart + j] IN
    /\ Quiet(x)
    /\ j < copied => Newest(x) = Image(image.of, j)
    /\ j >= copied => x.dirty = {}
TargetSettled(j) == Settled(memory[KernelStart + j], Image(image.of, j))

SweptClean(l) ==
    LET x == memory[l] IN x.dirty = {} /\ x.core = None /\ (l # stub => x.sys = None)

ImageIndex == 0..(ImageSize[image.of] - 1)

Progress ==
    /\ image # None => stub # 0
    /\ pc # "loader" => image # None
    /\ \A l \in Lines : Staged(l) => SourceReady(l)
    /\ SlotReady
    /\ pc = "copy" => \A i \in ImageIndex : TargetQuiet(i)
    /\ pc \in {"enter", "payload"} => \A i \in ImageIndex : TargetSettled(i)
    /\ pc \in {"enter", "payload"} => \A l \in KernelStart..(Gigabyte - 1) : SweptClean(l)

IInv == TypeOK /\ Layout /\ CoherentWhileOn /\ Progress

(* Where the lines of an armed image are, and where they go. *)
LEMMA ImageLines ==
    ASSUME TypeOK, Layout, image # None
    PROVE  /\ ImageSize[image.of] \in 1..(HeapStart - KernelStart)
           /\ \A i \in ImageIndex :
                /\ i \in Nat
                /\ image.at + i \in Lines /\ image.at + i >= HeapStart
                /\ KernelStart + i \in Lines
                /\ KernelStart + i \in KernelStart..(Gigabyte - 1)
                /\ KernelStart + i < HeapStart
                /\ Image(image.of, i) \in Contents
                /\ InImage(image.at + i) /\ Wanted(image.at + i) = Image(image.of, i)
<1>1. image.at \in HeapStart..(MemTop - 1) /\ image.of \in Payloads
  BY DEF TypeOK
<1>2. ImageSize[image.of] \in 1..(HeapStart - KernelStart)
  BY <1>1, HandoffAssumption
<1>3. image.at + ImageSize[image.of] <= MemTop
  BY DEF Layout
<1> SUFFICES ASSUME NEW i \in ImageIndex
             PROVE  /\ i \in Nat
                    /\ image.at + i \in Lines /\ image.at + i >= HeapStart
                    /\ KernelStart + i \in Lines
                    /\ KernelStart + i \in KernelStart..(Gigabyte - 1)
                    /\ KernelStart + i < HeapStart
                    /\ Image(image.of, i) \in Contents
                    /\ InImage(image.at + i) /\ Wanted(image.at + i) = Image(image.of, i)
  BY <1>2
<1>4. i \in Nat /\ i < ImageSize[image.of]
  BY <1>2 DEF ImageIndex
<1>5. image.at + i \in Lines /\ image.at + i >= HeapStart
  BY <1>1, <1>2, <1>3, <1>4, HandoffAssumption DEF Lines
<1>6. /\ KernelStart + i \in Lines /\ KernelStart + i < HeapStart
      /\ KernelStart + i \in KernelStart..(Gigabyte - 1)
  BY <1>2, <1>4, HandoffAssumption DEF Lines
<1>7. Image(image.of, i) \in Contents
  BY <1>1, <1>4 DEF Image, Data, Contents
<1>8. InImage(image.at + i)
  BY <1>1, <1>2, <1>4, HandoffAssumption DEF InImage, Span
<1>9. ~InStub(image.at + i) /\ ~InDTB(image.at + i)
  BY <1>5, <1>8 DEF Layout
<1>10. image.at + i - image.at = i
  BY <1>1, <1>4, HandoffAssumption
<1>11. Wanted(image.at + i) = Image(image.of, i)
  <2>1. Wanted(image.at + i) = Image(image.of, (image.at + i) - image.at)
    BY <1>9 DEF Wanted
  <2> QED BY <1>1, <1>4, <1>10, <2>1, HandoffAssumption
<1> QED BY <1>4, <1>5, <1>6, <1>7, <1>8, <1>11

(* Where the other staged lines are. *)
LEMMA StagedLines ==
    ASSUME TypeOK, Layout, NEW l \in Lines, Staged(l)
    PROVE  l >= HeapStart /\ l # Slot /\ Wanted(l) \in Contents
<1>1. CASE InStub(l)
  BY <1>1, HandoffAssumption DEF InStub, TypeOK, Slot, Wanted, StubCode, Data, Contents
<1>2. CASE InDTB(l)
  <2>1. l >= dtbCopy /\ l \in Nat /\ dtbCopy \in HeapStart..(FourGB - 1)
    BY <1>2, HandoffAssumption DEF InDTB, Span, TypeOK, Lines
  <2>2. ~InStub(l) /\ l - dtbCopy \in Nat
    BY <1>2, <2>1, HandoffAssumption DEF Layout
  <2> QED BY <1>2, <2>1, <2>2, HandoffAssumption DEF Slot, Wanted, Blob, Data, Contents
<1>3. CASE InImage(l)
  <2>1. /\ l >= image.at /\ l \in Nat /\ image.at \in HeapStart..(MemTop - 1)
        /\ image.of \in Payloads
    BY <1>3, HandoffAssumption DEF InImage, Span, TypeOK, Lines
  <2>2. ~InStub(l) /\ ~InDTB(l) /\ l - image.at \in Nat
    BY <1>3, <2>1, HandoffAssumption DEF Layout
  <2> QED BY <2>1, <2>2, HandoffAssumption DEF Slot, Wanted, Image, Data, Contents
<1> QED BY <1>1, <1>2, <1>3 DEF Staged

(* The loader starts with nothing staged and all it wrote in its caches.   *)
LEMMA InitEstablishes == Init => IInv
<1> SUFFICES ASSUME Init PROVE IInv
  OBVIOUS
<1>1. \A l \in Lines : memory[l] \in LineStates /\ Coherent(memory[l])
  <2>1. /\ Loaders \in Contents /\ Pointer(0) \in Contents /\ Pointer(MemTop) \in Contents
    BY HandoffAssumption DEF Loaders, Pointer, Data, Contents
  <2>2. \A v \in Contents : Cold(v) \in LineStates /\ Coherent(Cold(v))
    BY DEF Cold, LineStates, Coherent
  <2>3. \A v, w \in Contents : /\ Stored(Cold(v), w) \in LineStates
                               /\ Coherent(Stored(Cold(v), w))
    BY <2>2, LineTypes, StoredHolds
  <2> QED BY <2>1, <2>3 DEF Init
<1>2. memory \in [Lines -> LineStates]
  BY <1>1 DEF Init
<1>3. TypeOK
  <2>1. restless \subseteq Lines /\ copied = 0 /\ arms = 0
    BY DEF Init
  <2>2. heap \in [low : HeapStart..Gigabyte, high : Gigabyte..(Gigabyte + highMem)]
    BY HandoffAssumption DEF Init
  <2> QED BY <1>2, <2>1, <2>2, HandoffAssumption DEF Init, TypeOK
<1>4. \A l \in Lines : ~InStub(l) /\ ~InDTB(l) /\ ~InImage(l)
  BY DEF Init, InStub, InDTB, InImage
<1> QED BY <1>1, <1>3, <1>4 DEF Init, IInv, Layout, CoherentWhileOn, Progress, SlotReady,
        Staged, CachesOn

(* Arming stages image, device tree and stub each in memory of its own.    *)
LEMMA EnableKeeps ==
    ASSUME IInv, NEW p \in Payloads, EnableChainBoot(p)
    PROVE  IInv'
<1> DEFINE img  == StageAlloc(heap, ImageSize[p])
           dtb  == CaptureDTB(img.heap)
           code == StagedStub(dtb.heap)
           size == ImageSize[p]
<1>1. /\ size \in Nat \ {0} /\ size <= HeapStart - KernelStart
      /\ DTBSize \in Nat \ {0} /\ highMem \in HighMemSizes
      /\ highMem \in 0..(MemTop - Gigabyte)
      /\ heap \in Heaps
  BY HandoffAssumption DEF IInv, TypeOK, Heaps
<1>2. /\ img.heap \in Heaps /\ heap.low <= img.heap.low /\ heap.high <= img.heap.high
      /\ img.at \in HeapStart..(MemTop - 1) /\ img.at + size <= MemTop
      /\ \/ heap.low <= img.at /\ img.at + size <= img.heap.low
         \/ heap.high <= img.at /\ img.at + size <= img.heap.high
  BY <1>1, StageAllocProperties DEF EnableChainBoot
<1> HIDE DEF img
<1>3. /\ dtb.heap \in Heaps /\ img.heap.low <= dtb.heap.low /\ img.heap.high <= dtb.heap.high
      /\ dtb.at = 0 \/ dtb.at \in HeapStart..(FourGB - 1)
      /\ dtb.at # dtbCopy =>
            /\ dtb.at # 0 /\ dtb.at + DTBSize <= MemTop
            /\ \/ img.heap.low <= dtb.at /\ dtb.at + DTBSize <= dtb.heap.low
               \/ img.heap.high <= dtb.at /\ dtb.at + DTBSize <= dtb.heap.high
  <2> DEFINE copy == StageAlloc(img.heap, DTBSize)
  <2>1. /\ copy.heap \in Heaps /\ img.heap.low <= copy.heap.low /\ img.heap.high <= copy.heap.high
        /\ copy.at # 0 =>
            /\ copy.at \in HeapStart..(MemTop - 1) /\ copy.at + DTBSize <= MemTop
            /\ \/ img.heap.low <= copy.at /\ copy.at + DTBSize <= copy.heap.low
               \/ img.heap.high <= copy.at /\ copy.at + DTBSize <= copy.heap.high
    BY <1>1, <1>2, StageAllocProperties
  <2>2. CASE dtbCopy # 0 \/ ~dtbFound
    <3>1. dtb = [at |-> dtbCopy, heap |-> img.heap]
      BY <2>2 DEF CaptureDTB
    <3> QED BY <3>1, <1>2 DEF IInv, TypeOK, Heaps
  <2>3. CASE dtbCopy = 0 /\ dtbFound /\ Addressable(copy)
    <3>1. dtb = copy
      BY <2>3 DEF CaptureDTB, IInv, TypeOK
    <3>2. copy.at + DTBSize <= FourGB
      BY <2>3 DEF Addressable
    <3> HIDE DEF copy
    <3>3. copy.at = 0 \/ copy.at \in HeapStart..(FourGB - 1)
      BY <2>1, <3>2, <1>1, HandoffAssumption
    <3> QED BY <2>3, <3>1, <3>3, <2>1
  <2>4. CASE dtbCopy = 0 /\ dtbFound /\ ~Addressable(copy)
    <3>1. dtb = [at |-> 0, heap |-> copy.heap]
      BY <2>4 DEF CaptureDTB, IInv, TypeOK
    <3> HIDE DEF copy
    <3> QED BY <3>1, <2>1, <2>4
  <2> QED BY <2>2, <2>3, <2>4
<1> HIDE DEF dtb
<1>4. /\ code.heap \in Heaps /\ dtb.heap.low <= code.heap.low /\ code.heap.high = dtb.heap.high
      /\ code.at \in HeapStart..(Gigabyte - 1) /\ code.at < code.heap.low
      /\ \/ code.at = stub /\ stub < heap.low
         \/ dtb.heap.low <= code.at
  <2>1. CASE stub # 0
    BY <2>1, <1>1, <1>2, <1>3, HandoffAssumption DEF StagedStub, IInv, Layout, TypeOK, Heaps
  <2>2. CASE stub = 0
    <3>1. dtb.heap.low < Gigabyte
      BY <2>2 DEF EnableChainBoot, dtb, img
    <3> QED BY <2>2, <3>1, <1>3, HandoffAssumption DEF StagedStub, Heaps
  <2> QED BY <2>1, <2>2
<1> HIDE DEF code
<1>5. /\ image' = [at |-> img.at, of |-> p] /\ image' # None
      /\ dtbCopy' = dtb.at /\ stub' = code.at /\ heap' = code.heap
      /\ pc = "loader" /\ pc' = pc /\ highMem' = highMem
      /\ UNCHANGED <<restless, dtbFound, copied>> /\ arms' \in 0..MaxArms
  <2>1. image' = [at |-> img.at, of |-> p]
    BY DEF EnableChainBoot, img
  <2>2. image' # None
    BY <2>1, <1>2, HandoffAssumption, NoneAssumption
  <2>3. dtbCopy' = dtb.at /\ stub' = code.at /\ heap' = code.heap
    BY DEF EnableChainBoot, code, dtb, img
  <2>4. arms' \in 0..MaxArms
    BY HandoffAssumption DEF EnableChainBoot, IInv, TypeOK
  <2> QED BY <2>1, <2>2, <2>3, <2>4 DEF EnableChainBoot
<1> DEFINE ToImage(l) == l \in Span(img.at, size)
           ToDTB(l)   == dtb.at # 0 /\ l \in Span(dtb.at, DTBSize)
           Wrote(l)   ==
             CASE l \in Span(img.at, size) -> Stored(memory[l], Image(p, l - img.at))
               [] dtb.at # dtbCopy /\ l \in Span(dtb.at, DTBSize) -> Stored(memory[l], Blob(l - dtb.at))
               [] l = code.at -> Stored(memory[l], StubCode)
               [] OTHER -> memory[l]
<1>6. memory' = [l \in Lines |-> Wrote(l)]
  BY DEF EnableChainBoot, code, dtb, img
<1>7. ASSUME NEW l \in Lines
      PROVE  /\ ToImage(l) => ~ToDTB(l) /\ l # code.at
             /\ ToDTB(l) => l # code.at
  <2>1. l \in Nat
    BY DEF Lines
  <2>2. /\ dtb.at = dtbCopy /\ dtbCopy # 0 =>
            /\ dtbCopy + DTBSize <= heap.low \/ Gigabyte <= dtbCopy
            /\ Gigabyte <= dtbCopy => dtbCopy + DTBSize <= heap.high
        /\ dtb.at = dtbCopy => ~(dtbCopy # 0 /\ l \in Span(dtbCopy, DTBSize) /\ stub # 0 /\ l = stub)
    BY DEF IInv, Layout, InStub, InDTB
  <2>3. ToImage(l) => ~ToDTB(l)
    BY <1>1, <1>2, <1>3, <2>1, <2>2, HandoffAssumption DEF Span, Heaps
  <2>4. ToImage(l) => l # code.at
    BY <1>1, <1>2, <1>3, <1>4, <2>1, HandoffAssumption DEF Span, Heaps
  <2>5. CASE dtb.at = dtbCopy
    BY <1>1, <1>2, <1>3, <1>4, <2>1, <2>2, <2>3, <2>4, <2>5, HandoffAssumption DEF Span, Heaps
  <2>6. CASE dtb.at # dtbCopy
    BY <1>1, <1>2, <1>3, <1>4, <2>1, <2>3, <2>4, <2>6, HandoffAssumption DEF Span, Heaps
  <2> QED BY <2>5, <2>6
<1>8. ASSUME NEW l \in Lines
      PROVE  /\ InImage(l)' <=> ToImage(l)
             /\ InDTB(l)' <=> ToDTB(l)
             /\ InStub(l)' <=> l = code.at
  BY <1>4, <1>5, HandoffAssumption DEF InImage, InDTB, InStub
<1>9. \A l \in Lines : memory[l] \in LineStates /\ Coherent(memory[l])
  BY <1>5 DEF IInv, TypeOK, CoherentWhileOn, CachesOn
<1>10. ASSUME NEW l \in Lines
       PROVE  /\ Wrote(l) \in LineStates /\ Coherent(Wrote(l))
              /\ Staged(l)' => Held(Wrote(l)) = Wanted(l)'
  <2>1. \A v \in Contents : /\ Stored(memory[l], v) \in LineStates
                            /\ Coherent(Stored(memory[l], v)) /\ Held(Stored(memory[l], v)) = v
    BY <1>9, LineTypes, StoredHolds
  <2>2. l \in Nat
    BY DEF Lines
  <2>3. CASE ToImage(l)
    <3>1. Image(p, l - img.at) \in Contents
      BY <1>1, <1>2, <2>2, <2>3, HandoffAssumption DEF Span, Image, Data, Contents
    <3>2. Wrote(l) = Stored(memory[l], Image(p, l - img.at))
      BY <1>3, <1>7, <2>3
    <3>3. Wanted(l)' = Image(p, l - img.at)
      BY <1>5, <1>7, <1>8, <2>3 DEF Wanted, Image
    <3> QED BY <2>1, <3>1, <3>2, <3>3
  <2>4. CASE dtb.at # dtbCopy /\ ToDTB(l)
    <3>1. Blob(l - dtb.at) \in Contents
      BY <1>1, <1>3, <2>2, <2>4, HandoffAssumption DEF Span, Blob, Data, Contents
    <3>2. Wrote(l) = Stored(memory[l], Blob(l - dtb.at))
      BY <1>3, <1>7, <2>4
    <3>3. Wanted(l)' = Blob(l - dtb.at)
      BY <1>5, <1>7, <1>8, <2>4 DEF Wanted, Blob
    <3> QED BY <2>1, <3>1, <3>2, <3>3
  <2>5. CASE l = code.at
    <3>1. StubCode \in Contents
      BY DEF StubCode, Data, Contents
    <3>2. Wrote(l) = Stored(memory[l], StubCode)
      BY <1>3, <1>7, <2>5
    <3>3. Wanted(l)' = StubCode
      BY <1>8, <2>5 DEF Wanted, StubCode
    <3> QED BY <2>1, <3>1, <3>2, <3>3
  <2>6. CASE ~ToImage(l) /\ ~(dtb.at # dtbCopy /\ ToDTB(l)) /\ l # code.at
    <3>1. Wrote(l) = memory[l]
      BY <1>3, <2>6
    <3>2. ASSUME ToDTB(l)
          PROVE  Held(memory[l]) = Wanted(l)'
      <4>1. dtb.at = dtbCopy /\ InDTB(l)
        BY <2>6, <3>2 DEF InDTB
      <4>2. Held(memory[l]) = Blob(l - dtbCopy)
        BY <1>5, <4>1 DEF IInv, Layout, Progress, Staged, SourceReady, CachesOn, Wanted
      <4>3. Wanted(l)' = Blob(l - dtbCopy)
        BY <1>5, <1>8, <2>6, <3>2, <4>1 DEF Wanted, Blob
      <4> QED BY <4>2, <4>3
    <3> QED BY <1>8, <1>9, <2>6, <3>1, <3>2 DEF Staged
  <2> QED BY <2>3, <2>4, <2>5, <2>6
<1> HIDE DEF Wrote
<1>11. TypeOK'
  <2>1. memory' \in [Lines -> LineStates]
    BY <1>6, <1>10
  <2>2. image' \in [at : HeapStart..(MemTop - 1), of : Payloads]
    BY <1>2, <1>5
  <2>3. stub' \in HeapStart..(Gigabyte - 1) /\ (dtbCopy' = 0 \/ dtbCopy' \in HeapStart..(FourGB - 1))
    BY <1>3, <1>4, <1>5
  <2>4. heap' \in [low : HeapStart..Gigabyte, high : Gigabyte..(Gigabyte + highMem')]
    BY <1>4, <1>5 DEF Heaps
  <2> QED BY <1>5, <2>1, <2>2, <2>3, <2>4 DEF IInv, TypeOK
<1>12. Layout'
  <2>1. ASSUME dtb.at # 0
        PROVE  /\ dtb.at + DTBSize <= MemTop
               /\ dtb.at + DTBSize <= code.heap.low \/ Gigabyte <= dtb.at
               /\ Gigabyte <= dtb.at => dtb.at + DTBSize <= code.heap.high
    <3>1. CASE dtb.at = dtbCopy
      <4>1. /\ dtb.at + DTBSize <= MemTop
            /\ dtb.at + DTBSize <= heap.low \/ Gigabyte <= dtb.at
            /\ Gigabyte <= dtb.at => dtb.at + DTBSize <= heap.high
        BY <2>1, <3>1 DEF IInv, Layout
      <4> QED BY <1>1, <1>2, <1>3, <1>4, <2>1, <4>1, HandoffAssumption DEF Heaps
    <3>2. CASE dtb.at # dtbCopy
      BY <1>1, <1>2, <1>3, <1>4, <2>1, <3>2, HandoffAssumption DEF Heaps
    <3> QED BY <3>1, <3>2
  <2>2. \A l \in Lines : /\ InStub(l)' => ~InImage(l)' /\ ~InDTB(l)'
                         /\ InDTB(l)' => ~InImage(l)'
    BY <1>7, <1>8
  <2> QED BY <1>2, <1>4, <1>5, <2>1, <2>2 DEF Layout
<1>13. CoherentWhileOn'
  BY <1>6, <1>10 DEF CoherentWhileOn
<1>14. Progress'
  <2>1. stub' # 0
    BY <1>4, <1>5, HandoffAssumption
  <2>2. ASSUME NEW l \in Lines, Staged(l)'
        PROVE  SourceReady(l)'
    BY <1>5, <1>6, <1>10, <2>2 DEF SourceReady, CachesOn
  <2> QED BY <1>5, <2>1, <2>2 DEF Progress, SlotReady, CachesOn
<1> QED BY <1>11, <1>12, <1>13, <1>14 DEF IInv

(* What a step that arms nothing has to show for the types and the layout. *)
LEMMA FrameKeeps ==
    ASSUME TypeOK, Layout, UNCHANGED <<restless, armVars>>,
           memory' \in [Lines -> LineStates],
           pc' \in {"loader", "slot", "clean", "ranges", "off", "sweep", "copy", "enter", "payload"},
           copied' \in 0..(HeapStart - KernelStart)
    PROVE  /\ TypeOK' /\ Layout' /\ ImageIndex' = ImageIndex
           /\ image' = image /\ stub' = stub /\ dtbCopy' = dtbCopy
           /\ \A l \in Lines : (Staged(l)' <=> Staged(l)) /\ Wanted(l)' = Wanted(l)
<1>1. /\ image' = image /\ stub' = stub /\ dtbCopy' = dtbCopy /\ heap' = heap
      /\ UNCHANGED <<restless, highMem, dtbFound, arms>>
  BY DEF armVars
<1>2. \A l : /\ InImage(l)' <=> InImage(l)
             /\ InDTB(l)' <=> InDTB(l)
             /\ InStub(l)' <=> InStub(l)
  BY <1>1 DEF InImage, InDTB, InStub
<1>3. \A l \in Lines : (Staged(l)' <=> Staged(l)) /\ Wanted(l)' = Wanted(l)
  BY <1>1, <1>2 DEF Staged, Wanted, StubCode, Blob, Image
<1>4. TypeOK'
  BY <1>1 DEF TypeOK
<1>5. Layout'
  BY <1>1, <1>2 DEF Layout
<1> QED BY <1>1, <1>3, <1>4, <1>5 DEF ImageIndex

(* A step that leaves memory alone and does not pass a stage where more is *)
(* asked of it.                                                            *)
LEMMA StutterKeeps ==
    ASSUME IInv, UNCHANGED <<pc, memory, restless, armVars, copied>>
    PROVE  IInv'
<1>1. /\ TypeOK' /\ Layout' /\ ImageIndex' = ImageIndex
      /\ image' = image /\ stub' = stub /\ dtbCopy' = dtbCopy
      /\ \A l \in Lines : (Staged(l)' <=> Staged(l)) /\ Wanted(l)' = Wanted(l)
  BY FrameKeeps DEF IInv, TypeOK
<1> QED BY <1>1 DEF IInv, CoherentWhileOn, Progress, CachesOn, SourceReady, SlotReady,
            TargetQuiet, TargetSettled, SweptClean, Pointer, Image

(* The loader's own stores miss whatever is staged. *)
LEMMA LoaderStoreKeeps ==
    ASSUME IInv, NEW l \in Lines, LoaderStore(l)
    PROVE  IInv'
<1>1. Loaders \in Contents
  BY DEF Loaders, Data, Contents
<1>2. /\ memory' = [memory EXCEPT ![l] = Stored(@, Loaders)]
      /\ UNCHANGED <<pc, restless, armVars, copied>>
      /\ pc \in {"loader", "slot", "clean", "ranges", "off"}
      /\ \/ pc = "loader" /\ l # Slot /\ ~Staged(l)
         \/ l \in KernelEnd..(HeapStart - 1)
  BY DEF LoaderStore
<1>3. memory \in [Lines -> LineStates]
  BY DEF IInv, TypeOK
<1>4. Stored(memory[l], Loaders) \in LineStates
  BY <1>1, <1>3, LineTypes
<1>5. /\ TypeOK' /\ Layout' /\ ImageIndex' = ImageIndex
      /\ image' = image /\ stub' = stub /\ dtbCopy' = dtbCopy
      /\ \A k \in Lines : (Staged(k)' <=> Staged(k)) /\ Wanted(k)' = Wanted(k)
  BY <1>2, <1>3, <1>4, FrameKeeps DEF IInv, TypeOK
<1>6. CoherentWhileOn'
  BY <1>1, <1>2, <1>3, StoredHolds DEF IInv, CoherentWhileOn, CachesOn
<1>7. ASSUME NEW k \in Lines, k = Slot \/ Staged(k)
      PROVE  memory'[k] = memory[k]
  <2>1. k # l
    BY <1>2, <1>7, StagedLines, HandoffAssumption DEF IInv, Slot
  <2> QED BY <1>2, <1>3, <2>1
<1>8. Slot \in Lines
  BY HandoffAssumption DEF Slot, Lines
<1>9. Progress'
  BY <1>2, <1>5, <1>7, <1>8 DEF IInv, Progress, CachesOn, SourceReady, SlotReady, Pointer
<1> QED BY <1>5, <1>6, <1>9 DEF IInv

(* DoChainBoot() up to the set/way clean: the slot reads as it was set, and*)
(* nothing the loader reads in what it staged changes.                     *)
LEMMA PointSlotKeeps ==
    ASSUME IInv, PointSlot
    PROVE  IInv'
<1> DEFINE v == Pointer(dtbCopy % FourGB)
<1>1. /\ pc = "slot" /\ pc' = "clean" /\ UNCHANGED <<restless, armVars, copied>>
      /\ memory' = IF dtbCopy # 0 THEN [memory EXCEPT ![Slot] = Stored(@, v)] ELSE memory
  BY DEF PointSlot, HandoffStep
<1>2. v \in Contents /\ v = Pointer(dtbCopy)
  <2>1. dtbCopy \in 0..(FourGB - 1)
    BY HandoffAssumption DEF IInv, TypeOK
  <2>2. dtbCopy % FourGB = dtbCopy
    BY <2>1, HandoffAssumption
  <2> QED BY <2>1, <2>2 DEF Pointer, Data, Contents
<1> HIDE DEF v
<1>3. memory \in [Lines -> LineStates] /\ Slot \in Lines
  BY HandoffAssumption DEF IInv, TypeOK, Slot, Lines
<1>4. \A l \in Lines : Coherent(memory[l])
  BY <1>1 DEF IInv, CoherentWhileOn, CachesOn
<1>5. LET x == Stored(memory[Slot], v) IN x \in LineStates /\ Coherent(x) /\ Held(x) = v
  BY <1>2, <1>3, <1>4, LineTypes, StoredHolds
<1>6. /\ TypeOK' /\ Layout' /\ ImageIndex' = ImageIndex
      /\ image' = image /\ stub' = stub /\ dtbCopy' = dtbCopy
      /\ \A l \in Lines : (Staged(l)' <=> Staged(l)) /\ Wanted(l)' = Wanted(l)
  BY <1>1, <1>3, <1>5, FrameKeeps DEF IInv, TypeOK
<1>7. CoherentWhileOn'
  BY <1>1, <1>3, <1>4, <1>5 DEF CoherentWhileOn
<1>8. ASSUME NEW l \in Lines, Staged(l)
      PROVE  memory'[l] = memory[l]
  BY <1>1, <1>3, <1>8, StagedLines DEF IInv
<1>9. dtbCopy # 0 => Held(memory'[Slot]) = Pointer(dtbCopy)
  BY <1>1, <1>2, <1>3, <1>5
<1>10. Progress'
  BY <1>1, <1>6, <1>8, <1>9 DEF IInv, Progress, CachesOn, SourceReady, SlotReady, Pointer
<1> QED BY <1>6, <1>7, <1>10 DEF IInv

(* The set/way clean changes nothing the loader reads: it may leave a dirty*)
(* line in the system cache.                                               *)
LEMMA CleanDataCacheKeeps ==
    ASSUME IInv, CleanDataCache
    PROVE  IInv'
<1>1. /\ pc = "clean" /\ pc' = "ranges" /\ UNCHANGED <<restless, armVars, copied>>
      /\ memory' = [l \in Lines |-> CleanedSetWay(memory[l])]
  BY DEF CleanDataCache, HandoffStep
<1>2. \A l \in Lines : memory[l] \in LineStates /\ Coherent(memory[l])
  BY <1>1 DEF IInv, TypeOK, CoherentWhileOn, CachesOn
<1>3. \A l \in Lines : /\ memory'[l] \in LineStates /\ Coherent(memory'[l])
                       /\ Held(memory'[l]) = Held(memory[l])
  BY <1>1, <1>2, LineTypes, CoherentKept
<1>4. /\ TypeOK' /\ Layout' /\ ImageIndex' = ImageIndex
      /\ image' = image /\ stub' = stub /\ dtbCopy' = dtbCopy
      /\ \A l \in Lines : (Staged(l)' <=> Staged(l)) /\ Wanted(l)' = Wanted(l)
  BY <1>1, <1>3, FrameKeeps DEF IInv, TypeOK
<1>5. CoherentWhileOn'
  BY <1>3 DEF CoherentWhileOn
<1>6. Slot \in Lines
  BY HandoffAssumption DEF Slot, Lines
<1>7. Progress'
  BY <1>1, <1>3, <1>4, <1>6 DEF IInv, Progress, CachesOn, SourceReady, SlotReady, Pointer
<1> QED BY <1>4, <1>5, <1>7 DEF IInv

(* The cleans by address bring what is staged, and the slot, to DRAM. *)
LEMMA CleanRangesKeeps ==
    ASSUME IInv, CleanDataCacheRanges
    PROVE  IInv'
<1> DEFINE Clean(l) == CASE l \in Ranges -> Cleaned(memory[l])
                         [] l = Slot /\ dtbCopy # 0 -> Evicted(memory[l])
                         [] OTHER -> memory[l]
<1>1. /\ pc = "ranges" /\ pc' = "off" /\ UNCHANGED <<restless, armVars, copied>>
      /\ memory' = [l \in Lines |-> Clean(l)]
  BY DEF CleanDataCacheRanges, HandoffStep
<1>2. \A l \in Lines : memory[l] \in LineStates /\ Coherent(memory[l])
  BY <1>1 DEF IInv, TypeOK, CoherentWhileOn, CachesOn
<1>3. \A l \in Lines : Clean(l) \in LineStates
  BY <1>2, LineTypes
<1>4. ASSUME NEW l \in Lines, Staged(l)
      PROVE  Settled(memory'[l], Wanted(l))
  <2>1. l \in Ranges /\ l # Slot
    BY <1>4, StagedLines DEF IInv, Ranges
  <2>2. Held(memory[l]) = Wanted(l)
    BY <1>1, <1>4 DEF IInv, Progress, CachesOn, SourceReady
  <2>3. Clean(l) = Cleaned(memory[l])
    BY <2>1
  <2> HIDE DEF Clean
  <2> QED BY <1>1, <1>2, <2>2, <2>3, CleanedSettles
<1>5. ASSUME dtbCopy # 0
      PROVE  Settled(memory'[Slot], Pointer(dtbCopy))
  <2>1. Slot \in Lines /\ Slot \notin Ranges
    BY StagedLines, HandoffAssumption DEF IInv, Slot, Lines, Ranges
  <2>2. Held(memory[Slot]) = Pointer(dtbCopy)
    BY <1>1, <1>5 DEF IInv, Progress, SlotReady
  <2>3. Clean(Slot) = Evicted(memory[Slot])
    BY <1>5, <2>1
  <2> HIDE DEF Clean
  <2> QED BY <1>1, <1>2, <2>1, <2>2, <2>3, EvictedIsQuiet, NewestIsHeld
<1> HIDE DEF Clean
<1>6. /\ TypeOK' /\ Layout' /\ ImageIndex' = ImageIndex
      /\ image' = image /\ stub' = stub /\ dtbCopy' = dtbCopy
      /\ \A l \in Lines : (Staged(l)' <=> Staged(l)) /\ Wanted(l)' = Wanted(l)
  BY <1>1, <1>3, FrameKeeps DEF IInv, TypeOK
<1>7. Progress'
  BY <1>1, <1>4, <1>5, <1>6 DEF IInv, Progress, CachesOn, SourceReady, SlotReady, Pointer
<1> QED BY <1>1, <1>6, <1>7 DEF IInv, CoherentWhileOn, CachesOn

(* The jump to the stub changes nothing in memory.                         *)
LEMMA EnterStubKeeps ==
    ASSUME IInv, EnterStub
    PROVE  IInv'
<1>1. pc = "off" /\ pc' = "sweep" /\ UNCHANGED <<memory, restless, armVars, copied>>
  BY DEF EnterStub, HandoffStep
<1>2. /\ TypeOK' /\ Layout' /\ ImageIndex' = ImageIndex
      /\ image' = image /\ stub' = stub /\ dtbCopy' = dtbCopy
      /\ \A l \in Lines : (Staged(l)' <=> Staged(l)) /\ Wanted(l)' = Wanted(l)
  BY <1>1, FrameKeeps DEF IInv, TypeOK
<1> QED BY <1>1, <1>2 DEF IInv, CoherentWhileOn, Progress, CachesOn, SourceReady, SlotReady, Pointer

(* What the sweeps do to a line.                                           *)
LEMMA SweptLines ==
    ASSUME memory \in [Lines -> LineStates]
    PROVE  /\ Swept(memory) \in [Lines -> LineStates]
           /\ \A l \in Lines :
                /\ l \in KernelStart..(Gigabyte - 1) => Swept(memory)[l] = Evicted(memory[l])
                /\ Swept(memory)[l] \in {memory[l], Evicted(memory[l])}
BY LineTypes DEF Swept

(* The sweep leaves what is settled where it is. *)
LEMMA SweptSettled ==
    ASSUME memory \in [Lines -> LineStates],
           NEW l \in Lines, NEW v \in Contents, Settled(memory[l], v)
    PROVE  Settled(Swept(memory)[l], v)
BY SweptLines, SettledKept

(* What the copy and the sweeps leave alone: with the caches off staged    *)
(* lines and slot are settled, and a step that leaves settled lines settled*)
(* has no more to show for them.                                           *)
LEMMA SourceKept ==
    ASSUME IInv, ~CachesOn, ~CachesOn',
           image' = image, stub' = stub, dtbCopy' = dtbCopy,
           \A l \in Lines : (Staged(l)' <=> Staged(l)) /\ Wanted(l)' = Wanted(l),
           \A l \in Lines : \A v \in Contents :
                (l = Slot \/ Staged(l)) /\ Settled(memory[l], v) => Settled(memory'[l], v)
    PROVE  (\A l \in Lines : Staged(l) => SourceReady(l))' /\ SlotReady'
<1>1. ASSUME NEW l \in Lines, Staged(l)
      PROVE  Settled(memory'[l], Wanted(l))
  <2>1. Wanted(l) \in Contents
    BY <1>1, StagedLines DEF IInv
  <2>2. Settled(memory[l], Wanted(l))
    BY <1>1 DEF IInv, Progress, SourceReady
  <2> QED BY <1>1, <2>1, <2>2
<1>2. ASSUME dtbCopy # 0
      PROVE  Settled(memory'[Slot], Pointer(dtbCopy))
  <2>1. Slot \in Lines /\ Pointer(dtbCopy) \in Contents
    <3>1. 0 \in 0..(MemTop - 1)
      BY HandoffAssumption
    <3>2. PICK a \in Nat : a = dtbCopy
      BY HandoffAssumption DEF IInv, TypeOK, Lines
    <3>3. Pointer(a) \in Contents
      BY DEF Pointer, Data, Contents
    <3> QED BY <3>1, <3>2, <3>3 DEF Slot, Lines
  <2>2. Settled(memory[Slot], Pointer(dtbCopy))
    BY <1>2 DEF IInv, Progress, SlotReady
  <2> QED BY <2>1, <2>2
<1> QED BY <1>1, <1>2 DEF SourceReady, SlotReady, CachesOn, Pointer

(* The first sweep leaves every line of the target quiet. *)
LEMMA SweepBeforeKeeps ==
    ASSUME IInv, SweepBefore
    PROVE  IInv'
<1>1. /\ pc = "sweep" /\ pc' = "copy" /\ UNCHANGED <<restless, armVars>>
      /\ memory' = Swept(memory) /\ copied' = 0
  BY DEF SweepBefore, HandoffStep
<1>2. memory \in [Lines -> LineStates] /\ image # None
  BY <1>1 DEF IInv, TypeOK, Progress
<1>3. /\ TypeOK' /\ Layout' /\ ImageIndex' = ImageIndex
      /\ image' = image /\ stub' = stub /\ dtbCopy' = dtbCopy
      /\ \A l \in Lines : (Staged(l)' <=> Staged(l)) /\ Wanted(l)' = Wanted(l)
  BY <1>1, <1>2, SweptLines, FrameKeeps, HandoffAssumption DEF IInv, TypeOK
<1>4. (\A l \in Lines : Staged(l) => SourceReady(l))' /\ SlotReady'
  BY <1>1, <1>2, <1>3, SourceKept, SweptSettled DEF CachesOn
<1>5. ASSUME NEW j \in ImageIndex
      PROVE  LET x == memory'[KernelStart + j] IN Quiet(x) /\ x.dirty = {} /\ ~(j < copied')
  <2>1. /\ KernelStart + j \in Lines /\ KernelStart + j \in KernelStart..(Gigabyte - 1)
        /\ j \in Nat
    BY <1>2, ImageLines DEF IInv
  <2> QED BY <1>1, <1>2, <2>1, SweptLines, EvictedIsQuiet
<1>6. Progress'
  BY <1>1, <1>2, <1>3, <1>4, <1>5 DEF IInv, Progress, TargetQuiet
<1> QED BY <1>1, <1>3, <1>6 DEF IInv, CoherentWhileOn, CachesOn

(* What the stub reads is the image, and its store is what the line will   *)
(* be settled at.                                                          *)
LEMMA CopyLineKeeps ==
    ASSUME IInv, CopyLine
    PROVE  IInv'
<1> DEFINE to == KernelStart + copied
<1>1. /\ pc = "copy" /\ pc' = "copy" /\ UNCHANGED <<restless, armVars>>
      /\ copied < ImageSize[image.of] /\ copied' = copied + 1
  BY DEF CopyLine, HandoffStep
<1>2. /\ memory \in [Lines -> LineStates] /\ image # None
      /\ copied \in 0..(HeapStart - KernelStart)
  BY <1>1 DEF IInv, TypeOK, Progress
<1>3. copied \in ImageIndex /\ ImageSize[image.of] \in 1..(HeapStart - KernelStart)
  BY <1>1, <1>2, ImageLines DEF IInv, ImageIndex
<1>4. /\ image.at + copied \in Lines /\ to \in Lines /\ Image(image.of, copied) \in Contents
      /\ to \in Nat /\ to < HeapStart /\ to # Slot
      /\ InImage(image.at + copied) /\ Wanted(image.at + copied) = Image(image.of, copied)
  BY <1>2, <1>3, ImageLines, HandoffAssumption DEF IInv, Lines, Slot
<1>5. Settled(memory[image.at + copied], Image(image.of, copied))
  BY <1>1, <1>4 DEF IInv, Progress, CachesOn, SourceReady, Staged
<1>6. PICK x \in UncachedStores(memory[to], Image(image.of, copied)) :
            memory' = [memory EXCEPT ![to] = x]
  <2>1. UncachedReads(memory[image.at + copied]) = {Image(image.of, copied)}
    BY <1>2, <1>4, <1>5, SettledViews
  <2>2. PICK v \in UncachedReads(memory[image.at + copied]) :
           \E x \in UncachedStores(memory[to], v) : memory' = [memory EXCEPT ![to] = x]
    BY DEF CopyLine
  <2>3. v = Image(image.of, copied)
    BY <2>1, <2>2
  <2> QED BY <2>2, <2>3
<1>7. Quiet(memory[to]) /\ memory[to].dirty = {}
  BY <1>1, <1>2, <1>3 DEF IInv, Progress, TargetQuiet
<1>8. x \in LineStates /\ Quiet(x) /\ Newest(x) = Image(image.of, copied)
  BY <1>2, <1>4, <1>6, <1>7, LineTypes, QuietStored
<1>9. /\ TypeOK' /\ Layout' /\ ImageIndex' = ImageIndex
      /\ image' = image /\ stub' = stub /\ dtbCopy' = dtbCopy
      /\ \A l \in Lines : (Staged(l)' <=> Staged(l)) /\ Wanted(l)' = Wanted(l)
  <2>1. copied' \in 0..(HeapStart - KernelStart)
    BY <1>1, <1>2, <1>3, HandoffAssumption
  <2>2. memory' \in [Lines -> LineStates]
    BY <1>2, <1>4, <1>6, <1>8
  <2> QED BY <1>1, <2>1, <2>2, FrameKeeps DEF IInv
<1>10. ASSUME NEW l \in Lines, l = Slot \/ Staged(l)
       PROVE  memory'[l] = memory[l]
  <2>1. l # to
    BY <1>4, <1>10, StagedLines, HandoffAssumption DEF IInv
  <2> QED BY <1>2, <1>4, <1>6, <2>1
<1>11. (\A l \in Lines : Staged(l) => SourceReady(l))' /\ SlotReady'
  BY <1>1, <1>9, <1>10, SourceKept DEF CachesOn
<1>12. ASSUME NEW j \in ImageIndex
       PROVE  LET y == memory'[KernelStart + j] IN
              /\ Quiet(y)
              /\ j < copied' => Newest(y) = Image(image.of, j)
              /\ j >= copied' => y.dirty = {}
  <2>1. KernelStart + j \in Lines /\ j \in Nat
    BY <1>2, ImageLines DEF IInv
  <2>2. CASE j = copied
    BY <1>1, <1>2, <1>4, <1>6, <1>8, <2>1, <2>2
  <2>3. CASE j # copied
    <3>1. memory'[KernelStart + j] = memory[KernelStart + j]
      BY <1>2, <1>4, <1>6, <2>1, <2>3, HandoffAssumption
    <3>2. TargetQuiet(j)
      BY <1>1 DEF IInv, Progress
    <3> QED BY <1>1, <1>2, <2>1, <2>3, <3>1, <3>2 DEF TargetQuiet
  <2> QED BY <2>2, <2>3
<1>13. Progress'
  BY <1>1, <1>2, <1>9, <1>11, <1>12 DEF IInv, Progress, TargetQuiet, Image
<1> QED BY <1>1, <1>9, <1>13 DEF IInv, CoherentWhileOn, CachesOn

(* The second sweep settles the target, and leaves nothing of the loader   *)
(* in a cache.                                                             *)
LEMMA SweepAfterKeeps ==
    ASSUME IInv, SweepAfter
    PROVE  IInv'
<1>1. /\ pc = "copy" /\ pc' = "enter" /\ UNCHANGED <<restless, armVars, copied>>
      /\ memory' = Swept(memory) /\ copied = ImageSize[image.of]
  BY DEF SweepAfter, HandoffStep
<1>2. memory \in [Lines -> LineStates] /\ image # None
  BY <1>1 DEF IInv, TypeOK, Progress
<1>3. /\ TypeOK' /\ Layout' /\ ImageIndex' = ImageIndex
      /\ image' = image /\ stub' = stub /\ dtbCopy' = dtbCopy
      /\ \A l \in Lines : (Staged(l)' <=> Staged(l)) /\ Wanted(l)' = Wanted(l)
  BY <1>1, <1>2, SweptLines, FrameKeeps DEF IInv, TypeOK
<1>4. (\A l \in Lines : Staged(l) => SourceReady(l))' /\ SlotReady'
  BY <1>1, <1>2, <1>3, SourceKept, SweptSettled DEF CachesOn
<1>5. ASSUME NEW j \in ImageIndex
      PROVE  Settled(memory'[KernelStart + j], Image(image.of, j))
  <2>1. KernelStart + j \in Lines /\ KernelStart + j \in KernelStart..(Gigabyte - 1)
    BY <1>2, ImageLines DEF IInv
  <2>2. j < copied
    BY <1>1, <1>2, ImageLines DEF IInv, ImageIndex
  <2>3. Newest(memory[KernelStart + j]) = Image(image.of, j)
    BY <1>1, <2>2 DEF IInv, Progress, TargetQuiet
  <2> QED BY <1>1, <1>2, <2>1, <2>3, SweptLines, EvictedIsQuiet
<1>6. ASSUME NEW l \in KernelStart..(Gigabyte - 1)
      PROVE  LET x == memory'[l] IN x.dirty = {} /\ x.core = None /\ x.sys = None
  <2>1. l \in Lines
    BY HandoffAssumption DEF Lines
  <2>2. memory'[l] = Evicted(memory[l])
    BY <1>1, <1>2, <2>1, SweptLines
  <2> QED BY <2>2 DEF Evicted
<1>7. Progress'
  BY <1>1, <1>2, <1>3, <1>4, <1>5, <1>6 DEF IInv, Progress, TargetSettled, SweptClean, Image
<1> QED BY <1>1, <1>3, <1>7 DEF IInv, CoherentWhileOn, CachesOn

(* The jump to the payload changes nothing in memory. *)
LEMMA EnterPayloadKeeps ==
    ASSUME IInv, EnterPayload
    PROVE  IInv'
<1>1. pc = "enter" /\ pc' = "payload" /\ UNCHANGED <<memory, restless, armVars, copied>>
  BY DEF EnterPayload, HandoffStep
<1>2. /\ TypeOK' /\ Layout' /\ ImageIndex' = ImageIndex
      /\ image' = image /\ stub' = stub /\ dtbCopy' = dtbCopy
      /\ \A l \in Lines : (Staged(l)' <=> Staged(l)) /\ Wanted(l)' = Wanted(l)
  BY <1>1, FrameKeeps DEF IInv, TypeOK
<1> QED BY <1>1, <1>2 DEF IInv, CoherentWhileOn, Progress, CachesOn, SourceReady, SlotReady,
            Pointer, TargetSettled, SweptClean, Image

(* Whatever a cache does by itself, and when. *)
LEMMA CachesChangeKeeps ==
    ASSUME IInv, NEW l \in Lines, CachesChange(l)
    PROVE  IInv'
<1>1. memory \in [Lines -> LineStates]
  BY DEF IInv, TypeOK
<1>2. PICK y \in Drops(memory[l]) \cup Fills(memory[l]) :
        /\ memory' = [memory EXCEPT ![l] = y]
        /\ pc \in {"copy", "enter", "payload"} => y \in Drops(memory[l]) \cup {SysFills(memory[l])}
        /\ pc \in {"enter", "payload"} /\ l # stub => y \in Drops(memory[l])
        /\ pc = "payload" => y \in Drops(memory[l])
  BY <1>1 DEF CachesChange, Drops, Fills
<1>3. UNCHANGED <<pc, restless, armVars, copied>>
  BY DEF CachesChange
<1>4. y \in LineStates
  BY <1>1, <1>2, LineTypes
<1>5. /\ TypeOK' /\ Layout' /\ ImageIndex' = ImageIndex
      /\ image' = image /\ stub' = stub /\ dtbCopy' = dtbCopy
      /\ \A k \in Lines : (Staged(k)' <=> Staged(k)) /\ Wanted(k)' = Wanted(k)
  BY <1>1, <1>2, <1>3, <1>4, FrameKeeps DEF IInv, TypeOK
<1>6. ASSUME CachesOn, NEW k \in Lines
      PROVE  Coherent(memory'[k]) /\ Held(memory'[k]) = Held(memory[k])
  <2>1. Coherent(memory[k]) /\ Coherent(memory[l])
    BY <1>6 DEF IInv, CoherentWhileOn
  <2> QED BY <1>1, <1>2, <2>1, CoherentKept
<1>7. CoherentWhileOn'
  BY <1>3, <1>6 DEF CoherentWhileOn, CachesOn
<1>8. ASSUME NEW k \in Lines, NEW v \in Contents, Settled(memory[k], v)
      PROVE  Settled(memory'[k], v)
  <2>1. CASE k = l
    BY <1>1, <1>2, <1>8, <2>1, SettledKept
  <2>2. CASE k # l
    BY <1>1, <1>2, <1>8, <2>2
  <2> QED BY <2>1, <2>2
<1>9. ASSUME pc = "copy", NEW k \in Lines, Quiet(memory[k])
      PROVE  /\ Quiet(memory'[k]) /\ Newest(memory'[k]) = Newest(memory[k])
             /\ memory[k].dirty = {} => memory'[k].dirty = {}
  <2>1. CASE k = l
    BY <1>1, <1>2, <1>9, <2>1, QuietKept
  <2>2. CASE k # l
    BY <1>1, <1>2, <1>9, <2>2
  <2> QED BY <2>1, <2>2
<1>10. ASSUME image # None, NEW i \in ImageIndex
       PROVE  KernelStart + i \in Lines /\ Image(image.of, i) \in Contents
  BY <1>10, ImageLines DEF IInv
<1>11. ASSUME pc \in {"enter", "payload"}, NEW k \in KernelStart..(Gigabyte - 1)
       PROVE  SweptClean(k)'
  <2>1. SweptClean(k) /\ k \in Lines
    BY <1>11, HandoffAssumption DEF IInv, Progress, Lines
  <2>2. CASE k = l
    <3>1. memory'[k] = y /\ memory[k].dirty = {} /\ memory[k].core = None
      BY <1>1, <1>2, <2>1, <2>2 DEF SweptClean
    <3>2. y.dirty = {} /\ y.core = None
      BY <1>1, <1>2, <1>11, <2>1, <2>2, <3>1, SweptKept
    <3>3. k # stub => y.sys = None
      BY <1>1, <1>2, <1>11, <2>1, <2>2, <3>1, SweptKept DEF SweptClean
    <3> QED BY <1>5, <3>1, <3>2, <3>3 DEF SweptClean
  <2>3. CASE k # l
    BY <1>1, <1>2, <1>5, <2>1, <2>3 DEF SweptClean
  <2> QED BY <2>2, <2>3
<1>12. CASE CachesOn
  <2>1. Slot \in Lines
    BY HandoffAssumption DEF Slot, Lines
  <2>2. ASSUME NEW k \in Lines, Staged(k)
        PROVE  SourceReady(k)'
    BY <1>3, <1>5, <1>6, <1>12, <2>2 DEF IInv, Progress, SourceReady, CachesOn
  <2>3. SlotReady'
    BY <1>3, <1>5, <1>6, <1>12, <2>1 DEF IInv, Progress, SlotReady, CachesOn, Pointer
  <2> QED BY <1>3, <1>5, <1>7, <1>12, <2>2, <2>3 DEF IInv, Progress, CachesOn
<1>13. CASE ~CachesOn
  <2>1. (\A k \in Lines : Staged(k) => SourceReady(k))' /\ SlotReady'
    BY <1>3, <1>5, <1>8, <1>13, SourceKept DEF CachesOn
  <2>2. image # None
    BY <1>13 DEF IInv, Progress, CachesOn
  <2>3. pc' = "copy" => \A i \in ImageIndex : TargetQuiet(i)'
    BY <1>3, <1>5, <1>9, <1>10, <2>2 DEF IInv, Progress, TargetQuiet, Image
  <2>4. pc' \in {"enter", "payload"} => \A i \in ImageIndex : TargetSettled(i)'
    BY <1>3, <1>5, <1>8, <1>10, <2>2 DEF IInv, Progress, TargetSettled, Image
  <2> QED BY <1>3, <1>5, <1>7, <1>11, <2>1, <2>3, <2>4 DEF IInv, Progress
<1> QED BY <1>12, <1>13

(* Every step keeps the invariant.                                         *)
LEMMA NextKeeps == IInv /\ [Next]_vars => IInv'
<1> SUFFICES ASSUME IInv, [Next]_vars PROVE IInv'
  OBVIOUS
<1>1. restless \subseteq Lines
  BY DEF IInv, TypeOK
<1>2. CASE IsChainBootEnabled
  <2>1. /\ pc = "loader" /\ pc' = "slot" /\ image # None
        /\ UNCHANGED <<memory, restless, armVars, copied>>
    BY <1>2 DEF IsChainBootEnabled, HandoffStep
  <2>2. /\ TypeOK' /\ Layout' /\ ImageIndex' = ImageIndex
        /\ image' = image /\ stub' = stub /\ dtbCopy' = dtbCopy
        /\ \A l \in Lines : (Staged(l)' <=> Staged(l)) /\ Wanted(l)' = Wanted(l)
    BY <2>1, FrameKeeps DEF IInv, TypeOK
  <2> QED BY <2>1, <2>2 DEF IInv, CoherentWhileOn, Progress, CachesOn, SourceReady, SlotReady
<1>3. CASE Handoff
  BY <1>3, PointSlotKeeps, CleanDataCacheKeeps, CleanRangesKeeps, EnterStubKeeps,
     SweepBeforeKeeps, CopyLineKeeps, SweepAfterKeeps, EnterPayloadKeeps DEF Handoff
<1>4. CASE UNCHANGED vars
  BY <1>4, StutterKeeps DEF vars, armVars
<1> QED BY <1>1, <1>2, <1>3, <1>4, EnableKeeps, LoaderStoreKeeps, CachesChangeKeeps DEF Next

-----------------------------------------------------------------------------

(* Every variable keeps its type, whatever is armed and however the caches *)
(* behave.                                                                 *)
THEOREM HandoffTypeCorrect == Spec => []TypeOK
<1>1. IInv => TypeOK
  BY DEF IInv
<1> QED BY InitEstablishes, NextKeeps, <1>1, PTL DEF Spec

(* What is settled is what the payload reads. *)
LEMMA PayloadReads == IInv => PayloadReadsImage
<1> SUFFICES ASSUME IInv, pc = "payload", NEW i \in 0..(ImageSize[image.of] - 1)
             PROVE  Views(memory[KernelStart + i]) = {Image(image.of, i)}
  BY DEF PayloadReadsImage
<1>1. image # None /\ i \in ImageIndex
  BY DEF IInv, Progress, ImageIndex
<1>2. KernelStart + i \in Lines /\ Image(image.of, i) \in Contents
  BY <1>1, ImageLines DEF IInv
<1>3. Settled(memory[KernelStart + i], Image(image.of, i))
  BY <1>1 DEF IInv, Progress, TargetSettled
<1> QED BY <1>2, <1>3, SettledViews DEF IInv, TypeOK

(* Set/way clean, cleans by address, sweep, copy and sweep are enough: the *)
(* payload finds the image armed last in every line, whichever cache       *)
(* writes back, drops or takes in whichever line at whatever moment, and   *)
(* whether the stub's stores go past the system cache or into it.          *)
THEOREM PayloadAlwaysReadsImage == Spec => []PayloadReadsImage
BY InitEstablishes, NextKeeps, PayloadReads, PTL DEF Spec

(* No cache holds anything of the first gigabyte that the loader left once *)
(* the payload runs, but the stub's own code: nothing it stores with its   *)
(* caches off is hidden or overwritten by an older line.                   *)
THEOREM LoaderAlwaysEvicted == Spec => []LoaderEvicted
<1>1. IInv => LoaderEvicted
  BY DEF IInv, Progress, SweptClean, LoaderEvicted
<1> QED BY InitEstablishes, NextKeeps, <1>1, PTL DEF Spec

(* Once a device tree was captured the payload finds in the slot where the *)
(* copy lies, and the whole tree there, wherever the heaps put it.         *)
THEOREM SlotAlwaysPointsAtCopy == Spec => []SlotPointsAtCopy
<1>1. IInv => SlotPointsAtCopy
  <2> SUFFICES ASSUME IInv, pc = "payload", dtbCopy # 0
               PROVE  /\ dtbCopy \in Lines \ {Slot}
                      /\ Views(memory[Slot]) = {Pointer(dtbCopy)}
                      /\ \A j \in 0..(DTBSize - 1) : Views(memory[dtbCopy + j]) = {Blob(j)}
    BY DEF SlotPointsAtCopy
  <2>1. /\ dtbCopy \in HeapStart..(FourGB - 1) /\ dtbCopy + DTBSize <= MemTop
        /\ memory \in [Lines -> LineStates] /\ Slot \in Lines
    BY HandoffAssumption DEF IInv, TypeOK, Layout, Slot, Lines
  <2>2. dtbCopy \in Lines \ {Slot}
    BY <2>1, HandoffAssumption DEF Lines, Slot
  <2>3. Views(memory[Slot]) = {Pointer(dtbCopy)}
    <3>1. Pointer(dtbCopy) \in Contents
      BY <2>1, HandoffAssumption DEF Pointer, Data, Contents
    <3>2. Settled(memory[Slot], Pointer(dtbCopy))
      BY DEF IInv, Progress, SlotReady, CachesOn
    <3> QED BY <2>1, <3>1, <3>2, SettledViews
  <2>4. ASSUME NEW j \in 0..(DTBSize - 1)
        PROVE  Views(memory[dtbCopy + j]) = {Blob(j)}
    <3>1. /\ dtbCopy + j \in Lines /\ dtbCopy + j \in Span(dtbCopy, DTBSize)
          /\ dtbCopy + j - dtbCopy = j
      BY <2>1, HandoffAssumption DEF Lines, Span
    <3>2. InDTB(dtbCopy + j) /\ ~InStub(dtbCopy + j)
      BY <3>1 DEF IInv, Layout, InDTB
    <3>3. Wanted(dtbCopy + j) = Blob(j)
      <4>1. Wanted(dtbCopy + j) = Blob((dtbCopy + j) - dtbCopy)
        BY <3>2 DEF Wanted
      <4> QED BY <2>1, <3>1, <4>1, HandoffAssumption
    <3>4. Settled(memory[dtbCopy + j], Blob(j)) /\ Blob(j) \in Contents
      BY <3>1, <3>2, <3>3, StagedLines DEF IInv, Progress, SourceReady, CachesOn, Staged
    <3> QED BY <2>1, <3>1, <3>4, SettledViews
  <2> QED BY <2>2, <2>3, <2>4
<1> QED BY InitEstablishes, NextKeeps, <1>1, PTL DEF Spec

(* From the jump to EL2 to the jump into the payload the stub's line reads *)
(* as its code, past the caches or through the system cache, though the    *)
(* loader wrote it with its caches on and the sweeps go over it.           *)
THEOREM StubAlwaysFetchesStub == Spec => []StubFetchesStub
<1>1. IInv => StubFetchesStub
  <2> SUFFICES ASSUME IInv, pc \in {"sweep", "copy", "enter"}
               PROVE  UncachedReads(memory[stub]) = {StubCode}
    BY DEF StubFetchesStub
  <2>1. stub # 0 /\ stub \in Lines /\ memory[stub] \in LineStates
    BY HandoffAssumption DEF IInv, TypeOK, Progress, Lines
  <2>2. InStub(stub) /\ Wanted(stub) = StubCode /\ StubCode \in Contents
    BY <2>1 DEF InStub, Wanted, StubCode, Data, Contents
  <2>3. Settled(memory[stub], StubCode)
    BY <2>1, <2>2 DEF IInv, Progress, SourceReady, CachesOn, Staged
  <2> QED BY <2>1, <2>2, <2>3, SettledViews
<1> QED BY InitEstablishes, NextKeeps, <1>1, PTL DEF Spec

(* What the promise speaks of, seen from the hand-off. *)
ArmedMapped == IF image = None THEN None ELSE Whole(image.of)

StartedMapped == IF pc = "payload" THEN InMemory ELSE None

(* What the payload finds in memory is the image armed last. *)
StartsWhole == pc = "payload" => image # None /\ InMemory = Whole(image.of)

LEMMA AlwaysStartsWhole == IInv => StartsWhole
<1> SUFFICES ASSUME IInv, pc = "payload"
             PROVE  image # None /\ InMemory = Whole(image.of)
  BY DEF StartsWhole
<1>1. image # None
  BY DEF IInv, Progress
<1>2. \A i \in 0..(ImageSize[image.of] - 1) : Views(memory[KernelStart + i]) = {Image(image.of, i)}
  BY PayloadReads DEF PayloadReadsImage
<1> QED BY <1>1, <1>2 DEF InMemory, Whole

(* A step but an arming and the jump changes nothing the promise is about. *)
LEMMA StepIsPromised ==
    ASSUME IInv, StartsWhole, StartsWhole', [Next]_vars
    PROVE  [Promise!Next]_(Promise!vars)
<1>1. CASE \E p \in Payloads : EnableChainBoot(p)
  <2>1. PICK p \in Payloads : EnableChainBoot(p)
    BY <1>1
  <2>2. pc = "loader" /\ pc' = "loader" /\ image'.of = p
    BY <2>1 DEF EnableChainBoot
  <2>3. image' # None
    <3> DEFINE at == StageAlloc(heap, ImageSize[p]).at
    <3>1. heap \in Heaps /\ highMem \in HighMemSizes /\ ImageSize[p] \in Nat \ {0} /\ at # 0
      BY <2>1, HandoffAssumption DEF IInv, TypeOK, Heaps, EnableChainBoot
    <3>2. at \in Nat
      BY <3>1, StageAllocProperties, HandoffAssumption
    <3>3. image' = [at |-> at, of |-> p]
      BY <2>1 DEF EnableChainBoot
    <3> HIDE DEF at
    <3> QED BY <3>2, <3>3, NoneAssumption
  <2>4. ArmedMapped' = Whole(p) /\ StartedMapped = None /\ StartedMapped' = None
    BY <2>2, <2>3 DEF ArmedMapped, StartedMapped
  <2>5. Promise!Arm(Whole(p))
    BY <2>4 DEF Promise!Arm, ArmedMapped, StartedMapped
  <2> QED BY <2>5 DEF Promise!Next
<1>2. CASE EnterPayload
  <2>1. pc = "enter" /\ pc' = "payload" /\ image' = image
    BY <1>2 DEF EnterPayload, HandoffStep, armVars
  <2>2. (InMemory = Whole(image.of))'
    BY <2>1 DEF StartsWhole
  <2>3. image # None /\ image.of \in Payloads
    BY <2>1 DEF IInv, TypeOK, Progress
  <2>4. /\ ArmedMapped = Whole(image.of) /\ ArmedMapped # None /\ ArmedMapped' = ArmedMapped
        /\ StartedMapped = None /\ StartedMapped' = Whole(image.of)
    BY <2>1, <2>2, <2>3, WholeAssumption DEF ArmedMapped, StartedMapped
  <2>5. Promise!Start
    BY <2>4 DEF Promise!Start, ArmedMapped, StartedMapped
  <2> QED BY <2>5 DEF Promise!Next
<1>3. CASE ~(\E p \in Payloads : EnableChainBoot(p)) /\ ~EnterPayload
  <2>1. image' = image /\ (pc = "payload" <=> pc' = "payload")
    BY <1>3 DEF Next, Handoff, LoaderStore, CachesChange, IsChainBootEnabled, PointSlot, CleanDataCache,
                CleanDataCacheRanges, EnterStub, SweepBefore, CopyLine, SweepAfter, HandoffStep,
                armVars, vars
  <2>2. ArmedMapped' = ArmedMapped
    BY <2>1 DEF ArmedMapped, Whole
  <2>3. StartedMapped' = StartedMapped
    <3>1. CASE pc = "payload"
      <4>1. InMemory = Whole(image.of)
        BY <3>1 DEF StartsWhole
      <4>2. (InMemory = Whole(image.of))'
        BY <2>1, <3>1 DEF StartsWhole
      <4> QED BY <2>1, <3>1, <4>1, <4>2 DEF StartedMapped, Whole
    <3>2. CASE pc # "payload"
      BY <2>1, <3>2 DEF StartedMapped
    <3> QED BY <3>1, <3>2
  <2> QED BY <2>2, <2>3 DEF Promise!vars, ArmedMapped, StartedMapped
<1> QED BY <1>1, <1>2, <1>3

(* The hand-off does what PushToBoot promises and nothing else: it starts  *)
(* the image armed last, whole, and starts once - for any memory map, and  *)
(* whatever the caches do meanwhile.                                       *)
THEOREM HandoffImplementsPromise ==
    Spec => Promise!Init /\ [][Promise!Next]_(Promise!vars)
<1>1. Init => Promise!Init
  <2> SUFFICES ASSUME Init PROVE Promise!Init
    OBVIOUS
  <2>1. ArmedMapped = None /\ StartedMapped = None
    BY DEF Init, ArmedMapped, StartedMapped
  <2> QED BY <2>1 DEF Promise!Init, ArmedMapped, StartedMapped
<1>2. IInv /\ StartsWhole /\ StartsWhole' /\ [Next]_vars => [Promise!Next]_(Promise!vars)
  BY StepIsPromised
<1> QED BY <1>1, <1>2, InitEstablishes, NextKeeps, AlwaysStartsWhole, PTL DEF Spec

=============================================================================
