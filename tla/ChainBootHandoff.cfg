SPECIFICATION FairSpec
CONSTANTS
    None = None
    k = k
    long = long
    KernelStart = 1
    KernelEnd = 3
    HeapStart = 4
    Gigabyte = 9
    FourGB = 12
    MemTop = 14
    HighMemSizes = {0, 2, 5}
    LowHeapUsed = {4, 6}
    Payloads <- MCPayloads
    ImageSize <- MCImageSize
    DTBSize = 2
    MaxArms = 2
    MaxRestless = 1
INVARIANTS TypeOK PayloadReadsImage LoaderEvicted SlotPointsAtCopy StubFetchesStub
PROPERTY HandoffKeepsPromise
CHECK_DEADLOCK FALSE
