SPECIFICATION Spec
CONSTANTS
    DefaultsBlockOffset = 2
    HeaderBytes = 2
    DefaultsBufferBytes = 3
    NUL = NUL
    Code = Code
    Sizes <- MCSizes
    Capacities <- MCCapacities
    Chars = {a, b}
    MaxString = 5
    TextSpan = 6
INVARIANTS TypeOK ReaderSeesAccepted
PROPERTY CapacityHonoured
