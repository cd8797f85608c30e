SPECIFICATION FairSpec
CONSTANTS
    cardFile = cardFile
    cardDir = cardDir
    Root = Root
    DotDot = DotDot
    None = None
    Directory = Directory
    Garbage = Garbage
    letter = letter
    Cr = Cr
    Lf = Lf
    Bytes <- MCBytes
    Paths = {cardDir, cardFile}
    Above <- MCAbove
    Requests <- MCAll
    RecvBufSize = 5
    WriteBufSize = 5
    MaxClients = 2
    Tasks = {1, 2, 3}
CHECK_DEADLOCK FALSE
INVARIANTS TypeOK AnsweredIsOnCard GetSendsFile AnsweredUnlessCut ClientLimit
PROPERTIES SlotFreed
