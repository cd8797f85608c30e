SPECIFICATION FairSpec
CONSTANTS
    a = a
    b = b
    None = None
    Chars <- MCChars
    Pipe = Pipe
    Hash = Hash
    Blank = Blank
    Missing = Missing
    MaxEntries = 5
    MaxLabel = 3
    MaxString = 5
    MenuFiles <- MCMenuFiles
    VisibleRows = 2
    Keys <- MCKeys
    Scripts <- MCScripts
    InjBufSize = 2
    KeySlots = 2
    MaxPresses = 2
    Files <- MCFiles
    DefaultsEnd = 2
INVARIANTS TypeOK ScreenShowsSelection ArmedIsSelection NothingBootsUnasked PatientKeysBoot
PROPERTY EnterBoots
