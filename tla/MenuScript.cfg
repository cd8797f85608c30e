SPECIFICATION Spec
CONSTANTS
    a = a
    b = b
    None = None
    Chars <- MCChars
    Pipe = Pipe
    Hash = Hash
    Blank = Blank
    Missing = Missing
    MaxEntries = 5
    MaxLabel = 3
    MaxString = 5
    MenuFiles <- OnlySix
    VisibleRows = 2
    Keys <- MCKeys
    Scripts <- Script
    InjBufSize = 2
    KeySlots = 2
    MaxPresses = 0
    Files <- MCFiles
    DefaultsEnd = 2
INVARIANT BootsWhatWasKeyed
