SPECIFICATION Spec
CONSTANTS
    Dot = Dot
    Junk = Junk
    Garbage = Garbage
    None = None
    Lines <- MCLines
    MaxLines = 4
CHECK_DEADLOCK FALSE
INVARIANTS TypeOK NetworkGetsStated
