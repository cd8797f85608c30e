SPECIFICATION Spec
CONSTANTS
    Dot = Dot
    Junk = Junk
    Garbage = Garbage
    None = None
    Lines <- MCTypoLines
    MaxLines = 3
CHECK_DEADLOCK FALSE
INVARIANT TypoIgnored
