SPECIFICATION Spec
CONSTANTS
    a = a  b = b  c = c  d = d
    Rows = {a, b, c, d}
    Limit = 2
    PerMs = 3
    MaxClock = 7
    MaxLost = 1
INVARIANTS SkipsNone
PROPERTIES ReaderSeesAll
CHECK_DEADLOCK FALSE
