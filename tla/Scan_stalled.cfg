SPECIFICATION ScanSpec
CONSTANTS
    root = root
    a = a
    b = b
    f = f
    Worker = {w1, w2}
    Item = {root, a, b}
    FirstItem = root
    NoItem = none
    File = {f}
    Contents <- Loop
    Fallible = {a, b}
    StallPolls = 1
    EntriesPerProgress = 2

INVARIANTS StalledIsPartial
CHECK_DEADLOCK FALSE
