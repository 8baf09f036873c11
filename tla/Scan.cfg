SPECIFICATION StuckSpec
CONSTANTS
    root = root
    a = a
    b = b
    f = f
    Worker = {w1, w2}
    Item = {root, a, b}
    FirstItem = root
    NoItem = none
    File = {f}
    Contents <- TwoNames
    Fallible = {b, f}
    StallPolls = 1
    EntriesPerProgress = 2
INVARIANTS CompleteMeansEverything IncompleteMeansReported
PROPERTIES StreamIsSafe StreamEnds NoWorkerLeftBehind
CHECK_DEADLOCK FALSE
