SPECIFICATION ScanSpec
CONSTANTS
    Reader = {r1, r2}
    Reads = 3
    Attempts = 2
    Room = 5
    PerRead = 2
    FirstUser = 1
    Volumes <- SmallVolumes
INVARIANTS VerdictSound ErrorStopsReaders SameAsWalk TreeOfWhatWasRead
PROPERTIES Ends MftStreamIsSafe
CHECK_DEADLOCK FALSE
