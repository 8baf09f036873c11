SPECIFICATION HeardSpec
CONSTANTS
    Tab = {t1}
    Look = {l1}
    NoLook = none
    MaxScans = 2
    MaxDirs = 1
INVARIANTS DoneHoldsItsScan CompleteIsComplete
PROPERTIES ScansNeverOverlap StartBeforeLayout PhaseEnds PagesSettleOnceHeard
CHECK_DEADLOCK FALSE
