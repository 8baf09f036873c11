SPECIFICATION MCSpec
CONSTANTS
    Worker = {w1, w2, w3, w4}
    Item = {i1, i2}
    FirstItem = i1
    NoItem = none
    StallPolls = 3
    MaxItems = 5
INVARIANTS PendingExact NoLostWakeup CompleteIsQuiescent
PROPERTIES CancelledStaysEmpty StallOnlyWhenSilent
CHECK_DEADLOCK FALSE
