SPECIFICATION Spec
CONSTANTS
    Tab = {t1}
    Look = {l1}
    NoLook = none
    MaxScans = 2
    MaxDirs = 1
INVARIANTS FinalNeverRunning
CHECK_DEADLOCK FALSE
