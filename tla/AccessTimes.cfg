SPECIFICATION TouchSpec
CONSTANTS
    k1 = k1
    k2 = k2
    Keys = {k1, k2}
    TouchLimit = 1
    MaxClock = 4
    MaxErrors = 1
SYMMETRY KeySymmetry
INVARIANTS
    TouchTypeOK
    FlushedTouchIsKept
    SweepSeesQueuedReads
CHECK_DEADLOCK FALSE
