SPECIFICATION Spec
CONSTANTS
    n1 = n1
    n2 = n2
    n3 = n3
    k1 = k1
    k2 = k2
    Nodes = {n1, n2, n3}
    Keys = {k1}
    Workers = {w1, w2}
    HoldersOf <- MCHoldersOf
    MaxCommandErrs = 1
    MaxDamage = 1
    None = None
INVARIANTS
    AckedHasLiveHolder
    MissingWasEvicted
    ExitLeavesClusterUp
    ServedDamageFails
PROPERTY
    RunEnds
CHECK_DEADLOCK FALSE
