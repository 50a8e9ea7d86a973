SPECIFICATION Spec
CONSTANTS
    n1 = n1
    n2 = n2
    n3 = n3
    k1 = k1
    k2 = k2
    Nodes = {n1, n2, n3}
    Keys = {k1}
    Workers = {w1}
    HoldersOf <- MCHoldersOf
    MaxCommandErrs = 2
    MaxDamage = 0
    None = None
PROPERTY
    ConvergedMeansReplicated
CHECK_DEADLOCK FALSE
