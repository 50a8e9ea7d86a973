SPECIFICATION Spec
CONSTANTS
    p1 = p1
    p2 = p2
    g1 = g1
    Puts <- MCOnePut
    Gets <- MCOneGet
    Namespaces = {"cas"}
    MaxFiles = 1
    MaxBlocks = 2
    MaxDamage = 1
INVARIANTS
    GetMatchesKey
CHECK_DEADLOCK FALSE
