SPECIFICATION Spec
CONSTANTS
    c1 = c1
    c2 = c2
    a1 = a1
    p1 = p1
    p2 = p2
    Putters = {p1, p2}
    Repairers = {}
    Objects = {c1, c2, a1}
    SizesOf <- MCSizesOf
    HighBytes = 2
    LowBytes = 1
    BatchSize = 1
    Unremovable = {}
    MaxPuts = 3
    MaxFaults = 0
    None = None
INVARIANT
    UsedWithinTolerance
CHECK_DEADLOCK FALSE
