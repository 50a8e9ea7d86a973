SPECIFICATION Spec
CONSTANTS
    c1 = c1
    c2 = c2
    a1 = a1
    p1 = p1
    p2 = p2
    Putters = {p1}
    Repairers = {p2}
    Objects = {c1, c2, a1}
    SizesOf <- MCSizesOf
    HighBytes = 2
    LowBytes = 1
    BatchSize = 2
    Unremovable = {c2}
    MaxPuts = 1
    MaxFaults = 1
    None = None
INVARIANTS
    TypeOK
    OverQuotaIsNoticed
PROPERTIES
    QuietSweepLandsAtLow
    QuotaDrains
    SweepEnds
CHECK_DEADLOCK FALSE
