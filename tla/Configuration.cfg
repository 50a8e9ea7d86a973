SPECIFICATION ConfSpec
CONSTANTS
    m0 = m0
    none = none
    nan = nan
    Names <- MCNames
    MaxWeight = 1
    HolderCount = 2
    Settings <- MCSettings
    NotGiven = none
    Malformed = m0
    NaN = nan
    Spellings <- MCSpellings
    Trim <- MCTrim
    One <- MCOne
    Floats <- MCFloats
    Round <- MCRound
    MaxInt64 <- MCMaxInt64
    MinInt64 <- MCMinInt64
INVARIANTS
    HoldersAreReplicaCount
    MarksInOrder
PROPERTIES
    ImplementsPlacement
    ReorderMovesNothing
    OnlyNewcomersGain
