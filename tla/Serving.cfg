SPECIFICATION Spec
CONSTANTS
    p1 = p1
    p2 = p2
    g1 = g1
    Puts <- MCPuts
    Gets <- MCOneGet
    Namespaces = {"cas", "ac"}
    MaxFiles = 2
    MaxBlocks = 2
    MaxDamage = 1
INVARIANTS
    CompleteIsOneFile
    DamageIsCounted
    RefusalPublishesNothing
    SuccessWasStored
CHECK_DEADLOCK FALSE
