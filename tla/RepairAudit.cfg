SPECIFICATION Spec
CONSTANTS
    N = 4
    Ours <- MCOurs
    w1 = w1
    Workers <- MCWorkers
    QueueSize = 1
    AuditBudget = 2
    PageSize = 2
    MaxChanges = 2
    MaxFaults = 1
INVARIANTS
    NothingSkipped
PROPERTIES
    EveryObjectIsAudited
    ShutdownCompletes
CHECK_DEADLOCK FALSE
