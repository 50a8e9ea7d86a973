SPECIFICATION Spec
CONSTANTS
    evictor = evictor
    flusher = flusher
    repair = repair
    r1 = r1
    r2 = r2
    Workers <- MCWorkers
    Flushers <- MCFlushers
    Nobody = Nobody
    Requests <- MCRequests
INVARIANTS
    ReadyMeansOpen
    CleanStopIsQuiet
    ExitsClosed
PROPERTIES
    SignalEndsNode
CHECK_DEADLOCK FALSE
