SPECIFICATION Spec
CONSTANTS
    evictor = evictor
    flusher = flusher
    repair = repair
    r1 = r1
    r2 = r2
    Workers <- MCWorkers
    Flushers <- MCFlushers
    Nobody = Nobody
    Requests <- MCRequests
PROPERTIES
    SignalEndsStuckOpen
CHECK_DEADLOCK FALSE
