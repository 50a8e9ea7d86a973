SPECIFICATION Spec
CONSTANTS
    n1 = n1
    n2 = n2
    n3 = n3
    p1 = p1
    p2 = p2
    Nodes = {n1, n2, n3}
    Order <- MCOrder
    ReplicaCount = 2
    ContentAddressed = TRUE
    Ops = {p1}
    None = None
    MaxFaults = 1
PROPERTY
    HeldWhenAcked
CHECK_DEADLOCK FALSE
