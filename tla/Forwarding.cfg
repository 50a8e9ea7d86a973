SPECIFICATION Spec
CONSTANTS
    Nodes = {n1, n2, n3}
    ReplicaCount = 1
    PeerHeaders = {"coordinator", "replica", "repair", "read", "future"}
INVARIANTS
    ChainIsBounded
    CopiesAreBounded
PROPERTY
    RequestsEnd
CHECK_DEADLOCK FALSE
