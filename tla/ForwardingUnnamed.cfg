SPECIFICATION Spec
CONSTANTS
    Nodes = {n1, n2, n3}
    ReplicaCount = 1
    PeerHeaders = {"client"}
PROPERTY
    UnnamedHopIsTerminal
CHECK_DEADLOCK FALSE
