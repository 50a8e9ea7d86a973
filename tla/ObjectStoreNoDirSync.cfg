SPECIFICATION Spec
CONSTANTS
    c1 = c1
    c2 = c2
    a1 = a1
    s1 = s1
    b1 = b1
    b2 = b2
    b3 = b3
    w1 = w1
    w2 = w2
    w3 = w3
    Writers = {w1, w2}
    CasRefs = {c1, c2}
    AcRefs = {}
    Shards = {s1}
    ShardOf <- MCShardOf
    Bodies = {b1, b2, b3}
    DigestOf <- MCDigestOf
    SizeOf <- MCSizeOf
    MaxObjectBytes = 2
    DirSyncSupported = FALSE
    Torn = Torn
    NoFile = NoFile
    NoRef = NoRef
SYMMETRY WriterSymmetry
INVARIANT
    NoDurableClaimWithoutDirSync
