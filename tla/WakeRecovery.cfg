SPECIFICATION FairSpec
CONSTANTS
    p1 = p1
    p2 = p2
    Path <- MCOne
    RetryDelays = 1
    MaxBatches = 1
    MaxEdges = 2
INVARIANTS
    TypeOK
    PendingImpliesArmed
    ProbesBounded
    NoLostWakeup
PROPERTIES
    BatchEnds
    RecoveryGetsFull
