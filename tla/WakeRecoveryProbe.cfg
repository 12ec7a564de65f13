SPECIFICATION Spec
CONSTANTS
    p1 = p1
    p2 = p2
    Path <- MCPath
    RetryDelays = 1
    MaxBatches = 1
    MaxEdges = 2
SYMMETRY Symmetry
INVARIANT ProbeReadsProtocol
