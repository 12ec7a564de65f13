SPECIFICATION FairSpec
CONSTANTS
    Workflow <- MCWorkflow
    ChunkPolicy = "continue"
    RollbackPolicy = "continue"
    Projections <- MCProjections
    Supported <- MCSupported
    Chunks = 2
    Packets = 3
    Retries = 2
    Drains = 1
    MaxReports = 7
    MaxFaults = 2
    MaxEvents = 1
    MaxJobs = 2
INVARIANTS
    TypeOK
    
    
    SectorKept
 
CHECK_DEADLOCK FALSE
