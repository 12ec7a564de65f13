SPECIFICATION MCSpec
CONSTANTS
    b0 = b0
    v1 = v1
    v2 = v2
    c1 = c1
    Version <- MCVersion
    NoVersion = none
    Damaged = damaged
    Builtin = b0
    Caller <- MCCaller
    MaxBatch = 2
    Threshold = 2
    MaxEvents = 2
    MaxMishaps = 1
    MaxQueue = 1
INVARIANTS
    TypeOK
    DrainsItsAnswers
    RunsInstalled
PROPERTIES
    NothingLost
    Serves
    HandlesFailures
\* The system rests when local AI is switched off.
CHECK_DEADLOCK FALSE
