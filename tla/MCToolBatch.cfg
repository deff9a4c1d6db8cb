SPECIFICATION FairSpec
CONSTANTS
    N = 3
    MaxParallel = 2
    SinkMayFail = TRUE
INVARIANTS
    BatchSound
    BatchComplete
    AbortStopsBatch
PROPERTIES
    ImplementsContract
    BatchEnds
CHECK_DEADLOCK FALSE
