SPECIFICATION Spec
CONSTANTS
    a = a
    b = b
    c = c
    Requests = {a, b, c}
    NumPromptTokens <- MCNumPromptTokens
    OffloadEnabled = TRUE
    AsyncThreshold = 3
    AsyncChunkSize = 2
    LongPrefillTokenThreshold = 0
    CachedPrefixes = {0, 1}
    MaxNumRunningReqs = 2
    BatchQueueSize = 2
INVARIANTS
    TypeOK
    HeldExactlyWhileWorking
    NoOverlap
    PressureAccurate
PROPERTIES
    HeldStaysRunning
    LaneAffinity
CHECK_DEADLOCK FALSE
