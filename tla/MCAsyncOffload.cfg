SPECIFICATION Spec
CONSTANTS
    a = a
    b = b
    c = c
    Requests = {a, b}
    NumPromptTokens <- MCNumPromptTokens
    OffloadEnabled = TRUE
    AsyncThreshold = 2
    AsyncChunkSize = 2
    LongPrefillTokenThreshold = 0
    CachedPrefixes = {0}
    MaxNumRunningReqs = 2
    BatchQueueSize = 2
    FenceMode = "none"
INVARIANTS
    ResultMatchesStep
    ChunkInOnePlace
    PrefillReadAfterCopy
PROPERTIES
    ImplementsProtocol
    HoldEnds
CHECK_DEADLOCK FALSE
