SPECIFICATION Spec
CONSTANTS
    a = a
    b = b
    c = c
    Requests = {a, b, c}
    NumPromptTokens <- MCTwoPrefills
    OffloadEnabled = TRUE
    AsyncThreshold = 2
    AsyncChunkSize = 2
    LongPrefillTokenThreshold = 0
    CachedPrefixes = {0}
    MaxNumRunningReqs = 3
    BatchQueueSize = 1
    FenceMode = "copy"
PROPERTIES
    DecodeWaitsForPrefill
CHECK_DEADLOCK FALSE
