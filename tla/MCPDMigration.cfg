SPECIFICATION MigrationSpec
CONSTANTS
    a = a
    b = b
    d = d
    Engines = {d}
    Role <- MCOneDecode
    Group <- MCOneGroup
    PdGroup = "default"
    Loads <- MCLoads
    DecodeKvWatermark = 7
    MaxDecodeOffloadTokens = 4
    StaleMs = 0
    MaxAge <- MCMaxAge
    PublishIntervalMs = 1
    ReportHWM = 1
    PublishHWM = 1
    Requests = {a, b}
    NumTokens <- MCNumTokens
    OverloadTrd = 3
    PrefillTokenCost = 1
    PrefillFixedCost = 1
    MaxBatches = 2
INVARIANTS
    OneAnswer
    AnsweredIsGone
PROPERTIES
    EveryoneAnswered
CHECK_DEADLOCK FALSE
