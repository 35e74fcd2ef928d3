SPECIFICATION Spec
CONSTANTS
    d = d
    e = e
    Engines = {d, e}
    Role <- MCRole
    Group <- MCGroup
    PdGroup = "default"
    Loads <- MCLoads
    DecodeKvWatermark = 7
    MaxDecodeOffloadTokens = 4
    StaleMs = 1
    MaxAge <- MCMaxAge
    PublishIntervalMs = 1
    ReportHWM = 1
    PublishHWM = 2
INVARIANTS
    TypeOK
PROPERTIES
    NeverOlder
    LastLoadArrives
    SilentEngineExpires
