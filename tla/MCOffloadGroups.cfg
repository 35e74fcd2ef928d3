SPECIFICATION Spec
CONSTANTS
    Configs <- MCConfigs
    MaxInits = 2
INVARIANTS
    SlotsAlive
    NothingLeaks
    EveryRankInOneRow
    GroupsFollowLayout
    FlashComm2Grid
    FineGrainedJoinsReplicas
CHECK_DEADLOCK FALSE
