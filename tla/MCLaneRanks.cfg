SPECIFICATION Spec
CONSTANTS
    r1 = r1
    r2 = r2
    Ranks = {r1, r2}
    MaxSteps = 3
    LogitsInForward = TRUE
INVARIANTS
    CollectivesMatch
    RanksAgree
    TakenWhenAllReady
    NothingHangs
PROPERTIES
    EveryStepEnds
CHECK_DEADLOCK FALSE
