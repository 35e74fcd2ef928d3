SPECIFICATION StepSpec
CONSTANTS
    a = a
    b = b
    c = c
    d = d
    e = e
    Requests = {a, b, c, d, e}
    Inflight = {a, b}
    MaxRows = 3
SYMMETRY Symmetry
INVARIANTS
    NobodyLost
    OrderKept
    LanesPartitionStep
    RowsMeetSchedule
    RowsAreOwn
CHECK_DEADLOCK FALSE
