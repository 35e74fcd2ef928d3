SPECIFICATION PoolSpec
CONSTANTS
    a = a
    b = b
    c = c
    d = d
    Requests = {a, b, c, d}
    NumDecoders = 6
    DecodeScore <- MCDecodeScore
INVARIANTS
    LeastLoadedIsNext
