SPECIFICATION Spec
CONSTANTS
    a = a
    b = b
    c = c
    Requests = {a, b, c}
    NumPrefillers = 2
    NumDecoders = 3
    PrefillScore <- MCPrefillScore
    DecodeScore <- MCDecodeScore
    MaxRetries = 2
INVARIANTS
    NoRetryAfterChunk
CHECK_DEADLOCK FALSE
