---------------------------- MODULE MCPDMigration ----------------------------
EXTENDS PDMigration, TLC

CONSTANTS d, a, b

MCOneDecode   == d :> "decode"
MCOneGroup    == d :> "default"

MCNumTokens   == [r \in Requests |-> IF r = a THEN 1 ELSE 2]

\* A decode below both limits and one over the watermark.
MCLoads ==
    [x \in Engines |-> {[prefill_tokens_in_decode |-> 0, kv_cache_usage |-> 0],
                        [prefill_tokens_in_decode |-> 0, kv_cache_usage |-> 8]}]

\* No report expires.
MCMaxAge == [x \in Engines |-> 0]

===============================================================================
