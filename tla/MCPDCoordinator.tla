--------------------------- MODULE MCPDCoordinator ---------------------------
EXTENDS PDCoordinator, TLC

CONSTANTS d, e

MCRole  == (d :> "decode") @@ (e :> "prefill")
MCGroup == [f \in Engines |-> "default"]

\* A decode below both limits and at the watermark, and an idle prefill.
MCLoads ==
    LET Usage(n) == [prefill_tokens_in_decode |-> 0, kv_cache_usage |-> n]
    IN  (d :> {Usage(0), Usage(7)}) @@ (e :> {Usage(0)})

\* The reports of one engine have two ages and expire at neither of them, those of
\* the other one have three and expire at the last one.
MCMaxAge == (d :> 1) @@ (e :> 2)

===============================================================================
