-------------------------- MODULE MCLoadBalanceProxy --------------------------
EXTENDS LoadBalanceProxy, TLC

CONSTANTS a, b, c

\* Requests of different lengths, so that no two counts are mixed up.
MCPrefillScore == (a :> 1) @@ (b :> 2) @@ (c :> 2)
MCDecodeScore  == (a :> 1) @@ (b :> 2) @@ (c :> 4)

===============================================================================
