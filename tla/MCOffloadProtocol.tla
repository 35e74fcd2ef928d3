--------------------------- MODULE MCOffloadProtocol ---------------------------
(* Three requests: one of two chunks, one offloaded in a single chunk, and one  *)
(* below the offload threshold that stays in the decode lane.                   *)
EXTENDS OffloadProtocol, TLC

CONSTANTS a, b, c

MCNumPromptTokens == (a :> 5) @@ (b :> 3) @@ (c :> 1)

===============================================================================
