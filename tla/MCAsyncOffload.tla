---------------------------- MODULE MCAsyncOffload ----------------------------
EXTENDS AsyncOffload, TLC

CONSTANTS a, b, c

(* Two requests: one of two offloaded chunks and one of a single chunk, which  *)
(* decode beside each other's prefill once their prompts are done.             *)
MCNumPromptTokens == (a :> 3) @@ (b :> 2)

(* Two offloaded requests and one that stays in the decode lane.               *)
MCTwoPrefills == (a :> 2) @@ (b :> 2) @@ (c :> 1)

===============================================================================
