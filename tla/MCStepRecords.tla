---------------------------- MODULE MCStepRecords ----------------------------
(***************************************************************************)
(* Lists of up to five requests, two of them in flight, and steps of up to *)
(* three.  Only requests of the same kind may be exchanged.                *)
(***************************************************************************)
EXTENDS StepRecords, TLC

CONSTANTS a, b, c, d, e

Symmetry == Permutations({a, b}) \cup Permutations({c, d, e})

===============================================================================
