----------------------------- MODULE PrefillLanes -----------------------------
(***************************************************************************)
(* The two lanes of the patched Ascend model runner                        *)
(* (src/dynamicPD/vllm_ascend/vllm_ascend/worker/model_runner_v1.py).      *)
(*                                                                         *)
(* The worker runs one step at a time: execute_model() starts the decode   *)
(* lane and, when the step offloads prefills, the prefill lane on a second *)
(* stream; sample_tokens() builds the step's output.  A prefill output is  *)
(* appended to a FIFO of pending outputs and is merged into the output of  *)
(* this or a later step, once its events have fired.                       *)
(*                                                                         *)
(* The device is the environment: an output's snapshot event fires when    *)
(* the prefill stream has computed it, its copy event when the copy to the *)
(* host is done.  All ranks agree on readiness (an all_reduce with MIN),   *)
(* so one worker stands for the tensor-parallel group.                     *)
(***************************************************************************)
EXTENDS Integers, Sequences, FiniteSetsExt

CONSTANT FenceMode    \* _prefill_decode_fence_mode(), without the snapshot fence

ASSUME FenceAssumption == FenceMode \in {"none", "copy"}

VARIABLES
    lane_decode,        \* decode lane's execute_model_state: {} or the ids it runs
    lane_prefill,       \* prefill lane's execute_model_state, likewise
    decode_immediate,   \* _dynamic_pd_decode_immediate_output: "none" or "empty"
    pending,            \* _dynamic_pd_pending_prefill_outputs
    results             \* outputs of steps, not yet read by the engine

laneVars == <<lane_decode, lane_prefill, decode_immediate, pending, results>>

LanesInit ==
    /\ lane_decode = {} /\ lane_prefill = {}
    /\ decode_immediate = "none"
    /\ pending = <<>> /\ results = <<>>

-------------------------------------------------------------------------------
\* An AsyncNPUModelRunnerOutput with its two events; an empty output has nothing
\* to wait for.
Output(reqs) == [reqs |-> reqs, snapshot |-> reqs = {}, copied |-> reqs = {}]

ReadyOnSnapshot(output) == output.snapshot   \* mutant: the wrong event is queried

\* _async_output_ready
Ready(output) == output.copied

AllReady == \A i \in DOMAIN pending : Ready(pending[i])

\* An AsyncMergedNPUModelRunnerOutput.
Result(decode, prefills) == [decode |-> decode, prefills |-> prefills]

FinishedAnyReqs(result) ==   \* mutant: decode outputs count as finished prefills
    result.decode.reqs \cup UNION {result.prefills[i].reqs : i \in DOMAIN result.prefills}

\* finished_prefill_reqs of the merged output.
FinishedPrefillReqs(result) == UNION {result.prefills[i].reqs : i \in DOMAIN result.prefills}

\* How many outputs a non-blocking _take_ready_prefill_outputs pops: the ready
\* ones in front of the first that is not.
ReadyPrefix(outputs) ==
    Max({n \in 0 .. Len(outputs) : \A i \in 1 .. n : Ready(outputs[i])})

\* _take_ready_prefill_outputs: how many it pops.
Taken(outputs, block) ==
    IF outputs = <<>> THEN 0
    ELSE IF block THEN 1
    ELSE ReadyPrefix(outputs)

LeftAll(outputs, n) == outputs   \* mutant: the outputs taken are not popped

\* What it leaves in the queue.
Left(outputs, n) == SubSeq(outputs, n + 1, Len(outputs))

-------------------------------------------------------------------------------
\* _fence_pending_prefill_before_decode: when it lets decode start.
FencePassed == ~AllReady /\ FenceMode = "copy" => Head(pending).copied

WorkerIdle == lane_decode = {} /\ lane_prefill = {}

\* External: with nothing to compute the original execute_model() returns an
\* empty output at once; the patch adds the prefills that are ready.
ExecuteEmpty(step) ==
    /\ step.decode = {}
    /\ LET n == Taken(pending, FALSE)
       IN  /\ results' = Append(results, Result(Output({}), SubSeq(pending, 1, n)))
           /\ pending' = Left(pending, n)
    /\ UNCHANGED lane_decode

ExecuteDecodes(step) ==
    /\ step.decode # {}
    /\ lane_decode' = step.decode
    /\ UNCHANGED <<pending, results>>

\* mutant: ready prefills are only looked for when tokens are sampled
ExecuteDecodeOnlyNoPoll(step) ==
    /\ DOMAIN step.prefill = {}
    /\ FencePassed
    /\ \/ ExecuteDecodes(step)
       \/ /\ step.decode = {}
          /\ results' = Append(results, Result(Output({}), <<>>))
          /\ UNCHANGED <<lane_decode, pending>>
    /\ UNCHANGED <<lane_prefill, decode_immediate>>

\* execute_model() of a step without offloaded prefills.
ExecuteDecodeOnly(step) ==
    /\ DOMAIN step.prefill = {}
    /\ FencePassed
    /\ ExecuteEmpty(step) \/ ExecuteDecodes(step)
    /\ UNCHANGED <<lane_prefill, decode_immediate>>

\* execute_model() of a step with offloaded prefills: no fence, both lanes.
ExecuteBothLanes(step) ==
    /\ DOMAIN step.prefill # {}
    /\ decode_immediate' = IF step.decode = {} THEN "empty" ELSE "none"
    /\ lane_decode' = step.decode
    /\ lane_prefill' = DOMAIN step.prefill
    /\ UNCHANGED <<pending, results>>

-------------------------------------------------------------------------------
DecodeOutputStale ==   \* mutant: the immediate output wins over the sampled one
    IF decode_immediate # "none" THEN [reqs |-> {}, none |-> FALSE]
    ELSE [reqs |-> lane_decode, none |-> lane_decode = {}]

\* The decode output of sample_tokens(): sampled if the lane has state, else the
\* immediate output, which may still be that of an earlier step.
DecodeOutput ==
    IF lane_decode # {} THEN [reqs |-> lane_decode, none |-> FALSE]
    ELSE [reqs |-> {}, none |-> decode_immediate = "none"]

\* The new prefill output queued behind the earlier ones.
Queued == IF lane_prefill = {} THEN pending ELSE Append(pending, Output(lane_prefill))

\* sample_tokens(): sample both lanes, queue the prefill output, take what is
\* ready, and once more in _merge_dynamic_pd_outputs.
SampleTokens ==
    /\ ~WorkerIdle
    /\ LET block == DecodeOutput.none
           n1    == Taken(Queued, block)
           n     == n1 + Taken(Left(Queued, n1), block)
       IN  /\ results' = Append(results, Result(Output(DecodeOutput.reqs), SubSeq(Queued, 1, n)))
           /\ pending' = Left(Queued, n)
    /\ lane_decode' = {} /\ lane_prefill' = {}
    /\ UNCHANGED decode_immediate

-------------------------------------------------------------------------------
(* The device.  External: a lane's stream computes its outputs in the order   *)
(* they were launched.  The copies may finish in any order: the code means to *)
(* spread those of the prefill lane over eight streams.  A prefill output     *)
(* that is in a result has passed both events.                                *)

ComputePrefill(i) ==
    /\ ~pending[i].snapshot
    /\ \A k \in 1 .. (i - 1) : pending[k].snapshot
    /\ pending' = [pending EXCEPT ![i].snapshot = TRUE]
    /\ UNCHANGED results

CopyPrefill(i) ==
    /\ pending[i].snapshot /\ ~pending[i].copied
    /\ pending' = [pending EXCEPT ![i].copied = TRUE]
    /\ UNCHANGED results

ComputeDecode(i) ==
    /\ ~results[i].decode.snapshot
    /\ \A k \in 1 .. (i - 1) : results[k].decode.snapshot
    /\ results' = [results EXCEPT ![i].decode.snapshot = TRUE]
    /\ UNCHANGED pending

CopyDecode(i) ==
    /\ results[i].decode.snapshot /\ ~results[i].decode.copied
    /\ results' = [results EXCEPT ![i].decode.copied = TRUE]
    /\ UNCHANGED pending

-------------------------------------------------------------------------------
\* get_output() of the oldest result waits for the snapshot event of each of its
\* outputs, then reads the tokens.
Materialized(result) ==
    /\ result.decode.snapshot
    /\ \A i \in DOMAIN result.prefills : result.prefills[i].snapshot

Collect ==
    /\ results # <<>>
    /\ Materialized(Head(results))
    /\ results' = Tail(results)

===============================================================================
