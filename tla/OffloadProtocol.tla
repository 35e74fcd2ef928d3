---------------------------- MODULE OffloadProtocol ----------------------------
(***************************************************************************)
(* The contract between the decode-side scheduler and the worker, with a   *)
(* worker that is free to report a launched prefill with the output of any *)
(* step from the one that launched it on, in any order.                    *)
(*                                                                         *)
(* AsyncOffload shows that the two lanes of the Ascend model runner are    *)
(* such a worker; OffloadProtocol_proofs proves the invariants below for   *)
(* every number of requests, prompt length, chunk size and queue depth.    *)
(***************************************************************************)
EXTENDS OffloadScheduler

VARIABLE
    outstanding    \* requests whose chunk the worker runs and has not reported

vars == <<schedulerVars, outstanding>>

Init == SchedulerInit /\ outstanding = {}

\* The output of the oldest step reaches the engine, with the prefills the
\* worker found finished.
Deliver ==
    /\ batch_infos # <<>>
    /\ LET launched == outstanding \cup DOMAIN Head(batch_infos).prefill
       IN  \E reported \in SUBSET launched :
             /\ UpdateFromOutput(reported)
             /\ outstanding' = launched \ reported

Next ==
    \/ \E r \in Requests : AddRequest(r) /\ UNCHANGED outstanding
    \/ \E r \in Requests : AbortRequest(r) /\ UNCHANGED outstanding
    \/ Schedule /\ UNCHANGED outstanding
    \/ Deliver

Spec == Init /\ [][Next]_vars

-------------------------------------------------------------------------------
(* Properties *)

\* The requests with a chunk in the prefill lane: launched by a step that is
\* still queued, or outstanding at the worker.
Launched(i) == DOMAIN batch_infos[i].prefill
Working == outstanding \cup
    {r \in Requests : \E i \in 1 .. Len(batch_infos) : r \in Launched(i)}

StepType == [decode  : SUBSET Requests,
             prefill : UNION {[S -> ChunkSizes] : S \in SUBSET Requests}]

\* Types of the scheduler's state.
TypeOK ==
    /\ waiting \subseteq arrived /\ running \subseteq arrived
    /\ arrived \subseteq Requests
    /\ waiting \cap running = {}
    /\ num_computed_tokens \in [Requests -> Nat]
    /\ finished_req_ids \subseteq arrived
    /\ inflight_req_ids \subseteq arrived
    /\ inflight_tokens \in [inflight_req_ids -> ChunkSizes]
    /\ continuing_req_ids \subseteq arrived
    /\ prefill_reqs_in_decode_batch = inflight_req_ids
    /\ outstanding \subseteq arrived
    /\ batch_infos \in Seq(StepType)

\* A live request is held out of the scheduler exactly as long as the worker has
\* a chunk of it: held longer it would hang, released earlier the next chunk or
\* a decode step would run beside the unfinished one.
\* Code: inflight set updates in schedule, _refresh_async_offload_pressure and
\* _mark_async_prefill_finished.
HeldExactlyWhileWorking ==
    \A r \in LiveRequests : r \in inflight_req_ids <=> r \in Working

\* The worker never has two chunks of one request, and no step computes a
\* request while an earlier chunk of it is unreported, in either lane.
\* Code: hold / restore around the original schedule().
NoOverlap ==
    \A j \in 1 .. Len(batch_infos) :
        /\ Handed(batch_infos[j]) \cap outstanding = {}
        /\ \A i \in 1 .. (j - 1) : Handed(batch_infos[j]) \cap Launched(i) = {}

\* The published pressure counts the chunks in flight, each with the tokens its
\* step launched, and a request that is gone only until the next schedule().
\* Code: the three places that maintain prefill_tokens_in_decode.
PressureAccurate ==
    /\ prefill_tokens_in_decode = SumFunction(inflight_tokens)
    /\ \A i \in 1 .. Len(batch_infos) : \A r \in Launched(i) \cap LiveRequests :
          inflight_tokens[r] = batch_infos[i].prefill[r]
    /\ inflight_req_ids \ LiveRequests \subseteq finished_req_ids

\* A held request keeps its place in the batch: only an abort or its end takes it
\* away.  It is neither preempted nor lost, whatever the original schedule() does
\* with the requests it sees.  Code: hold / restore around the original schedule().
HeldStaysRunning ==
    [][\A r \in running \cap inflight_req_ids :
          r \in running' \/ r \in finished_req_ids']_vars

\* Once a chunk of a request went to the prefill lane, every later prompt token
\* of it goes there too, also after a preemption: the lane's persistent batch
\* holds its state.  Code: async_offload_continuing_req_ids.
LaneAffinity ==
    [][\A r \in continuing_req_ids \cap LiveRequests' :
          /\ num_computed_tokens'[r] < NumPromptTokens[r] => r \in continuing_req_ids'
          /\ num_computed_tokens'[r] > num_computed_tokens[r] => r \in inflight_req_ids']_vars

-------------------------------------------------------------------------------
(* The inductive invariant *)

\* A finished id is never live again: ids are used once.
FinishedIsGone == finished_req_ids \cap LiveRequests = {}

\* What is in flight and alive is in the batch, where the hold finds it.
InflightIsRunning == inflight_req_ids \cap LiveRequests \subseteq running

QueueArrived == \A i \in 1 .. Len(batch_infos) : Handed(batch_infos[i]) \subseteq arrived

\* Without the feature nothing ever continues in the prefill lane.
OffloadOnlyIfEnabled == OffloadEnabled \/ continuing_req_ids = {}

IInv ==
    /\ TypeOK /\ FinishedIsGone /\ InflightIsRunning /\ QueueArrived /\ OffloadOnlyIfEnabled
    /\ HeldExactlyWhileWorking /\ NoOverlap /\ PressureAccurate

===============================================================================
