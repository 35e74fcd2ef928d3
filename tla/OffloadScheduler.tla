--------------------------- MODULE OffloadScheduler ---------------------------
(***************************************************************************)
(* The decode-side scheduler that dynamicPD patches into vLLM              *)
(* (src/dynamicPD/vllm/vllm/v1/core/sched/scheduler.py, SchedulerPatch).   *)
(*                                                                         *)
(* The patched scheduler sends large prefills to a second lane of the      *)
(* worker.  While a prefill chunk of a request is in that lane, the        *)
(* request is "in flight": it is held out of `running' for the duration of *)
(* the original schedule(), then put back.  The worker reports a finished  *)
(* chunk with the output of some later step.                               *)
(*                                                                         *)
(* This module holds the scheduler's state and its operations.  The worker *)
(* is the environment: OffloadProtocol gives it a free one, AsyncOffload   *)
(* the two lanes of the Ascend model runner.                               *)
(*                                                                         *)
(* vLLM's own Scheduler is not part of the repository.  The operators      *)
(* marked "external" model it as the patch uses it, by what it may do.     *)
(***************************************************************************)
EXTENDS Integers, Sequences, FiniteSets, FiniteSetsExt, Functions

CONSTANTS
    Requests,                  \* request ids; an id is used once
    NumPromptTokens,           \* prompt length of every request
    OffloadEnabled,            \* use_async_offload, on a decode-side scheduler
    AsyncThreshold,            \* async_threshold
    AsyncChunkSize,            \* async_chunk_size; 0 leaves chunking alone
    LongPrefillTokenThreshold, \* vLLM's chunk limit; 0 means no limit
    CachedPrefixes,            \* prefix lengths the KV cache may already hold
    MaxNumRunningReqs,         \* vLLM's max_num_running_reqs
    BatchQueueSize             \* steps the engine keeps in flight

ASSUME SchedulerAssumption ==
    /\ IsFiniteSet(Requests)
    /\ NumPromptTokens \in [Requests -> Nat \ {0}]
    /\ OffloadEnabled \in BOOLEAN
    /\ AsyncThreshold \in Nat
    /\ AsyncChunkSize \in Nat
    /\ LongPrefillTokenThreshold \in Nat
    /\ CachedPrefixes \subseteq Nat /\ 0 \in CachedPrefixes
    /\ MaxNumRunningReqs \in Nat \ {0}
    /\ BatchQueueSize \in Nat \ {0}

VARIABLES
    waiting,                      \* requests queued, preempted ones included
    running,                      \* requests admitted to the batch
    arrived,                      \* every id ever added
    num_computed_tokens,          \* prompt tokens scheduled so far
    finished_req_ids,             \* gone since the last schedule()
    inflight_req_ids,             \* async_offload_inflight_req_ids
    inflight_tokens,              \* async_offload_inflight_tokens
    continuing_req_ids,           \* async_offload_continuing_req_ids
    prefill_reqs_in_decode_batch,
    prefill_tokens_in_decode,     \* what the load reporter publishes
    batch_infos                   \* steps scheduled and not yet updated

baseVars == <<waiting, running, arrived, num_computed_tokens, finished_req_ids>>
offloadVars == <<inflight_req_ids, inflight_tokens, continuing_req_ids,
                 prefill_reqs_in_decode_batch, prefill_tokens_in_decode>>
schedulerVars == <<baseVars, offloadVars, batch_infos>>

-------------------------------------------------------------------------------
\* self.requests: the requests the scheduler knows.
LiveRequests == waiting \cup running

\* Prompt tokens of r that are left when it starts at token s.
Remaining(r, s) == IF s < NumPromptTokens[r] THEN NumPromptTokens[r] - s ELSE 0

\* The limit that _configure_async_offload_chunking leaves in the scheduler
\* configuration; 0 means no limit.
ChunkLimit ==
    IF ~OffloadEnabled \/ AsyncChunkSize = 0 THEN LongPrefillTokenThreshold
    ELSE IF LongPrefillTokenThreshold = 0 \/ AsyncChunkSize < LongPrefillTokenThreshold
         THEN AsyncChunkSize
         ELSE LongPrefillTokenThreshold

\* dict.update(new).
Update(dict, new) ==
    [r \in DOMAIN dict \cup DOMAIN new |-> IF r \in DOMAIN new THEN new[r] ELSE dict[r]]

\* dict.pop(r, None) for every r in gone.
Without(dict, gone) == Restrict(dict, DOMAIN dict \ gone)

SchedulerInit ==
    /\ waiting = {} /\ running = {} /\ arrived = {}
    /\ num_computed_tokens = [r \in Requests |-> 0]
    /\ finished_req_ids = {}
    /\ inflight_req_ids = {}
    /\ inflight_tokens = [r \in {} |-> 0]
    /\ continuing_req_ids = {}
    /\ prefill_reqs_in_decode_batch = {}
    /\ prefill_tokens_in_decode = 0
    /\ batch_infos = <<>>

-------------------------------------------------------------------------------
(* Requests come and go between steps (external). *)

\* External: Scheduler.add_request.
AddRequest(r) ==
    /\ r \notin arrived
    /\ arrived' = arrived \cup {r}
    /\ waiting' = waiting \cup {r}
    /\ UNCHANGED <<running, num_computed_tokens, finished_req_ids>>
    /\ UNCHANGED <<offloadVars, batch_infos>>

\* External: Scheduler.finish_requests drops the request at once, also while the
\* worker still computes for it; the next schedule() announces it as finished.
Finish(gone) ==
    /\ waiting' = waiting \ gone
    /\ running' = running \ gone
    /\ finished_req_ids' = finished_req_ids \cup gone

AbortRequest(r) ==
    /\ r \in LiveRequests
    /\ Finish({r})
    /\ UNCHANGED <<arrived, num_computed_tokens, offloadVars, batch_infos>>

-------------------------------------------------------------------------------
(* schedule() *)

\* has_requests: vLLM's own answer, or a prefill is still in flight.
HasRequests ==
    \/ LiveRequests # {} \/ finished_req_ids # {}
    \/ inflight_req_ids # {}

HeldNobody == {}   \* mutant: the hold is forgotten

\* _hold_inflight_async_offload_requests: the running requests that the original
\* schedule() must not see.
Held == running \cap inflight_req_ids

RestoredNobody(base) == base   \* mutant: the restore is forgotten

\* _restore_inflight_async_offload_requests: a held request goes back unless it
\* disappeared meanwhile.  The order of `running' is the subject of HoldRestore.
Restored(base) == base \cup (Held \cap LiveRequests)

\* External: what the original schedule() may do with the requests it sees.  It
\* preempts some of the running ones, and admits waiting ones only if it
\* preempted none; start and num give the first token and the number of tokens
\* of every scheduled request.
BaseOutput(preempted, scheduled, start, num) ==
    LET visible  == running \ Held
        admitted == scheduled \cap waiting
    IN  /\ preempted \cap scheduled = {}
        /\ admitted # {} =>
              /\ preempted = {}
              /\ Cardinality(visible) + Cardinality(admitted) <= MaxNumRunningReqs
        /\ \A r \in scheduled :
              /\ IF r \in admitted
                 THEN start[r] \in CachedPrefixes /\ start[r] < NumPromptTokens[r]
                 ELSE start[r] = num_computed_tokens[r]
              /\ IF Remaining(r, start[r]) = 0 THEN num[r] = 1
                 ELSE /\ num[r] \in 1 .. Remaining(r, start[r])
                      /\ ChunkLimit > 0 => num[r] <= ChunkLimit

\* _select_async_offload_requests.
OffloadSelection(scheduled, start) ==
    IF ~OffloadEnabled THEN {}
    ELSE {r \in scheduled :
            /\ Remaining(r, start[r]) > 0
            /\ \/ r \in inflight_req_ids
               \/ r \in continuing_req_ids
               \/ Remaining(r, start[r]) >= AsyncThreshold}

\* _refresh_async_offload_pressure: the ids to forget.
Stale(inflight) == finished_req_ids \cup (inflight \ LiveRequests)

\* mutant: the sum is taken before the stale entries are dropped
RefreshPressureEarlySum(inflight, tokens, continuing, batch) ==
    /\ inflight_req_ids' = inflight \ Stale(inflight)
    /\ inflight_tokens' = Without(tokens, Stale(inflight))
    /\ continuing_req_ids' = continuing \cap (LiveRequests \ finished_req_ids)
    /\ prefill_reqs_in_decode_batch' = batch \cap inflight_req_ids'
    /\ prefill_tokens_in_decode' = SumFunction(tokens)

RefreshPressure(inflight, tokens, continuing, batch) ==
    /\ inflight_req_ids' = inflight \ Stale(inflight)
    /\ inflight_tokens' = Without(tokens, Stale(inflight))
    /\ continuing_req_ids' = continuing \cap (LiveRequests \ finished_req_ids)
    /\ prefill_reqs_in_decode_batch' = batch \cap inflight_req_ids'
    /\ prefill_tokens_in_decode' = SumFunction(inflight_tokens')

\* The step handed to the worker: what each lane computes.
Step(decode, prefill) == [decode |-> decode, prefill |-> prefill]

\* The patched schedule(): hold, original schedule, restore, split off the
\* offloaded prefills (_move_requests_to_prefill_output), refresh.
ScheduleWith(preempted, scheduled, start, num) ==
    LET visible   == running \ Held
        offloaded == OffloadSelection(scheduled, start)
        prefill   == Restrict(num, offloaded)
    IN  /\ BaseOutput(preempted, scheduled, start, num)
        /\ running' = Restored((visible \ preempted) \cup scheduled)
        /\ waiting' = (waiting \ scheduled) \cup preempted
        /\ num_computed_tokens' = [r \in Requests |->
              IF r \in preempted THEN 0
              ELSE IF r \notin scheduled THEN num_computed_tokens[r]
              ELSE IF Remaining(r, start[r]) = 0 THEN start[r]
              ELSE start[r] + num[r]]
        /\ finished_req_ids' = {}
        /\ RefreshPressure(inflight_req_ids \cup offloaded,
                           Update(inflight_tokens, prefill),
                           continuing_req_ids \cup offloaded,
                           prefill_reqs_in_decode_batch \cup offloaded)
        /\ batch_infos' = Append(batch_infos, Step(scheduled \ offloaded, prefill))
        /\ UNCHANGED arrived

\* The numbers a scheduled request may start at, and be given.
StartTokens == CachedPrefixes \cup {num_computed_tokens[r] : r \in running}
ChunkSizes ==
    1 .. (IF ChunkLimit > 0 THEN ChunkLimit
          ELSE Max({NumPromptTokens[r] : r \in Requests}))

Schedule ==
    /\ HasRequests
    /\ Len(batch_infos) < BatchQueueSize
    /\ \E preempted \in SUBSET (running \ Held) :
       \E scheduled \in SUBSET ((running \ Held) \cup waiting) :
       \E start \in [scheduled -> StartTokens], num \in [scheduled -> ChunkSizes] :
          ScheduleWith(preempted, scheduled, start, num)

-------------------------------------------------------------------------------
(* update_from_output() *)

PromptDoneAlways(reported) == reported   \* mutant: the prompt is not compared

\* _mark_async_prefill_finished: the reported requests whose prompt is done (or
\* that are gone) no longer continue in the prefill lane.
PromptDone(reported) ==
    {r \in reported : \/ r \notin LiveRequests
                      \/ num_computed_tokens[r] >= NumPromptTokens[r]}

\* mutant: a request is released only with its last chunk
MarkLastChunkOnly(reported) ==
    /\ inflight_req_ids' = inflight_req_ids \ PromptDone(reported)
    /\ inflight_tokens' = Without(inflight_tokens, PromptDone(reported))
    /\ prefill_reqs_in_decode_batch' = prefill_reqs_in_decode_batch \ PromptDone(reported)
    /\ continuing_req_ids' = continuing_req_ids \ PromptDone(reported)
    /\ prefill_tokens_in_decode' = SumFunction(inflight_tokens')

\* mutant: the tokens of a reported request stay in the dictionary
MarkKeepsTokens(reported) ==
    /\ inflight_req_ids' = inflight_req_ids \ reported
    /\ inflight_tokens' = inflight_tokens
    /\ prefill_reqs_in_decode_batch' = prefill_reqs_in_decode_batch \ reported
    /\ continuing_req_ids' = continuing_req_ids \ PromptDone(reported)
    /\ prefill_tokens_in_decode' = SumFunction(inflight_tokens')

\* The release of the reported requests.
MarkPrefillFinished(reported) ==
    /\ inflight_req_ids' = inflight_req_ids \ reported
    /\ inflight_tokens' = Without(inflight_tokens, reported)
    /\ prefill_reqs_in_decode_batch' = prefill_reqs_in_decode_batch \ reported
    /\ continuing_req_ids' = continuing_req_ids \ PromptDone(reported)
    /\ prefill_tokens_in_decode' =
          IF reported = {} THEN prefill_tokens_in_decode ELSE SumFunction(inflight_tokens')

\* _move_prefill_output_back: the original update_from_output() is handed the
\* offloaded requests of the step together with the others.
Handed(step) == step.decode \cup DOMAIN step.prefill

\* The patched update_from_output() for the oldest step; reported is the model
\* output's finished_prefill_reqs.  External: the original one may then finish
\* any request it is handed that is still there.
UpdateFromOutput(reported) ==
    /\ batch_infos # <<>>
    /\ MarkPrefillFinished(reported)
    /\ batch_infos' = Tail(batch_infos)
    /\ \E stopped \in SUBSET (Handed(Head(batch_infos)) \cap LiveRequests) : Finish(stopped)
    /\ UNCHANGED <<arrived, num_computed_tokens>>

===============================================================================
