----------------------------- MODULE StepRecords -----------------------------
(***************************************************************************)
(* The records of one step: what schedule() leaves in `running' is         *)
(* scheduled, split between the lanes by the scheduler and again by the    *)
(* worker, and the outputs of the lanes are merged for the engine          *)
(* (src/dynamicPD/vllm/vllm/v1/core/sched/scheduler.py:48-153, 359-404,    *)
(* src/dynamicPD/vllm_ascend/vllm_ascend/worker/model_runner_v1.py:        *)
(* 115-265, 290-336, 546-604).                                             *)
(*                                                                         *)
(* A record is a bundle of parallel lists.  Here an entry of a list, be it *)
(* a number of computed tokens, a sampled token or a row of logprobs, is   *)
(* the request it belongs to: the lists are aligned when they are equal.   *)
(***************************************************************************)
EXTENDS HoldRestore

CONSTANTS
    MaxRows     \* bound: requests a step schedules

VARIABLES
    scheduled,  \* history: what the original schedule() scheduled, in order
    step,       \* the SchedulerOutput
    asks,       \* the requests with sampling_params.logprobs
    outputs,    \* history: the outputs merged, the decode output first
    merged      \* the ModelRunnerOutput for the engine

stepVars == <<scheduled, step, asks, outputs, merged>>

NoCached == [req_ids |-> <<>>, computed |-> <<>>, new_token_ids |-> <<>>]
NoStep   == [new |-> <<>>, cached |-> NoCached, tokens |-> {},
             prefill_new |-> <<>>, prefill_cached |-> NoCached, prefill_tokens |-> {}]
NoOutput == [req_ids |-> <<>>, sampled |-> <<>>, logprobs |-> <<>>, finished |-> {}]

StepInit ==
    /\ Init
    /\ scheduled = <<>> /\ step = NoStep /\ asks = {} /\ outputs = <<>> /\ merged = NoOutput

-------------------------------------------------------------------------------
(* The scheduler. *)

\* Entries of the same index go together; new_token_ids may be empty.
Entries(cached, indices) ==
    [req_ids       |-> [k \in DOMAIN indices |-> cached.req_ids[indices[k]]],
     computed      |-> [k \in DOMAIN indices |-> cached.computed[indices[k]]],
     new_token_ids |-> IF cached.new_token_ids = <<>> THEN <<>>
                       ELSE [k \in DOMAIN indices |-> cached.new_token_ids[indices[k]]]]

\* _split_cached_request_data: the entries of some requests, in order
Part(cached, requests) ==
    Entries(cached, Those([i \in DOMAIN cached.req_ids |-> i],
                          {i \in DOMAIN cached.req_ids : cached.req_ids[i] \in requests}))

\* _merge_cached_request_data
Joined(c, d) ==
    [req_ids       |-> c.req_ids \o d.req_ids,
     computed      |-> c.computed \o d.computed,
     new_token_ids |-> c.new_token_ids \o d.new_token_ids]

\* External: the original schedule() gives tokens to some of the requests that
\* it sees, and lists those that were not running before as new.
OriginalStep(requests, async) ==
    LET known == Those(requests, ToSet(before))
    IN  [NoStep EXCEPT
           !.new    = Those(requests, Requests \ ToSet(before)),
           !.cached = [req_ids |-> known, computed |-> known,
                       new_token_ids |-> IF async THEN <<>> ELSE known],
           !.tokens = ToSet(requests)]

\* _move_requests_to_prefill_output: the main lists stay as they are, for the
\* runner's persistent state; only the tokens are split.
Moved(original, offload) ==
    [original EXCEPT
        !.prefill_new    = Those(original.new, offload),
        !.prefill_cached = Part(original.cached, offload),
        !.prefill_tokens = original.tokens \cap offload,
        !.tokens         = original.tokens \ offload]

Move ==
    /\ phase = "done"
    /\ \E requests \in {Those(running, chosen) :
                          chosen \in SUBSET (ToSet(running) \ Inflight)} :
         /\ Len(requests) <= MaxRows
         /\ scheduled' = requests
         /\ \E offload \in SUBSET ToSet(requests), async \in BOOLEAN :
              step' = Moved(OriginalStep(requests, async), offload)
         /\ \E wishes \in SUBSET (ToSet(requests) \cup (Inflight \cap ToSet(running))) :
              asks' = wishes
    /\ phase' = "moved"
    /\ UNCHANGED <<running, skipped, policy, before, preempted, outputs, merged>>

-------------------------------------------------------------------------------
(* The worker. *)

\* mutant: the decode lane gets the step as the scheduler left it
DecodeViewAsScheduled == [new |-> step.new, cached |-> step.cached, tokens |-> step.tokens]

\* _make_decode_scheduler_output
DecodeView ==
    IF step.prefill_tokens = {} THEN [new |-> step.new, cached |-> step.cached, tokens |-> step.tokens]
    ELSE [new    |-> Those(step.new, Requests \ step.prefill_tokens),
          cached |-> Part(step.cached, ToSet(step.cached.req_ids) \ step.prefill_tokens),
          tokens |-> step.tokens \ step.prefill_tokens]

\* _make_prefill_scheduler_output
PrefillView ==
    [new |-> step.prefill_new, cached |-> step.prefill_cached, tokens |-> step.prefill_tokens]

\* External: a lane's output has a row for each request of its view, in the order
\* of the lane's batch, and logprobs when a request of the batch asks for them.
LaneOutput(batch) ==
    [req_ids |-> batch, sampled |-> batch,
     logprobs |-> IF ToSet(batch) \cap asks = {} THEN <<>> ELSE batch]

\* External: what is pending from earlier steps, the held requests in one output
\* or one after the other.
EarlierOutputs ==
    LET held == Those(running, Inflight)
    IN  {<<LaneOutput(held)>>, [i \in DOMAIN held |-> LaneOutput(<<held[i]>>)]}

\* The outputs that have rows.
WithRows(all) == Those(all, {o \in ToSet(all) : o.req_ids # <<>>})

\* _merge_logprobs: the rows of the outputs that have logprobs
MergeLogprobs(items) == FlattenSeq([i \in DOMAIN items |-> items[i].logprobs])

\* mutant: the ids are listed prefill outputs first
MergeOutputsPrefillFirst(decode, prefills) ==
    LET items == WithRows(<<decode>> \o prefills)
    IN  [req_ids  |-> FlattenSeq([i \in DOMAIN prefills |-> prefills[i].req_ids]) \o decode.req_ids,
         sampled  |-> FlattenSeq([i \in DOMAIN items |-> items[i].sampled]),
         logprobs |-> MergeLogprobs(items),
         finished |-> UNION {ToSet(prefills[i].req_ids) : i \in DOMAIN prefills}]

\* _merge_outputs
MergeOutputs(decode, prefills) ==
    LET items == WithRows(<<decode>> \o prefills)
    IN  [req_ids  |-> FlattenSeq([i \in DOMAIN items |-> items[i].req_ids]),
         sampled  |-> FlattenSeq([i \in DOMAIN items |-> items[i].sampled]),
         logprobs |-> MergeLogprobs(items),
         finished |-> UNION {ToSet(prefills[i].req_ids) : i \in DOMAIN prefills}]

\* The decode output of the step is merged with the pending prefill outputs that
\* are ready, those of earlier steps before the one of this step.
Merge ==
    /\ phase = "moved"
    /\ \E decodes \in SetToSeqs(DecodeView.tokens), prefills \in SetToSeqs(PrefillView.tokens) :
       \E earlier \in EarlierOutputs :
         LET pending == earlier \o (IF prefills = <<>> THEN <<>> ELSE <<LaneOutput(prefills)>>)
         IN  \E ready \in 0 .. Len(pending) :
               /\ outputs' = <<LaneOutput(decodes)>> \o SubSeq(pending, 1, ready)
               /\ merged' = MergeOutputs(LaneOutput(decodes), SubSeq(pending, 1, ready))
    /\ phase' = "merged"
    /\ UNCHANGED <<running, skipped, policy, before, preempted, scheduled, step, asks>>

\* mutant: the tokens are not moved back
MovedBackLists(s) ==
    [s EXCEPT !.new = @ \o s.prefill_new, !.cached = Joined(@, s.prefill_cached)]

\* _move_prefill_output_back: the lists that were kept get the moved entries again
MovedBack(s) ==
    [s EXCEPT !.new = @ \o s.prefill_new, !.cached = Joined(@, s.prefill_cached),
              !.tokens = @ \cup s.prefill_tokens]

\* update_from_output, until the original one is called
MoveBack ==
    /\ phase = "merged"
    /\ step' = MovedBack(step)
    /\ phase' = "back"
    /\ UNCHANGED <<running, skipped, policy, before, preempted, scheduled, asks, outputs, merged>>

StepNext ==
    \/ Next /\ UNCHANGED stepVars
    \/ Move \/ Merge \/ MoveBack

StepSpec == StepInit /\ [][StepNext]_<<vars, stepVars>>

-------------------------------------------------------------------------------
(* Properties *)

Listed(view) == view.new \o view.cached.req_ids

Aligned(cached) ==
    /\ cached.computed = cached.req_ids
    /\ cached.new_token_ids \in {<<>>, cached.req_ids}

\* The two lanes get every request of the step between them, each in one lane, in
\* the order of the step, each with its own tokens and its own entry of every list.
\* The scheduler cuts the prefill lane's part and the worker the decode lane's.
LanesPartitionStep ==
    phase = "moved" =>
        /\ \A view \in {DecodeView, PrefillView} :
              /\ ToSet(Listed(view)) = view.tokens
              /\ Aligned(view.cached)
              /\ view.cached.req_ids = Those(scheduled, ToSet(view.cached.req_ids))
        /\ Len(Listed(DecodeView)) + Len(Listed(PrefillView)) = Len(scheduled)
        /\ DecodeView.tokens \cup PrefillView.tokens = ToSet(scheduled)

\* When the engine reads the output, the requests of the step that have no row in
\* it are those in the prefill lane, the rows of no request of the step are the
\* held ones', and those reported as finished are the ones whose hold must end.
\* Code: what is moved back into the step meets what the worker merged.
RowsMeetSchedule ==
    phase = "back" =>
        LET rows == ToSet(merged.req_ids)
        IN  /\ step.tokens = ToSet(scheduled)
            /\ step.tokens \ rows = step.prefill_tokens \ merged.finished
            /\ rows \ step.tokens = merged.finished \cap Inflight
            /\ step.tokens \ step.prefill_tokens = rows \ merged.finished
            /\ Aligned(step.cached)

\* The row of a request, by req_id_to_index, is its own; for logprobs exactly when
\* no output without logprobs was merged before one that has them.  Code:
\* _merge_logprobs concatenates the rows of the outputs that have logprobs, while
\* req_id_to_index counts the rows of all outputs.
RowsAreOwn ==
    phase = "merged" =>
        /\ merged.sampled = merged.req_ids
        /\ Cardinality(ToSet(merged.req_ids)) = Len(merged.req_ids)
        /\ (\A i \in DOMAIN merged.req_ids : merged.req_ids[i] \in asks =>
              i \in DOMAIN merged.logprobs /\ merged.logprobs[i] = merged.req_ids[i])
           <=> ~\E i, j \in DOMAIN outputs :
                  i < j /\ outputs[i].req_ids # <<>> /\ outputs[i].logprobs = <<>>
                        /\ outputs[j].logprobs # <<>>

===============================================================================
