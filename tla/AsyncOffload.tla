----------------------------- MODULE AsyncOffload -----------------------------
(***************************************************************************)
(* The patched scheduler with the patched Ascend model runner.             *)
(*                                                                         *)
(* The engine keeps up to BatchQueueSize steps in flight: it schedules as  *)
(* long as the queue has room and otherwise reads the oldest output.  The  *)
(* worker executes the steps in order, each with execute_model() and, when *)
(* tokens are to be sampled, sample_tokens().  A prefill chunk launched by *)
(* one step is reported with the output of that step or of a later one.    *)
(*                                                                         *)
(* The composition implements OffloadProtocol: the two lanes are one of    *)
(* the workers the protocol allows.                                        *)
(***************************************************************************)
EXTENDS OffloadScheduler, PrefillLanes

vars == <<schedulerVars, laneVars>>

Init == SchedulerInit /\ LanesInit

-------------------------------------------------------------------------------
(* The engine process *)

EngineAdds == \E r \in Requests : AddRequest(r) /\ UNCHANGED laneVars

EngineAborts == \E r \in Requests : AbortRequest(r) /\ UNCHANGED laneVars

EngineSchedules == Schedule /\ UNCHANGED laneVars

\* The output of the oldest step arrives and updates the scheduler.
EngineUpdates ==
    /\ Collect
    /\ UpdateFromOutput(FinishedPrefillReqs(Head(results)))
    /\ UNCHANGED <<lane_decode, lane_prefill, decode_immediate, pending>>

-------------------------------------------------------------------------------
(* The worker process: it executes the first step that has no result yet. *)

WorkerExecutes ==
    /\ WorkerIdle
    /\ Len(results) < Len(batch_infos)
    /\ LET step == batch_infos[Len(results) + 1]
       IN  ExecuteDecodeOnly(step) \/ ExecuteBothLanes(step)
    /\ UNCHANGED schedulerVars

WorkerSamples == SampleTokens /\ UNCHANGED schedulerVars

-------------------------------------------------------------------------------
(* The device *)

schedulerAndLanes == <<schedulerVars, lane_decode, lane_prefill, decode_immediate>>

DeviceComputesPrefill == (\E i \in DOMAIN pending : ComputePrefill(i)) /\ UNCHANGED schedulerAndLanes
DeviceComputesDecode  == (\E i \in DOMAIN results : ComputeDecode(i)) /\ UNCHANGED schedulerAndLanes
DeviceCopiesPrefill   == (\E i \in DOMAIN pending : CopyPrefill(i)) /\ UNCHANGED schedulerAndLanes
DeviceCopiesDecode    == (\E i \in DOMAIN results : CopyDecode(i)) /\ UNCHANGED schedulerAndLanes

Next ==
    \/ EngineAdds \/ EngineAborts \/ EngineSchedules \/ EngineUpdates
    \/ WorkerExecutes \/ WorkerSamples
    \/ DeviceComputesPrefill \/ DeviceComputesDecode
    \/ DeviceCopiesPrefill \/ DeviceCopiesDecode

\* The engine loop runs as long as has_requests() holds or a step is queued, the
\* worker loop as long as it is sent steps, and each stream of the device finishes
\* what it is given.
\* Whether a request is added, aborted or admitted is nobody's duty.
Fairness ==
    /\ WF_vars(EngineSchedules) /\ WF_vars(EngineUpdates)
    /\ WF_vars(WorkerExecutes) /\ WF_vars(WorkerSamples)
    /\ WF_vars(DeviceComputesPrefill) /\ WF_vars(DeviceComputesDecode)
    /\ WF_vars(DeviceCopiesPrefill) /\ WF_vars(DeviceCopiesDecode)

Spec == Init /\ [][Next]_vars /\ Fairness

-------------------------------------------------------------------------------
(* Properties *)

\* The prefill chunks that have left the scheduler's queue and are not reported.
AtWorker == (UNION {pending[i].reqs : i \in DOMAIN pending})
            \cup (UNION {FinishedPrefillReqs(results[i]) : i \in DOMAIN results})

\* What step i of the queue launches in the prefill lane.
Launches(i) == DOMAIN batch_infos[i].prefill

\* outstanding counts what earlier steps launched; a step still queued has its
\* own launches in batch_infos.
Outstanding == AtWorker \ UNION {Launches(i) : i \in DOMAIN batch_infos}

Protocol == INSTANCE OffloadProtocol WITH outstanding <- Outstanding

\* The scheduler and the lanes keep the contract of OffloadProtocol: a chunk is
\* reported once, not before the step that launched it, and nothing else is.
\* Code: execute_model, sample_tokens, _take_ready_prefill_outputs and
\* _merge_outputs against _mark_async_prefill_finished.
ImplementsProtocol == Protocol!Spec

\* The k-th unread result holds the decode output of the k-th unread step: no
\* step is answered with an output left over from another one.
\* Code: _dynamic_pd_decode_immediate_output, which outlives its step.
ResultMatchesStep ==
    \A k \in DOMAIN results : results[k].decode.reqs = batch_infos[k].decode

\* A prefill chunk is in one place at a time: in the lane, pending, or in one
\* result.  Code: pending.pop(0) at both places of a step that take outputs.
ChunkInOnePlace ==
    LET outputs == <<lane_prefill>>
                   \o [i \in DOMAIN pending |-> pending[i].reqs]
                   \o [i \in DOMAIN results |-> FinishedPrefillReqs(results[i])]
    IN  \A i, j \in DOMAIN outputs : i # j => outputs[i] \cap outputs[j] = {}

\* The engine never reads the tokens of a prefill that are still being copied,
\* although get_output() waits for the snapshot event only.
\* Code: _async_output_ready queries the copy event before an output is taken.
PrefillReadAfterCopy ==
    \A k \in DOMAIN results :
        \A i \in DOMAIN results[k].prefills : results[k].prefills[i].copied

\* A held request is let go: the engine keeps stepping, with empty steps if it
\* must, until the prefill lane reports the chunk, or forgets an aborted one.
\* Code: has_requests, execute_model on an empty step, _refresh_async_offload_pressure.
HoldEnds == \A r \in Requests : (r \in inflight_req_ids) ~> (r \notin inflight_req_ids)

\* README.md:208 on DYNAMIC_PD_SYNC_PREFILL_BEFORE_DECODE=1: decode waits for
\* the pending prefills to complete.  A step that only decodes starts with none
\* of them unfinished.
DecodeWaitsForPrefill ==
    [][(WorkerIdle /\ lane_decode' # {} /\ lane_prefill' = {}) =>
          \A i \in DOMAIN pending : pending[i].copied]_vars

\* The tokens of a decode output are read when their copy to the host is done,
\* as the docstring of get_output() promises.
DecodeReadAfterCopy ==
    [][Len(results') < Len(results) => Head(results).decode.copied]_vars

-------------------------------------------------------------------------------
(* The inductive invariant of the lanes.  With Protocol!IInv it makes every     *)
(* step of the worker a step of the protocol, or none.                          *)

OutputType == [reqs : SUBSET Requests, snapshot : BOOLEAN, copied : BOOLEAN]

LanesTypeOK ==
    /\ lane_decode \subseteq Requests /\ lane_prefill \subseteq Requests
    /\ decode_immediate \in {"none", "empty"}
    /\ pending \in Seq(OutputType)
    /\ results \in Seq([decode : OutputType, prefills : Seq(OutputType)])

\* The lanes run the first step without a result; an idle decode lane beside a
\* prefill has an immediate output.
LanesRunStep ==
    /\ Len(results) <= Len(batch_infos)
    /\ ~WorkerIdle =>
          /\ Len(results) < Len(batch_infos)
          /\ lane_decode = batch_infos[Len(results) + 1].decode
          /\ lane_prefill = Launches(Len(results) + 1)
          /\ lane_decode = {} => decode_immediate = "empty"

\* Pending outputs and results share no chunk.
PlacesApart ==
    /\ \A i, j \in DOMAIN pending : i # j => pending[i].reqs \cap pending[j].reqs = {}
    /\ \A k, l \in DOMAIN results : k # l =>
          FinishedPrefillReqs(results[k]) \cap FinishedPrefillReqs(results[l]) = {}
    /\ \A i \in DOMAIN pending, k \in DOMAIN results :
          pending[i].reqs \cap FinishedPrefillReqs(results[k]) = {}

\* A chunk in a result or pending was not launched by a later step than that of
\* the result, or than the last one that has a result.
NotAhead ==
    \A j \in DOMAIN batch_infos :
        /\ \A k \in DOMAIN results :
              k < j => FinishedPrefillReqs(results[k]) \cap Launches(j) = {}
        /\ \A i \in DOMAIN pending :
              Len(results) < j => pending[i].reqs \cap Launches(j) = {}

\* What a step with a result has launched is pending or in a result.
LaunchedAtWorker == \A k \in DOMAIN results : Launches(k) \subseteq AtWorker

LanesInv ==
    /\ LanesTypeOK /\ LanesRunStep /\ PlacesApart /\ NotAhead /\ LaunchedAtWorker
    /\ ResultMatchesStep /\ PrefillReadAfterCopy

===============================================================================
