# dynamicPD in TLA+

dynamicPD patches vLLM 0.18 and vLLM-Ascend 0.18. In a deployment with separate
prefill and decode instances it lets an overloaded prefill instance send requests
to a decode instance, which computes their prompts *beside* its decode batch: on
a second stream of the NPU, with buffers and communication groups of its own.

This directory holds TLA+ specifications of that code, the TLC configurations
that check them, and TLAPS proofs. vLLM itself is not in the repository; where
the patches call it, the modules say "external" and allow whatever vLLM may do.

## The system

| Component | Source | State it keeps | Operations | Hard part |
|---|---|---|---|---|
| Decode-side scheduler | `dynamicPD/vllm/vllm/v1/core/sched/scheduler.py` | in-flight ids and their tokens, continuing ids, published pressure, queue of scheduled steps | `schedule`, `update_from_output`, `has_requests`; add and abort (external) | a request is held for several steps while vLLM's `schedule()` runs around it; results arrive with other steps than their own |
| Model runner, two lanes | `dynamicPD/vllm_ascend/.../model_runner_v1.py`, `scripts/patches/vllm-ascend-0.18.0-dynamicpd.patch`, `.../multiproc_executor.py` | per-lane execution state, queue of pending prefill outputs, immediate outputs | `execute_model`, `sample_tokens`, readiness, fence, merge, `get_output` | device events that fire at any time; outputs that outlive their step |
| Engine core migration | `dynamicPD/vllm/vllm/v1/engine/core.py` | load client, coordinator handle, `to_migrate` of a request | decide, emit the migrated output, drop the ADD, publish load, shut down | decided on the input thread against a stale view |
| PD coordinator | `dynamicPD/vllm/vllm/v1/engine/pd_coordinator.py` | last load per engine | receive, expire, publish, choose the best decode | dropped and delayed reports, expiry |
| Load-balance proxy | `examples/load_balance_proxy_server_example.py` | token and KV load per server, two heaps | select, release, stream, retry, recompute | accounting under errors, retries and disconnects |
| Offload groups | `.../distributed/parallel_state.py` (both packages), `communication_op.py` | secondary communication groups, the forward context's choice of lane | create, alias, destroy, choose per collective | one group under several names; two lanes in collectives at once, on ranks that run at their own pace |
| MoE communication | `.../ascend_forward_context.py` | none (a function of the configuration and the batch) | choose the method | boundaries of the capacity |

The request path through the modelled part:

    engine loop --schedule--> step queue --> worker: execute_model, sample_tokens
         ^                                      |            |
         |                              decode lane     prefill lane
         |                                      |            | pending outputs (FIFO)
         +---- update_from_output <-- result of the step <---+ when their copy is done

The scheduler and the worker share nothing but the queue of steps (at most
`BatchQueueSize` in flight) and the queue of results. The worker is one process per
tensor-parallel rank: each executes the same steps, the two lanes of all ranks meet
in collectives of two sets of communication groups, and the ranks vote on the
readiness of a prefill output before they take it. The engine reads one rank's
output.

The path of a request into the system, and the way the load takes back:

    client --> proxy: picks a prefiller and a decoder at once (two heaps)
                 |--POST--> prefill engine: input thread decides, engine thread serves
                 |             |  "migrate" instead of a token
                 |<------------+
                 |--stream--> decode engine (computes the prompt itself if migrated)

    every engine --PUSH, after each step--> coordinator --PUB, once per interval-->
                                               load client of the prefill engine

The proxy knows nothing of the coordinator: it has counts of its own.

## Modules

| Module | What it is |
|---|---|
| `OffloadScheduler` | state and operations of the patched scheduler, with no assumption about the worker |
| `OffloadProtocol` | the scheduler with a free worker: a launched chunk is reported with the output of its own step or of any later one. This is the abstract specification of the pair |
| `OffloadProtocol_proofs` | the theorems about `OffloadProtocol` |
| `PrefillLanes` | the two lanes of the model runner and the events of the device |
| `AsyncOffload` | scheduler, engine loop, worker and device together, with fairness; implements `OffloadProtocol` |
| `AsyncOffload_proofs` | the proof that it does, and the theorems about the lanes |
| `HoldRestore` | the order of `running` through one patched `schedule()` |
| `StepRecords` | the records of the step made of that list: split, split again, merged, moved back; on top of `HoldRestore` |
| `StepRecords_proofs` | the theorems about the list and the records, and the lemmas about comprehensions, insertions and concatenations |
| `LaneRanks` | the two lanes on every rank: collectives, groups, votes; shows that one worker may stand for all ranks |
| `LaneRanks_proofs` | the proof that the ranks stay in step and none hangs |
| `RankLayout` | which ranks form a secondary group: the code's tensor arithmetic and a reference; pure functions |
| `OffloadGroups` | the life of the secondary groups in one process, on top of `RankLayout` |
| `OffloadGroups_proofs` | the theorems about the slots and the groups in them |
| `PDCoordinator` | the way of a load report from an engine through the coordinator to a load client |
| `PDCoordinator_proofs` | the theorems about the queues, the tables and the ages of reports |
| `PDMigration` | the input thread and the engine thread of a prefill engine, on top of `PDCoordinator` |
| `PDMigration_proofs` | the theorems about `PDMigration` |
| `ProxyHeap` | the priority queue of the proxy as `heapq` keeps it: pure functions |
| `DecoderPool` | the decoders' counts and heap, selection and release |
| `LoadBalanceProxy` | the life of requests in the proxy, on top of `DecoderPool` |
| `LoadBalanceProxy_proofs` | the theorems about the proxy's counts and heaps |
| `MC*` | constants for TLC; `MCDecoderPool` also has the clients of the pool |

### OffloadScheduler

`waiting`, `running` and `finished_req_ids` are vLLM's; `inflight_req_ids`,
`inflight_tokens`, `continuing_req_ids`, `prefill_reqs_in_decode_batch` and
`prefill_tokens_in_decode` are the attributes the patch adds, under their names
without the prefix `async_offload_`. `batch_infos` is the list of that name and
also the engine's batch queue: both grow in `schedule()` and lose their first
element with `update_from_output()`. A step records the ids of its decode lane
and, for its prefill lane, the tokens of each chunk.

* `Schedule` is the whole patched method: hold, the original `schedule()`, restore,
  selection, split, refresh, append. The original one (`BaseOutput`, external)
  preempts any of the requests it sees, or admits waiting ones up to
  `MaxNumRunningReqs`, and gives each request it schedules any number of tokens
  within its prompt and the chunk limit. An admitted request starts at a cached
  prefix, so a preempted request may come back anywhere.
* `UpdateFromOutput` is the other one: release the reported requests, pop the step,
  hand all its requests to the original method, which may finish any of them.
* `AddRequest` and `AbortRequest` happen between the two.

Only prompt tokens are counted; generated tokens appear as decode steps of one
token. Ids are used once, as vLLM's are. `running` is a set here; its order is
the business of `HoldRestore`. `batch_infos` starts empty. What the refresh does
to `prefill_tokens_in_decode` is written as the sum over the dictionary.

### OffloadProtocol

`outstanding` is what the worker has launched in steps already answered and has
not reported. `Deliver` is `UpdateFromOutput` with any subset of the launched
requests reported. Nothing else is known of the worker.

### PrefillLanes

The worker runs one step at a time. `lane_decode` and `lane_prefill` are the
`execute_model_state` of the lanes between `execute_model()` and
`sample_tokens()`; `decode_immediate` is the immediate output, which is only
reset by a step that offloads; `pending` is the FIFO of prefill outputs, each
with its snapshot and its copy event. `Taken` is how many of them
`_take_ready_prefill_outputs` pops, in both of its modes. All ranks of a
tensor-parallel group agree on readiness through an all-reduce, so one worker
stands for the group; `LaneRanks` shows that it may. A step in which nothing is scheduled is answered by
`execute_model()` alone, and then too the ready prefills are collected.

`get_output()` waits for the snapshot event (`Materialized`), not for the copy.
Copies may finish in any order. The code means to rotate eight copy streams; as the
lanes are made anew without their names (`model_runner_v1.py:391`) it uses one,
which is one of the orders allowed here.

### AsyncOffload

The engine schedules while its queue has room and reads results otherwise; the
worker executes the first step without a result. The refinement mapping:

    outstanding  <-  chunks in `pending' or in an unread result, less those
                     launched by a step that is still in the queue

### HoldRestore

One `schedule()` on every list of distinct requests: hold by index, the original
method (preempts from the end under fcfs, anything under priority, or appends
what it admits, or raises), restore by `min(index, len)`.

### StepRecords

The step that follows. `Move` is the original step, with any of the visible requests
in it, and `_move_requests_to_prefill_output`: the entries of the offloaded requests
are *copied* to the prefill part, only their tokens are moved. `DecodeView` and
`PrefillView` are what the worker makes of it for each lane. `Merge` is
`_merge_outputs` of the decode output with the pending prefill outputs that are
ready, earlier steps' before this step's. `MoveBack` is the first half of
`update_from_output()`. A record is a bundle of parallel lists (ids, computed tokens,
new tokens, sampled tokens, rows of logprobs); an entry of any of them is written as
the request it belongs to, so "aligned" is equality of lists and a wrong index
is a wrong name.

### LaneRanks

`plan` is what the engine sends: any sequence of steps that decode, prefill or both
or neither, so nothing of the scheduler is needed. `Program` is the host program of a
rank for a step as far as its collectives go: it asks for readiness where
`execute_model()` and `sample_tokens()` do, launches the lanes' collectives on two
streams, and branches on the answers. `streams` are the launched collectives of each
rank, `joined` says which collective the device of a rank is in for each group.
`GetGroup` is the choice every getter makes by `use_offload_tp` of the forward
context, `ContextOf` says which collectives run inside one. The device joins the two
streams in any order; a collective ends when every rank of the group has joined it.

One property of the original model runner is an assumption here, `LogitsInForward`: that
it gathers the logits while the forward context of the lane is set. With
`LogitsInForward = FALSE`, `CollectivesMatch` fails: the logits of both lanes would be gathered
in the primary group. The repository has patches that pass the lane to the gather
(`logits_processor.py`), but `patches.py` imports them and does not apply them, so the
choice rests on the context alone.

### RankLayout, OffloadGroups

`RankLayout` computes the rows as the code does, with `arange`, `transpose`, `reshape`
and index arithmetic over the axes external data, data, pipeline, context and tensor
parallelism. `Classes` is the reference: the ranks that differ along given axes only.
`OffloadGroups` has one process: `InitializeModelParallel` and
`InitAscendModelParallel` fill the slots `_OFFLOAD_*` (a repeated call changes
nothing), names of one size share a group, `FLASHCOMM2_ODP` may be vLLM's own
secondary TP group, and the two destroy functions run in either order. A process may
initialise again when everything is torn down.

### PDCoordinator

`reports` are the messages from each engine to the coordinator, `published` those
to one load client; both sockets have a high-water mark. `Publish` drops the new
report when the socket is full (`zmq.Again`), and a PUB socket drops the new
message. `loads` and `view` are the tables of the code. A turn of the coordinator
handles one report or a timeout and publishes if the interval is over; `Poll` is
`PDLoadClient.poll()`: the last message received wins, and without one the view
stays as it is, whatever its age.

A report carries its age, as every test has the form `now - ts_ms <= stale_ms`.
`MaxAge` bounds the ages per engine, so that one run has an engine whose reports
expire beside one whose reports do not. The clocks of the hosts agree in the
model. An engine reports after a step and not otherwise: an idle one is silent.

### PDMigration

The input thread takes one message after the other through `ReadSocket`,
`ReadStats`, `StartSum`, `SumWaiting` (or `SumRaises`), the decision and
`QueueRequest`; `decision` says where it is. The steps are those between which the
engine thread can change what is read: the number of waiting requests, the sum
over the deque, `batch_infos`. A deque that changes under its iterator raises
RuntimeError, which vLLM answers with an error output (`SumRaises`, the answer is
external). The residual time of the running steps depends on the clock, so any
value up to the full estimate is allowed. `KeepsRequest` and `MigratesRequest` are
the two outcomes; only an overloaded engine polls.

On the engine thread `HandleClientRequest` drops the ADD of a migrated request and
passes on the rest. `EngineSchedules` and `EngineUpdates` stand for vLLM: requests
are taken from the front of the queue, and a step that is done answers them.
The client sends each request once and aborts what has no answer.

The candidate that `best_decode` picks is not part of the state: the code writes it
to the log, and the request goes to the decode the front end has selected (external).

### ProxyHeap, DecoderPool, LoadBalanceProxy

The proxy is one asyncio process: what happens between two awaits is one action.
`Dispatch` is `_handle_completions` from the body of the request to the response
object; `AskPrefiller` to `DecoderIsDone` are the life of `generate_stream` and of
the generator inside it, `stage` says where it is. `Fails` is the `except` branch
with the release that follows it. `HttpError` and `OtherError` are the two
handlers of `stream_service_response_with_retry`; `first_chunk_sent` keeps its
value between attempts until the next response begins, as the local variable does.
A recomputed chunk always fails (`ChunkFails`): `_handle_select_instance` is called
without its last parameter, so the second round trip it would start, and
`send_request_to_service` in it, never run.

`ProxyHeap` computes the lists that `heapq` computes, position by position:
`UpdatePriority` filters the list and pushes, and what that does to the heap
depends on the positions. Scores are natural numbers that tell the requests apart;
priorities of prefillers are multiplied by ten, so that 0.3 is 3. `kv_released` and
`resent` are history variables.

## What is checked

| Run | States | Shows |
|---|---|---|
| `protocol` | 137 424 | `TypeOK`, `HeldExactlyWhileWorking`, `NoOverlap`, `PressureAccurate`, `HeldStaysRunning`, `LaneAffinity` |
| `async_offload` | 84 577 | `ResultMatchesStep`, `ChunkInOnePlace`, `PrefillReadAfterCopy`, `ImplementsProtocol`, `HoldEnds` |
| `hold_restore` | 1 109 307 | `NobodyLost`, `OrderKept`, `LanesPartitionStep`, `RowsMeetSchedule`, `RowsAreOwn` |
| `lane_ranks` | 621 666 | `CollectivesMatch`, `RanksAgree`, `TakenWhenAllReady`, `NothingHangs`, `EveryStepEnds` |
| `offload_groups` | 4 234 | `SlotsAlive`, `NothingLeaks`, `EveryRankInOneRow`, `GroupsFollowLayout`, `FlashComm2Grid`, `FineGrainedJoinsReplicas` |
| `coordinator` | 296 604 | `TypeOK`, `NeverOlder`, `LastLoadArrives`, `SilentEngineExpires` |
| `migration` | 174 012 | `OneAnswer`, `AnsweredIsGone`, `EveryoneAnswered` |
| `proxy` | 1 067 487 | `TypeOK`, `DecoderTokensExact`, `KvExactUntilReleasedTwice`, `HeapsMirrorCounts` |
| `fence_copy` | violation | `DecodeWaitsForPrefill` does not hold |
| `decode_copy` | violation | `DecodeReadAfterCopy` does not hold |
| `retry_after_chunk` | violation | `NoRetryAfterChunk` does not hold |
| `decoder_pool` | violation | `LeastLoadedIsNext` does not hold |

* `HeldExactlyWhileWorking`: a live request is in the in-flight set if and only if
  the worker has a chunk of it. Too long and it hangs; too short and `NoOverlap`
  fails: no step computes a request while a chunk of it is unreported.
* `PressureAccurate`: the pressure the coordinator publishes is the sum of the
  chunks in flight; what is gone is forgotten with the next `schedule()`.
* `HeldStaysRunning`: the original `schedule()` can neither preempt nor lose a held
  request.
* `LaneAffinity`: after its first chunk every prompt token of a request goes to the
  prefill lane until the prompt is done, also after a preemption has reset it.
* `ImplementsProtocol`: the lanes are one of the workers the protocol allows, so all
  of the above holds with the real worker.
* `ResultMatchesStep`: the immediate output that outlives its step is never taken
  for the output of another one.
* `ChunkInOnePlace`: a chunk is neither reported twice nor taken and lost.
* `PrefillReadAfterCopy`: the readiness test makes up for what `get_output()` omits.
* `HoldEnds`: a held request is let go.
* `NobodyLost`, `OrderKept`: the batch keeps its members and, under fcfs, its order.
* `LanesPartitionStep`: the scheduler cuts the prefill lane's part of the step, the
  worker the decode lane's, each with its own code; together they are the step,
  every request once, every parallel list aligned.
* `RowsMeetSchedule`: when the engine reads the merged output, the requests of the
  step without a row are those still in the lane, and the rows without a request of
  the step are held requests whose chunk is reported.
* `RowsAreOwn`: the row of a request is its own in the ids and the sampled tokens, always.
  In the logprobs it is exactly when no output without logprobs was merged before one
  that has them: the code concatenates the rows of the outputs that have some and
  indexes them by the position among all. The property says that this is the only way.
* `CollectivesMatch`: two ranks never meet in different collectives of one group,
  although both lanes run at once and each device orders them freely.
  `NothingHangs`: until every step is executed, something goes on even if no copy ever
  finishes. `EveryStepEnds`: so every step is executed.
* `RanksAgree`, `TakenWhenAllReady`: all ranks take the same prefill outputs with the same
  step, and only those whose copies are finished everywhere.
* `SlotsAlive`, `NothingLeaks`: no name keeps a destroyed group, none outlives both
  tear-downs, although names share groups and the tear-downs come in either order.
* `EveryRankInOneRow`, `GroupsFollowLayout`, `FlashComm2Grid`: the arithmetic gives each
  rank one row of each group, with the peers that the kind of the group means, and a
  row and a column of flashcomm2 cross in one rank.
  `FineGrainedJoinsReplicas`: the fine-grained groups join data-parallel replicas
  exactly when there is one pipeline stage, as the code stands.
* `NeverOlder`: the client never replaces what it knows of an engine by an older report,
  although reports wait in two queues, are dropped where one is full and expire on the way.
* `LastLoadArrives`: when the load of an engine settles and its last report was not
  dropped, a client that goes on polling ends up with that load and no older one.
  `SilentEngineExpires`: and it forgets an engine that stopped. Both are
  conditional on the polling: a prefill engine that is not overloaded does not
  poll, and its first decision after a quiet period uses what is in the socket,
  which after a full queue is an old message.
* `OneAnswer`: a request is served, migrated or failed, and only one of them,
  although two threads answer. `AnsweredIsGone`: from the answer of the input thread
  on, the scheduler never has the request. `EveryoneAnswered`: no request is lost
  between the threads.
* `DecoderTokensExact`: through retries, errors and recomputation each request gives
  its tokens back once; a cancelled one keeps them, and no other.
* `KvExactUntilReleasedTwice`: the KV load is exact until a request fails after its
  first chunk. Then the second release takes load of other requests, as the code
  stands; the property says that this is the only way.
* `HeapsMirrorCounts`: no change of a count misses the heap.

### Bounds

`protocol`: three requests with prompts of 5, 3 and 1 tokens, threshold 3, chunks
of at most 2, prefix hits of 0 or 1, two running, two steps in flight. That gives
a request of several chunks whose remainder drops below the threshold, one that a
prefix hit may carry under the threshold before its first chunk, one that never
is offloaded, preemption with a restart at another place, and a queue of two
steps beside an outstanding chunk. Ids are used once, which bounds the run.

`async_offload`: two requests with prompts of 3 and 2 tokens, so that one has two
chunks, both can be in the lane at once and each decodes beside the other's
prefill. Two steps in flight are the depth vLLM uses with asynchronous
scheduling.

`hold_restore`: lists of up to five requests, two held, at all positions, and steps of
up to three of them, which is a request in each lane and one more to be taken for
another. Only requests of one kind (held or not) are exchanged by symmetry.

`lane_ranks`: two ranks, every plan of three steps. Two ranks are enough for a
mismatch, which is between two; three steps for a pending output of an earlier step
beside one of the present step and a step that only polls.

`offload_groups`: up to 16 ranks: each axis of size 1 or 2 with every other, larger
tensor-parallel groups for the flashcomm2 grids (2 by 2, 4 by 1, 2 by 1), the prefill
heads and the decode context, and every combination of options on one shape; two
initialisations of a process.

`fence_copy`: three requests (two pending prefills and one that decodes), one step
in flight. `decode_copy`: the constants of `async_offload`.

`coordinator`: two engines; the reports of one expire (`StaleMs = 1`, ages to 2), those of
the other do not. A PUSH socket holds one report and the PUB socket two messages: every
report and every publication can meet a full socket, and of two messages that wait the
last one has to win. `migration`: two requests of one and two tokens, a limit which the
second request crosses while the first waits or runs, two steps in flight, a
decode that opens and closes.

`proxy`: three requests with different scores, two prefillers, three decoders, two
attempts. Each request meets each error at each stage beside two others that share
its servers; different scores show an amount taken from the wrong request.
`decoder_pool`: four requests that come and go, six decoders. With five decoders, the
same run ends after 979 states without an error: the heap has to be deep enough.

The systems may stop (no request left, the engine blocks on its input queue), so
deadlock is not checked; that nothing stops while a request is held is `HoldEnds`, and
that no request is forgotten is `EveryoneAnswered`. The coordinator never stops,
and its run checks deadlock.

### Fairness

Weak fairness of the engine's `schedule` and `update` (the engine loop runs while
`has_requests()` holds or a step is queued), of the worker's two methods (its loop
runs while it is sent steps), and of each stream of the device (computation and
copy, per lane: they are different streams and one may not starve the other).
Nothing is assumed of clients, of what the original `schedule()` admits or gives a
request, or of which requests finish.

`LaneRanks`: weak fairness of each rank's host, of each stream of each device, and of the
end of a collective that all ranks have joined. None for the copies: an output that is
never ready delays no step.

`PDCoordinator`: weak fairness of the clock, of the timeout, and of the receipt of
each engine's reports (its loop never ends; a PULL socket serves its peers in turn).
Engines and pollers owe nothing. `PDMigration`: weak fairness of the two threads'
loops, that is of the input thread, `HandleClientRequest`, `EngineSchedules` and
`EngineUpdates`; the third assumes that vLLM admits waiting requests sooner or later.

## Findings

1. *The copy fence waits for one prefill only.* README.md:208 says that
   `DYNAMIC_PD_SYNC_PREFILL_BEFORE_DECODE=1` makes decode wait for the pending
   prefills. The code synchronizes with the first pending output
   (`model_runner_v1.py:843`), and a step that offloads does not call the fence.
   Run `fence_copy` shows decode starting beside the second pending prefill.
2. *Decode tokens may be read before they are copied.* The asynchronous output of
   vLLM blocks "until the copy is finished"
   (`scripts/patches/vllm-0.18.0-dynamicpd.patch:93`). The Ascend replacement waits
   for the snapshot event, after which the copy only starts
   (`vllm-ascend-0.18.0-dynamicpd.patch:203`). Prefill outputs are protected by the
   readiness test, decode outputs are not: run `decode_copy`.

3. *A stream is retried after its first chunk.* The comment at
   `load_balance_proxy_server_example.py:461` forbids it; the handler of httpx errors
   at 449 does not look. Run `retry_after_chunk`.
4. *The least loaded decoder is not always next.* `_update_decoder_priority` (204)
   removes an entry from a heap and does not restore it. Run `decoder_pool`.

### Seen while modelling

Not the business of a run:

* An idle decode with a finite `stale_ms` drops out of the view (`core.py:244`).
  `running_tokens` is never reported (`core.py:50`) although README.md:67 counts it
  among what decides. `shutdown()` of a role other than prefill raises (`core.py:250`).
* README.md:144 says that a decode above `decode_kv_watermark` receives no more
  migrations. The prefill engine tests that *some* decode is below (`core.py:188`); the
  request is computed by the decode the front end had selected before.
* In the proxy, "After streaming done, release tokens" (717) is not reached when the
  client's disconnect cancels the stream: the load of that request stays
  (`DecoderTokensExact` says that nothing else does). Ids of aborted requests are lost
  with the POST that carries them (582). An end without a chunk never releases the KV
  load.
* Rows of logprobs are misaligned when an output without logprobs precedes one with
  them in a merge (`RowsAreOwn`). A cached entry that was offloaded is listed
  twice after `_move_prefill_output_back`, as the main lists have kept it; the code
  that reads them goes by id.
* The lanes are made anew without their names (`model_runner_v1.py:391`), so the prefill
  lane never rotates its copy streams.
* With several pipeline stages the fine-grained groups join stages, not replicas:
  `rank_grid` has the stages before the replicas (line 173 of vLLM-Ascend's
  `parallel_state.py`). `FLASHCOMM2_ODP` of size 1 is vLLM's secondary TP group: were
  vLLM's groups alone torn down and made again, it would name the old one.
* With several data-parallel replicas a prefill lane may run on one of them only; with
  context parallelism each tensor-parallel group votes by itself.
* `set_mc2_tokens_capacity` and `set_mc2_mask` of the copy in `ascend_forward_context.py`
  are called by nobody, so a comparison with the capacity (231) would compare with
  None.

## What is proved

`OffloadProtocol_proofs` proves, for every finite set of requests, every prompt
length, threshold, chunk limit and queue depth (`SchedulerAssumption` lists what is
assumed of the constants), that `Spec` implies `TypeOK`,
`HeldExactlyWhileWorking`, `NoOverlap`, `PressureAccurate` (always) and the two
action properties `HeldStaysRunning` and `LaneAffinity`.

The argument. "Held exactly while the worker works" is not inductive alone. It
needs that an in-flight live request is in `running`, where the hold finds it
(`InflightIsRunning`): otherwise the original `schedule()` could admit it from
`waiting`. It needs that finished ids are not live (`FinishedIsGone`), or the
refresh would drop a live chunk as stale; that no step of the queue has a request
beside an earlier chunk of it (`NoOverlap`), or the report of one chunk would
release the other; and that whatever a step names has arrived (`QueueArrived`), so
that a new request starts with no trace of itself. `IInv` is the conjunction.
`Deliver` is the long case: the reported requests leave the in-flight set, and by
`NoOverlap` no later step has launched them. `Schedule` is the other one: what is
scheduled was visible, so it was not in flight, so by the invariant the worker has
no chunk of it. The action properties follow from `IInv` and one case per action.

`PDMigration_proofs` proves, for every set of requests and engines, every load limit
and number of steps in flight, that `MigrationSpec` implies `OneAnswer` and
`AnsweredIsGone`. Nothing is needed of the coordinator: whatever the view says, the
answer is given once.

The argument. `OneAnswer` is not inductive: it needs that nobody else can still
answer. `OnceEach` and `OnePlace` say that a request is once in one of five places
(socket, decision, input queue, waiting, running), so the thread that answers it is the
only one that has it. `AnsweredIsMarked` says what is left of an answered request: it
is carried by the input thread or by `input_queue`, with `to_migrate` set, or it is
nowhere. So the engine thread drops it, and neither the scheduler nor a later
decision meets it again. The reset of the flag in `ReadSocket` is harmless because a
request is read once, before it has an answer. An abort only takes a request out of
its place. The lemmas about `Append`, `Tail`, `SubSeq` and the removal of an element
carry "once" through the queues.

`AsyncOffload_proofs` proves, for every value of the constants, that `Spec` of
`AsyncOffload` implements `OffloadProtocol`, so that everything proved of the protocol
holds of the scheduler with the two lanes (`HeldExactlyWithLanes` spells one of them
out), and the invariants `ResultMatchesStep`, `PrefillReadAfterCopy` and
`ChunkInOnePlace`.

The argument is one induction over two invariants that need each other. `P!IInv` is
the protocol's invariant read through the refinement mapping: it says that a step of
the queue launches nothing that is outstanding or launched by an earlier step.
`LanesInv` is about the lanes:

* `LanesRunStep`: the lanes run the first step without a result, and an idle decode
  lane beside a prefill has its immediate output. Without the second half
  `sample_tokens()` would take a pending output whether it is ready or not.
* `PlacesApart`: pending outputs and results share no chunk, or the report of one
  would leave the other behind.
* `NotAhead`: a chunk in the k-th result was launched by the k-th step of the queue or
  an earlier one. This is what "not before the step that launched it" means, and it
  makes a report a subset of what the protocol calls launched.
* `LaunchedAtWorker`: what an answered step launched is still somewhere at the worker,
  so that nothing outstanding is forgotten.

A step of the worker cuts one queue (the pending outputs, with the step's own
launch behind them) into the new result and the rest; `OutputsMove` says that any such
cut keeps the invariant and the mapping, and `execute_model()` on an empty step and
`sample_tokens()` with its two takes are instances of it (`TwoTakes`: two takes in
a row pop one prefix). The new chunk is apart from the pending ones because the
protocol's `NoOverlap` forbids the scheduler to launch it. `UpdateDelivers` shows that the
engine's read is the protocol's `Deliver`, with the chunks of the head result
reported. Device events and clients change no place.

`StepRecords_proofs` proves, for every finite set of requests, every list of them and
every part of it that is held (`InflightAssumption`), that `StepSpec` implies
`NobodyLost`, `OrderKept`, `LanesPartitionStep`, `RowsMeetSchedule` and `RowsAreOwn`.

The argument. A comprehension is known by its places: `Picks` says which entries it keeps
and that their places increase. Its entries and their order follow, and these two
determine a list of distinct requests (`SameList`), so equations between lists are proved
as equations of sets and of orders. `ListInv` follows `running` through the three steps of
a patched `schedule()`. Its long case is the restore: when the request of index i is put
back, the requests before it in the old list are all there again and it lands behind them,
or some of them were preempted. Under fcfs those went from the end, so every visible request
behind it is gone as well and the end of the list is its place (`InsertInOrder`). With
priority preemption this fails, and `OrderKept` claims nothing then. `StepInv`
carries what the records of the step have for whom: the scheduler's part and the
worker's part are what the step has for one set of requests and for its complement
(`ViewFacts`, `LanesGet`). `RowsMerged` follows the outputs that
`_merge_outputs` concatenates one by one: as soon as an output without logprobs has been
merged, the rows of logprobs are behind the rows, and not before (`RowsUpTo`). From that
comes the exact condition of `RowsAreOwn`.

`LaneRanks_proofs` proves, for every set of ranks that is not empty and any number of steps,
that `Spec` implies `RanksAgree` and `TakenWhenAllReady`, and, if the logits are gathered
within the forward context (`LogitsInForward`, a hypothesis of the two theorems; without it
TLC refutes the first), `CollectivesMatch` and `NothingHangs`.

The argument. Between two votes a host does not look at another rank, so what it does next
is a function of its own state and the plan: `Reaches` is the path it is on, and
`OnePath` says that of any two hosts one is on the path of the other. A host that waits
for a vote has stopped (`HostsInv`), so when a vote completes all hosts are at the same one
(`StoppedAlike`), get the same answer and stay on one path. A stream has the collectives
of its lane's program in the order of the program and behind them at most the vote
(`StreamsInv`, `VotesInv`), and a device is in the head of one of its streams, in the group
its getter returned (`JoinedInv`). `OpenInv` says that a collective has completed for all
ranks or for none, so the first open collective of a lane is the same on all ranks: that
is `CollectivesMatch`. `NothingHangs` follows: when every host waits they wait for the same
vote, and the default stream of each has something at its head that can be joined or is
joined by all.

`OffloadGroups_proofs` proves, for every configuration whose sizes fit
(`ConfigsAssumption`) and any number of initialisations, that `Spec` implies `SlotsAlive` and
`NothingLeaks`, and, for all sizes of the axes, `EveryRankInOneRow`, `GroupsFollowLayout`,
`FlashComm2Grid` and `FineGrainedJoinsReplicas`. `ConfigsAssumption` asks what the code asks:
a size divides what it is taken from, or torch refuses the reshape; and no
external replicas where the code's arithmetic leaves them out (fine-grained and flashcomm2
rows, and the prefill heads with several head replicas), or a rank would be in no row and
the creation of the group would refuse its process.

The argument about the slots: every group that is alive is in a slot whose tear-down
destroys it (`AliveInv`), and the slots of each package hold groups of its own
names (`SlotsInv`), but for `FLASHCOMM2_ODP` of size 1, which the tear-down of vLLM-Ascend
leaves alone. So neither tear-down takes a group from the other.

The argument about the layouts. What is alive was asked for by the configuration
(`CreatedInv`), so its sizes fit. A rank and its five coordinates determine each other
(`AtCoordinates`, `AtPlace`). A transposition swaps two coordinates (`OffsetAt`,
`OffsetsCover`), so the tensor still holds each rank once, and so do its rows (`IsWorld`,
`RowsCover`); the three axes of the prefill heads are five with two of size 1 (`Padded`),
and the rows of the fine-grained groups and of the grids are covered by coordinates of
their own (`FineCover`, `GridCover`). Rows cut from the last axes of a tensor are the
classes of ranks along the axes those were (`Arranged`, `ClassRows`, `CutAlong`); they
ascend because a rank grows with each of its coordinates (`AtMonotone`, `AxisAscending`,
`StageAscending`). Rows of the decode context, the prefill heads and flashcomm2 stay in one
tensor-parallel group because they never leave one value of its number (`WithinRows`,
`HeadsStay`, `GridWithin`).

`LoadBalanceProxy_proofs` proves, for every set of requests, any numbers of servers and any
number of attempts, that `Spec` implies `TypeOK`, `DecoderTokensExact`,
`KvExactUntilReleasedTwice` and `HeapsMirrorCounts`.

The argument. The flag of a stream says how often its KV load has been taken back
(`StreamInv`), and a sum over a finite set of requests changes by the score of the request
that comes or goes. The sums are those of the community modules; a fold over a set has no
induction the provers could instantiate, so the lemmas about it take a smallest
counterexample of the well-founded order on the subsets (`MinimalSubset`). `TypeOK` says
that no decoder owes tokens, which is not inductive: it follows from the exact
counts. In a heap an item moves along the way from a position to the root, past entries
that shift by one place; the filter of `_update_priority` drops one entry. So no entry is
lost and none doubled, whether or not the list is still a heap, and `HeapInv` says that
each list has one entry per server with its count.

`PDCoordinator_proofs` proves, for every set of engines, any loads, ages and high-water
marks, that `Spec` implies `TypeOK` and the action property `NeverOlder`.

The argument. From the engine to the client every place has reports of an engine that are
not older than those at later places (`ReportsInOrder`, `TablesInOrder`). A report is new
when it enters, a full queue drops the new one, and time passes everywhere alike.

Only model-checked: liveness (`HoldEnds`, `EveryoneAnswered`, `LastLoadArrives`,
`SilentEngineExpires`, `EveryStepEnds`), which the prover does not reach. Every invariant
and every action property of a passing run, and `ImplementsProtocol`, is proved. The
four violations are counterexamples and need no proof.

## What is not modelled

* KV blocks and their allocation, spec decode tokens, encoder inputs, logprobs,
  connector outputs: they follow the request through the same splits and merges.
* The snapshot fence: it orders work on the device and holds nothing on the host.
* `acl_none`: README.md:211 says the decode side disables ACL graphs beside a pending
  prefill; the two lines that did so are commented out (`model_runner_v1.py:66`).
* The swap of lane buffers (`_dynamic_pd_lane_context`): sequential code.
* Which of the candidates `best_decode` takes: nobody uses it.
* Construction and shutdown of the engine by role, start and stop of the coordinator
  process, crashes of it: after one, nothing arrives and the last view stays.
* In the proxy: latency records, headers, parsing of chunks, other endpoints.
* MoE communication: the method is a pure function of the configuration, the device
  generation and the number of tokens; a table of unit tests reaches all of it.
* HCCL buffer sizes and options of the groups, the stateless groups of elastic EP beyond
  their kind, collectives other than those of the lanes' models and of the vote.
* The model, operator and patch-loading code holds no evolving state; benchmarks,
  profiling and scripts are around the system.

## Plan

1. Done: `OffloadScheduler`, `OffloadProtocol`, its proofs, `PrefillLanes`,
   `AsyncOffload`, `HoldRestore`.
2. Done: `PDCoordinator`, `PDMigration` and its proofs.
3. Done: `ProxyHeap`, `DecoderPool`, `LoadBalanceProxy`.
4. Done: `LaneRanks`, `RankLayout`, `OffloadGroups`; `StepRecords`; the refinement proof.
5. Done: the proofs about `LaneRanks`, `OffloadGroups`, `LoadBalanceProxy` and its heaps,
   `PDCoordinator`, and `StepRecords` with `HoldRestore` (their filter, `Those`, is a fold,
   and that of the heaps, `Without`, a recursive function, because the prover does not
   expand `SelectSeq`).
6. Done: the layouts of the groups, `FlashComm2Grid`, `FineGrainedJoinsReplicas`,
   `EveryRankInOneRow` and `GroupsFollowLayout`, by the coordinates of a rank and what
   `Transpose` does to them. With that every invariant that a passing run checks is proved.
7. Left: the invariants behind the liveness properties, stated and proved for themselves:
   that the last report of an engine, unless dropped, is in its queue, in the
   coordinator's table or in a message on its way (`LastLoadArrives`), and that the oldest
   held chunk is always at a place of the worker that goes on (`HoldEnds`).
