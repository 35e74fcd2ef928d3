------------------------ MODULE OffloadProtocol_proofs ------------------------
(***************************************************************************)
(* Proofs about OffloadProtocol, for every set of requests, prompt length, *)
(* threshold, chunk size and queue depth.                                  *)
(***************************************************************************)
EXTENDS OffloadProtocol, TLAPS

-------------------------------------------------------------------------------
(* Dictionaries *)

\* A dictionary restricted to some of its keys.
LEMMA RestrictType ==
    ASSUME NEW D, NEW V, NEW f \in [D -> V], NEW S \in SUBSET D
    PROVE  /\ Restrict(f, S) \in [S -> V]
           /\ \A x \in S : Restrict(f, S)[x] = f[x]
  BY DEF Restrict

\* dict.pop() of some keys leaves the others alone.
LEMMA WithoutType ==
    ASSUME NEW D, NEW V, NEW f \in [D -> V], NEW S
    PROVE  /\ Without(f, S) \in [D \ S -> V]
           /\ \A x \in D \ S : Without(f, S)[x] = f[x]
  BY DEF Restrict, Without

\* dict.update(): the new entries win, the others stay.
LEMMA UpdateType ==
    ASSUME NEW D, NEW E, NEW V, NEW f \in [D -> V], NEW g \in [E -> V]
    PROVE  /\ Update(f, g) \in [D \cup E -> V]
           /\ \A x \in E : Update(f, g)[x] = g[x]
           /\ \A x \in D \ E : Update(f, g)[x] = f[x]
  BY DEF Update

\* No token is in flight when no chunk is.
LEMMA EmptySum == SumFunction([r \in {} |-> 0]) = 0
  <1> DEFINE f == [r \in {} |-> 0]
  <1>1. DOMAIN f = {}
    OBVIOUS
  <1>2. \E g : g = [s \in SUBSET {} |-> IF s = {} THEN 0
                     ELSE LET x == CHOOSE x \in s : TRUE IN f[x] + g[s \ {x}]]
    <2> WITNESS [s \in SUBSET {} |-> 0]
    <2> QED
      OBVIOUS
  <1> DEFINE iter == CHOOSE g : g = [s \in SUBSET {} |-> IF s = {} THEN 0
                        ELSE LET x == CHOOSE x \in s : TRUE IN f[x] + g[s \ {x}]]
  <1>3. SumFunction(f) = iter[{}]
    BY <1>1 DEF SumFunction, SumFunctionOnSet, FoldFunctionOnSet, MapThenFoldSet
  <1>4. iter = [s \in SUBSET {} |-> IF s = {} THEN 0
                  ELSE LET x == CHOOSE x \in s : TRUE IN f[x] + iter[s \ {x}]]
    <2> HIDE DEF f
    <2> QED
      BY <1>2
  <1> HIDE DEF f, iter
  <1>5. iter[{}] = 0
    BY <1>4
  <1> QED
    BY <1>3, <1>5 DEF f

-------------------------------------------------------------------------------
(* Type correctness *)

\* The worker's environment adds and drops requests, nothing else.
LEMMA AddRequestType ==
    ASSUME TypeOK, NEW r \in Requests, AddRequest(r), UNCHANGED outstanding
    PROVE  TypeOK'
  BY DEF TypeOK, AddRequest, offloadVars

\* An abort drops a request and announces it, nothing else.
LEMMA AbortRequestType ==
    ASSUME TypeOK, NEW r \in Requests, AbortRequest(r), UNCHANGED outstanding
    PROVE  TypeOK'
  BY DEF TypeOK, AbortRequest, Finish, LiveRequests, offloadVars

\* One choice of the original schedule(): the offloaded requests are among the
\* scheduled ones, and the step handed to the worker is well formed.
LEMMA ScheduledSets ==
    ASSUME TypeOK,
           NEW preempted \in SUBSET (running \ Held),
           NEW scheduled \in SUBSET ((running \ Held) \cup waiting),
           NEW start \in [scheduled -> StartTokens],
           NEW num \in [scheduled -> ChunkSizes]
    PROVE  /\ OffloadSelection(scheduled, start) \subseteq scheduled
           /\ scheduled \subseteq arrived
           /\ Restrict(num, OffloadSelection(scheduled, start))
                \in [OffloadSelection(scheduled, start) -> ChunkSizes]
           /\ StartTokens \subseteq Nat
           /\ ChunkSizes \subseteq Nat \ {0}
  <1>1. OffloadSelection(scheduled, start) \subseteq scheduled
    BY DEF OffloadSelection
  <1>2. scheduled \subseteq arrived
    BY DEF TypeOK
  <1>3. Restrict(num, OffloadSelection(scheduled, start))
          \in [OffloadSelection(scheduled, start) -> ChunkSizes]
    BY <1>1, RestrictType
  <1>4. StartTokens \subseteq Nat
    BY SchedulerAssumption DEF StartTokens, TypeOK
  <1>5. ChunkSizes \subseteq Nat \ {0}
    BY DEF ChunkSizes
  <1> QED
    BY <1>1, <1>2, <1>3, <1>4, <1>5

\* schedule() keeps the state well typed: what it offloads is in flight, with
\* the tokens of its chunk, and the step it appends is well formed.
LEMMA ScheduleType ==
    ASSUME TypeOK, Schedule, UNCHANGED outstanding
    PROVE  TypeOK'
  <1>1. PICK preempted \in SUBSET (running \ Held),
             scheduled \in SUBSET ((running \ Held) \cup waiting) :
          \E start \in [scheduled -> StartTokens], num \in [scheduled -> ChunkSizes] :
            ScheduleWith(preempted, scheduled, start, num)
    BY DEF Schedule
  <1>2. PICK start \in [scheduled -> StartTokens], num \in [scheduled -> ChunkSizes] :
          ScheduleWith(preempted, scheduled, start, num)
    BY <1>1
  <1> DEFINE offloaded == OffloadSelection(scheduled, start)
             prefill   == Restrict(num, offloaded)
             held      == inflight_req_ids \cup offloaded
  <1>3. /\ offloaded \subseteq scheduled /\ scheduled \subseteq arrived
        /\ prefill \in [offloaded -> ChunkSizes]
        /\ StartTokens \subseteq Nat /\ ChunkSizes \subseteq Nat \ {0}
    BY ScheduledSets
  <1>4. /\ inflight_req_ids' = held \ Stale(held)
        /\ inflight_tokens' = Without(Update(inflight_tokens, prefill), Stale(held))
        /\ prefill_reqs_in_decode_batch'
             = (prefill_reqs_in_decode_batch \cup offloaded) \cap inflight_req_ids'
        /\ continuing_req_ids' \subseteq continuing_req_ids \cup offloaded
    BY <1>2 DEF ScheduleWith, RefreshPressure
  <1>5. inflight_tokens' \in [inflight_req_ids' -> ChunkSizes]
    <2> HIDE DEF prefill, offloaded
    <2>1. Update(inflight_tokens, prefill) \in [held -> ChunkSizes]
      BY <1>3, UpdateType DEF TypeOK
    <2>2. Without(Update(inflight_tokens, prefill), Stale(held))
            \in [held \ Stale(held) -> ChunkSizes]
      BY <2>1, WithoutType
    <2> QED
      BY <1>4, <2>2
  <1>6. /\ inflight_req_ids' \subseteq arrived'
        /\ prefill_reqs_in_decode_batch' = inflight_req_ids'
        /\ continuing_req_ids' \subseteq arrived'
    <2> HIDE DEF prefill, offloaded
    <2>1. arrived' = arrived
      BY <1>2 DEF ScheduleWith
    <2> QED
      BY <1>3, <1>4, <2>1 DEF TypeOK
  <1>7. /\ waiting' \subseteq arrived' /\ running' \subseteq arrived'
        /\ waiting' \cap running' = {}
        /\ arrived' \subseteq Requests /\ finished_req_ids' \subseteq arrived'
        /\ outstanding' \subseteq arrived'
    <2>1. preempted \cap scheduled = {}
      BY <1>2 DEF ScheduleWith, BaseOutput
    <2>2. /\ running' = Restored(((running \ Held) \ preempted) \cup scheduled)
          /\ waiting' = (waiting \ scheduled) \cup preempted
          /\ arrived' = arrived /\ finished_req_ids' = {}
      BY <1>2 DEF ScheduleWith
    <2> QED
      BY <2>1, <2>2 DEF TypeOK, Restored, Held
  <1>8. num_computed_tokens' \in [Requests -> Nat]
    <2>1. \A r \in scheduled : start[r] \in Nat /\ num[r] \in Nat
      BY <1>3
    <2>2. num_computed_tokens' = [r \in Requests |->
              IF r \in preempted THEN 0
              ELSE IF r \notin scheduled THEN num_computed_tokens[r]
              ELSE IF Remaining(r, start[r]) = 0 THEN start[r]
              ELSE start[r] + num[r]]
      BY <1>2 DEF ScheduleWith
    <2> QED
      BY <2>1, <2>2 DEF TypeOK
  <1>9. batch_infos' \in Seq(StepType)
    <2> HIDE DEF prefill, offloaded
    <2>1. batch_infos' = Append(batch_infos, Step(scheduled \ offloaded, prefill))
      BY <1>2 DEF ScheduleWith, prefill, offloaded
    <2>2. Step(scheduled \ offloaded, prefill) \in StepType
      BY <1>3 DEF Step, StepType, TypeOK
    <2> QED
      BY <2>1, <2>2 DEF TypeOK
  <1> QED
    BY <1>5, <1>6, <1>7, <1>8, <1>9 DEF TypeOK

\* The oldest step and what is left of the queue.
LEMMA HeadAndTail ==
    ASSUME NEW S, NEW q \in Seq(S), q # <<>>
    PROVE  /\ Head(q) \in S /\ Head(q) = q[1]
           /\ Tail(q) \in Seq(S) /\ Len(Tail(q)) = Len(q) - 1
           /\ Len(q) \in Nat \ {0}
           /\ \A i \in 1 .. Len(q) - 1 : Tail(q)[i] = q[i + 1]
  OBVIOUS

\* update_from_output() keeps the state well typed: the reported requests leave
\* the in-flight set and its dictionary together.
LEMMA DeliverType ==
    ASSUME TypeOK, Deliver, \A i \in 1 .. Len(batch_infos) : Launched(i) \subseteq arrived
    PROVE  TypeOK'
  <1> DEFINE launched == outstanding \cup DOMAIN Head(batch_infos).prefill
  <1>1. PICK reported \in SUBSET launched :
          /\ UpdateFromOutput(reported)
          /\ outstanding' = launched \ reported
    BY DEF Deliver
  <1>2. launched \subseteq arrived
    <2>1. batch_infos # <<>> /\ batch_infos \in Seq(StepType)
      BY <1>1 DEF UpdateFromOutput, TypeOK
    <2>2. Head(batch_infos) = batch_infos[1] /\ 1 \in 1 .. Len(batch_infos)
      BY <2>1, HeadAndTail
    <2> QED
      BY <2>2 DEF TypeOK, Launched
  <1>3. PICK stopped \in SUBSET (Handed(Head(batch_infos)) \cap LiveRequests) :
          Finish(stopped)
    BY <1>1 DEF UpdateFromOutput
  <1>4. inflight_tokens' \in [inflight_req_ids' -> ChunkSizes]
    BY <1>1, WithoutType DEF TypeOK, UpdateFromOutput, MarkPrefillFinished
  <1>5. batch_infos' \in Seq(StepType)
    BY <1>1, HeadAndTail DEF TypeOK, UpdateFromOutput
  <1> QED
    BY <1>1, <1>2, <1>3, <1>4, <1>5
    DEF TypeOK, UpdateFromOutput, MarkPrefillFinished, Finish, LiveRequests

-------------------------------------------------------------------------------
(* The inductive invariant *)

\* A chunk belongs to a request that was added.
LEMMA WorkingArrived ==
    ASSUME TypeOK, QueueArrived
    PROVE  /\ Working \subseteq arrived
           /\ \A i \in 1 .. Len(batch_infos) : Launched(i) \subseteq arrived
  BY DEF TypeOK, QueueArrived, Working, Launched, Handed

\* The inductive invariant holds before the first request.
LEMMA InitIInv == Init => IInv
  <1> SUFFICES ASSUME Init PROVE IInv
    OBVIOUS
  <1> USE DEF Init, SchedulerInit
  <1>1. TypeOK
    BY DEF TypeOK
  <1>2. Len(batch_infos) = 0
    OBVIOUS
  <1>3. prefill_tokens_in_decode = SumFunction(inflight_tokens)
    BY EmptySum
  <1> QED
    BY <1>1, <1>2, <1>3 DEF IInv, FinishedIsGone, InflightIsRunning, QueueArrived,
       OffloadOnlyIfEnabled,
       HeldExactlyWhileWorking, NoOverlap, PressureAccurate, LiveRequests

\* A new request has a fresh id: nothing in the lanes or the queue knows it.
LEMMA AddRequestIInv ==
    ASSUME IInv, NEW r \in Requests, AddRequest(r), UNCHANGED outstanding
    PROVE  IInv'
  <1> USE DEF IInv
  <1>1. TypeOK'
    BY AddRequestType
  <1>2. /\ r \notin arrived /\ r \notin Working
        /\ \A i \in 1 .. Len(batch_infos) : r \notin Launched(i)
    BY WorkingArrived DEF AddRequest
  <1>3. /\ UNCHANGED <<outstanding, offloadVars, batch_infos, running, finished_req_ids>>
        /\ arrived' = arrived \cup {r} /\ waiting' = waiting \cup {r}
        /\ LiveRequests' = LiveRequests \cup {r}
    BY DEF AddRequest, LiveRequests
  <1>4. FinishedIsGone' /\ InflightIsRunning' /\ QueueArrived' /\ OffloadOnlyIfEnabled'
    BY <1>2, <1>3 DEF OffloadOnlyIfEnabled, FinishedIsGone, InflightIsRunning, QueueArrived, TypeOK, offloadVars
  <1>5. Working' = Working /\ \A i \in 1 .. Len(batch_infos) : Launched(i)' = Launched(i)
    BY <1>3 DEF Working, Launched
  <1>6. HeldExactlyWhileWorking'
    BY <1>2, <1>3, <1>5 DEF HeldExactlyWhileWorking, TypeOK, offloadVars
  <1>7. NoOverlap'
    BY <1>3 DEF NoOverlap, Launched
  <1>8. PressureAccurate'
    <2>1. prefill_tokens_in_decode' = SumFunction(inflight_tokens')
      BY <1>3 DEF PressureAccurate, offloadVars
    <2> QED
      BY <1>2, <1>3, <1>5, <2>1 DEF PressureAccurate, offloadVars
  <1> QED
    BY <1>1, <1>4, <1>6, <1>7, <1>8

\* A request that goes leaves its chunk behind; it is announced as finished.
LEMMA AbortRequestIInv ==
    ASSUME IInv, NEW r \in Requests, AbortRequest(r), UNCHANGED outstanding
    PROVE  IInv'
  <1> USE DEF IInv
  <1>1. TypeOK'
    BY AbortRequestType
  <1>2. /\ UNCHANGED <<outstanding, offloadVars, batch_infos, arrived>>
        /\ running' = running \ {r} /\ waiting' = waiting \ {r}
        /\ finished_req_ids' = finished_req_ids \cup {r}
        /\ LiveRequests' = LiveRequests \ {r}
    BY DEF AbortRequest, Finish, LiveRequests
  <1>3. FinishedIsGone' /\ InflightIsRunning' /\ QueueArrived' /\ OffloadOnlyIfEnabled'
    BY <1>2 DEF OffloadOnlyIfEnabled, FinishedIsGone, InflightIsRunning, QueueArrived, offloadVars
  <1>4. Working' = Working /\ \A i \in 1 .. Len(batch_infos) : Launched(i)' = Launched(i)
    BY <1>2 DEF Working, Launched
  <1>5. HeldExactlyWhileWorking'
    BY <1>2, <1>4 DEF HeldExactlyWhileWorking, offloadVars
  <1>6. NoOverlap'
    BY <1>2 DEF NoOverlap, Launched
  <1>7. PressureAccurate'
    <2>1. prefill_tokens_in_decode' = SumFunction(inflight_tokens')
      BY <1>2 DEF PressureAccurate, offloadVars
    <2> QED
      BY <1>2, <1>4, <2>1 DEF PressureAccurate, offloadVars
  <1> QED
    BY <1>1, <1>3, <1>5, <1>6, <1>7

\* The new step is the last one, the others keep their place.
LEMMA AppendStep ==
    ASSUME NEW S, NEW q \in Seq(S), NEW e \in S
    PROVE  /\ Len(Append(q, e)) = Len(q) + 1 /\ Len(q) \in Nat
           /\ \A i \in 1 .. Len(q) : Append(q, e)[i] = q[i]
           /\ Append(q, e)[Len(q) + 1] = e
  OBVIOUS

\* What schedule() appends has no request with an unreported chunk: whatever the
\* worker does meanwhile, the new step is disjoint from its work.
LEMMA ScheduleFresh ==
    ASSUME IInv, Schedule
    PROVE  \E step \in StepType :
             /\ batch_infos' = Append(batch_infos, step)
             /\ Handed(step) \cap Working = {}
  <1> USE DEF IInv
  <1>1. PICK preempted \in SUBSET (running \ Held),
             scheduled \in SUBSET ((running \ Held) \cup waiting) :
          \E start \in [scheduled -> StartTokens], num \in [scheduled -> ChunkSizes] :
            ScheduleWith(preempted, scheduled, start, num)
    BY DEF Schedule
  <1>2. PICK start \in [scheduled -> StartTokens], num \in [scheduled -> ChunkSizes] :
          ScheduleWith(preempted, scheduled, start, num)
    BY <1>1
  <1> DEFINE offloaded == OffloadSelection(scheduled, start)
             prefill   == Restrict(num, offloaded)
             step      == Step(scheduled \ offloaded, prefill)
  <1>3. /\ offloaded \subseteq scheduled /\ scheduled \subseteq arrived
        /\ prefill \in [offloaded -> ChunkSizes]
    BY ScheduledSets
  <1>4. batch_infos' = Append(batch_infos, step)
    BY <1>2 DEF ScheduleWith
  <1>5. step \in StepType /\ Handed(step) = scheduled
    <2> HIDE DEF prefill, offloaded
    <2> QED
      BY <1>3 DEF Step, StepType, TypeOK, Handed
  <1>6. scheduled \cap Working = {}
    BY DEF Held, LiveRequests, InflightIsRunning, TypeOK, HeldExactlyWhileWorking
  <1> QED
    BY <1>4, <1>5, <1>6

\* One schedule(): what it schedules has no chunk in the lane, because all that
\* has one is in flight, and all that is in flight was held out.
LEMMA ScheduleIInv ==
    ASSUME IInv, Schedule, UNCHANGED outstanding
    PROVE  IInv'
  <1> USE DEF IInv
  <1>1. PICK preempted \in SUBSET (running \ Held),
             scheduled \in SUBSET ((running \ Held) \cup waiting) :
          \E start \in [scheduled -> StartTokens], num \in [scheduled -> ChunkSizes] :
            ScheduleWith(preempted, scheduled, start, num)
    BY DEF Schedule
  <1>2. PICK start \in [scheduled -> StartTokens], num \in [scheduled -> ChunkSizes] :
          ScheduleWith(preempted, scheduled, start, num)
    BY <1>1
  <1> DEFINE offloaded == OffloadSelection(scheduled, start)
             prefill   == Restrict(num, offloaded)
             step      == Step(scheduled \ offloaded, prefill)
             held      == inflight_req_ids \cup offloaded
             n         == Len(batch_infos)
  <1>3. /\ offloaded \subseteq scheduled /\ scheduled \subseteq arrived
        /\ prefill \in [offloaded -> ChunkSizes]
    BY ScheduledSets
  <1>4. /\ running' = Restored(((running \ Held) \ preempted) \cup scheduled)
        /\ waiting' = (waiting \ scheduled) \cup preempted
        /\ arrived' = arrived /\ finished_req_ids' = {}
        /\ inflight_req_ids' = held \ Stale(held)
        /\ inflight_tokens' = Without(Update(inflight_tokens, prefill), Stale(held))
        /\ prefill_tokens_in_decode' = SumFunction(inflight_tokens')
        /\ batch_infos' = Append(batch_infos, step)
    BY <1>2 DEF ScheduleWith, RefreshPressure
  <1>5. /\ step \in StepType /\ Handed(step) = scheduled
        /\ DOMAIN step.prefill = offloaded /\ step.prefill = prefill
    <2> HIDE DEF prefill, offloaded
    <2> QED
      BY <1>3 DEF Step, StepType, TypeOK, Handed
  <1> HIDE DEF prefill, offloaded, step
  <1>6. /\ Len(batch_infos') = n + 1 /\ n \in Nat
        /\ \A i \in 1 .. n : batch_infos'[i] = batch_infos[i]
        /\ batch_infos'[n + 1] = step
    BY <1>4, <1>5, AppendStep DEF TypeOK
  <1>7. \A r \in scheduled : r \in LiveRequests /\ r \notin inflight_req_ids /\ r \notin Working
    BY DEF Held, LiveRequests, InflightIsRunning, TypeOK, HeldExactlyWhileWorking
  <1>8. LiveRequests' = LiveRequests
    BY <1>4 DEF LiveRequests, Restored, Held
  <1>9. inflight_req_ids' = held \cap LiveRequests
    BY <1>4, <1>7 DEF Stale, FinishedIsGone
  <1>10. /\ \A i \in 1 .. n : Launched(i)' = Launched(i)
         /\ DOMAIN batch_infos'[n + 1].prefill = offloaded
    BY <1>5, <1>6 DEF Launched
  <1>11. Working' = Working \cup offloaded
    <2>1. offloaded \subseteq Requests
      BY <1>3 DEF TypeOK
    <2>2. \A r \in Requests :
            (\E i \in 1 .. n + 1 : r \in DOMAIN batch_infos'[i].prefill) <=>
            (r \in offloaded \/ \E i \in 1 .. n : r \in DOMAIN batch_infos[i].prefill)
      BY <1>6, <1>10
    <2> QED
      BY <2>1, <2>2, <1>6 DEF Working, Launched
  <1>12. TypeOK'
    BY ScheduleType
  <1>13. FinishedIsGone' /\ InflightIsRunning'
    BY <1>3, <1>4, <1>8, <1>9
    DEF FinishedIsGone, InflightIsRunning, Restored, Held
  <1>14. QueueArrived' /\ OffloadOnlyIfEnabled'
    <2>1. continuing_req_ids' \subseteq continuing_req_ids \cup offloaded
      BY <1>2 DEF ScheduleWith, RefreshPressure, offloaded
    <2>2. offloaded = {} \/ OffloadEnabled
      BY DEF offloaded, OffloadSelection
    <2> QED
      BY <1>3, <1>4, <1>5, <1>6, <2>1, <2>2 DEF QueueArrived, OffloadOnlyIfEnabled
  <1>15. HeldExactlyWhileWorking'
    BY <1>8, <1>9, <1>11 DEF HeldExactlyWhileWorking
  <1>16. NoOverlap'
    <2>1. \A i \in 1 .. n : scheduled \cap Launched(i) = {}
      BY <1>3, <1>7 DEF Working, TypeOK
    <2>2. scheduled \cap outstanding = {}
      BY <1>7 DEF Working
    <2> QED
      BY <2>1, <2>2, <1>5, <1>6, <1>10 DEF NoOverlap
  <1>17. PressureAccurate'
    <2> inflight_tokens \in [inflight_req_ids -> ChunkSizes] /\ prefill \in [offloaded -> ChunkSizes]
      BY <1>3 DEF TypeOK
    <2> DEFINE merged == Update(inflight_tokens, prefill)
    <2>1. /\ merged \in [held -> ChunkSizes]
          /\ \A r \in offloaded : merged[r] = prefill[r]
          /\ \A r \in inflight_req_ids \ offloaded : merged[r] = inflight_tokens[r]
      BY DEF Update
    <2> HIDE DEF merged
    <2>2. \A r \in held \ Stale(held) : Without(merged, Stale(held))[r] = merged[r]
      BY <2>1 DEF Without, Restrict
    <2>3. \A r \in held \cap LiveRequests : inflight_tokens'[r] = merged[r]
      BY <1>4, <1>9, <2>2 DEF merged
    <2>4. ASSUME NEW i \in 1 .. n, NEW r \in Launched(i) \cap LiveRequests
          PROVE  inflight_tokens'[r] = batch_infos[i].prefill[r]
      <3>1. r \in Working
        BY <2>4 DEF Working, LiveRequests, TypeOK
      <3>2. r \in inflight_req_ids /\ r \notin offloaded
        BY <2>4, <3>1, <1>3, <1>7 DEF HeldExactlyWhileWorking
      <3> QED
        BY <2>1, <2>3, <2>4, <3>2 DEF PressureAccurate
    <2>5. ASSUME NEW r \in offloaded \cap LiveRequests
          PROVE  inflight_tokens'[r] = step.prefill[r]
      BY <1>5, <2>1, <2>3
    <2>6. \A i \in 1 .. Len(batch_infos') : \A r \in Launched(i)' \cap LiveRequests' :
            inflight_tokens'[r] = batch_infos'[i].prefill[r]
      <3>1. \A i \in 1 .. n : \A r \in Launched(i)' \cap LiveRequests' :
              inflight_tokens'[r] = batch_infos'[i].prefill[r]
        BY <1>6, <1>8, <1>10, <2>4
      <3>2. \A r \in DOMAIN batch_infos'[n + 1].prefill \cap LiveRequests' :
              inflight_tokens'[r] = batch_infos'[n + 1].prefill[r]
        BY <1>6, <1>8, <1>10, <2>5
      <3> QED
        BY <1>6, <3>1, <3>2 DEF Launched
    <2> QED
      BY <1>4, <1>8, <1>9, <2>6 DEF PressureAccurate
  <1> QED
    BY <1>12, <1>13, <1>14, <1>15, <1>16, <1>17

\* One output: exactly the reported requests leave the lane and the in-flight
\* set, and no later step has a chunk of them.
LEMMA DeliverIInv ==
    ASSUME IInv, Deliver
    PROVE  IInv'
  <1> USE DEF IInv
  <1> DEFINE launched == outstanding \cup DOMAIN Head(batch_infos).prefill
             n        == Len(batch_infos)
  <1>1. PICK reported \in SUBSET launched :
          UpdateFromOutput(reported) /\ outstanding' = launched \ reported
    BY DEF Deliver
  <1>2. PICK stopped \in SUBSET (Handed(Head(batch_infos)) \cap LiveRequests) :
          Finish(stopped)
    BY <1>1 DEF UpdateFromOutput
  <1>3. /\ inflight_req_ids' = inflight_req_ids \ reported
        /\ inflight_tokens' = Without(inflight_tokens, reported)
        /\ prefill_tokens_in_decode' =
             IF reported = {} THEN prefill_tokens_in_decode ELSE SumFunction(inflight_tokens')
        /\ arrived' = arrived
        /\ batch_infos' = Tail(batch_infos) /\ batch_infos # <<>>
    BY <1>1 DEF UpdateFromOutput, MarkPrefillFinished
  <1>4. /\ running' = running \ stopped /\ waiting' = waiting \ stopped
        /\ finished_req_ids' = finished_req_ids \cup stopped
        /\ LiveRequests' = LiveRequests \ stopped
    BY <1>2 DEF Finish, LiveRequests
  <1>5. /\ n \in Nat \ {0} /\ Len(batch_infos') = n - 1
        /\ Head(batch_infos) = batch_infos[1]
        /\ \A i \in 1 .. n - 1 : batch_infos'[i] = batch_infos[i + 1]
    BY <1>3, HeadAndTail DEF TypeOK
  <1>6. launched = outstanding \cup Launched(1)
    BY <1>5 DEF Launched
  <1>7. /\ \A i \in 1 .. n - 1 : DOMAIN batch_infos'[i].prefill = Launched(i + 1)
        /\ \A i \in 2 .. n : reported \cap Launched(i) = {}
    <2>1. \A i \in 2 .. n : launched \cap Handed(batch_infos[i]) = {}
      BY <1>5, <1>6 DEF NoOverlap
    <2> QED
      BY <1>5, <2>1 DEF Launched, Handed
  <1>8. \A r \in Requests : r \in Working' <=> r \in Working /\ r \notin reported
    <2>1. ASSUME NEW r \in Requests
          PROVE  (\E i \in 1 .. n - 1 : r \in DOMAIN batch_infos'[i].prefill)
                 <=> (\E i \in 2 .. n : r \in Launched(i))
      <3>1. ASSUME NEW i \in 1 .. n - 1, r \in DOMAIN batch_infos'[i].prefill
            PROVE  \E k \in 2 .. n : r \in Launched(k)
        <4>1. i + 1 \in 2 .. n /\ r \in Launched(i + 1)
          BY <1>5, <1>7, <3>1
        <4> QED
          BY <4>1
      <3>2. ASSUME NEW k \in 2 .. n, r \in Launched(k)
            PROVE  \E i \in 1 .. n - 1 : r \in DOMAIN batch_infos'[i].prefill
        <4>1. k - 1 \in 1 .. n - 1 /\ (k - 1) + 1 = k
          BY <1>5
        <4>2. r \in DOMAIN batch_infos'[k - 1].prefill
          BY <1>7, <3>2, <4>1
        <4> QED
          BY <4>1, <4>2
      <3> QED
        BY <3>1, <3>2
    <2>2. \A r \in Requests : r \in Working' <=>
            r \in outstanding' \/ \E i \in 2 .. n : r \in Launched(i)
      BY <1>5, <2>1 DEF Working, Launched
    <2>3. \A r \in Requests : r \in Working <=>
            r \in launched \/ \E i \in 2 .. n : r \in Launched(i)
      BY <1>5, <1>6 DEF Working
    <2> QED
      BY <1>1, <1>7, <2>2, <2>3
  <1>9. TypeOK'
    BY WorkingArrived, DeliverType
  <1>10. FinishedIsGone' /\ InflightIsRunning'
    BY <1>2, <1>3, <1>4 DEF FinishedIsGone, InflightIsRunning
  <1>11. QueueArrived' /\ OffloadOnlyIfEnabled'
    BY <1>1, <1>3, <1>5
    DEF QueueArrived, OffloadOnlyIfEnabled, UpdateFromOutput, MarkPrefillFinished
  <1>12. HeldExactlyWhileWorking'
    BY <1>3, <1>4, <1>8 DEF HeldExactlyWhileWorking, TypeOK, LiveRequests
  <1>13. NoOverlap'
    <2>1. ASSUME NEW j \in 1 .. n - 1
          PROVE  Handed(batch_infos'[j]) \cap outstanding' = {}
      BY <1>1, <1>5, <1>6, <2>1 DEF NoOverlap
    <2>2. ASSUME NEW j \in 1 .. n - 1, NEW i \in 1 .. j - 1
          PROVE  Handed(batch_infos'[j]) \cap DOMAIN batch_infos'[i].prefill = {}
      <3>1. i + 1 \in 1 .. (j + 1) - 1 /\ j + 1 \in 1 .. n /\ i \in 1 .. n - 1
        BY <1>5
      <3> QED
        BY <1>5, <1>7, <3>1 DEF NoOverlap
    <2> QED
      BY <1>5, <2>1, <2>2 DEF NoOverlap, Launched
  <1>14. PressureAccurate'
    <2>1. inflight_tokens' = inflight_tokens \/ reported # {}
      BY <1>3 DEF TypeOK, Without, Restrict
    <2>2. prefill_tokens_in_decode' = SumFunction(inflight_tokens')
      BY <1>3, <2>1 DEF PressureAccurate
    <2>3. ASSUME NEW i \in 1 .. n - 1, NEW r \in DOMAIN batch_infos'[i].prefill \cap LiveRequests'
          PROVE  inflight_tokens'[r] = batch_infos'[i].prefill[r]
      <3>1. /\ i + 1 \in 2 .. n /\ r \in Launched(i + 1) /\ r \notin reported
            /\ r \in LiveRequests
        BY <1>4, <1>5, <1>7
      <3>2. r \in inflight_req_ids
        BY <1>5, <3>1 DEF HeldExactlyWhileWorking, Working, LiveRequests, TypeOK
      <3>3. inflight_tokens'[r] = inflight_tokens[r]
        BY <1>3, <3>1, <3>2 DEF TypeOK, Without, Restrict
      <3> QED
        BY <1>5, <3>1, <3>3 DEF PressureAccurate
    <2>4. inflight_req_ids' \ LiveRequests' \subseteq finished_req_ids'
      BY <1>2, <1>3, <1>4 DEF PressureAccurate
    <2> QED
      BY <1>5, <2>2, <2>3, <2>4 DEF PressureAccurate, Launched
  <1> QED
    BY <1>9, <1>10, <1>11, <1>12, <1>13, <1>14

\* A step that changes nothing keeps the inductive invariant.
LEMMA StutterIInv == IInv /\ UNCHANGED vars => IInv'
  <1> SUFFICES ASSUME IInv, UNCHANGED vars PROVE IInv'
    OBVIOUS
  <1> USE DEF vars, schedulerVars, baseVars, offloadVars
  <1>1. TypeOK'
    BY DEF IInv, TypeOK
  <1>2. FinishedIsGone' /\ InflightIsRunning' /\ QueueArrived' /\ OffloadOnlyIfEnabled'
    BY DEF IInv, OffloadOnlyIfEnabled, FinishedIsGone, InflightIsRunning, QueueArrived, LiveRequests
  <1>3. HeldExactlyWhileWorking' /\ NoOverlap' /\ PressureAccurate'
    BY DEF IInv, HeldExactlyWhileWorking, NoOverlap, PressureAccurate, LiveRequests,
           Working, Launched
  <1> QED
    BY <1>1, <1>2, <1>3 DEF IInv

\* Every step keeps the inductive invariant.
LEMMA StepIInv == IInv /\ [Next]_vars => IInv'
  <1> SUFFICES ASSUME IInv, [Next]_vars PROVE IInv'
    OBVIOUS
  <1>1. CASE \E r \in Requests : AddRequest(r) /\ UNCHANGED outstanding
    BY <1>1, AddRequestIInv
  <1>2. CASE \E r \in Requests : AbortRequest(r) /\ UNCHANGED outstanding
    BY <1>2, AbortRequestIInv
  <1>3. CASE Schedule /\ UNCHANGED outstanding
    BY <1>3, ScheduleIInv
  <1>4. CASE Deliver
    BY <1>4, DeliverIInv
  <1>5. CASE UNCHANGED vars
    BY <1>5, StutterIInv
  <1> QED
    BY <1>1, <1>2, <1>3, <1>4, <1>5 DEF Next

\* The inductive invariant holds in every reachable state.
THEOREM Invariance == Spec => []IInv
  BY InitIInv, StepIInv, PTL DEF Spec

-------------------------------------------------------------------------------
(* The theorems *)

\* The scheduler's state is well typed.
THEOREM TypeCorrect == Spec => []TypeOK
  BY Invariance, PTL DEF IInv

\* A live request is held exactly as long as the worker has a chunk of it.
THEOREM HoldIsExact == Spec => []HeldExactlyWhileWorking
  BY Invariance, PTL DEF IInv

\* No step computes a request beside an unreported chunk of it.
THEOREM LanesNeverOverlap == Spec => []NoOverlap
  BY Invariance, PTL DEF IInv

\* The published pressure is the sum of the tokens in flight, and forgets
\* vanished requests with the next schedule().
THEOREM PressureIsAccurate == Spec => []PressureAccurate
  BY Invariance, PTL DEF IInv

-------------------------------------------------------------------------------
(* The action properties *)

\* One step takes a held request out of the batch only by finishing it.
LEMMA HeldStep ==
    ASSUME IInv, Next
    PROVE  \A r \in running \cap inflight_req_ids : r \in running' \/ r \in finished_req_ids'
  <1>1. CASE \E r \in Requests : AddRequest(r) /\ UNCHANGED outstanding
    BY <1>1 DEF AddRequest
  <1>2. CASE \E r \in Requests : AbortRequest(r) /\ UNCHANGED outstanding
    BY <1>2 DEF AbortRequest, Finish, LiveRequests, IInv, TypeOK
  <1>3. CASE Schedule /\ UNCHANGED outstanding
    <2>1. PICK preempted, scheduled, start, num : ScheduleWith(preempted, scheduled, start, num)
      BY <1>3 DEF Schedule
    <2> QED
      BY <2>1 DEF ScheduleWith, Restored, Held, LiveRequests
  <1>4. CASE Deliver
    <2>1. PICK stopped : Finish(stopped)
      BY <1>4 DEF Deliver, UpdateFromOutput
    <2> QED
      BY <2>1 DEF Finish, LiveRequests, IInv, TypeOK
  <1> QED
    BY <1>1, <1>2, <1>3, <1>4 DEF Next

\* A held request is neither preempted nor lost from the batch.
THEOREM HeldRequestsStay == Spec => HeldStaysRunning
  <1>1. IInv /\ [Next]_vars =>
          [\A r \in running \cap inflight_req_ids : r \in running' \/ r \in finished_req_ids']_vars
    BY HeldStep
  <1> QED
    BY <1>1, Invariance, PTL DEF Spec, HeldStaysRunning

\* LaneAffinity for one step.
LaneStep ==
    \A r \in continuing_req_ids \cap LiveRequests' :
      /\ num_computed_tokens'[r] < NumPromptTokens[r] => r \in continuing_req_ids'
      /\ num_computed_tokens'[r] > num_computed_tokens[r] => r \in inflight_req_ids'

\* Every step keeps a continuing request in the prefill lane.
LEMMA LaneKept ==
    ASSUME IInv, Next
    PROVE  LaneStep
  <1> USE DEF LaneStep, IInv
  <1>1. CASE \E r \in Requests : AddRequest(r) /\ UNCHANGED outstanding
    BY <1>1 DEF AddRequest, offloadVars, TypeOK
  <1>2. CASE \E r \in Requests : AbortRequest(r) /\ UNCHANGED outstanding
    BY <1>2 DEF AbortRequest, offloadVars, TypeOK
  <1>3. CASE Schedule /\ UNCHANGED outstanding
    <2>1. PICK preempted \in SUBSET (running \ Held),
               scheduled \in SUBSET ((running \ Held) \cup waiting) :
            \E start \in [scheduled -> StartTokens], num \in [scheduled -> ChunkSizes] :
              ScheduleWith(preempted, scheduled, start, num)
      BY <1>3 DEF Schedule
    <2>2. PICK start \in [scheduled -> StartTokens], num \in [scheduled -> ChunkSizes] :
            ScheduleWith(preempted, scheduled, start, num)
      BY <2>1
    <2> DEFINE offloaded == OffloadSelection(scheduled, start)
    <2>3. /\ continuing_req_ids' = (continuing_req_ids \cup offloaded)
                                     \cap (LiveRequests \ finished_req_ids)
          /\ inflight_req_ids' = (inflight_req_ids \cup offloaded)
                                   \ Stale(inflight_req_ids \cup offloaded)
          /\ running' = Restored(((running \ Held) \ preempted) \cup scheduled)
          /\ waiting' = (waiting \ scheduled) \cup preempted
          /\ num_computed_tokens' = [r \in Requests |->
                IF r \in preempted THEN 0
                ELSE IF r \notin scheduled THEN num_computed_tokens[r]
                ELSE IF Remaining(r, start[r]) = 0 THEN start[r]
                ELSE start[r] + num[r]]
      BY <2>2 DEF ScheduleWith, RefreshPressure
    <2>4. LiveRequests' = LiveRequests
      BY <2>3 DEF LiveRequests, Restored, Held
    <2> SUFFICES ASSUME NEW r \in continuing_req_ids \cap LiveRequests
                 PROVE  /\ r \in continuing_req_ids'
                        /\ num_computed_tokens'[r] > num_computed_tokens[r]
                             => r \in inflight_req_ids'
      BY <2>4
    <2>5. r \in continuing_req_ids'
      BY <2>3 DEF FinishedIsGone
    <2>6. ASSUME num_computed_tokens'[r] > num_computed_tokens[r]
          PROVE  r \in offloaded
      <3>1. r \in Requests /\ num_computed_tokens[r] \in Nat
        BY DEF TypeOK, LiveRequests
      <3>2. r \in scheduled
        BY <2>3, <2>6, <3>1
      <3>3. Remaining(r, start[r]) # 0
        <4>1. CASE r \in waiting
          <5>1. start[r] \in CachedPrefixes /\ start[r] < NumPromptTokens[r]
            BY <2>2, <3>2, <4>1 DEF ScheduleWith, BaseOutput
          <5>2. start[r] \in Nat /\ NumPromptTokens[r] \in Nat
            BY <5>1, <3>1, SchedulerAssumption
          <5>3. NumPromptTokens[r] - start[r] # 0
            BY <5>1, <5>2
          <5> QED
            BY <5>1, <5>3 DEF Remaining
        <4>2. CASE r \notin waiting
          BY <2>2, <2>3, <2>6, <3>1, <3>2, <4>2 DEF ScheduleWith, BaseOutput
        <4> QED
          BY <4>1, <4>2
      <3>4. Remaining(r, start[r]) > 0
        <4>1. start[r] \in Nat
          BY <3>2, ScheduledSets
        <4> QED
          BY <3>1, <3>3, <4>1, SchedulerAssumption DEF Remaining
      <3>5. OffloadEnabled
        BY DEF OffloadOnlyIfEnabled
      <3> QED
        BY <3>2, <3>4, <3>5 DEF OffloadSelection
    <2>7. r \in offloaded => r \in inflight_req_ids'
      BY <2>3 DEF Stale, FinishedIsGone
    <2> QED
      BY <2>5, <2>6, <2>7
  <1>4. CASE Deliver
    <2>1. PICK reported : UpdateFromOutput(reported)
      BY <1>4 DEF Deliver
    <2>2. LiveRequests' \subseteq LiveRequests
      BY <2>1 DEF UpdateFromOutput, Finish, LiveRequests
    <2>3. /\ continuing_req_ids' = continuing_req_ids \ PromptDone(reported)
          /\ num_computed_tokens' = num_computed_tokens
      BY <2>1 DEF UpdateFromOutput, MarkPrefillFinished
    <2> SUFFICES ASSUME NEW r \in continuing_req_ids \cap LiveRequests'
                 PROVE  num_computed_tokens[r] < NumPromptTokens[r] => r \notin PromptDone(reported)
      BY <2>3 DEF TypeOK
    <2>4. r \in Requests /\ num_computed_tokens[r] \in Nat /\ NumPromptTokens[r] \in Nat
      BY <2>2, SchedulerAssumption DEF TypeOK, LiveRequests
    <2> QED
      BY <2>2, <2>4 DEF PromptDone
  <1> QED
    BY <1>1, <1>2, <1>3, <1>4 DEF Next

\* Prompt tokens of a continuing request are computed in the prefill lane only,
\* until its prompt is done.
THEOREM LaneIsSticky == Spec => LaneAffinity
  <1>1. IInv /\ [Next]_vars => [LaneStep]_vars
    BY LaneKept
  <1> QED
    BY <1>1, Invariance, PTL DEF Spec, LaneAffinity, LaneStep

===============================================================================
