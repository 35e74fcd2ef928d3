-------------------------- MODULE AsyncOffload_proofs --------------------------
(***************************************************************************)
(* The scheduler with the two lanes implements OffloadProtocol, for every  *)
(* set of requests, prompt length, threshold, chunk size, queue depth and  *)
(* fence mode; so what OffloadProtocol_proofs proves of the protocol holds *)
(* with the worker as it is.                                               *)
(***************************************************************************)
EXTENDS AsyncOffload, WellFoundedInduction, TLAPS

P == INSTANCE OffloadProtocol_proofs WITH outstanding <- Outstanding

-------------------------------------------------------------------------------
(* The protocol's operations are the scheduler's *)

\* The assumption on the constants, as the instance has it.
LEMMA FiniteRequests == P!IsFiniteSet(Requests)
  BY SchedulerAssumption DEF P!IsFiniteSet, IsFiniteSet

\* schedule() means the same in the protocol and in the composition.
LEMMA SameSchedule == (P!Schedule <=> Schedule) /\ (Protocol!Schedule <=> Schedule)
  <1>1. P!Schedule <=> Schedule
    BY DEF P!Schedule, Schedule, P!HasRequests, HasRequests, P!LiveRequests, LiveRequests,
       P!Held, Held, P!StartTokens, StartTokens, P!ChunkSizes, ChunkSizes, P!ChunkLimit,
       ChunkLimit, P!ScheduleWith, ScheduleWith, P!BaseOutput, BaseOutput, P!Remaining,
       Remaining, P!OffloadSelection, OffloadSelection, P!Restored, Restored,
       P!RefreshPressure, RefreshPressure, P!Stale, Stale, P!Without, Without, P!Update,
       Update, P!Step, Step, P!SumFunction, SumFunction, P!SumFunctionOnSet,
       SumFunctionOnSet, P!FoldFunctionOnSet, FoldFunctionOnSet, P!MapThenFoldSet,
       MapThenFoldSet, P!Max, Max, P!Restrict, Restrict, P!Cardinality, Cardinality
  <1>2. Protocol!Schedule <=> Schedule
    BY DEF Protocol!Schedule, Schedule, Protocol!HasRequests, HasRequests,
       Protocol!LiveRequests, LiveRequests, Protocol!Held, Held, Protocol!StartTokens,
       StartTokens, Protocol!ChunkSizes, ChunkSizes, Protocol!ChunkLimit, ChunkLimit,
       Protocol!ScheduleWith, ScheduleWith, Protocol!BaseOutput, BaseOutput,
       Protocol!Remaining, Remaining, Protocol!OffloadSelection, OffloadSelection,
       Protocol!Restored, Restored, Protocol!RefreshPressure, RefreshPressure,
       Protocol!Stale, Stale, Protocol!Without, Without, Protocol!Update, Update,
       Protocol!Step, Step, Protocol!SumFunction, SumFunction, Protocol!SumFunctionOnSet,
       SumFunctionOnSet, Protocol!FoldFunctionOnSet, FoldFunctionOnSet,
       Protocol!MapThenFoldSet, MapThenFoldSet, Protocol!Max, Max, Protocol!Restrict,
       Restrict, Protocol!Cardinality, Cardinality
  <1> QED
    BY <1>1, <1>2

\* So does update_from_output().
LEMMA SameUpdate ==
    ASSUME NEW R
    PROVE  /\ P!UpdateFromOutput(R) <=> UpdateFromOutput(R)
           /\ Protocol!UpdateFromOutput(R) <=> UpdateFromOutput(R)
  <1>1. P!UpdateFromOutput(R) <=> UpdateFromOutput(R)
    BY DEF P!UpdateFromOutput, UpdateFromOutput, P!MarkPrefillFinished,
       MarkPrefillFinished, P!PromptDone, PromptDone, P!Handed, Handed, P!LiveRequests,
       LiveRequests, P!Finish, Finish, P!Without, Without, P!Restrict, Restrict,
       P!SumFunction, SumFunction, P!SumFunctionOnSet, SumFunctionOnSet,
       P!FoldFunctionOnSet, FoldFunctionOnSet, P!MapThenFoldSet, MapThenFoldSet
  <1>2. Protocol!UpdateFromOutput(R) <=> UpdateFromOutput(R)
    BY DEF Protocol!UpdateFromOutput, UpdateFromOutput, Protocol!MarkPrefillFinished,
       MarkPrefillFinished, Protocol!PromptDone, PromptDone, Protocol!Handed, Handed,
       Protocol!LiveRequests, LiveRequests, Protocol!Finish, Finish, Protocol!Without,
       Without, Protocol!Restrict, Restrict, Protocol!SumFunction, SumFunction,
       Protocol!SumFunctionOnSet, SumFunctionOnSet, Protocol!FoldFunctionOnSet,
       FoldFunctionOnSet, Protocol!MapThenFoldSet, MapThenFoldSet
  <1> QED
    BY <1>1, <1>2

\* A client adds and aborts alike.
LEMMA SameClient ==
    ASSUME NEW r
    PROVE  /\ P!AddRequest(r) <=> AddRequest(r)
           /\ Protocol!AddRequest(r) <=> AddRequest(r)
           /\ P!AbortRequest(r) <=> AbortRequest(r)
           /\ Protocol!AbortRequest(r) <=> AbortRequest(r)
  BY DEF P!AddRequest, AddRequest, Protocol!AddRequest, P!AbortRequest, AbortRequest,
     Protocol!AbortRequest, P!Finish, Finish, Protocol!Finish, P!LiveRequests, LiveRequests,
     Protocol!LiveRequests, P!offloadVars, offloadVars, Protocol!offloadVars

\* The two instances of the protocol have the same steps.
LEMMA SameNext == [P!Next]_(P!vars) <=> [Protocol!Next]_(Protocol!vars)
  <1>1. P!Deliver <=> Protocol!Deliver
    BY SameUpdate DEF P!Deliver, Protocol!Deliver
  <1>2. (UNCHANGED P!vars) <=> (UNCHANGED Protocol!vars)
    BY DEF P!vars, Protocol!vars, P!schedulerVars, Protocol!schedulerVars, P!baseVars,
       Protocol!baseVars, P!offloadVars, Protocol!offloadVars
  <1>3. P!Next <=> Protocol!Next
    BY <1>1, SameClient, SameSchedule DEF P!Next, Protocol!Next
  <1> QED
    BY <1>2, <1>3

-------------------------------------------------------------------------------
(* Queues of outputs *)

\* A bounded non-empty set of numbers has a greatest one.
LEMMA Greatest ==
    ASSUME NEW n \in Nat, NEW S \in SUBSET (0 .. n), S # {}
    PROVE  Max(S) \in S /\ \A y \in S : Max(S) >= y
  <1> DEFINE T == {n - y : y \in S}
  <1>1. \A y \in S : y \in Nat /\ n - y \in Nat /\ n - y \in T
    OBVIOUS
  <1>2. T \subseteq Nat /\ T # {}
    BY <1>1
  <1>3. \E x \in T : \A y \in T : ~(<<y, x>> \in OpToRel(<, Nat))
    <2> HIDE DEF T
    <2> QED
      BY <1>2, NatLessThanWellFounded, WFMin, Zenon
  <1>4. PICK x \in T : \A y \in T : ~(y < x)
    BY <1>2, <1>3 DEF OpToRel
  <1>5. PICK m \in S : x = n - m
    OBVIOUS
  <1>6. ASSUME NEW y \in S
        PROVE  m >= y
    <2>1. ~(n - y < n - m)
      BY <1>1, <1>4, <1>5
    <2>2. y \in Nat /\ m \in Nat
      BY <1>1, <1>5, <1>6
    <2> QED
      BY <2>1, <2>2
  <1> QED
    BY <1>6 DEF Max

\* A non-blocking take pops outputs whose copies are finished, and no others.
LEMMA TakenAreReady ==
    ASSUME NEW q \in Seq(OutputType)
    PROVE  /\ Taken(q, FALSE) \in 0 .. Len(q)
           /\ \A i \in 1 .. Taken(q, FALSE) : q[i].copied
  <1> DEFINE S == {n \in 0 .. Len(q) : \A i \in 1 .. n : Ready(q[i])}
  <1>1. S \in SUBSET (0 .. Len(q)) /\ 0 \in S
    OBVIOUS
  <1>2. Max(S) \in S
    <2> HIDE DEF S
    <2> QED
      BY <1>1, Greatest, Len(q) \in Nat
  <1>3. Taken(q, FALSE) = IF q = <<>> THEN 0 ELSE Max(S)
    BY DEF Taken, ReadyPrefix
  <1>4. Taken(q, FALSE) \in S
    <2> HIDE DEF S
    <2> QED
      BY <1>1, <1>2, <1>3
  <1> QED
    BY <1>4 DEF Ready

\* The two parts of a queue that is cut after n outputs.
LEMMA CutQueue ==
    ASSUME NEW T, NEW q \in Seq(T), NEW n \in 0 .. Len(q)
    PROVE  /\ SubSeq(q, 1, n) \in Seq(T) /\ Len(SubSeq(q, 1, n)) = n
           /\ \A i \in 1 .. n : SubSeq(q, 1, n)[i] = q[i]
           /\ Left(q, n) \in Seq(T) /\ Len(Left(q, n)) = Len(q) - n
           /\ \A i \in 1 .. Len(q) - n : Left(q, n)[i] = q[n + i]
           /\ n \in Nat /\ Len(q) \in Nat
  BY DEF Left

\* Two takes in a row pop one prefix of the queue.
LEMMA TwoTakes ==
    ASSUME NEW q \in Seq(OutputType)
    PROVE  LET n1 == Taken(q, FALSE)
               n  == n1 + Taken(Left(q, n1), FALSE)
           IN  n \in 0 .. Len(q) /\ \A i \in 1 .. n : q[i].copied
  <1> DEFINE n1 == Taken(q, FALSE)
             n2 == Taken(Left(q, n1), FALSE)
  <1>1. n1 \in 0 .. Len(q) /\ \A i \in 1 .. n1 : q[i].copied
    BY TakenAreReady
  <1> HIDE DEF n1
  <1>2. /\ Left(q, n1) \in Seq(OutputType) /\ Len(Left(q, n1)) = Len(q) - n1
        /\ \A i \in 1 .. Len(q) - n1 : Left(q, n1)[i] = q[n1 + i]
        /\ n1 \in Nat /\ Len(q) \in Nat
    BY <1>1, CutQueue
  <1>3. n2 \in 0 .. Len(Left(q, n1)) /\ \A i \in 1 .. n2 : Left(q, n1)[i].copied
    BY <1>2, TakenAreReady
  <1> HIDE DEF n2
  <1>4. n1 + n2 \in 0 .. Len(q)
    BY <1>1, <1>2, <1>3
  <1>5. ASSUME NEW i \in 1 .. n1 + n2, ~(i <= n1)
        PROVE  q[i].copied
    <2>1. i - n1 \in 1 .. n2 /\ i - n1 \in 1 .. Len(q) - n1 /\ n1 + (i - n1) = i
      BY <1>2, <1>3, <1>5
    <2> QED
      BY <1>2, <1>3, <2>1
  <1>6. \A i \in 1 .. n1 + n2 : q[i].copied
    <2> SUFFICES ASSUME NEW i \in 1 .. n1 + n2 PROVE q[i].copied
      OBVIOUS
    <2>1. CASE i <= n1
      BY <1>1, <1>2, <1>3, <2>1
    <2> QED
      BY <1>5, <2>1
  <1> QED
    BY <1>4, <1>6 DEF n1, n2

-------------------------------------------------------------------------------
(* What the protocol says of the queue of steps *)

\* Steps are well formed, none has a request beside a chunk that an earlier step
\* launched or that is outstanding.
LEMMA QueueFacts ==
    ASSUME P!IInv
    PROVE  /\ batch_infos \in Seq(P!StepType)
           /\ \A j \in 1 .. Len(batch_infos) :
                /\ batch_infos[j].decode \subseteq Requests /\ Launches(j) \subseteq Requests
                /\ Launches(j) \cap Outstanding = {}
                /\ \A i \in 1 .. j - 1 : Launches(j) \cap Launches(i) = {}
  <1>1. batch_infos \in Seq(P!StepType)
    BY DEF P!IInv, P!TypeOK
  <1>2. \A j \in 1 .. Len(batch_infos) :
          batch_infos[j].decode \subseteq Requests /\ Launches(j) \subseteq Requests
    <2> SUFFICES ASSUME NEW j \in 1 .. Len(batch_infos)
                 PROVE  batch_infos[j].decode \subseteq Requests /\ Launches(j) \subseteq Requests
      OBVIOUS
    <2>1. batch_infos[j] \in P!StepType
      BY <1>1
    <2>2. PICK S \in SUBSET Requests : batch_infos[j].prefill \in [S -> P!ChunkSizes]
      BY <2>1 DEF P!StepType
    <2>3. Launches(j) = S
      BY <2>2 DEF Launches
    <2> QED
      BY <2>1, <2>3 DEF P!StepType
  <1>3. \A j \in 1 .. Len(batch_infos) :
          /\ Launches(j) \cap Outstanding = {}
          /\ \A i \in 1 .. j - 1 : Launches(j) \cap Launches(i) = {}
    BY DEF P!IInv, P!NoOverlap, P!Handed, P!Launched, Launches
  <1> QED
    BY <1>1, <1>2, <1>3

\* What is at the worker counts as working for the protocol.
LEMMA AtWorkerIsWorking ==
    ASSUME P!IInv, AtWorker \subseteq Requests
    PROVE  AtWorker \subseteq P!Working
  <1>1. DOMAIN batch_infos = 1 .. Len(batch_infos)
    BY QueueFacts
  <1> QED
    BY <1>1 DEF P!Working, P!Launched, Outstanding, Launches

-------------------------------------------------------------------------------
(* Steps that move no chunk *)

\* An element of a sequence.
LEMMA ElementOf ==
    ASSUME NEW T, NEW q \in Seq(T), NEW i \in DOMAIN q
    PROVE  q[i] \in T
  OBVIOUS

\* Membership in AtWorker, without the unions.
LEMMA AtWorkerHas ==
    ASSUME NEW x
    PROVE  x \in AtWorker <=> \/ \E i \in DOMAIN pending : x \in pending[i].reqs
                              \/ \E k \in DOMAIN results : x \in FinishedPrefillReqs(results[k])
  <1> DEFINE queued == UNION {pending[i].reqs : i \in DOMAIN pending}
             taken  == UNION {FinishedPrefillReqs(results[k]) : k \in DOMAIN results}
  <1>1. x \in queued <=> \E i \in DOMAIN pending : x \in pending[i].reqs
    OBVIOUS
  <1>2. x \in taken <=> \E k \in DOMAIN results : x \in FinishedPrefillReqs(results[k])
    OBVIOUS
  <1>3. AtWorker = queued \cup taken
    BY DEF AtWorker
  <1> HIDE DEF queued, taken
  <1> QED
    BY <1>1, <1>2, <1>3

\* Requests at the worker are requests.
LEMMA AtWorkerType == LanesTypeOK => AtWorker \subseteq Requests
  <1> SUFFICES ASSUME LanesTypeOK, NEW x \in AtWorker PROVE x \in Requests
    OBVIOUS
  <1>1. CASE \E i \in DOMAIN pending : x \in pending[i].reqs
    <2>1. PICK i \in DOMAIN pending : x \in pending[i].reqs
      BY <1>1
    <2>2. pending[i] \in OutputType
      BY <2>1, ElementOf DEF LanesTypeOK
    <2> QED
      BY <2>1, <2>2 DEF OutputType
  <1>2. CASE \E k \in DOMAIN results : x \in FinishedPrefillReqs(results[k])
    <2>1. PICK k \in DOMAIN results : x \in FinishedPrefillReqs(results[k])
      BY <1>2
    <2>2. results[k].prefills \in Seq(OutputType)
      <3>1. results[k] \in [decode : OutputType, prefills : Seq(OutputType)]
        BY <2>1, ElementOf DEF LanesTypeOK
      <3> QED
        BY <3>1
    <2>3. PICK i \in DOMAIN results[k].prefills : x \in results[k].prefills[i].reqs
      BY <2>1 DEF FinishedPrefillReqs
    <2>4. results[k].prefills[i] \in OutputType
      BY <2>2, <2>3, ElementOf
    <2> QED
      BY <2>3, <2>4 DEF OutputType
  <1> QED
    BY <1>1, <1>2, AtWorkerHas

\* The events of the device and of the clients change neither the requests of an
\* output nor its place.
LEMMA NothingMoves ==
    ASSUME LanesInv,
           UNCHANGED <<batch_infos, lane_decode, lane_prefill, decode_immediate>>,
           pending' \in Seq(OutputType), Len(pending') = Len(pending),
           \A i \in DOMAIN pending : pending'[i].reqs = pending[i].reqs,
           results' \in Seq([decode : OutputType, prefills : Seq(OutputType)]),
           Len(results') = Len(results),
           \A k \in DOMAIN results :
              /\ results'[k].decode.reqs = results[k].decode.reqs
              /\ results'[k].prefills = results[k].prefills
    PROVE  LanesInv' /\ Outstanding' = Outstanding
  <1> USE DEF LanesInv
  <1>1. DOMAIN pending' = DOMAIN pending /\ DOMAIN results' = DOMAIN results
    BY DEF LanesTypeOK
  <1>2. \A k \in DOMAIN results :
          FinishedPrefillReqs(results'[k]) = FinishedPrefillReqs(results[k])
    BY DEF FinishedPrefillReqs
  <1>3. AtWorker' = AtWorker
    BY <1>1, <1>2 DEF AtWorker
  <1>4. LanesTypeOK' /\ LanesRunStep'
    <2>1. LanesTypeOK'
      BY DEF LanesTypeOK
    <2>2. LanesRunStep'
      BY DEF LanesRunStep, WorkerIdle, Launches
    <2> QED
      BY <2>1, <2>2
  <1>5. PlacesApart' /\ NotAhead'
    BY <1>1, <1>2 DEF PlacesApart, NotAhead, Launches
  <1>6. LaunchedAtWorker' /\ ResultMatchesStep' /\ PrefillReadAfterCopy'
    BY <1>1, <1>3 DEF LaunchedAtWorker, ResultMatchesStep, PrefillReadAfterCopy, Launches
  <1>7. Outstanding' = Outstanding
    BY <1>3 DEF Outstanding, Launches
  <1> QED
    BY <1>4, <1>5, <1>6, <1>7

\* The case in which the lanes and the queue are left alone.
LEMMA LanesAlone ==
    ASSUME LanesInv, UNCHANGED <<laneVars, batch_infos>>
    PROVE  LanesInv' /\ Outstanding' = Outstanding
  BY NothingMoves DEF laneVars, LanesInv, LanesTypeOK

\* An element of a sequence is replaced.
LEMMA ReplaceAt ==
    ASSUME NEW T, NEW q \in Seq(T), NEW i \in DOMAIN q, NEW e \in T
    PROVE  /\ [q EXCEPT ![i] = e] \in Seq(T) /\ Len([q EXCEPT ![i] = e]) = Len(q)
           /\ [q EXCEPT ![i] = e][i] = e
           /\ \A k \in DOMAIN q : k # i => [q EXCEPT ![i] = e][k] = q[k]
  OBVIOUS

\* An event fires: the output keeps its requests.
LEMMA EventFires ==
    ASSUME NEW o \in OutputType
    PROVE  /\ [o EXCEPT !.snapshot = TRUE] \in OutputType
           /\ [o EXCEPT !.copied = TRUE] \in OutputType
           /\ [o EXCEPT !.snapshot = TRUE].reqs = o.reqs
           /\ [o EXCEPT !.copied = TRUE].reqs = o.reqs
  BY DEF OutputType

\* The streams of the device finish outputs in their places.
LEMMA DeviceMovesNothing ==
    ASSUME LanesInv,
           DeviceComputesPrefill \/ DeviceCopiesPrefill
           \/ DeviceComputesDecode \/ DeviceCopiesDecode
    PROVE  LanesInv' /\ Outstanding' = Outstanding /\ UNCHANGED schedulerVars
  <1> USE DEF schedulerAndLanes, schedulerVars
  <1>1. pending \in Seq(OutputType)
        /\ results \in Seq([decode : OutputType, prefills : Seq(OutputType)])
    BY DEF LanesInv, LanesTypeOK
  <1>2. CASE DeviceComputesPrefill \/ DeviceCopiesPrefill
    <2>1. PICK i \in DOMAIN pending : ComputePrefill(i) \/ CopyPrefill(i)
      BY <1>2 DEF DeviceComputesPrefill, DeviceCopiesPrefill
    <2>2. UNCHANGED <<schedulerVars, lane_decode, lane_prefill, decode_immediate, results>>
      BY <1>2, <2>1 DEF DeviceComputesPrefill, DeviceCopiesPrefill, ComputePrefill, CopyPrefill
    <2>3. PICK e \in {[pending[i] EXCEPT !.snapshot = TRUE], [pending[i] EXCEPT !.copied = TRUE]} :
            pending' = [pending EXCEPT ![i] = e]
      BY <2>1 DEF ComputePrefill, CopyPrefill
    <2>5. e \in OutputType /\ e.reqs = pending[i].reqs
      <3>1. pending[i] \in OutputType
        BY <1>1, <2>1, ElementOf
      <3> QED
        BY <2>3, <3>1, EventFires
    <2>4. /\ pending' \in Seq(OutputType) /\ Len(pending') = Len(pending)
          /\ \A k \in DOMAIN pending : pending'[k].reqs = pending[k].reqs
      BY <1>1, <2>1, <2>3, <2>5, ReplaceAt
    <2> QED
      BY <1>1, <2>2, <2>4, NothingMoves
  <1>3. CASE DeviceComputesDecode \/ DeviceCopiesDecode
    <2>1. PICK i \in DOMAIN results : ComputeDecode(i) \/ CopyDecode(i)
      BY <1>3 DEF DeviceComputesDecode, DeviceCopiesDecode
    <2>2. UNCHANGED <<schedulerVars, lane_decode, lane_prefill, decode_immediate, pending>>
      BY <1>3, <2>1 DEF DeviceComputesDecode, DeviceCopiesDecode, ComputeDecode, CopyDecode
    <2> DEFINE ResultType == [decode : OutputType, prefills : Seq(OutputType)]
               decode == results[i].decode
    <2>3. PICK d \in {[decode EXCEPT !.snapshot = TRUE], [decode EXCEPT !.copied = TRUE]} :
            results' = [results EXCEPT ![i] = [results[i] EXCEPT !.decode = d]]
      BY <2>1 DEF ComputeDecode, CopyDecode
    <2>7. results[i] \in ResultType
      BY <1>1, <2>1, ElementOf
    <2>5. d \in OutputType /\ d.reqs = decode.reqs
      <3>1. decode \in OutputType
        BY <2>7
      <3> QED
        BY <2>3, <3>1, EventFires
    <2>6. /\ [results[i] EXCEPT !.decode = d] \in ResultType
          /\ [results[i] EXCEPT !.decode = d].decode = d
          /\ [results[i] EXCEPT !.decode = d].prefills = results[i].prefills
      BY <2>5, <2>7
    <2>4. /\ results' \in Seq([decode : OutputType, prefills : Seq(OutputType)])
          /\ Len(results') = Len(results)
          /\ \A k \in DOMAIN results :
               /\ results'[k].decode.reqs = results[k].decode.reqs
               /\ results'[k].prefills = results[k].prefills
      BY <1>1, <2>1, <2>3, <2>5, <2>6, ReplaceAt
    <2> QED
      BY <1>1, <2>2, <2>4, NothingMoves
  <1> QED
    BY <1>2, <1>3

-------------------------------------------------------------------------------
(* Steps of the worker *)

\* The unions in AtWorker, for any queue and any list of results.
LEMMA PlacesHave ==
    ASSUME NEW p, NEW r, NEW x
    PROVE  x \in (UNION {p[i].reqs : i \in DOMAIN p})
                 \cup (UNION {FinishedPrefillReqs(r[k]) : k \in DOMAIN r})
           <=> \/ \E i \in DOMAIN p : x \in p[i].reqs
               \/ \E k \in DOMAIN r : x \in FinishedPrefillReqs(r[k])
  <1> DEFINE queued == UNION {p[i].reqs : i \in DOMAIN p}
             taken  == UNION {FinishedPrefillReqs(r[k]) : k \in DOMAIN r}
  <1>1. x \in queued <=> \E i \in DOMAIN p : x \in p[i].reqs
    OBVIOUS
  <1>2. x \in taken <=> \E k \in DOMAIN r : x \in FinishedPrefillReqs(r[k])
    OBVIOUS
  <1> HIDE DEF queued, taken
  <1>3. x \in queued \cup taken <=> \/ \E i \in DOMAIN p : x \in p[i].reqs
                                    \/ \E k \in DOMAIN r : x \in FinishedPrefillReqs(r[k])
    BY <1>1, <1>2
  <1> QED
    BY <1>3 DEF queued, taken

\* The last result is new, the others keep their place.
LEMMA AppendResult ==
    ASSUME NEW T, NEW q \in Seq(T), NEW e \in T
    PROVE  /\ Append(q, e) \in Seq(T) /\ Len(Append(q, e)) = Len(q) + 1 /\ Len(q) \in Nat
           /\ \A k \in 1 .. Len(q) : Append(q, e)[k] = q[k]
           /\ Append(q, e)[Len(q) + 1] = e
           /\ DOMAIN q = 1 .. Len(q) /\ DOMAIN Append(q, e) = 1 .. Len(q) + 1
  OBVIOUS

\* The queue that a step of the worker cuts: the pending outputs and what the step
\* itself has launched.
StepQueue(q) ==
    /\ q \in Seq(OutputType)
    /\ \A i, j \in 1 .. Len(q) : i # j => q[i].reqs \cap q[j].reqs = {}
    /\ \A i \in 1 .. Len(q), k \in DOMAIN results :
          q[i].reqs \cap FinishedPrefillReqs(results[k]) = {}
    /\ \A i \in 1 .. Len(q), j \in DOMAIN batch_infos :
          Len(results) + 1 < j => q[i].reqs \cap Launches(j) = {}
    /\ \A x : (\E i \in 1 .. Len(q) : x \in q[i].reqs)
                <=> \/ \E i \in DOMAIN pending : x \in pending[i].reqs
                    \/ x \in Launches(Len(results) + 1)

\* A step of the worker cuts the queue into the new result and what stays pending.
LEMMA OutputsMove ==
    ASSUME LanesInv, P!IInv,
           NEW q, StepQueue(q), NEW n \in 0 .. Len(q), \A i \in 1 .. n : q[i].copied,
           Len(results) < Len(batch_infos),
           NEW d, d = batch_infos[Len(results) + 1].decode,
           pending' = Left(q, n),
           results' = Append(results, Result(Output(d), SubSeq(q, 1, n))),
           lane_decode' = {}, lane_prefill' = {},
           UNCHANGED <<batch_infos, decode_immediate>>
    PROVE  LanesInv' /\ Outstanding' = Outstanding
  <1> DEFINE m    == Len(results)
             rest == Len(q) - n
             new  == Result(Output(d), SubSeq(q, 1, n))
             ResultType == [decode : OutputType, prefills : Seq(OutputType)]
  <1>1. q \in Seq(OutputType) /\ Len(q) \in Nat /\ n \in Nat /\ rest \in Nat
    BY DEF StepQueue
  <1>2. /\ SubSeq(q, 1, n) \in Seq(OutputType) /\ Len(SubSeq(q, 1, n)) = n
        /\ \A i \in 1 .. n : SubSeq(q, 1, n)[i] = q[i]
        /\ pending' \in Seq(OutputType) /\ Len(pending') = rest
        /\ \A i \in 1 .. rest : pending'[i] = q[n + i]
    BY <1>1, CutQueue
  <1>3. DOMAIN pending' = 1 .. rest /\ DOMAIN SubSeq(q, 1, n) = 1 .. n
    BY <1>1, <1>2
  <1>4. /\ DOMAIN batch_infos = 1 .. Len(batch_infos) /\ Len(batch_infos) \in Nat
        /\ \A j \in DOMAIN batch_infos : Launches(j)' = Launches(j)
    BY QueueFacts DEF Launches
  <1>5. results \in Seq(ResultType) /\ m \in Nat /\ DOMAIN results = 1 .. m
    BY DEF LanesInv, LanesTypeOK
  <1>6. m + 1 \in DOMAIN batch_infos /\ d \subseteq Requests
    BY <1>4, <1>5, QueueFacts
  <1>7. new \in ResultType /\ new.decode.reqs = d /\ new.prefills = SubSeq(q, 1, n)
    BY <1>2, <1>6 DEF Result, Output, OutputType
  <1>8. \A x : x \in FinishedPrefillReqs(new) <=> \E i \in 1 .. n : x \in q[i].reqs
    <2>1. \A i \in 1 .. n : new.prefills[i] = q[i]
      BY <1>2, <1>7
    <2>2. DOMAIN new.prefills = 1 .. n
      BY <1>3, <1>7
    <2> HIDE DEF new
    <2> QED
      BY <2>1, <2>2 DEF FinishedPrefillReqs
  <1>9. /\ results' \in Seq(ResultType) /\ Len(results') = m + 1
        /\ \A k \in 1 .. m : results'[k] = results[k]
        /\ results'[m + 1] = new
        /\ DOMAIN results' = 1 .. m + 1
    <2>1. results' = Append(results, new)
      OBVIOUS
    <2> HIDE DEF new
    <2> QED
      BY <1>5, <1>7, <2>1, AppendResult
  <1>10. \A i \in 1 .. n : new.prefills[i].copied
    BY <1>2, <1>7
  <1>11. \A i \in 1 .. n : i \in 1 .. Len(q)
    BY <1>1
  <1>12. \A i \in 1 .. rest : n + i \in 1 .. Len(q) /\ n + i > n
    BY <1>1
  <1> HIDE DEF new, rest
  <1>13. LanesTypeOK' /\ LanesRunStep'
    BY <1>2, <1>4, <1>5, <1>6, <1>9 DEF LanesInv, LanesTypeOK, LanesRunStep, WorkerIdle
  <1>14. PlacesApart'
    <2>7. /\ \A i, j \in 1 .. Len(q) : i # j => q[i].reqs \cap q[j].reqs = {}
          /\ \A i \in 1 .. Len(q), k \in 1 .. m :
                q[i].reqs \cap FinishedPrefillReqs(results[k]) = {}
      BY <1>5 DEF StepQueue
    <2>1. ASSUME NEW i \in 1 .. rest, NEW j \in 1 .. rest, i # j
          PROVE  pending'[i].reqs \cap pending'[j].reqs = {}
      <3>1. n + i \in 1 .. Len(q) /\ n + j \in 1 .. Len(q) /\ n + i # n + j
        BY <1>1, <1>12, <2>1
      <3> QED
        BY <1>2, <2>7, <3>1
    <2>2. ASSUME NEW k \in 1 .. m
          PROVE  FinishedPrefillReqs(results[k]) \cap FinishedPrefillReqs(new) = {}
      <3>1. \A i \in 1 .. n : q[i].reqs \cap FinishedPrefillReqs(results[k]) = {}
        BY <1>5, <1>11 DEF StepQueue
      <3> QED
        BY <1>8, <3>1
    <2>3. ASSUME NEW k \in 1 .. m + 1, NEW l \in 1 .. m + 1, k # l
          PROVE  FinishedPrefillReqs(results'[k]) \cap FinishedPrefillReqs(results'[l]) = {}
      <3>1. CASE k \in 1 .. m /\ l \in 1 .. m
        BY <1>5, <1>9, <2>3, <3>1 DEF LanesInv, PlacesApart
      <3>2. CASE k = m + 1 /\ l \in 1 .. m
        BY <1>9, <2>2, <3>2
      <3>3. CASE k \in 1 .. m /\ l = m + 1
        BY <1>9, <2>2, <3>3
      <3>4. \/ k \in 1 .. m /\ l \in 1 .. m
            \/ k = m + 1 /\ l \in 1 .. m
            \/ k \in 1 .. m /\ l = m + 1
        BY <1>5, <2>3
      <3> QED
        BY <3>1, <3>2, <3>3, <3>4
    <2>4. ASSUME NEW i \in 1 .. rest
          PROVE  pending'[i].reqs \cap FinishedPrefillReqs(new) = {}
      <3>1. \A k \in 1 .. n : q[n + i].reqs \cap q[k].reqs = {}
        <4>1. n + i \in 1 .. Len(q) /\ n + i > n
          BY <1>12
        <4>2. ASSUME NEW k \in 1 .. n
              PROVE  n + i # k /\ k \in 1 .. Len(q)
          BY <1>1, <1>11, <4>1
        <4> QED
          BY <2>7, <4>1, <4>2
      <3> QED
        BY <1>2, <1>8, <3>1
    <2>5. ASSUME NEW i \in 1 .. rest, NEW k \in 1 .. m
          PROVE  pending'[i].reqs \cap FinishedPrefillReqs(results[k]) = {}
      BY <1>2, <1>12, <2>7
    <2>6. \A i \in 1 .. rest, k \in 1 .. m + 1 :
            pending'[i].reqs \cap FinishedPrefillReqs(results'[k]) = {}
      BY <1>5, <1>9, <2>4, <2>5
    <2>8. \A i, j \in DOMAIN pending' : i # j => pending'[i].reqs \cap pending'[j].reqs = {}
      BY <1>3, <2>1
    <2>9. \A k, l \in DOMAIN results' : k # l =>
            FinishedPrefillReqs(results'[k]) \cap FinishedPrefillReqs(results'[l]) = {}
      BY <1>9, <2>3
    <2>10. \A i \in DOMAIN pending', k \in DOMAIN results' :
             pending'[i].reqs \cap FinishedPrefillReqs(results'[k]) = {}
      BY <1>3, <1>9, <2>6
    <2> QED
      BY <2>8, <2>9, <2>10 DEF PlacesApart
  <1>15. NotAhead'
    <2> SUFFICES ASSUME NEW j \in DOMAIN batch_infos
                 PROVE  /\ \A k \in 1 .. m + 1 : k < j =>
                             FinishedPrefillReqs(results'[k]) \cap Launches(j) = {}
                        /\ \A i \in 1 .. rest : m + 1 < j =>
                             pending'[i].reqs \cap Launches(j) = {}
      BY <1>3, <1>4, <1>9 DEF NotAhead
    <2>1. \A k \in 1 .. m : k < j => FinishedPrefillReqs(results'[k]) \cap Launches(j) = {}
      BY <1>5, <1>9 DEF LanesInv, NotAhead
    <2>2. m + 1 < j => \A i \in 1 .. Len(q) : q[i].reqs \cap Launches(j) = {}
      BY DEF StepQueue
    <2>3. m + 1 < j => FinishedPrefillReqs(new) \cap Launches(j) = {}
      BY <1>8, <1>11, <2>2
    <2>4. \A i \in 1 .. rest : m + 1 < j => pending'[i].reqs \cap Launches(j) = {}
      BY <1>2, <1>12, <2>2
    <2> QED
      BY <1>5, <1>9, <2>1, <2>3, <2>4
  <1>16. \A x : x \in AtWorker' <=> x \in AtWorker \/ x \in Launches(m + 1)
    <2> TAKE x
    <2>1. x \in AtWorker' <=> \/ \E i \in DOMAIN pending' : x \in pending'[i].reqs
                              \/ \E k \in DOMAIN results' : x \in FinishedPrefillReqs(results'[k])
      BY PlacesHave DEF AtWorker
    <2>2. (\E k \in DOMAIN results' : x \in FinishedPrefillReqs(results'[k]))
            <=> \/ \E k \in 1 .. m : x \in FinishedPrefillReqs(results[k])
                \/ x \in FinishedPrefillReqs(new)
      <3>1. m + 1 \in 1 .. m + 1 /\ (\A k \in 1 .. m : k \in 1 .. m + 1)
            /\ (\A k \in 1 .. m + 1 : k \in 1 .. m \/ k = m + 1)
        BY <1>5
      <3> QED
        BY <1>9, <3>1
    <2>3. (\E i \in 1 .. Len(q) : x \in q[i].reqs)
            <=> \/ \E i \in 1 .. n : x \in q[i].reqs
                \/ \E i \in 1 .. rest : x \in pending'[i].reqs
      <3>1. ASSUME NEW i \in 1 .. Len(q), x \in q[i].reqs, ~(i <= n)
            PROVE  \E k \in 1 .. rest : x \in pending'[k].reqs
        <4>1. i - n \in 1 .. rest /\ n + (i - n) = i
          BY <1>1, <3>1 DEF rest
        <4>2. pending'[i - n] = q[i]
          BY <1>2, <4>1
        <4> QED
          BY <3>1, <4>1, <4>2
      <3>2. \A i \in 1 .. Len(q) : i <= n => i \in 1 .. n
        BY <1>1
      <3>3. \A k \in 1 .. rest : n + k \in 1 .. Len(q) /\ pending'[k] = q[n + k]
        BY <1>2, <1>12
      <3> QED
        BY <1>11, <3>1, <3>2, <3>3
    <2>4. (\E i \in 1 .. Len(q) : x \in q[i].reqs)
            <=> \/ \E i \in DOMAIN pending : x \in pending[i].reqs
                \/ x \in Launches(m + 1)
      BY DEF StepQueue
    <2>5. x \in AtWorker <=> \/ \E i \in DOMAIN pending : x \in pending[i].reqs
                             \/ \E k \in 1 .. m : x \in FinishedPrefillReqs(results[k])
      BY <1>5, AtWorkerHas
    <2>6. x \in FinishedPrefillReqs(new) <=> \E i \in 1 .. n : x \in q[i].reqs
      BY <1>8
    <2> QED
      BY <1>3, <2>1, <2>2, <2>3, <2>4, <2>5, <2>6
  <1>17. LaunchedAtWorker'
    <2>1. \A k \in 1 .. m : Launches(k) \subseteq AtWorker
      BY <1>5 DEF LanesInv, LaunchedAtWorker
    <2>2. \A k \in 1 .. m + 1 : Launches(k) \subseteq AtWorker'
      BY <1>5, <1>16, <2>1
    <2>3. \A k \in 1 .. m + 1 : k \in DOMAIN batch_infos
      BY <1>4, <1>5, <1>6
    <2> QED
      BY <1>4, <1>9, <2>2, <2>3 DEF LaunchedAtWorker
  <1>18. ResultMatchesStep' /\ PrefillReadAfterCopy'
    <2>1. DOMAIN new.prefills = 1 .. n
      BY <1>3, <1>7
    <2>2. ASSUME NEW k \in 1 .. m + 1
          PROVE  /\ results'[k].decode.reqs = batch_infos[k].decode
                 /\ \A i \in DOMAIN results'[k].prefills : results'[k].prefills[i].copied
      <3>1. CASE k \in 1 .. m
        BY <1>5, <1>9, <3>1 DEF LanesInv, ResultMatchesStep, PrefillReadAfterCopy
      <3>2. CASE k = m + 1
        BY <1>7, <1>9, <1>10, <2>1, <3>2
      <3> QED
        BY <1>5, <3>1, <3>2
    <2> QED
      BY <1>9, <2>2 DEF ResultMatchesStep, PrefillReadAfterCopy
  <1>19. Outstanding' = Outstanding
    <2>1. \A x : x \in Outstanding' <=>
            x \in AtWorker' /\ \A j \in DOMAIN batch_infos : x \notin Launches(j)
      BY <1>4 DEF Outstanding
    <2>2. \A x : x \in Outstanding <=> x \in AtWorker /\ \A j \in DOMAIN batch_infos : x \notin Launches(j)
      BY DEF Outstanding
    <2> QED
      BY <1>6, <1>16, <2>1, <2>2
  <1> QED
    BY <1>13, <1>14, <1>15, <1>17, <1>18, <1>19 DEF LanesInv

\* The fields of a step of the worker's queue.
LEMMA StepOfQueue ==
    ASSUME LanesInv, P!IInv, Len(results) < Len(batch_infos)
    PROVE  /\ Len(results) \in Nat /\ DOMAIN results = 1 .. Len(results)
           /\ DOMAIN batch_infos = 1 .. Len(batch_infos) /\ Len(batch_infos) \in Nat
           /\ Len(results) + 1 \in DOMAIN batch_infos
           /\ batch_infos[Len(results) + 1].decode \subseteq Requests
           /\ Launches(Len(results) + 1) \subseteq Requests
           /\ pending \in Seq(OutputType) /\ DOMAIN pending = 1 .. Len(pending)
           /\ Len(pending) \in Nat
  <1>1. Len(results) \in Nat /\ DOMAIN results = 1 .. Len(results)
    BY DEF LanesInv, LanesTypeOK
  <1>2. DOMAIN batch_infos = 1 .. Len(batch_infos) /\ Len(batch_infos) \in Nat
    BY QueueFacts
  <1>3. Len(results) + 1 \in DOMAIN batch_infos
    BY <1>1, <1>2
  <1>4. pending \in Seq(OutputType) /\ DOMAIN pending = 1 .. Len(pending)
        /\ Len(pending) \in Nat
    BY DEF LanesInv, LanesTypeOK
  <1> QED
    BY <1>1, <1>2, <1>3, <1>4, QueueFacts

\* The pending outputs alone are such a queue when the step launches nothing.
LEMMA PendingIsQueue ==
    ASSUME LanesInv, P!IInv, Len(results) < Len(batch_infos),
           Launches(Len(results) + 1) = {}
    PROVE  StepQueue(pending)
  <1>1. /\ Len(results) \in Nat /\ DOMAIN batch_infos = 1 .. Len(batch_infos)
        /\ pending \in Seq(OutputType) /\ DOMAIN pending = 1 .. Len(pending)
    BY StepOfQueue
  <1>2. \A i \in 1 .. Len(pending), j \in DOMAIN batch_infos :
          Len(results) + 1 < j => pending[i].reqs \cap Launches(j) = {}
    <2>1. \A j \in DOMAIN batch_infos : Len(results) + 1 < j => Len(results) < j
      BY <1>1
    <2> QED
      BY <1>1, <2>1 DEF LanesInv, NotAhead
  <1> QED
    BY <1>1, <1>2 DEF StepQueue, LanesInv, PlacesApart

\* A step that only starts the lanes: nothing is moved yet.
LEMMA LanesStart ==
    ASSUME LanesInv, P!IInv, Len(results) < Len(batch_infos),
           lane_decode' = batch_infos[Len(results) + 1].decode,
           lane_prefill' = Launches(Len(results) + 1),
           decode_immediate' \in {"none", "empty"},
           lane_decode' = {} => decode_immediate' = "empty",
           UNCHANGED <<batch_infos, pending, results>>
    PROVE  LanesInv' /\ Outstanding' = Outstanding
  <1>1. LanesTypeOK' /\ LanesRunStep'
    BY StepOfQueue DEF LanesInv, LanesTypeOK, LanesRunStep, Launches, WorkerIdle
  <1>2. AtWorker' = AtWorker
    BY DEF AtWorker
  <1>3. PlacesApart' /\ NotAhead'
    BY DEF LanesInv, PlacesApart, NotAhead, Launches
  <1>4. LaunchedAtWorker' /\ ResultMatchesStep' /\ PrefillReadAfterCopy'
    BY <1>2 DEF LanesInv, LaunchedAtWorker, ResultMatchesStep, PrefillReadAfterCopy, Launches
  <1>5. Outstanding' = Outstanding
    BY <1>2 DEF Outstanding, Launches
  <1> QED
    BY <1>1, <1>3, <1>4, <1>5 DEF LanesInv

\* execute_model() moves ready prefills into an empty output or starts the lanes.
LEMMA ExecuteMoves ==
    ASSUME LanesInv, P!IInv, WorkerExecutes
    PROVE  LanesInv' /\ Outstanding' = Outstanding /\ UNCHANGED schedulerVars
  <1> DEFINE step == batch_infos[Len(results) + 1]
  <1>1. /\ WorkerIdle /\ Len(results) < Len(batch_infos) /\ UNCHANGED schedulerVars
        /\ ExecuteDecodeOnly(step) \/ ExecuteBothLanes(step)
    BY DEF WorkerExecutes
  <1>2. UNCHANGED batch_infos
    BY <1>1 DEF schedulerVars
  <1>3. DOMAIN step.prefill = Launches(Len(results) + 1)
    BY DEF Launches
  <1>4. CASE ExecuteDecodeOnly(step) /\ ExecuteEmpty(step)
    <2>1. /\ pending' = Left(pending, Taken(pending, FALSE))
          /\ results' = Append(results,
                           Result(Output({}), SubSeq(pending, 1, Taken(pending, FALSE))))
          /\ lane_decode' = {} /\ lane_prefill' = {} /\ UNCHANGED decode_immediate
          /\ step.decode = {} /\ Launches(Len(results) + 1) = {}
      BY <1>1, <1>3, <1>4 DEF ExecuteDecodeOnly, ExecuteEmpty, WorkerIdle
    <2>2. StepQueue(pending)
      BY <1>1, <2>1, PendingIsQueue
    <2>3. /\ Taken(pending, FALSE) \in 0 .. Len(pending)
          /\ \A i \in 1 .. Taken(pending, FALSE) : pending[i].copied
      <3>1. pending \in Seq(OutputType)
        BY <1>1, StepOfQueue
      <3> QED
        BY <3>1, TakenAreReady
    <2> HIDE DEF step
    <2>4. {} = batch_infos[Len(results) + 1].decode
      BY <2>1 DEF step
    <2> QED
      BY <1>1, <1>2, <2>1, <2>2, <2>3, <2>4, OutputsMove
  <1>5. CASE ExecuteDecodeOnly(step) /\ ExecuteDecodes(step)
    <2>1. decode_immediate \in {"none", "empty"}
      BY DEF LanesInv, LanesTypeOK
    <2>2. /\ lane_decode' = step.decode /\ step.decode # {}
          /\ lane_prefill' = Launches(Len(results) + 1)
          /\ UNCHANGED <<pending, results, decode_immediate>>
      BY <1>1, <1>3, <1>5 DEF ExecuteDecodeOnly, ExecuteDecodes, WorkerIdle
    <2> QED
      BY <1>1, <1>2, <2>1, <2>2, LanesStart
  <1>6. CASE ExecuteBothLanes(step)
    <2>1. /\ lane_decode' = step.decode /\ lane_prefill' = Launches(Len(results) + 1)
          /\ UNCHANGED <<pending, results>>
          /\ decode_immediate' = IF step.decode = {} THEN "empty" ELSE "none"
      BY <1>3, <1>6 DEF ExecuteBothLanes
    <2> QED
      BY <1>1, <1>2, <2>1, LanesStart
  <1> QED
    BY <1>1, <1>4, <1>5, <1>6 DEF ExecuteDecodeOnly

\* sample_tokens(): the new prefill output is queued last.
LEMMA QueuedIsQueue ==
    ASSUME LanesInv, P!IInv, Len(results) < Len(batch_infos),
           lane_prefill = Launches(Len(results) + 1)
    PROVE  StepQueue(Queued)
  <1> DEFINE m   == Len(results)
             len == Len(pending)
             new == Output(lane_prefill)
  <1>1. /\ m \in Nat /\ DOMAIN results = 1 .. m
        /\ DOMAIN batch_infos = 1 .. Len(batch_infos) /\ Len(batch_infos) \in Nat
        /\ m + 1 \in DOMAIN batch_infos
        /\ pending \in Seq(OutputType) /\ DOMAIN pending = 1 .. len /\ len \in Nat
        /\ lane_prefill \subseteq Requests
    BY StepOfQueue
  <1>2. CASE lane_prefill = {}
    BY <1>2, PendingIsQueue DEF Queued
  <1>3. CASE lane_prefill # {}
    <2>1. new \in OutputType /\ new.reqs = lane_prefill
      BY <1>1 DEF Output, OutputType
    <2>2. Queued = Append(pending, new)
      BY <1>3 DEF Queued
    <2> HIDE DEF new
    <2>3. /\ Queued \in Seq(OutputType) /\ Len(Queued) = len + 1
          /\ \A i \in 1 .. len : Queued[i] = pending[i]
          /\ Queued[len + 1] = new
      BY <1>1, <2>1, <2>2, AppendResult
    <2>4. \A i \in 1 .. len + 1 : i \in 1 .. len \/ i = len + 1
      BY <1>1
    <2>5. /\ \A i, j \in 1 .. len : i # j => pending[i].reqs \cap pending[j].reqs = {}
          /\ \A i \in 1 .. len, k \in DOMAIN results :
                pending[i].reqs \cap FinishedPrefillReqs(results[k]) = {}
      BY <1>1 DEF LanesInv, PlacesApart
    <2>6. /\ \A i \in 1 .. len : pending[i].reqs \cap lane_prefill = {}
          /\ \A k \in DOMAIN results : FinishedPrefillReqs(results[k]) \cap lane_prefill = {}
      <3>1. m < m + 1 /\ \A k \in DOMAIN results : k < m + 1
        BY <1>1
      <3> QED
        BY <1>1, <3>1 DEF LanesInv, NotAhead
    <2>7. \A j \in DOMAIN batch_infos : m + 1 < j =>
            /\ \A i \in 1 .. len : pending[i].reqs \cap Launches(j) = {}
            /\ lane_prefill \cap Launches(j) = {}
      <3> SUFFICES ASSUME NEW j \in DOMAIN batch_infos, m + 1 < j
                   PROVE  /\ \A i \in 1 .. len : pending[i].reqs \cap Launches(j) = {}
                          /\ lane_prefill \cap Launches(j) = {}
        OBVIOUS
      <3>1. m < j /\ m + 1 \in 1 .. j - 1
        BY <1>1
      <3>2. Launches(j) \cap Launches(m + 1) = {}
        BY <1>1, <3>1, QueueFacts
      <3> QED
        BY <1>1, <3>1, <3>2 DEF LanesInv, NotAhead
    <2>8. \A x : (\E i \in 1 .. len + 1 : x \in Queued[i].reqs)
                   <=> \/ \E i \in DOMAIN pending : x \in pending[i].reqs
                       \/ x \in lane_prefill
      <3>1. len + 1 \in 1 .. len + 1 /\ \A i \in 1 .. len : i \in 1 .. len + 1
        BY <1>1
      <3> QED
        BY <1>1, <2>1, <2>3, <2>4, <3>1
    <2>9. \A i, j \in 1 .. len + 1 : i # j => Queued[i].reqs \cap Queued[j].reqs = {}
      BY <2>1, <2>3, <2>4, <2>5, <2>6
    <2>10. \A i \in 1 .. len + 1, k \in DOMAIN results :
             Queued[i].reqs \cap FinishedPrefillReqs(results[k]) = {}
      BY <2>1, <2>3, <2>4, <2>5, <2>6
    <2>11. \A i \in 1 .. len + 1, j \in DOMAIN batch_infos :
             m + 1 < j => Queued[i].reqs \cap Launches(j) = {}
      BY <2>1, <2>3, <2>4, <2>7
    <2> QED
      BY <2>3, <2>8, <2>9, <2>10, <2>11 DEF StepQueue
  <1> QED
    BY <1>2, <1>3

\* sample_tokens() moves outputs, none twice.
LEMMA SampleMoves ==
    ASSUME LanesInv, P!IInv, WorkerSamples
    PROVE  LanesInv' /\ Outstanding' = Outstanding /\ UNCHANGED schedulerVars
  <1> DEFINE n1 == Taken(Queued, FALSE)
             n  == n1 + Taken(Left(Queued, n1), FALSE)
             d  == batch_infos[Len(results) + 1].decode
  <1>1. /\ ~WorkerIdle /\ UNCHANGED <<schedulerVars, decode_immediate>>
        /\ lane_decode' = {} /\ lane_prefill' = {}
        /\ Len(results) < Len(batch_infos)
        /\ lane_prefill = Launches(Len(results) + 1) /\ lane_decode = d
        /\ lane_decode = {} => decode_immediate = "empty"
    BY DEF WorkerSamples, SampleTokens, LanesInv, LanesRunStep
  <1>2. DecodeOutput.none = FALSE /\ DecodeOutput.reqs = d
    BY <1>1 DEF DecodeOutput
  <1>3. /\ results' = Append(results, Result(Output(d), SubSeq(Queued, 1, n)))
        /\ pending' = Left(Queued, n)
    BY <1>2, Zenon DEF WorkerSamples, SampleTokens
  <1>4. StepQueue(Queued)
    BY <1>1, QueuedIsQueue
  <1>5. n \in 0 .. Len(Queued) /\ \A i \in 1 .. n : Queued[i].copied
    BY <1>4, TwoTakes DEF StepQueue
  <1>6. UNCHANGED batch_infos
    BY <1>1 DEF schedulerVars
  <1> HIDE DEF n, d, n1
  <1>7. d = batch_infos[Len(results) + 1].decode
    BY DEF d
  <1> QED
    BY <1>1, <1>3, <1>4, <1>5, <1>6, <1>7, OutputsMove

-------------------------------------------------------------------------------
(* The steps of the engine *)

\* The head of a queue and what is behind it.
LEMMA BehindHead ==
    ASSUME NEW T, NEW q \in Seq(T), q # <<>>
    PROVE  /\ Head(q) = q[1] /\ Tail(q) \in Seq(T) /\ Len(q) \in Nat \ {0}
           /\ Len(Tail(q)) = Len(q) - 1 /\ DOMAIN q = 1 .. Len(q)
           /\ DOMAIN Tail(q) = 1 .. Len(q) - 1
           /\ \A i \in 1 .. Len(q) - 1 : Tail(q)[i] = q[i + 1]
  OBVIOUS

\* The engine reads the oldest output.  What it reports was launched by this step
\* or an earlier one, and what stays at the worker is what was not reported.
LEMMA UpdateDelivers ==
    ASSUME LanesInv, P!IInv, EngineUpdates
    PROVE  LanesInv' /\ P!Deliver
  <1> DEFINE m        == Len(results)
             b        == Len(batch_infos)
             reported == FinishedPrefillReqs(Head(results))
             launched == Outstanding \cup DOMAIN Head(batch_infos).prefill
             ResultType == [decode : OutputType, prefills : Seq(OutputType)]
  <1>1. /\ results # <<>> /\ results' = Tail(results)
        /\ UpdateFromOutput(reported)
        /\ batch_infos # <<>> /\ batch_infos' = Tail(batch_infos)
        /\ UNCHANGED <<lane_decode, lane_prefill, decode_immediate, pending>>
    BY DEF EngineUpdates, Collect, UpdateFromOutput
  <1>2. /\ results \in Seq(ResultType) /\ batch_infos \in Seq(P!StepType)
        /\ pending \in Seq(OutputType)
    BY QueueFacts DEF LanesInv, LanesTypeOK
  <1>3. /\ m \in Nat \ {0} /\ DOMAIN results = 1 .. m /\ DOMAIN results' = 1 .. m - 1
        /\ results' \in Seq(ResultType) /\ Len(results') = m - 1
        /\ \A k \in 1 .. m - 1 : results'[k] = results[k + 1]
        /\ reported = FinishedPrefillReqs(results[1])
    <2> HIDE DEF ResultType
    <2> QED
      BY <1>1, <1>2, BehindHead
  <1>4. /\ b \in Nat \ {0} /\ DOMAIN batch_infos = 1 .. b /\ DOMAIN batch_infos' = 1 .. b - 1
        /\ Len(batch_infos') = b - 1
        /\ \A j \in 1 .. b - 1 : batch_infos'[j] = batch_infos[j + 1]
        /\ Head(batch_infos) = batch_infos[1]
    BY <1>1, <1>2, BehindHead
  <1>5. /\ \A j \in 1 .. b - 1 : Launches(j)' = Launches(j + 1)
        /\ DOMAIN Head(batch_infos).prefill = Launches(1)
    BY <1>4 DEF Launches
  <1>6. /\ m <= b /\ 1 \in 1 .. m /\ 1 \in 1 .. b
        /\ \A k \in 1 .. m - 1 : k + 1 \in 1 .. m /\ k + 1 # 1
        /\ \A j \in 1 .. b - 1 : j + 1 \in 1 .. b /\ 1 < j + 1 /\ 1 \in 1 .. (j + 1) - 1
        /\ \A j \in 1 .. b : j # 1 => j - 1 \in 1 .. b - 1 /\ (j - 1) + 1 = j
        /\ \A k \in 1 .. m : k # 1 => k - 1 \in 1 .. m - 1 /\ (k - 1) + 1 = k
    BY <1>3, <1>4 DEF LanesInv, LanesRunStep
  <1> HIDE DEF ResultType, m, b, reported, launched
  <1>7. LanesTypeOK'
    BY <1>1, <1>3 DEF LanesInv, LanesTypeOK, ResultType
  <1>8. LanesRunStep'
    <2>1. Len(results') <= Len(batch_infos')
      BY <1>3, <1>4, <1>6
    <2>2. ASSUME ~WorkerIdle
          PROVE  /\ Len(results') < Len(batch_infos')
                 /\ lane_decode = batch_infos'[Len(results') + 1].decode
                 /\ lane_prefill = DOMAIN batch_infos'[Len(results') + 1].prefill
                 /\ lane_decode = {} => decode_immediate = "empty"
      <3>1. /\ m < b /\ lane_decode = batch_infos[m + 1].decode
            /\ lane_prefill = Launches(m + 1) /\ (lane_decode = {} => decode_immediate = "empty")
        BY <2>2 DEF LanesInv, LanesRunStep, m, b
      <3>2. Len(results') + 1 = m /\ m \in 1 .. b - 1
        BY <1>3, <1>4, <3>1
      <3>3. batch_infos'[m] = batch_infos[m + 1]
        BY <1>4, <3>2
      <3> QED
        BY <1>3, <1>4, <3>1, <3>2, <3>3 DEF Launches
    <2> QED
      BY <1>1, <2>1, <2>2 DEF LanesRunStep, WorkerIdle, Launches
  <1>9. PlacesApart'
    <2>1. ASSUME NEW k \in 1 .. m - 1, NEW l \in 1 .. m - 1, k # l
          PROVE  FinishedPrefillReqs(results'[k]) \cap FinishedPrefillReqs(results'[l]) = {}
      <3>1. k + 1 \in 1 .. m /\ l + 1 \in 1 .. m /\ k + 1 # l + 1
        BY <1>6, <2>1
      <3> QED
        BY <1>3, <3>1 DEF LanesInv, PlacesApart
    <2>2. \A i \in DOMAIN pending, k \in 1 .. m - 1 :
            pending[i].reqs \cap FinishedPrefillReqs(results'[k]) = {}
      <3> TAKE i \in DOMAIN pending, k \in 1 .. m - 1
      <3>1. k + 1 \in DOMAIN results /\ results'[k] = results[k + 1]
        BY <1>3, <1>6
      <3>2. pending[i].reqs \cap FinishedPrefillReqs(results[k + 1]) = {}
        BY <3>1 DEF LanesInv, PlacesApart
      <3> QED
        BY <3>1, <3>2
    <2>3. \A k, l \in DOMAIN results' : k # l =>
            FinishedPrefillReqs(results'[k]) \cap FinishedPrefillReqs(results'[l]) = {}
      BY <1>3, <2>1
    <2> QED
      BY <1>1, <1>3, <2>2, <2>3 DEF LanesInv, PlacesApart
  <1>10. NotAhead'
    <2> SUFFICES ASSUME NEW j \in 1 .. b - 1
                 PROVE  /\ \A k \in 1 .. m - 1 : k < j =>
                             FinishedPrefillReqs(results'[k]) \cap Launches(j + 1) = {}
                        /\ \A i \in DOMAIN pending : m - 1 < j =>
                             pending[i].reqs \cap Launches(j + 1) = {}
      BY <1>1, <1>3, <1>4, <1>5 DEF NotAhead
    <2>1. \A k \in 1 .. m - 1 : k < j => k + 1 < j + 1
      OBVIOUS
    <2>2. m - 1 < j => m < j + 1
      BY <1>3
    <2>3. \A k \in 1 .. m : k < j + 1 => FinishedPrefillReqs(results[k]) \cap Launches(j + 1) = {}
      BY <1>3, <1>4, <1>6 DEF LanesInv, NotAhead
    <2>4. \A i \in DOMAIN pending : m < j + 1 => pending[i].reqs \cap Launches(j + 1) = {}
      BY <1>4, <1>6 DEF LanesInv, NotAhead, m
    <2> QED
      BY <1>3, <1>6, <2>1, <2>2, <2>3, <2>4
  <1>11. \A x : x \in AtWorker <=> x \in AtWorker' \/ x \in reported
    <2> TAKE x
    <2>1. x \in AtWorker' <=> \/ \E i \in DOMAIN pending' : x \in pending'[i].reqs
                              \/ \E k \in DOMAIN results' : x \in FinishedPrefillReqs(results'[k])
      BY PlacesHave DEF AtWorker
    <2>2. x \in AtWorker <=> \/ \E i \in DOMAIN pending : x \in pending[i].reqs
                             \/ \E k \in 1 .. m : x \in FinishedPrefillReqs(results[k])
      BY <1>3, AtWorkerHas
    <2>3. (\E k \in 1 .. m : x \in FinishedPrefillReqs(results[k]))
            <=> \/ x \in reported
                \/ \E k \in 1 .. m - 1 : x \in FinishedPrefillReqs(results'[k])
      <3>1. ASSUME NEW k \in 1 .. m, x \in FinishedPrefillReqs(results[k]), k # 1
            PROVE  \E l \in 1 .. m - 1 : x \in FinishedPrefillReqs(results'[l])
        <4>1. k - 1 \in 1 .. m - 1 /\ results'[k - 1] = results[k]
          BY <1>3, <1>6, <3>1
        <4> QED
          BY <3>1, <4>1
      <3> QED
        BY <1>3, <1>6, <3>1
    <2> QED
      BY <1>1, <1>3, <2>1, <2>2, <2>3
  <1>12. AtWorker' \cap reported = {}
    <2> SUFFICES ASSUME NEW x \in AtWorker', x \in reported PROVE FALSE
      OBVIOUS
    <2>1. \/ \E i \in DOMAIN pending : x \in pending[i].reqs
          \/ \E k \in 1 .. m - 1 : x \in FinishedPrefillReqs(results[k + 1])
      BY <1>1, <1>3, PlacesHave DEF AtWorker
    <2>2. \A i \in DOMAIN pending : x \notin pending[i].reqs
      BY <1>3, <1>6 DEF LanesInv, PlacesApart
    <2>3. \A k \in 1 .. m - 1 : x \notin FinishedPrefillReqs(results[k + 1])
      BY <1>3, <1>6 DEF LanesInv, PlacesApart
    <2> QED
      BY <2>1, <2>2, <2>3
  <1>13. \A j \in 1 .. b : j # 1 => reported \cap Launches(j) = {}
    <2>1. \A j \in 1 .. b : j # 1 => 1 < j
      BY <1>4
    <2> QED
      BY <1>3, <1>4, <1>6, <2>1 DEF LanesInv, NotAhead
  <1>14. LaunchedAtWorker'
    <2>1. \A k \in 1 .. m : Launches(k) \subseteq AtWorker
      BY <1>3 DEF LanesInv, LaunchedAtWorker
    <2>2. \A k \in 1 .. m - 1 : k \in 1 .. b - 1
      BY <1>3, <1>4, <1>6
    <2>3. \A k \in 1 .. m - 1 : Launches(k + 1) \subseteq AtWorker'
      BY <1>6, <1>11, <1>13, <2>1, <2>2
    <2> QED
      BY <1>3, <1>5, <2>2, <2>3 DEF LaunchedAtWorker
  <1>15. ResultMatchesStep' /\ PrefillReadAfterCopy'
    <2>1. \A k \in 1 .. m - 1 : k \in 1 .. b - 1
      BY <1>3, <1>4, <1>6
    <2>2. \A k \in 1 .. m : results[k].decode.reqs = batch_infos[k].decode
      BY <1>3 DEF LanesInv, ResultMatchesStep
    <2>3. \A k \in 1 .. m : \A i \in DOMAIN results[k].prefills : results[k].prefills[i].copied
      BY <1>3 DEF LanesInv, PrefillReadAfterCopy
    <2>4. \A k \in 1 .. m - 1 : k + 1 \in 1 .. m
      BY <1>6
    <2>5. ResultMatchesStep'
      <3> SUFFICES ASSUME NEW k \in 1 .. m - 1
                   PROVE  results'[k].decode.reqs = batch_infos'[k].decode
        BY <1>3 DEF ResultMatchesStep
      <3>1. results'[k] = results[k + 1]
        BY <1>3
      <3>2. batch_infos'[k] = batch_infos[k + 1]
        BY <1>4, <2>1
      <3> QED
        BY <2>2, <2>4, <3>1, <3>2
    <2>6. PrefillReadAfterCopy'
      BY <1>3, <2>3, <2>4 DEF PrefillReadAfterCopy
    <2> QED
      BY <2>5, <2>6
  <1>16. LanesInv'
    BY <1>7, <1>8, <1>9, <1>10, <1>14, <1>15 DEF LanesInv
  <1>17. \A x : x \in Outstanding <=> x \in AtWorker /\ \A j \in 1 .. b : x \notin Launches(j)
    BY <1>4 DEF Outstanding
  <1>18. \A x : x \in Outstanding' <=> x \in AtWorker' /\ \A j \in 1 .. b - 1 : x \notin Launches(j + 1)
    BY <1>4, <1>5 DEF Outstanding
  <1>19. \A x : x \in launched <=> x \in Outstanding \/ x \in Launches(1)
    BY <1>5 DEF launched
  <1>20. reported \subseteq launched
    BY <1>11, <1>13, <1>17, <1>19
  <1>21. Launches(1) \subseteq AtWorker /\ \A j \in 1 .. b : j # 1 => Launches(1) \cap Launches(j) = {}
    <2>1. Launches(1) \subseteq AtWorker
      BY <1>3, <1>6 DEF LanesInv, LaunchedAtWorker
    <2>2. \A j \in 1 .. b : j # 1 => 1 \in 1 .. j - 1
      BY <1>4
    <2> QED
      BY <1>6, <2>1, <2>2, QueueFacts DEF b
  <1>22. Outstanding' = launched \ reported
    <2>1. ASSUME NEW x \in Outstanding'
          PROVE  x \in launched \ reported
      <3>1. x \in AtWorker /\ x \notin reported
        BY <1>11, <1>12, <1>18
      <3>2. \A j \in 1 .. b : j # 1 => x \notin Launches(j)
        BY <1>6, <1>18
      <3> QED
        BY <1>17, <1>19, <3>1, <3>2
    <2>2. ASSUME NEW x \in launched \ reported
          PROVE  x \in Outstanding'
      <3>1. x \in AtWorker /\ \A j \in 1 .. b : j # 1 => x \notin Launches(j)
        BY <1>17, <1>19, <1>21
      <3>2. x \in AtWorker'
        BY <1>11, <3>1
      <3> QED
        BY <1>6, <1>18, <3>1, <3>2
    <2> QED
      BY <2>1, <2>2
  <1>23. P!UpdateFromOutput(reported)
    BY <1>1, SameUpdate
  <1> QED
    BY <1>1, <1>16, <1>20, <1>22, <1>23 DEF P!Deliver, launched

\* schedule() hands the worker no request that is at the worker.
LEMMA ScheduleQueues ==
    ASSUME LanesInv, P!IInv, Schedule, UNCHANGED laneVars
    PROVE  LanesInv' /\ Outstanding' = Outstanding
  <1> DEFINE m == Len(results)
             b == Len(batch_infos)
             launches(j) == DOMAIN batch_infos'[j].prefill
  <1>1. PICK step \in P!StepType :
          batch_infos' = Append(batch_infos, step) /\ P!Handed(step) \cap P!Working = {}
    BY P!ScheduleFresh, SameSchedule, SchedulerAssumption, FiniteRequests
  <1>2. /\ UNCHANGED <<lane_decode, lane_prefill, decode_immediate, pending, results>>
        /\ AtWorker' = AtWorker
    BY DEF laneVars, AtWorker
  <1>3. DOMAIN step.prefill \cap AtWorker = {}
    <2>1. AtWorker \subseteq P!Working
      BY AtWorkerType, AtWorkerIsWorking DEF LanesInv
    <2> QED
      BY <1>1, <2>1 DEF P!Handed
  <1>4. /\ DOMAIN batch_infos = 1 .. b /\ DOMAIN batch_infos' = 1 .. b + 1
        /\ b \in Nat /\ Len(batch_infos') = b + 1
        /\ \A j \in 1 .. b : batch_infos'[j] = batch_infos[j]
        /\ batch_infos'[b + 1] = step
    BY <1>1, QueueFacts, AppendResult
  <1>5. /\ \A j \in 1 .. b : launches(j) = Launches(j)
        /\ launches(b + 1) = DOMAIN step.prefill
    BY <1>4 DEF Launches
  <1>6. /\ m \in Nat /\ DOMAIN results = 1 .. m /\ m <= b
        /\ \A k \in 1 .. m : k \in 1 .. b
        /\ \A j \in 1 .. b + 1 : j \in 1 .. b \/ j = b + 1
        /\ b + 1 \in 1 .. b + 1 /\ \A j \in 1 .. b : j \in 1 .. b + 1
    BY <1>4 DEF LanesInv, LanesTypeOK, LanesRunStep
  <1> HIDE DEF m, b
  <1>7. LanesTypeOK'
    BY <1>2 DEF LanesInv, LanesTypeOK
  <1>8. LanesRunStep'
    <2>1. Len(results) <= Len(batch_infos')
      BY <1>4, <1>6 DEF m
    <2>2. ASSUME ~WorkerIdle
          PROVE  /\ Len(results) < Len(batch_infos')
                 /\ lane_decode = batch_infos'[Len(results) + 1].decode
                 /\ lane_prefill = DOMAIN batch_infos'[Len(results) + 1].prefill
                 /\ lane_decode = {} => decode_immediate = "empty"
      <3>1. /\ m < b /\ lane_decode = batch_infos[m + 1].decode
            /\ lane_prefill = DOMAIN batch_infos[m + 1].prefill
            /\ (lane_decode = {} => decode_immediate = "empty")
        BY <2>2 DEF LanesInv, LanesRunStep, Launches, m, b
      <3>2. m + 1 \in 1 .. b /\ m < b + 1
        BY <1>4, <1>6, <3>1
      <3>3. batch_infos'[m + 1] = batch_infos[m + 1]
        BY <1>4, <3>2
      <3> QED
        BY <1>4, <3>1, <3>2, <3>3 DEF m
    <2> QED
      BY <1>2, <2>1, <2>2 DEF LanesRunStep, WorkerIdle, Launches
  <1>9. PlacesApart' /\ PrefillReadAfterCopy'
    BY <1>2 DEF LanesInv, PlacesApart, PrefillReadAfterCopy
  <1>10. NotAhead'
    <2>1. \A i \in DOMAIN pending : pending[i].reqs \subseteq AtWorker
      BY AtWorkerHas
    <2>2. \A k \in DOMAIN results : FinishedPrefillReqs(results[k]) \subseteq AtWorker
      BY AtWorkerHas
    <2>3. \A j \in 1 .. b + 1 :
            /\ \A k \in DOMAIN results :
                  k < j => FinishedPrefillReqs(results[k]) \cap launches(j) = {}
            /\ \A i \in DOMAIN pending :
                  Len(results) < j => pending[i].reqs \cap launches(j) = {}
      <3> SUFFICES ASSUME NEW j \in 1 .. b + 1
                   PROVE  /\ \A k \in DOMAIN results :
                               k < j => FinishedPrefillReqs(results[k]) \cap launches(j) = {}
                          /\ \A i \in DOMAIN pending :
                               Len(results) < j => pending[i].reqs \cap launches(j) = {}
        OBVIOUS
      <3>1. CASE j \in 1 .. b
        BY <1>4, <1>5, <3>1 DEF LanesInv, NotAhead
      <3>2. CASE j = b + 1
        <4>1. launches(j) = DOMAIN step.prefill
          BY <1>5, <3>2
        <4> QED
          BY <1>3, <2>1, <2>2, <4>1
      <3> QED
        BY <1>6, <3>1, <3>2
    <2> QED
      BY <1>2, <1>4, <2>3 DEF NotAhead, Launches
  <1>11. LaunchedAtWorker'
    BY <1>2, <1>5, <1>6 DEF LanesInv, LaunchedAtWorker, Launches
  <1>12. ResultMatchesStep'
    <2>1. \A k \in 1 .. m : batch_infos'[k] = batch_infos[k]
      BY <1>4, <1>6
    <2> QED
      BY <1>2, <1>6, <2>1 DEF LanesInv, ResultMatchesStep
  <1>13. Outstanding' = Outstanding
    <2>1. \A x : x \in Outstanding' <=>
            x \in AtWorker /\ \A j \in 1 .. b : x \notin Launches(j)
      <3>1. \A x : x \in Outstanding' <=>
              x \in AtWorker /\ \A j \in 1 .. b + 1 : x \notin launches(j)
        BY <1>2, <1>4 DEF Outstanding, Launches
      <3> QED
        BY <1>3, <1>5, <1>6, <3>1
    <2>2. \A x : x \in Outstanding <=>
            x \in AtWorker /\ \A j \in 1 .. b : x \notin Launches(j)
      BY <1>4 DEF Outstanding
    <2> QED
      BY <2>1, <2>2
  <1> QED
    BY <1>7, <1>8, <1>9, <1>10, <1>11, <1>12, <1>13 DEF LanesInv

-------------------------------------------------------------------------------
(* The refinement *)

\* The inductive invariant and the protocol's initial state hold at the start.
LEMMA InitInv == Init => LanesInv /\ P!Init /\ Protocol!Init
  <1> SUFFICES ASSUME Init PROVE LanesInv /\ P!Init /\ Protocol!Init
    OBVIOUS
  <1> USE DEF Init, SchedulerInit, LanesInit
  <1>1. AtWorker = {}
    BY AtWorkerHas
  <1>2. Outstanding = {}
    BY <1>1 DEF Outstanding
  <1>3. P!SchedulerInit /\ Protocol!SchedulerInit
    BY DEF P!SchedulerInit, Protocol!SchedulerInit
  <1>4. LanesTypeOK /\ LanesRunStep
    BY DEF LanesTypeOK, LanesRunStep, WorkerIdle
  <1>5. PlacesApart /\ NotAhead /\ LaunchedAtWorker /\ ResultMatchesStep /\ PrefillReadAfterCopy
    BY DEF PlacesApart, NotAhead, LaunchedAtWorker, ResultMatchesStep, PrefillReadAfterCopy
  <1> QED
    BY <1>2, <1>3, <1>4, <1>5 DEF LanesInv, P!Init, Protocol!Init

\* Every step of the composition is a step of the protocol, or none of it.
LEMMA StepImplements ==
    ASSUME LanesInv, P!IInv, [Next]_vars
    PROVE  LanesInv' /\ [P!Next]_(P!vars)
  <1>1. CASE EngineAdds
    <2>1. PICK r \in Requests : AddRequest(r) /\ UNCHANGED laneVars
      BY <1>1 DEF EngineAdds
    <2>2. LanesInv' /\ Outstanding' = Outstanding
      BY <2>1, LanesAlone DEF AddRequest
    <2>3. P!AddRequest(r)
      BY <2>1, SameClient
    <2> QED
      BY <2>2, <2>3 DEF P!Next
  <1>2. CASE EngineAborts
    <2>1. PICK r \in Requests : AbortRequest(r) /\ UNCHANGED laneVars
      BY <1>2 DEF EngineAborts
    <2>2. LanesInv' /\ Outstanding' = Outstanding
      BY <2>1, LanesAlone DEF AbortRequest
    <2>3. P!AbortRequest(r)
      BY <2>1, SameClient
    <2> QED
      BY <2>2, <2>3 DEF P!Next
  <1>3. CASE EngineSchedules
    <2>1. LanesInv' /\ Outstanding' = Outstanding
      BY <1>3, ScheduleQueues DEF EngineSchedules
    <2>2. P!Schedule
      BY <1>3, SameSchedule DEF EngineSchedules
    <2> QED
      BY <2>1, <2>2 DEF P!Next
  <1>4. CASE EngineUpdates
    BY <1>4, UpdateDelivers DEF P!Next
  <1>5. CASE \/ WorkerExecutes \/ WorkerSamples
             \/ DeviceComputesPrefill \/ DeviceComputesDecode
             \/ DeviceCopiesPrefill \/ DeviceCopiesDecode
    <2>1. LanesInv' /\ Outstanding' = Outstanding /\ UNCHANGED schedulerVars
      BY <1>5, ExecuteMoves, SampleMoves, DeviceMovesNothing
    <2>2. UNCHANGED P!vars
      BY <2>1 DEF P!vars, P!schedulerVars, schedulerVars, P!baseVars, baseVars,
         P!offloadVars, offloadVars
    <2> QED
      BY <2>1, <2>2
  <1>6. CASE UNCHANGED vars
    <2>1. UNCHANGED <<laneVars, schedulerVars, batch_infos>>
      BY <1>6 DEF vars, schedulerVars
    <2>2. LanesInv' /\ Outstanding' = Outstanding
      BY <2>1, LanesAlone
    <2>3. UNCHANGED P!vars
      BY <2>1, <2>2 DEF P!vars, P!schedulerVars, schedulerVars, P!baseVars, baseVars,
         P!offloadVars, offloadVars
    <2> QED
      BY <2>2, <2>3
  <1> QED
    BY <1>1, <1>2, <1>3, <1>4, <1>5, <1>6 DEF Next

\* The lanes' invariant and the protocol's are one inductive invariant: the first
\* needs that no step overlaps an unreported chunk, the second that the worker
\* reports what it was given and nothing else.
LEMMA InvStep == LanesInv /\ P!IInv /\ [Next]_vars => (LanesInv /\ P!IInv)'
  <1> SUFFICES ASSUME LanesInv, P!IInv, [Next]_vars PROVE LanesInv' /\ P!IInv'
    OBVIOUS
  <1>1. LanesInv' /\ [P!Next]_(P!vars)
    BY StepImplements
  <1>2. P!IInv'
    BY <1>1, P!StepIInv, SchedulerAssumption, FiniteRequests
  <1> QED
    BY <1>1, <1>2

\* The inductive invariant of the composition.
THEOREM Invariance == Spec => [](LanesInv /\ P!IInv)
  <1>1. Init => LanesInv /\ P!IInv
    BY InitInv, P!InitIInv, SchedulerAssumption, FiniteRequests
  <1> QED
    BY <1>1, InvStep, PTL DEF Spec

\* The scheduler with the two lanes implements the protocol: the lanes report a
\* chunk once, not before the step that launched it, and nothing else.
THEOREM LanesImplementProtocol == Spec => ImplementsProtocol
  <1>1. LanesInv /\ P!IInv /\ [Next]_vars => [Protocol!Next]_(Protocol!vars)
    BY StepImplements, SameNext
  <1>2. Init => Protocol!Init
    BY InitInv
  <1> QED
    BY <1>1, <1>2, Invariance, PTL DEF Spec, ImplementsProtocol, Protocol!Spec

\* So a live request is held exactly as long as the lanes have a chunk of it, or a
\* step that is still queued launches one.
THEOREM HeldExactlyWithLanes == Spec => []P!HeldExactlyWhileWorking
  BY Invariance, PTL DEF P!IInv

\* The k-th unread output is that of the k-th unread step.
THEOREM OutputsMatchSteps == Spec => []ResultMatchesStep
  BY Invariance, PTL DEF LanesInv

\* The tokens of a finished prefill are on the host when the engine reads them.
THEOREM PrefillsAreCopied == Spec => []PrefillReadAfterCopy
  BY Invariance, PTL DEF LanesInv

-------------------------------------------------------------------------------
(* One place at a time *)

\* The places in the order in which ChunkInOnePlace lists them.
LEMMA ThreeParts ==
    ASSUME NEW T, NEW x \in T, NEW p \in Seq(T), NEW r \in Seq(T)
    PROVE  \A i \in DOMAIN (<<x>> \o p \o r) :
             \/ i = 1 /\ (<<x>> \o p \o r)[i] = x
             \/ i - 1 \in DOMAIN p /\ (<<x>> \o p \o r)[i] = p[i - 1]
             \/ i - 1 - Len(p) \in DOMAIN r /\ (<<x>> \o p \o r)[i] = r[i - 1 - Len(p)]
                /\ i > 1 + Len(p)
  <1>1. <<x>> \o p \in Seq(T) /\ Len(<<x>> \o p) = 1 + Len(p)
        /\ (<<x>> \o p)[1] = x /\ \A i \in 2 .. 1 + Len(p) : (<<x>> \o p)[i] = p[i - 1]
        /\ Len(p) \in Nat /\ Len(r) \in Nat
    OBVIOUS
  <1> DEFINE front == <<x>> \o p
  <1> HIDE DEF front
  <1>2. ASSUME NEW i \in DOMAIN (front \o r)
        PROVE  \/ i \in 1 .. 1 + Len(p) /\ (front \o r)[i] = front[i]
               \/ /\ i - 1 - Len(p) \in 1 .. Len(r) /\ i > 1 + Len(p)
                  /\ (front \o r)[i] = r[i - 1 - Len(p)]
    BY <1>1 DEF front
  <1> QED
    BY <1>1, <1>2 DEF front

\* The invariants keep the lane, the pending outputs and the results apart.
LEMMA OnePlace == LanesInv /\ P!IInv => ChunkInOnePlace
  <1> SUFFICES ASSUME LanesInv, P!IInv PROVE ChunkInOnePlace
    OBVIOUS
  <1> DEFINE queued  == [i \in DOMAIN pending |-> pending[i].reqs]
             taken   == [k \in DOMAIN results |-> FinishedPrefillReqs(results[k])]
             outputs == <<lane_prefill>> \o queued \o taken
  <1>1. /\ Len(results) \in Nat /\ DOMAIN results = 1 .. Len(results)
        /\ Len(pending) \in Nat /\ DOMAIN pending = 1 .. Len(pending)
        /\ lane_prefill \subseteq Requests
    BY DEF LanesInv, LanesTypeOK
  <1>2. AtWorker \subseteq Requests
    BY AtWorkerType DEF LanesInv
  <1>3. /\ \A i \in DOMAIN pending : pending[i].reqs \subseteq Requests
        /\ \A k \in DOMAIN results : FinishedPrefillReqs(results[k]) \subseteq Requests
    BY <1>2, AtWorkerHas
  <1>4. /\ queued \in Seq(SUBSET Requests) /\ taken \in Seq(SUBSET Requests)
        /\ DOMAIN queued = DOMAIN pending /\ DOMAIN taken = DOMAIN results
        /\ Len(queued) = Len(pending)
    BY <1>1, <1>3
  <1>5. /\ \A i \in DOMAIN queued : queued[i] \cap lane_prefill = {}
        /\ \A k \in DOMAIN taken : taken[k] \cap lane_prefill = {}
    <2>1. CASE WorkerIdle
      BY <2>1 DEF WorkerIdle
    <2>2. CASE ~WorkerIdle
      <3>1. /\ Len(results) < Len(batch_infos) /\ lane_prefill = Launches(Len(results) + 1)
        BY <2>2 DEF LanesInv, LanesRunStep
      <3>2. Len(results) + 1 \in DOMAIN batch_infos
        BY <3>1, StepOfQueue
      <3>3. Len(results) < Len(results) + 1 /\ \A k \in DOMAIN results : k < Len(results) + 1
        BY <1>1
      <3> QED
        BY <3>1, <3>2, <3>3 DEF LanesInv, NotAhead
    <2> QED
      BY <2>1, <2>2
  <1>6. /\ \A i, j \in DOMAIN queued : i # j => queued[i] \cap queued[j] = {}
        /\ \A k, l \in DOMAIN taken : k # l => taken[k] \cap taken[l] = {}
        /\ \A i \in DOMAIN queued, k \in DOMAIN taken : queued[i] \cap taken[k] = {}
    BY DEF LanesInv, PlacesApart
  <1> HIDE DEF queued, taken
  <1> DEFINE len == Len(queued)
  <1>7. \A i \in DOMAIN outputs :
          \/ i = 1 /\ outputs[i] = lane_prefill
          \/ i - 1 \in DOMAIN queued /\ outputs[i] = queued[i - 1]
          \/ i - 1 - len \in DOMAIN taken /\ outputs[i] = taken[i - 1 - len] /\ i > 1 + len
    BY <1>1, <1>4, ThreeParts
  <1>8. DOMAIN outputs \subseteq Int /\ len \in Nat
    BY <1>1, <1>4
  <1> HIDE DEF outputs, len
  <1>9. ASSUME NEW i \in DOMAIN outputs, NEW j \in DOMAIN outputs, i # j
        PROVE  outputs[i] \cap outputs[j] = {}
    <2>1. i - 1 # j - 1 /\ i - 1 - len # j - 1 - len
      BY <1>8, <1>9
    <2> QED
      BY <1>5, <1>6, <1>7, <1>9, <2>1
  <1> QED
    BY <1>9 DEF ChunkInOnePlace, outputs, queued, taken

\* A prefill chunk is in the lane, pending, or in one result, never in two.
THEOREM ChunksInOnePlace == Spec => []ChunkInOnePlace
  BY Invariance, OnePlace, PTL

===============================================================================
