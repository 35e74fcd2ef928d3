-------------------------- MODULE LaneRanks_proofs --------------------------
(***************************************************************************)
(* Proofs about LaneRanks, for any set of ranks and any number of steps:   *)
(* the ranks take the same prefill outputs, an output is taken when all    *)
(* copies of it are finished, no group pairs two different collectives,    *)
(* and no rank waits for a collective that cannot come.                    *)
(*                                                                         *)
(* The argument: between two votes a host follows its program without      *)
(* looking at another rank, so any two hosts are on one path through it,   *)
(* and a vote ends when all of them have come to its end.  The collectives *)
(* of a lane are launched in the order of the program, and one that has    *)
(* completed has completed for all.                                        *)
(***************************************************************************)
EXTENDS LaneRanks, SequenceTheorems, TLAPS

-------------------------------------------------------------------------------
(* A host and its program: p is the plan, h the state of a host. *)

Plans   == [1 .. MaxSteps -> Steps]
Outputs == [step : Nat, output : Nat]

\* What the program of rank r depends on: a vote it waits for is one it asks for.
Host(r) ==
    [step |-> host[r].step, place |-> host[r].place, turn |-> host[r].turn,
     pending |-> pending[r], taken |-> taken[r],
     answer |-> IF vote[r] = "waits" THEN "none" ELSE vote[r]]

At(p, h) == Program(p[h.step])[h.place]

HostRecords ==
    [step : 1 .. MaxSteps + 1, place : Nat, turn : Nat, pending : Seq(Nat),
     taken : SUBSET Outputs, answer : {"none", "ready", "unready"}]

\* A host is within its program, and an answer is about an output it asked for.
Coherent(p, h) ==
    /\ h.step \in 1 .. MaxSteps => h.place \in 1 .. Len(Program(p[h.step]))
    /\ h.turn > 0
    /\ h.answer # "none" =>
          /\ h.step \in 1 .. MaxSteps
          /\ At(p, h) # "launch"
          /\ h.turn \in 1 .. Len(h.pending)

HostStates(p) == {h \in HostRecords : Coherent(p, h)}

\* The host has come to the end of the plan or to a vote.
Stops(p, h) ==
    \/ h.step > MaxSteps
    \/ h.answer = "none" /\ At(p, h) # "launch" /\ h.turn <= Len(h.pending)

Takes(p, h) ==
    [step |-> h.step, place |-> h.place, turn |-> h.turn, pending |-> Tail(h.pending),
     taken |-> h.taken \cup {[step |-> h.step, output |-> h.pending[h.turn]]},
     answer |-> "none"]

Surveys(p, h) ==
    [step |-> h.step, place |-> h.place, turn |-> h.turn + 1, pending |-> h.pending,
     taken |-> h.taken, answer |-> "none"]

GoesOn(p, h, queue) ==
    [step |-> IF h.place < Len(Program(p[h.step])) THEN h.step ELSE h.step + 1,
     place |-> IF h.place < Len(Program(p[h.step])) THEN h.place + 1 ELSE 1,
     turn |-> 1, pending |-> queue, taken |-> h.taken, answer |-> "none"]

Launches(p, h) ==
    GoesOn(p, h, IF p[h.step].prefill THEN Append(h.pending, h.step) ELSE h.pending)

\* What a host that has not stopped does next.
After(p, h) ==
    IF h.answer = "ready"
    THEN IF At(p, h) = "take" THEN Takes(p, h) ELSE Surveys(p, h)
    ELSE IF At(p, h) = "launch" THEN Launches(p, h) ELSE GoesOn(p, h, h.pending)

\* The program leads from h to k without a vote.
Closed(p, S) == \A h \in S : ~Stops(p, h) => After(p, h) \in S
Reaches(p, h, k) ==
    \A S \in SUBSET HostStates(p) : h \in S /\ Closed(p, S) => k \in S

LaunchPlace(step) == IF step.prefill THEN 1 ELSE 3

\* The host has launched the model for step n.
Launched(p, h, n) ==
    n < h.step \/ (n = h.step /\ h.place > LaunchPlace(p[n]))

\* A program launches at one place and ends behind it, if there is work.
LEMMA ProgramPlaces ==
    ASSUME NEW step \in Steps, NEW k \in 1 .. Len(Program(step))
    PROVE  /\ Program(step)[k] \in {"launch", "survey", "take"}
           /\ Program(step)[k] = "launch" =>
                (step.prefill \/ step.decode) /\ k = LaunchPlace(step)
           /\ k = LaunchPlace(step) /\ (step.prefill \/ step.decode) =>
                Program(step)[k] = "launch"
           /\ step.prefill \/ step.decode => LaunchPlace(step) < Len(Program(step))
  <1>1. CASE step.prefill
    BY <1>1 DEF Program, LaunchPlace
  <1>2. CASE ~step.prefill /\ step.decode
    <2>1. Len(Program(step)) = 5
      BY <1>2 DEF Program
    <2>2. k \in {1, 2, 3, 4, 5}
      BY <2>1
    <2> QED
      BY <1>2, <2>1, <2>2 DEF Program, LaunchPlace
  <1>3. CASE ~step.prefill /\ ~step.decode
    BY <1>3 DEF Program, LaunchPlace
  <1> QED
    BY <1>1, <1>2, <1>3 DEF Steps

\* Every step has a program of three places at least.
LEMMA ProgramLength ==
    ASSUME NEW step \in Steps
    PROVE  Len(Program(step)) \in Nat /\ Len(Program(step)) >= 3
  <1>1. CASE step.prefill
    BY <1>1 DEF Program
  <1>2. CASE ~step.prefill /\ step.decode
    BY <1>2 DEF Program
  <1>3. CASE ~step.prefill /\ ~step.decode
    BY <1>3 DEF Program
  <1> QED
    BY <1>1, <1>2, <1>3 DEF Steps

\* A sequence that gets an element stays one.
LEMMA AppendSeq ==
    ASSUME NEW T, NEW s \in Seq(T), NEW e \in T
    PROVE  Append(s, e) \in Seq(T)
  OBVIOUS

\* A sequence that loses its head stays one.
LEMMA TailSeq ==
    ASSUME NEW T, NEW s \in Seq(T), s # <<>>
    PROVE  Tail(s) \in Seq(T)
  OBVIOUS

\* Empty is of length 0.
LEMMA NonEmpty ==
    ASSUME NEW T, NEW s \in Seq(T)
    PROVE  s # <<>> <=> Len(s) > 0
  OBVIOUS

\* What a state of a host is, field by field.
LEMMA HostFields ==
    ASSUME NEW p, NEW h \in HostStates(p)
    PROVE  /\ h.step \in Nat /\ h.step \in 1 .. MaxSteps + 1
           /\ h.place \in Nat /\ h.turn \in Nat
           /\ h.pending \in Seq(Nat) /\ h.taken \in SUBSET Outputs
           /\ h.answer \in {"none", "ready", "unready"}
           /\ Coherent(p, h)
  <1>1. h \in HostRecords /\ Coherent(p, h)
    BY DEF HostStates
  <1>2. h.step \in 1 .. MaxSteps + 1
    BY <1>1 DEF HostRecords
  <1>3. h.step \in Nat
    BY <1>2, RanksAssumption
  <1>4. h.place \in Nat /\ h.turn \in Nat
    BY <1>1 DEF HostRecords
  <1>5. h.pending \in Seq(Nat) /\ h.taken \in SUBSET Outputs
        /\ h.answer \in {"none", "ready", "unready"}
    BY <1>1 DEF HostRecords
  <1> QED
    BY <1>1, <1>2, <1>3, <1>4, <1>5

\* Fields of the right kinds make a state of a host.
LEMMA HostFieldsSuffice ==
    ASSUME NEW p, NEW step \in 1 .. MaxSteps + 1, NEW place \in Nat, NEW turn \in Nat,
           NEW queue \in Seq(Nat), NEW taken_ \in SUBSET Outputs,
           NEW answer \in {"none", "ready", "unready"},
           Coherent(p, [step |-> step, place |-> place, turn |-> turn,
                        pending |-> queue, taken |-> taken_, answer |-> answer])
    PROVE  [step |-> step, place |-> place, turn |-> turn,
            pending |-> queue, taken |-> taken_, answer |-> answer] \in HostStates(p)
  BY DEF HostStates, HostRecords

\* The next place of a program is a place of a program.
LEMMA GoesOnState ==
    ASSUME NEW p \in Plans, NEW h \in HostStates(p), NEW queue \in Seq(Nat),
           h.step \in 1 .. MaxSteps
    PROVE  GoesOn(p, h, queue) \in HostStates(p)
  <1>0. /\ h.step \in Nat /\ h.step \in 1 .. MaxSteps + 1
        /\ h.place \in Nat /\ h.turn \in Nat
        /\ h.pending \in Seq(Nat) /\ h.taken \in SUBSET Outputs
        /\ h.answer \in {"none", "ready", "unready"}
        /\ Coherent(p, h)
    BY HostFields
  <1> DEFINE n == Len(Program(p[h.step]))
  <1>1. n \in Nat /\ n >= 3
    BY ProgramLength DEF Plans
  <1>2. h.place \in 1 .. n /\ h.taken \in SUBSET Outputs
    BY HostFields DEF Coherent
  <1>3. h.step + 1 \in 1 .. MaxSteps => Len(Program(p[h.step + 1])) >= 3
                                        /\ Len(Program(p[h.step + 1])) \in Nat
    BY ProgramLength DEF Plans
  <1> HIDE DEF n
  <1>5. CASE h.place < n
    <2>1. GoesOn(p, h, queue) =
            [step |-> h.step, place |-> h.place + 1, turn |-> 1, pending |-> queue,
             taken |-> h.taken, answer |-> "none"]
      BY <1>5 DEF GoesOn, n
    <2>2. Coherent(p, GoesOn(p, h, queue))
      BY <2>1, <1>1, <1>2, <1>5 DEF Coherent, n
    <2>3. h.place + 1 \in Nat /\ h.step \in 1 .. MaxSteps + 1
      BY <1>0
    <2> QED
      BY <2>1, <2>2, <2>3, <1>2, HostFieldsSuffice
  <1>6. CASE ~(h.place < n)
    <2>1. GoesOn(p, h, queue) =
            [step |-> h.step + 1, place |-> 1, turn |-> 1, pending |-> queue,
             taken |-> h.taken, answer |-> "none"]
      BY <1>6 DEF GoesOn, n
    <2>2. h.step + 1 \in 1 .. MaxSteps + 1
      BY RanksAssumption
    <2>3. Coherent(p, GoesOn(p, h, queue))
      BY <2>1, <1>3 DEF Coherent
    <2> QED
      BY <2>1, <2>2, <2>3, <1>2, HostFieldsSuffice
  <1> QED
    BY <1>5, <1>6

\* A host that does not stop goes on to a state of a host.
LEMMA AfterState ==
    ASSUME NEW p \in Plans, NEW h \in HostStates(p), ~Stops(p, h)
    PROVE  After(p, h) \in HostStates(p)
  <1>0. /\ h.step \in Nat /\ h.step \in 1 .. MaxSteps + 1
        /\ h.place \in Nat /\ h.turn \in Nat
        /\ h.pending \in Seq(Nat) /\ h.taken \in SUBSET Outputs
        /\ h.answer \in {"none", "ready", "unready"}
        /\ Coherent(p, h)
    BY HostFields
  <1>1. h.step \in 1 .. MaxSteps /\ p[h.step] \in Steps /\ h.step \in Nat
    BY <1>0, RanksAssumption DEF Stops, Plans
  <1>2. CASE h.answer = "ready" /\ At(p, h) = "take"
    <2>1. h.turn \in 1 .. Len(h.pending) /\ h.pending # <<>>
      BY <1>2, <1>0, NonEmpty DEF Coherent
    <2>2. Tail(h.pending) \in Seq(Nat)
      BY <2>1, <1>0, TailSeq
    <2>3. h.pending[h.turn] \in Nat
      BY <2>1, <1>0
    <2>4. h.taken \cup {[step |-> h.step, output |-> h.pending[h.turn]]} \in SUBSET Outputs
      BY <2>3, <1>1, <1>0 DEF Outputs
    <2>5. Coherent(p, Takes(p, h))
      BY <1>0 DEF Coherent, Takes
    <2>6. Takes(p, h) \in HostStates(p)
      BY <2>2, <2>4, <2>5, <1>0, HostFieldsSuffice DEF Takes
    <2> QED
      BY <1>2, <2>6 DEF After
  <1>3. CASE h.answer = "ready" /\ At(p, h) # "take"
    <2>1. Coherent(p, Surveys(p, h))
      BY <1>0 DEF Coherent, Surveys
    <2>2. h.turn + 1 \in Nat
      BY <1>0
    <2>3. Surveys(p, h) \in HostStates(p)
      BY <2>1, <2>2, <1>0, HostFieldsSuffice DEF Surveys
    <2> QED
      BY <1>3, <2>3 DEF After
  <1>4. CASE h.answer # "ready" /\ At(p, h) = "launch"
    <2>1. (IF p[h.step].prefill THEN Append(h.pending, h.step) ELSE h.pending) \in Seq(Nat)
      BY <1>1, AppendSeq, <1>0
    <2> QED
      BY <1>4, <1>1, <2>1, GoesOnState DEF After, Launches
  <1>5. CASE h.answer # "ready" /\ At(p, h) # "launch"
    <2>1. h.pending \in Seq(Nat)
      BY <1>0
    <2> QED
      BY <1>5, <1>1, <2>1, GoesOnState DEF After
  <1> QED
    BY <1>2, <1>3, <1>4, <1>5

-------------------------------------------------------------------------------
(* Reaching. *)

\* A path of no step.
LEMMA ReachesItself ==
    ASSUME NEW p, NEW h
    PROVE  Reaches(p, h, h)
  BY DEF Reaches

\* A path with one more step at its end.
LEMMA ReachesAfter ==
    ASSUME NEW p, NEW h, NEW k, Reaches(p, h, k), ~Stops(p, k)
    PROVE  Reaches(p, h, After(p, k))
  BY DEF Reaches, Closed

\* A path without its first step.
LEMMA ReachesFromAfter ==
    ASSUME NEW p, NEW h \in HostStates(p), NEW k,
           Reaches(p, h, k), ~Stops(p, h), h # k
    PROVE  Reaches(p, After(p, h), k)
  <1> SUFFICES ASSUME NEW S \in SUBSET HostStates(p), After(p, h) \in S, Closed(p, S)
               PROVE  k \in S
    BY DEF Reaches
  <1>1. S \cup {h} \in SUBSET HostStates(p)
    OBVIOUS
  <1>2. Closed(p, S \cup {h})
    BY DEF Closed
  <1>3. k \in S \cup {h}
    BY <1>1, <1>2 DEF Reaches
  <1> QED
    BY <1>3

\* From where a host stops no path leads on.
LEMMA StoppedReaches ==
    ASSUME NEW p, NEW h \in HostStates(p), NEW k, Reaches(p, h, k), Stops(p, h)
    PROVE  k = h
  <1>1. {h} \in SUBSET HostStates(p) /\ Closed(p, {h})
    BY DEF Closed
  <1> QED
    BY <1>1 DEF Reaches

\* The program goes forward, and what was taken with an earlier step stays.
NotBefore(h, k) ==
    /\ h.step < k.step \/ (h.step = k.step /\ h.place <= k.place)
    /\ \A t \in Outputs : t.step < h.step => (t \in h.taken <=> t \in k.taken)

\* A step does not lead back.
LEMMA AfterNotBefore ==
    ASSUME NEW p \in Plans, NEW h \in HostStates(p), ~Stops(p, h)
    PROVE  NotBefore(h, After(p, h))
  <1>1. h.step \in Nat /\ h.place \in Nat
    BY HostFields
  <1>2. ASSUME NEW queue
        PROVE  NotBefore(h, GoesOn(p, h, queue))
    BY <1>1 DEF NotBefore, GoesOn
  <1>3. NotBefore(h, Takes(p, h))
    BY <1>1 DEF NotBefore, Takes, Outputs
  <1>4. NotBefore(h, Surveys(p, h))
    BY <1>1 DEF NotBefore, Surveys
  <1> QED
    BY <1>2, <1>3, <1>4 DEF After, Launches

\* "Not before" is transitive.
LEMMA NotBeforeTransitive ==
    ASSUME NEW p \in Plans, NEW h \in HostStates(p), NEW j \in HostStates(p),
           NEW k \in HostStates(p), NotBefore(h, j), NotBefore(j, k)
    PROVE  NotBefore(h, k)
  <1>1. /\ h.step \in Nat /\ j.step \in Nat /\ k.step \in Nat
        /\ h.place \in Nat /\ j.place \in Nat /\ k.place \in Nat
    BY HostFields
  <1>2. \A t \in Outputs : t.step < h.step => t.step < j.step
    BY <1>1 DEF NotBefore, Outputs
  <1>3. \A t \in Outputs : t.step < h.step => (t \in h.taken <=> t \in k.taken)
    BY <1>2 DEF NotBefore
  <1>4. h.step < k.step \/ (h.step = k.step /\ h.place <= k.place)
    BY <1>1 DEF NotBefore
  <1> QED
    BY <1>3, <1>4 DEF NotBefore

\* A path does not lead back.
LEMMA ReachesNotBefore ==
    ASSUME NEW p \in Plans, NEW h \in HostStates(p), NEW k, Reaches(p, h, k)
    PROVE  NotBefore(h, k)
  <1> DEFINE S == {x \in HostStates(p) : NotBefore(h, x)}
  <1>1. h \in S
    <2>1. h.step \in Nat /\ h.place \in Nat
      BY HostFields
    <2> QED
      BY <2>1 DEF NotBefore
  <1>2. ASSUME NEW x \in S, ~Stops(p, x)
        PROVE  After(p, x) \in S
    BY <1>2, AfterState, AfterNotBefore, NotBeforeTransitive
  <1>3. Closed(p, S) /\ S \in SUBSET HostStates(p)
    BY <1>2 DEF Closed
  <1>4. k \in S
    BY <1>1, <1>3 DEF Reaches
  <1> QED
    BY <1>4

\* Who is not before has launched what the other has.
LEMMA NotBeforeLaunched ==
    ASSUME NEW p \in Plans, NEW h \in HostStates(p), NEW k \in HostStates(p),
           NotBefore(h, k), NEW n \in 1 .. MaxSteps, Launched(p, h, n)
    PROVE  Launched(p, k, n)
  <1>1. h.step \in Nat /\ k.step \in Nat /\ h.place \in Nat /\ k.place \in Nat
    BY HostFields
  <1>2. n \in Nat /\ LaunchPlace(p[n]) \in Nat
    BY DEF LaunchPlace
  <1> QED
    BY <1>1, <1>2 DEF NotBefore, Launched

\* A step of a host launches the model of its step or none.
LEMMA AfterLaunched ==
    ASSUME NEW p \in Plans, NEW h \in HostStates(p), ~Stops(p, h),
           NEW n \in 1 .. MaxSteps, p[n].prefill \/ p[n].decode
    PROVE  Launched(p, After(p, h), n) <=>
             Launched(p, h, n) \/ (At(p, h) = "launch" /\ n = h.step)
  <1>0. h.step \in Nat /\ h.place \in Nat /\ n \in Nat /\ Coherent(p, h)
    BY HostFields
  <1>1. h.step \in 1 .. MaxSteps /\ p[h.step] \in Steps /\ p[n] \in Steps
    BY HostFields, RanksAssumption DEF Stops, Plans
  <1>2. h.place \in 1 .. Len(Program(p[h.step]))
    BY <1>0, <1>1 DEF Coherent
  <1>3. Len(Program(p[h.step])) \in Nat /\ LaunchPlace(p[n]) \in Nat /\ LaunchPlace(p[n]) >= 1
    BY <1>1, ProgramLength DEF LaunchPlace
  <1>4. /\ At(p, h) = "launch" => h.place = LaunchPlace(p[h.step])
        /\ p[h.step].prefill \/ p[h.step].decode =>
              /\ h.place = LaunchPlace(p[h.step]) => At(p, h) = "launch"
              /\ LaunchPlace(p[h.step]) < Len(Program(p[h.step]))
    BY <1>1, <1>2, ProgramPlaces DEF At
  <1>5. CASE h.answer = "ready"
    <2>1. At(p, h) # "launch"
      BY <1>0, <1>5 DEF Coherent
    <2>2. After(p, h).step = h.step /\ After(p, h).place = h.place
      BY <1>5 DEF After, Takes, Surveys
    <2> QED
      BY <2>1, <2>2 DEF Launched
  <1>6. CASE h.answer # "ready"
    <2>1. CASE h.place < Len(Program(p[h.step]))
      <3>1. After(p, h).step = h.step /\ After(p, h).place = h.place + 1
        BY <1>6, <2>1 DEF After, Launches, GoesOn
      <3> QED
        BY <3>1, <1>0, <1>1, <1>2, <1>3, <1>4 DEF Launched
    <2>2. CASE ~(h.place < Len(Program(p[h.step])))
      <3>1. After(p, h).step = h.step + 1 /\ After(p, h).place = 1
        BY <1>6, <2>2 DEF After, Launches, GoesOn
      <3> QED
        BY <3>1, <2>2, <1>0, <1>1, <1>2, <1>3, <1>4 DEF Launched
    <2> QED
      BY <2>1, <2>2
  <1> QED
    BY <1>5, <1>6

\* Before the launch of a step only earlier steps have been launched.
LEMMA BeforeLaunch ==
    ASSUME NEW p \in Plans, NEW h \in HostStates(p), h.step \in 1 .. MaxSteps,
           At(p, h) = "launch", NEW n \in 1 .. MaxSteps
    PROVE  Launched(p, h, n) <=> n < h.step
  <1>0. h.step \in Nat /\ h.place \in Nat /\ n \in Nat /\ Coherent(p, h)
    BY HostFields
  <1>1. p[h.step] \in Steps /\ h.place \in 1 .. Len(Program(p[h.step]))
    BY <1>0 DEF Coherent, Plans
  <1>2. h.place = LaunchPlace(p[h.step])
    BY <1>1, ProgramPlaces DEF At
  <1> QED
    BY <1>0, <1>2 DEF Launched

\* Hosts that are on one path stay there when one of them goes on.
LEMMA OnePathStep ==
    ASSUME NEW p \in Plans, NEW f \in [Ranks -> HostStates(p)],
           NEW g \in [Ranks -> HostStates(p)], NEW r \in Ranks,
           \A s, u \in Ranks : Reaches(p, f[s], f[u]) \/ Reaches(p, f[u], f[s]),
           ~Stops(p, f[r]), g[r] = After(p, f[r]),
           \A s \in Ranks \ {r} : g[s] = f[s]
    PROVE  \A s, u \in Ranks : Reaches(p, g[s], g[u]) \/ Reaches(p, g[u], g[s])
  <1>1. ASSUME NEW s \in Ranks \ {r}
        PROVE  Reaches(p, g[s], g[r]) \/ Reaches(p, g[r], g[s])
    <2>1. CASE f[s] = f[r]
      BY <2>1, ReachesItself, ReachesAfter
    <2>2. CASE f[s] # f[r] /\ Reaches(p, f[r], f[s])
      BY <2>2, ReachesFromAfter
    <2>3. CASE Reaches(p, f[s], f[r])
      BY <2>3, ReachesAfter
    <2> QED
      BY <2>1, <2>2, <2>3
  <1>2. Reaches(p, g[r], g[r])
    BY ReachesItself
  <1>3. ASSUME NEW s \in Ranks \ {r}, NEW u \in Ranks \ {r}
        PROVE  Reaches(p, g[s], g[u]) \/ Reaches(p, g[u], g[s])
    <2>1. Reaches(p, f[s], f[u]) \/ Reaches(p, f[u], f[s])
      OBVIOUS
    <2>2. g[s] = f[s] /\ g[u] = f[u]
      OBVIOUS
    <2> QED
      BY ONLY <2>1, <2>2
  <1> QED
    BY <1>1, <1>2, <1>3

-------------------------------------------------------------------------------
(* The stream of a lane. *)

Collectives ==
    [kind : {"forward", "logits", "ready"}, lane : Lanes, about : Nat, ready : BOOLEAN]

\* What the model launches in a lane when the engine sends plan p.
Work(p, lane) ==
    {c \in Collectives :
        /\ c.kind \in {"forward", "logits"} /\ c.lane = lane /\ c.ready = FALSE
        /\ c.about \in 1 .. MaxSteps /\ p[c.about][lane]}

Before(c, d) ==
    c.about < d.about \/ (c.about = d.about /\ c.kind = "forward" /\ d.kind = "logits")

\* The model's collectives are in the order of the program.
InOrder(s) == \A i, j \in 1 .. Len(s) : i < j /\ s[j].kind # "ready" => Before(s[i], s[j])

Elements(s) == {s[i] : i \in 1 .. Len(s)}

\* What the collectives of a lane's model are, field by field.
LEMMA WorkFields ==
    ASSUME NEW p \in Plans, NEW lane \in Lanes, NEW c \in Work(p, lane)
    PROVE  /\ c.kind \in {"forward", "logits"} /\ c.lane = lane /\ c.ready = FALSE
           /\ c.about \in 1 .. MaxSteps /\ c.about \in Nat
           /\ p[c.about][lane]
           /\ c \in Collectives
  <1>1. c \in Collectives
    BY DEF Work
  <1>2. /\ c.kind \in {"forward", "logits"} /\ c.lane = lane /\ c.ready = FALSE
        /\ c.about \in 1 .. MaxSteps /\ p[c.about][lane]
    BY DEF Work
  <1>3. c.about \in Nat
    BY <1>2
  <1> QED
    BY <1>1, <1>2, <1>3

\* Work is told apart by its kind and step.
LEMMA WorkEqual ==
    ASSUME NEW p \in Plans, NEW lane \in Lanes, NEW c \in Work(p, lane),
           NEW d \in Work(p, lane), c.kind = d.kind, c.about = d.about
    PROVE  c = d
  <1>1. c \in Collectives /\ d \in Collectives
    BY DEF Work
  <1>2. c.lane = d.lane /\ c.ready = d.ready
    BY DEF Work
  <1> QED
    BY <1>1, <1>2 DEF Collectives

\* The collectives of a lane have one order.
LEMMA BeforeOrAfter ==
    ASSUME NEW p \in Plans, NEW lane \in Lanes, NEW c \in Work(p, lane),
           NEW d \in Work(p, lane), c # d
    PROVE  Before(c, d) \/ Before(d, c)
  <1>1. /\ c.kind \in {"forward", "logits"} /\ d.kind \in {"forward", "logits"}
        /\ c.about \in Nat /\ d.about \in Nat
    BY WorkFields
  <1>2. c.kind # d.kind \/ c.about # d.about
    BY WorkEqual
  <1> QED
    BY <1>1, <1>2 DEF Before

\* The order of the collectives is strict.
LEMMA NotBeforeItself ==
    ASSUME NEW c, NEW d, c.about \in Nat, d.about \in Nat, Before(c, d)
    PROVE  c # d /\ ~Before(d, c)
  BY DEF Before

\* A pair as a sequence.
LEMMA PairFacts ==
    ASSUME NEW T, NEW a \in T, NEW b \in T
    PROVE  /\ <<a, b>> \in Seq(T) /\ Len(<<a, b>>) = 2
           /\ <<a, b>>[1] = a /\ <<a, b>>[2] = b
  OBVIOUS

\* What a model launches: the forward pass, then the logits.
LEMMA LaneWorkType ==
    ASSUME NEW lane \in Lanes, NEW n \in Nat
    PROVE  /\ LaneWork(lane, n) \in Seq(Collectives)
           /\ Len(LaneWork(lane, n)) = 2
           /\ LaneWork(lane, n)[1] = Collective("forward", lane, n, FALSE)
           /\ LaneWork(lane, n)[2] = Collective("logits", lane, n, FALSE)
  <1>1. /\ Collective("forward", lane, n, FALSE) \in Collectives
        /\ Collective("logits", lane, n, FALSE) \in Collectives
    BY DEF Collective, Collectives
  <1> QED
    BY <1>1, PairFacts DEF LaneWork

\* A sequence with two elements appended, place by place.
LEMMA ConcatFacts ==
    ASSUME NEW T, NEW s \in Seq(T), NEW w \in Seq(T), Len(w) = 2
    PROVE  /\ s \o w \in Seq(T) /\ Len(s \o w) = Len(s) + 2
           /\ \A i \in 1 .. Len(s) : (s \o w)[i] = s[i]
           /\ (s \o w)[Len(s) + 1] = w[1] /\ (s \o w)[Len(s) + 2] = w[2]
           /\ Len(s) \in Nat
  <1>1. s \o w \in Seq(T) /\ Len(s \o w) = Len(s) + 2 /\ Len(s) \in Nat
    <2>1. s \o w \in Seq(T) /\ Len(s \o w) = Len(s) + Len(w)
      BY ConcatProperties
    <2>2. Len(s) \in Nat
      BY LenProperties
    <2> QED
      BY <2>1, <2>2
  <1>2. \A i \in 1 .. Len(s) : (s \o w)[i] = s[i]
    OBVIOUS
  <1>3. (s \o w)[Len(s) + 1] = w[1]
    <2>1. Len(s) + 1 \in 1 .. Len(s) + Len(w) /\ ~(Len(s) + 1 <= Len(s))
          /\ (Len(s) + 1) - Len(s) = 1
      BY <1>1
    <2> QED
      BY <2>1, <1>1
  <1>4. (s \o w)[Len(s) + 2] = w[2]
    <2>1. Len(s) + 2 \in 1 .. Len(s) + Len(w) /\ ~(Len(s) + 2 <= Len(s))
          /\ (Len(s) + 2) - Len(s) = 2
      BY <1>1
    <2> QED
      BY <2>1, <1>1
  <1> QED
    BY <1>1, <1>2, <1>3, <1>4

\* A stream on which a model is launched has its two collectives as well.
LEMMA ElementsOfWork ==
    ASSUME NEW s \in Seq(Collectives), NEW lane \in Lanes, NEW n \in Nat
    PROVE  Elements(s \o LaneWork(lane, n)) =
             Elements(s) \cup {Collective("forward", lane, n, FALSE),
                               Collective("logits", lane, n, FALSE)}
  <1> DEFINE w == LaneWork(lane, n)
  <1>1. /\ w \in Seq(Collectives) /\ Len(w) = 2
        /\ w[1] = Collective("forward", lane, n, FALSE)
        /\ w[2] = Collective("logits", lane, n, FALSE)
    BY LaneWorkType
  <1> HIDE DEF w
  <1>2. /\ Len(s \o w) = Len(s) + 2 /\ Len(s) \in Nat
        /\ \A i \in 1 .. Len(s) : (s \o w)[i] = s[i]
        /\ (s \o w)[Len(s) + 1] = w[1] /\ (s \o w)[Len(s) + 2] = w[2]
    <2>1. w \in Seq(Collectives) /\ Len(w) = 2
      BY <1>1
    <2> QED
      BY ONLY <2>1, ConcatFacts, s \in Seq(Collectives)
  <1>3. \A i : i \in 1 .. Len(s) + 2 <=> i \in 1 .. Len(s) \/ i = Len(s) + 1 \/ i = Len(s) + 2
    BY <1>2
  <1>4. ASSUME NEW c
        PROVE  c \in Elements(s \o w) <=> c \in Elements(s) \/ c = w[1] \/ c = w[2]
    BY <1>2, <1>3 DEF Elements
  <1>5. Elements(s \o w) = Elements(s) \cup {w[1], w[2]}
    BY <1>4
  <1> QED
    BY <1>1, <1>5 DEF w

\* A model launched behind earlier ones leaves a stream in order.
LEMMA WorkInOrder ==
    ASSUME NEW s \in Seq(Collectives), NEW lane \in Lanes, NEW n \in Nat, InOrder(s),
           \A i \in 1 .. Len(s) : s[i].about < n
    PROVE  InOrder(s \o LaneWork(lane, n))
  <1> DEFINE w == LaneWork(lane, n)
  <1>1. /\ w \in Seq(Collectives) /\ Len(w) = 2
        /\ w[1].about = n /\ w[1].kind = "forward" /\ w[2].about = n /\ w[2].kind = "logits"
    <2>1. /\ w \in Seq(Collectives) /\ Len(w) = 2
          /\ w[1] = Collective("forward", lane, n, FALSE)
          /\ w[2] = Collective("logits", lane, n, FALSE)
      BY LaneWorkType
    <2>2. w[1].about = n /\ w[1].kind = "forward"
      BY <2>1 DEF Collective
    <2>3. w[2].about = n /\ w[2].kind = "logits"
      BY <2>1 DEF Collective
    <2> QED
      BY <2>1, <2>2, <2>3
  <1> HIDE DEF w
  <1>2. /\ Len(s \o w) = Len(s) + 2 /\ Len(s) \in Nat
        /\ \A i \in 1 .. Len(s) : (s \o w)[i] = s[i]
        /\ (s \o w)[Len(s) + 1] = w[1] /\ (s \o w)[Len(s) + 2] = w[2]
    BY <1>1, ConcatFacts
  <1>3. ASSUME NEW i \in 1 .. Len(s \o w), NEW j \in 1 .. Len(s \o w), i < j,
               (s \o w)[j].kind # "ready"
        PROVE  Before((s \o w)[i], (s \o w)[j])
    <2>1. CASE j \in 1 .. Len(s)
      <3>1. i \in 1 .. Len(s)
        BY <1>2, <1>3, <2>1
      <3>2. (s \o w)[i] = s[i] /\ (s \o w)[j] = s[j]
        BY <1>2, <2>1, <3>1
      <3> QED
        BY <1>3, <2>1, <3>1, <3>2 DEF InOrder
    <2>2. CASE i \in 1 .. Len(s) /\ j > Len(s)
      <3>1. (s \o w)[j].about = n
        <4>1. j = Len(s) + 1 \/ j = Len(s) + 2
          BY <1>2, <2>2
        <4> QED
          BY <4>1, <1>1, <1>2
      <3>2. (s \o w)[i] = s[i]
        BY <1>2, <2>2
      <3> QED
        BY <3>1, <3>2, <2>2 DEF Before
    <2>3. CASE i > Len(s)
      <3>1. i = Len(s) + 1 /\ j = Len(s) + 2
        BY <1>2, <1>3, <2>3
      <3> QED
        BY <3>1, <1>1, <1>2 DEF Before
    <2> QED
      BY <1>2, <2>1, <2>2, <2>3
  <1> QED
    BY <1>3 DEF InOrder, w

\* A sequence with an element appended, place by place.
LEMMA AppendFacts ==
    ASSUME NEW T, NEW s \in Seq(T), NEW e \in T
    PROVE  /\ Append(s, e) \in Seq(T) /\ Len(Append(s, e)) = Len(s) + 1
           /\ \A i \in 1 .. Len(s) : Append(s, e)[i] = s[i]
           /\ Append(s, e)[Len(s) + 1] = e
  OBVIOUS

\* A sequence without its head, place by place.
LEMMA TailFacts ==
    ASSUME NEW T, NEW s \in Seq(T), s # <<>>
    PROVE  /\ Tail(s) \in Seq(T) /\ Len(Tail(s)) = Len(s) - 1 /\ Len(s) >= 1
           /\ Len(s) \in Nat
           /\ \A i \in 1 .. Len(Tail(s)) : Tail(s)[i] = s[i + 1]
           /\ Head(s) = s[1]
  OBVIOUS

\* A stream that completes its first collective stays in order.
LEMMA TailInOrder ==
    ASSUME NEW s \in Seq(Collectives), s # <<>>, InOrder(s)
    PROVE  InOrder(Tail(s))
  <1>1. /\ Len(Tail(s)) = Len(s) - 1 /\ Len(s) >= 1 /\ Len(s) \in Nat
        /\ \A i \in 1 .. Len(Tail(s)) : Tail(s)[i] = s[i + 1]
    BY TailFacts
  <1>2. ASSUME NEW i \in 1 .. Len(Tail(s)), NEW j \in 1 .. Len(Tail(s)), i < j,
               Tail(s)[j].kind # "ready"
        PROVE  Before(Tail(s)[i], Tail(s)[j])
    <2>1. i + 1 \in 1 .. Len(s) /\ j + 1 \in 1 .. Len(s) /\ i + 1 < j + 1
      BY <1>1, <1>2
    <2>2. Tail(s)[i] = s[i + 1] /\ Tail(s)[j] = s[j + 1]
      BY <1>1
    <2> QED
      BY <1>2, <2>1, <2>2 DEF InOrder
  <1> QED
    BY <1>2 DEF InOrder

\* The tail has all the model's collectives but the first.
LEMMA TailElements ==
    ASSUME NEW s \in Seq(Collectives), s # <<>>, InOrder(s), NEW c \in Collectives,
           c.kind # "ready"
    PROVE  c \in Elements(Tail(s)) <=> c \in Elements(s) /\ c # Head(s)
  <1>1. /\ Len(Tail(s)) = Len(s) - 1 /\ Len(s) >= 1 /\ Len(s) \in Nat
        /\ \A i \in 1 .. Len(Tail(s)) : Tail(s)[i] = s[i + 1]
        /\ Head(s) = s[1]
    BY TailFacts
  <1>2. ASSUME NEW i \in 1 .. Len(Tail(s)), c = Tail(s)[i]
        PROVE  c \in Elements(s) /\ c # Head(s)
    <2>1. i + 1 \in 1 .. Len(s) /\ 1 \in 1 .. Len(s) /\ 1 < i + 1 /\ c = s[i + 1]
      BY <1>1, <1>2
    <2>2. Before(s[1], c)
      BY <2>1 DEF InOrder
    <2>3. s[1].about \in Nat /\ c.about \in Nat
      <3>1. s[1] \in Collectives
        BY <2>1
      <3> QED
        BY <3>1 DEF Collectives
    <2>4. c # s[1]
      BY <2>2, <2>3, NotBeforeItself
    <2> QED
      BY <1>1, <2>1, <2>4 DEF Elements
  <1>3. ASSUME NEW i \in 1 .. Len(s), c = s[i], c # Head(s)
        PROVE  c \in Elements(Tail(s))
    <2>1. i # 1
      BY <1>1, <1>3
    <2>2. i - 1 \in 1 .. Len(Tail(s)) /\ Tail(s)[i - 1] = s[(i - 1) + 1]
      BY <1>1, <2>1
    <2>3. (i - 1) + 1 = i
      OBVIOUS
    <2> QED
      BY <1>3, <2>2, <2>3 DEF Elements
  <1> QED
    BY <1>2, <1>3 DEF Elements

-------------------------------------------------------------------------------
(* The inductive invariant. *)

TypeInv ==
    /\ plan \in Plans
    /\ host \in [Ranks -> [step : Nat, place : Nat, turn : Nat]]
    /\ pending \in [Ranks -> Seq(Nat)]
    /\ vote \in [Ranks -> {"none", "waits", "ready", "unready"}]
    /\ streams \in [Ranks -> [Lanes -> Seq(Collectives)]]
    /\ joined \in [Ranks -> [Groups -> Collectives \cup {Idle}]]
    /\ copied \in [Ranks -> SUBSET Nat]
    /\ taken \in [Ranks -> SUBSET Outputs]

\* A rank that waits for a vote has stopped there.
HostsInv ==
    \A r \in Ranks :
        /\ Host(r) \in HostStates(plan)
        /\ vote[r] = "waits" => host[r].step <= MaxSteps /\ Stops(plan, Host(r))

\* Of two hosts one is where the other comes to without a vote.
OnePath ==
    \A r, s \in Ranks :
        Reaches(plan, Host(r), Host(s)) \/ Reaches(plan, Host(s), Host(r))

\* "ready" is the answer about an output that is on every host.
AnswersInv ==
    \A r, s \in Ranks : vote[r] = "ready" => Asked(r) \in copied[s]

\* The vote the rank waits for; its own answer was true when it gave it.
IsVote(state, asked, here, c) ==
    /\ state = "waits"
    /\ c.kind = "ready" /\ c.lane = "decode" /\ c.about = asked
    /\ c.ready = TRUE => asked \in here

\* A stream has work that the host launched, in order, and at its end the vote.
StreamsInv ==
    \A r \in Ranks : \A lane \in Lanes :
        /\ InOrder(streams[r][lane])
        /\ \A i \in 1 .. Len(streams[r][lane]) :
              \/ /\ streams[r][lane][i] \in Work(plan, lane)
                 /\ Launched(plan, Host(r), streams[r][lane][i].about)
              \/ /\ lane = "decode" /\ i = Len(streams[r][lane])
                 /\ IsVote(vote[r], Asked(r), copied[r], streams[r][lane][i])

\* The vote a rank waits for is the last it launched, and not complete.
VotesInv ==
    \A r \in Ranks : vote[r] = "waits" =>
        /\ Len(streams[r]["decode"]) > 0
        /\ streams[r]["decode"][Len(streams[r]["decode"])].kind = "ready"

\* The work has not completed for the rank.
Open(r, lane, c) ==
    c \in Elements(streams[r][lane]) \/ ~Launched(plan, Host(r), c.about)

\* Work that has completed has completed for all ranks.
OpenInv ==
    \A lane \in Lanes : \A c \in Work(plan, lane) : \A r, s \in Ranks :
        Open(r, lane, c) <=> Open(s, lane, c)

\* A device is in the next collective of one of its streams, in the right group.
JoinedInv ==
    \A r \in Ranks : \A g \in Groups :
        joined[r][g] # Idle =>
            /\ joined[r][g].lane \in Lanes
            /\ streams[r][joined[r][g].lane] # <<>>
            /\ joined[r][g] = Head(streams[r][joined[r][g].lane])
            /\ GroupOf(joined[r][g]) = g

IInv ==
    /\ TypeInv /\ HostsInv /\ OnePath /\ AnswersInv
    /\ StreamsInv /\ VotesInv /\ OpenInv /\ JoinedInv /\ TakenWhenAllReady

\* Rank r goes on in its program without a vote.
Advances(r) ==
    /\ plan' = plan
    /\ ~Stops(plan, Host(r)) /\ Host(r)' = After(plan, Host(r))
    /\ vote[r] # "waits" /\ vote'[r] = "none"
    /\ \A s \in Ranks \ {r} : Host(s)' = Host(s) /\ vote'[s] = vote[s]
                               /\ host'[s] = host[s] /\ pending'[s] = pending[s]
                               /\ taken'[s] = taken[s]
    /\ UNCHANGED <<joined, copied>>

\* The state of a host in terms of the variables.
LEMMA HostField ==
    ASSUME NEW r
    PROVE  /\ Host(r).step = host[r].step /\ Host(r).place = host[r].place
           /\ Host(r).turn = host[r].turn /\ Host(r).pending = pending[r]
           /\ Host(r).taken = taken[r]
           /\ Host(r).answer = IF vote[r] = "waits" THEN "none" ELSE vote[r]
  BY DEF Host

\* The model's words for it and the proof's are the same.
LEMMA HostWords ==
    ASSUME NEW r
    PROVE  /\ Place(r) = At(plan, Host(r))
           /\ Busy(r) <=> Host(r).step <= MaxSteps
           /\ Asked(r) = Host(r).pending[Host(r).turn]
           /\ Asks(r) <=> At(plan, Host(r)) \in {"survey", "take"}
                           /\ Host(r).turn <= Len(Host(r).pending)
  BY HostField DEF Place, At, Busy, Asked, Asks

\* A host that is not done is at a place of the program of its step.
LEMMA AtPlace ==
    ASSUME NEW p \in Plans, NEW h \in HostStates(p), h.step <= MaxSteps
    PROVE  /\ h.step \in 1 .. MaxSteps /\ p[h.step] \in Steps
           /\ At(p, h) \in {"launch", "survey", "take"}
  <1>0. h.step \in Nat /\ h.step \in 1 .. MaxSteps + 1 /\ Coherent(p, h)
    BY HostFields
  <1>1. h.step \in 1 .. MaxSteps /\ p[h.step] \in Steps
    BY <1>0, RanksAssumption DEF Plans
  <1>2. h.place \in 1 .. Len(Program(p[h.step]))
    BY <1>0, <1>1 DEF Coherent
  <1> QED
    BY <1>1, <1>2, ProgramPlaces DEF At

\* A host that moves by itself stays on one path with all others.
LEMMA AdvancesOnePath ==
    ASSUME IInv, NEW r \in Ranks, Advances(r)
    PROVE  HostsInv' /\ OnePath'
  <1>1. plan \in Plans /\ \A s \in Ranks : Host(s) \in HostStates(plan)
    BY DEF IInv, TypeInv, HostsInv
  <1>2. Host(r)' \in HostStates(plan)
    BY <1>1, AfterState DEF Advances
  <1>3. HostsInv'
    <2>1. ASSUME NEW s \in Ranks
          PROVE  Host(s)' \in HostStates(plan')
      BY <1>1, <1>2 DEF Advances
    <2>2. ASSUME NEW s \in Ranks, vote'[s] = "waits"
          PROVE  host'[s].step <= MaxSteps /\ Stops(plan', Host(s)')
      <3>1. s # r
        BY <2>2 DEF Advances
      <3> QED
        BY <2>2, <3>1 DEF Advances, IInv, HostsInv
    <2> QED
      BY <2>1, <2>2 DEF HostsInv
  <1>4. OnePath'
    <2> DEFINE f == [s \in Ranks |-> Host(s)]
               g == [s \in Ranks |-> Host(s)']
    <2>1. f \in [Ranks -> HostStates(plan)] /\ g \in [Ranks -> HostStates(plan)]
      BY <1>1, <1>2 DEF Advances
    <2>2. /\ ~Stops(plan, f[r]) /\ g[r] = After(plan, f[r])
          /\ \A s \in Ranks \ {r} : g[s] = f[s]
      BY DEF Advances
    <2>3. \A s, u \in Ranks : Reaches(plan, f[s], f[u]) \/ Reaches(plan, f[u], f[s])
      BY DEF IInv, OnePath
    <2> HIDE DEF f, g
    <2>4. \A s, u \in Ranks : Reaches(plan, g[s], g[u]) \/ Reaches(plan, g[u], g[s])
      BY <1>1, <2>1, <2>2, <2>3, OnePathStep
    <2>5. \A s \in Ranks : g[s] = Host(s)'
      BY DEF g
    <2>6. plan' = plan
      BY DEF Advances
    <2>7. \A s, u \in Ranks :
            Reaches(plan, Host(s)', Host(u)') \/ Reaches(plan, Host(u)', Host(s)')
      BY <2>4, <2>5
    <2> QED
      BY <2>6, <2>7 DEF OnePath
  <1> QED
    BY <1>3, <1>4

-------------------------------------------------------------------------------
(* The steps of a host. *)

\* The streams do not notice a step that launches nothing.
LEMMA AdvancesStreams ==
    ASSUME IInv, NEW r \in Ranks, Advances(r), At(plan, Host(r)) # "launch",
           UNCHANGED streams
    PROVE  StreamsInv' /\ VotesInv' /\ OpenInv' /\ JoinedInv'
  <1>1. plan \in Plans /\ plan' = plan
    BY DEF IInv, TypeInv, Advances
  <1>2. ASSUME NEW s \in Ranks, NEW lane \in Lanes, NEW c \in Work(plan, lane)
        PROVE  Launched(plan, Host(s)', c.about) <=> Launched(plan, Host(s), c.about)
    <2>1. CASE s = r
      <3>1. Host(r) \in HostStates(plan) /\ ~Stops(plan, Host(r))
            /\ Host(r)' = After(plan, Host(r))
        BY DEF IInv, HostsInv, Advances
      <3>2. c.about \in 1 .. MaxSteps /\ plan[c.about][lane]
        BY <1>1, WorkFields
      <3>3. plan[c.about].prefill \/ plan[c.about].decode
        BY <3>2 DEF Lanes
      <3> QED
        BY <1>1, <2>1, <3>1, <3>2, <3>3, AfterLaunched
    <2>2. CASE s # r
      BY <2>2 DEF Advances
    <2> QED
      BY <2>1, <2>2
  <1>3. StreamsInv'
    <2> SUFFICES ASSUME NEW s \in Ranks, NEW lane \in Lanes,
                        NEW i \in 1 .. Len(streams[s][lane])
                 PROVE  \/ /\ streams[s][lane][i] \in Work(plan, lane)
                           /\ Launched(plan, Host(s)', streams[s][lane][i].about)
                        \/ /\ lane = "decode" /\ i = Len(streams[s][lane])
                           /\ IsVote(vote'[s], Asked(s)', copied'[s], streams[s][lane][i])
      BY <1>1 DEF IInv, StreamsInv
    <2>1. CASE /\ streams[s][lane][i] \in Work(plan, lane)
               /\ Launched(plan, Host(s), streams[s][lane][i].about)
      BY <2>1, <1>2
    <2>2. CASE /\ lane = "decode" /\ i = Len(streams[s][lane])
               /\ IsVote(vote[s], Asked(s), copied[s], streams[s][lane][i])
      <3>1. s # r
        BY <2>2 DEF IsVote, Advances
      <3>2. /\ vote'[s] = vote[s] /\ host'[s] = host[s] /\ pending'[s] = pending[s]
            /\ copied' = copied /\ streams' = streams
        BY <3>1 DEF Advances
      <3> QED
        BY <2>2, <3>2 DEF IsVote, Asked
    <2> QED
      BY <2>1, <2>2 DEF IInv, StreamsInv
  <1>4. OpenInv'
    <2>1. ASSUME NEW lane \in Lanes, NEW c \in Work(plan, lane), NEW s \in Ranks
          PROVE  Open(s, lane, c)' <=> Open(s, lane, c)
      BY <1>1, <1>2 DEF Open
    <2>2. \A lane \in Lanes : \A c \in Work(plan, lane) : \A s, u \in Ranks :
            Open(s, lane, c) <=> Open(u, lane, c)
      BY DEF IInv, OpenInv
    <2>3. \A lane \in Lanes : \A c \in Work(plan, lane) : \A s, u \in Ranks :
            Open(s, lane, c)' <=> Open(u, lane, c)'
      BY <2>1, <2>2
    <2> QED
      BY <1>1, <2>3 DEF OpenInv
  <1>5. JoinedInv'
    BY DEF IInv, JoinedInv, Advances
  <1>6. VotesInv'
    BY DEF IInv, VotesInv, Advances
  <1> QED
    BY <1>3, <1>4, <1>5, <1>6

\* Votes of other ranks and what they are about stay.
LEMMA AdvancesAnswers ==
    ASSUME IInv, NEW r \in Ranks, Advances(r)
    PROVE  AnswersInv'
  <1> SUFFICES ASSUME NEW s \in Ranks, NEW u \in Ranks, vote'[s] = "ready"
               PROVE  Asked(s)' \in copied'[u]
    BY DEF AnswersInv
  <1>1. s # r
    BY DEF Advances
  <1>2. vote[s] = "ready" /\ Asked(s)' = Asked(s) /\ copied' = copied
    BY <1>1 DEF Advances, Asked
  <1> QED
    BY <1>2 DEF IInv, AnswersInv

\* The survey of execute_model() that goes on to the next output.
LEMMA SurveyReadyIInv ==
    ASSUME IInv, NEW r \in Ranks, SurveyReady(r)
    PROVE  IInv'
  <1>0. TypeInv /\ plan \in Plans /\ Host(r) \in HostStates(plan)
    BY DEF IInv, TypeInv, HostsInv
  <1>1. /\ host'[r] = [host[r] EXCEPT !.turn = @ + 1] /\ vote'[r] = "none"
        /\ \A s \in Ranks \ {r} : host'[s] = host[s] /\ vote'[s] = vote[s]
        /\ vote[r] = "ready" /\ pending' = pending /\ taken' = taken
        /\ plan' = plan /\ streams' = streams /\ joined' = joined /\ copied' = copied
    BY <1>0 DEF SurveyReady, TypeInv
  <1>2. At(plan, Host(r)) = "survey" /\ Host(r).step <= MaxSteps /\ Host(r).answer = "ready"
    BY HostWords, HostField DEF SurveyReady
  <1>3. Advances(r)
    <2>1. Host(r)' = Surveys(plan, Host(r))
      BY <1>0, <1>1, HostField DEF Host, Surveys, TypeInv
    <2>2. ~Stops(plan, Host(r)) /\ After(plan, Host(r)) = Surveys(plan, Host(r))
      <3>1. Host(r).step \in Nat
        BY <1>0, HostFields
      <3> QED
        BY <1>2, <3>1, RanksAssumption DEF Stops, After
    <2>3. \A s \in Ranks \ {r} : Host(s)' = Host(s)
      BY <1>1 DEF Host
    <2> QED
      BY <1>1, <2>1, <2>2, <2>3 DEF Advances
  <1>4. TypeInv'
    <2>1. host[r] \in [step : Nat, place : Nat, turn : Nat]
      BY <1>0 DEF TypeInv
    <2>2. host'[r] \in [step : Nat, place : Nat, turn : Nat]
      BY <1>1, <2>1
    <2>3. host' \in [Ranks -> [step : Nat, place : Nat, turn : Nat]]
      BY <1>0, <2>2 DEF TypeInv, SurveyReady
    <2>4. vote' \in [Ranks -> {"none", "waits", "ready", "unready"}]
      BY <1>0 DEF TypeInv, SurveyReady
    <2> QED
      BY <1>0, <1>1, <2>3, <2>4 DEF TypeInv
  <1>5. TakenWhenAllReady'
    BY <1>1 DEF IInv, TakenWhenAllReady
  <1> QED
    BY <1>1, <1>2, <1>3, <1>4, <1>5, AdvancesOnePath, AdvancesStreams, AdvancesAnswers DEF IInv

\* _take_ready_prefill_outputs pops an output that is ready.
LEMMA TakeReadyIInv ==
    ASSUME IInv, NEW r \in Ranks, TakeReady(r)
    PROVE  IInv'
  <1>0. TypeInv /\ plan \in Plans /\ Host(r) \in HostStates(plan)
    BY DEF IInv, TypeInv, HostsInv
  <1> DEFINE t == [step |-> host[r].step, output |-> Asked(r)]
  <1>1. /\ pending'[r] = Tail(pending[r]) /\ vote'[r] = "none"
        /\ taken'[r] = taken[r] \cup {t}
        /\ \A s \in Ranks \ {r} :
              taken'[s] = taken[s] /\ pending'[s] = pending[s] /\ vote'[s] = vote[s]
        /\ vote[r] = "ready" /\ host' = host
        /\ plan' = plan /\ streams' = streams /\ joined' = joined /\ copied' = copied
    BY <1>0 DEF TakeReady, TypeInv
  <1>2. At(plan, Host(r)) = "take" /\ Host(r).step <= MaxSteps /\ Host(r).answer = "ready"
    BY HostWords, HostField DEF TakeReady
  <1>3. Advances(r)
    <2>1. Host(r)' = Takes(plan, Host(r))
      BY <1>0, <1>1, HostField DEF Host, Takes, TypeInv, Asked
    <2>2. ~Stops(plan, Host(r)) /\ After(plan, Host(r)) = Takes(plan, Host(r))
      <3>1. Host(r).step \in Nat
        BY <1>0, HostFields
      <3> QED
        BY <1>2, <3>1, RanksAssumption DEF Stops, After
    <2>3. \A s \in Ranks \ {r} : Host(s)' = Host(s)
      BY <1>1 DEF Host
    <2> QED
      BY <1>1, <2>1, <2>2, <2>3 DEF Advances
  <1>4. TypeInv'
    <2>1. Host(r)' \in HostStates(plan)
      BY <1>0, <1>3, AfterState DEF Advances
    <2>2. Host(r)'.pending = pending'[r] /\ Host(r)'.taken = taken'[r]
      BY DEF Host
    <2>3. pending'[r] \in Seq(Nat) /\ taken'[r] \in SUBSET Outputs
      BY <2>1, <2>2, HostFields
    <2>4. pending' \in [Ranks -> Seq(Nat)] /\ taken' \in [Ranks -> SUBSET Outputs]
      BY <1>0, <2>3 DEF TypeInv, TakeReady
    <2>5. vote' \in [Ranks -> {"none", "waits", "ready", "unready"}]
      BY <1>0 DEF TypeInv, TakeReady
    <2> QED
      BY <1>0, <1>1, <2>4, <2>5 DEF TypeInv
  <1>5. TakenWhenAllReady'
    <2>1. \A s \in Ranks : t.output \in copied[s]
      BY <1>1 DEF IInv, AnswersInv
    <2> SUFFICES ASSUME NEW q \in Ranks, NEW s \in Ranks, NEW u \in taken'[q]
                 PROVE  u.output \in copied[s]
      BY <1>1 DEF TakenWhenAllReady
    <2>2. u = t \/ u \in taken[q]
      BY <1>1
    <2> QED
      BY <2>1, <2>2 DEF IInv, TakenWhenAllReady
  <1> QED
    BY <1>1, <1>2, <1>3, <1>4, <1>5, AdvancesOnePath, AdvancesStreams, AdvancesAnswers DEF IInv

\* NextPlace is where a program goes on.
LEMMA NextPlaceGoesOn ==
    ASSUME NEW r, NEW queue
    PROVE  /\ GoesOn(plan, Host(r), queue).step = NextPlace(r).step
           /\ GoesOn(plan, Host(r), queue).place = NextPlace(r).place
           /\ GoesOn(plan, Host(r), queue).turn = NextPlace(r).turn
           /\ GoesOn(plan, Host(r), queue).pending = queue
           /\ GoesOn(plan, Host(r), queue).taken = taken[r]
           /\ GoesOn(plan, Host(r), queue).answer = "none"
           /\ GoesOn(plan, Host(r), queue) =
                 [step |-> NextPlace(r).step, place |-> NextPlace(r).place,
                  turn |-> NextPlace(r).turn, pending |-> queue, taken |-> taken[r],
                  answer |-> "none"]
  BY HostField DEF GoesOn, NextPlace

\* A place of the program at which there is nothing left to ask.
LEMMA MovesOnIInv ==
    ASSUME IInv, NEW r \in Ranks, MovesOn(r)
    PROVE  IInv'
  <1>0. TypeInv /\ plan \in Plans /\ Host(r) \in HostStates(plan)
    BY DEF IInv, TypeInv, HostsInv
  <1>1. /\ host'[r] = NextPlace(r) /\ vote'[r] = "none"
        /\ \A s \in Ranks \ {r} : host'[s] = host[s] /\ vote'[s] = vote[s]
        /\ vote[r] # "waits" /\ vote[r] # "ready" /\ pending' = pending /\ taken' = taken
        /\ plan' = plan /\ streams' = streams /\ joined' = joined /\ copied' = copied
    BY <1>0 DEF MovesOn, TypeInv
  <1>2. /\ At(plan, Host(r)) # "launch" /\ Host(r).step <= MaxSteps
        /\ Host(r).answer # "ready"
        /\ Host(r).answer = "none" => ~(Host(r).turn <= Len(Host(r).pending))
    <2>1. At(plan, Host(r)) # "launch" /\ Host(r).step <= MaxSteps
      BY HostWords DEF MovesOn
    <2>2. Host(r).answer = vote[r]
      BY <1>1, HostField
    <2>3. At(plan, Host(r)) \in {"survey", "take"}
      BY <1>0, <2>1, AtPlace
    <2> QED
      BY <1>1, <2>1, <2>2, <2>3, HostWords DEF MovesOn
  <1>3. Advances(r)
    <2>1. Host(r)' = GoesOn(plan, Host(r), Host(r).pending)
      BY <1>1, HostField, NextPlaceGoesOn DEF Host
    <2>2. ~Stops(plan, Host(r))
          /\ After(plan, Host(r)) = GoesOn(plan, Host(r), Host(r).pending)
      <3>1. Host(r).step \in Nat
        BY <1>0, HostFields
      <3> QED
        BY <1>2, <3>1, RanksAssumption DEF Stops, After
    <2>3. \A s \in Ranks \ {r} : Host(s)' = Host(s)
      BY <1>1 DEF Host
    <2> QED
      BY <1>1, <2>1, <2>2, <2>3 DEF Advances
  <1>4. TypeInv'
    <2>1. host[r] \in [step : Nat, place : Nat, turn : Nat]
      BY <1>0 DEF TypeInv
    <2>2. NextPlace(r) \in [step : Nat, place : Nat, turn : Nat]
      BY <2>1 DEF NextPlace
    <2>3. host' \in [Ranks -> [step : Nat, place : Nat, turn : Nat]]
      BY <1>0, <2>2 DEF TypeInv, MovesOn
    <2>4. vote' \in [Ranks -> {"none", "waits", "ready", "unready"}]
      BY <1>0 DEF TypeInv, MovesOn
    <2> QED
      BY <1>0, <1>1, <2>3, <2>4 DEF TypeInv
  <1>5. TakenWhenAllReady'
    BY <1>1 DEF IInv, TakenWhenAllReady
  <1> QED
    BY <1>1, <1>2, <1>3, <1>4, <1>5, AdvancesOnePath, AdvancesStreams, AdvancesAnswers DEF IInv

\* What is launched last is not at the head of a stream that has work.
LEMMA HeadOfConcat ==
    ASSUME NEW T, NEW s \in Seq(T), NEW w \in Seq(T), s # <<>>
    PROVE  s \o w # <<>> /\ Head(s \o w) = Head(s)
  <1>1. Len(s) \in Nat /\ Len(s) > 0 /\ Len(w) \in Nat
    BY LenProperties, EmptySeq
  <1>2. s \o w \in Seq(T) /\ Len(s \o w) = Len(s) + Len(w)
        /\ \A i \in 1 .. Len(s) + Len(w) :
              (s \o w)[i] = IF i <= Len(s) THEN s[i] ELSE w[i - Len(s)]
    BY ConcatProperties
  <1>3. (s \o w)[1] = s[1]
    BY <1>1, <1>2
  <1>4. s \o w # <<>>
    BY <1>1, <1>2, EmptySeq
  <1> QED
    BY <1>2, <1>3, <1>4

\* The same for one collective.
LEMMA HeadOfAppend ==
    ASSUME NEW T, NEW s \in Seq(T), NEW e \in T
    PROVE  /\ Append(s, e) # <<>>
           /\ s # <<>> => Head(Append(s, e)) = Head(s)
  <1>1. /\ Append(s, e) \in Seq(T) /\ Len(Append(s, e)) = Len(s) + 1
        /\ \A i \in 1 .. Len(s) : Append(s, e)[i] = s[i]
    BY AppendFacts
  <1>2. Len(s) \in Nat /\ (s # <<>> => Len(s) > 0)
    BY LenProperties, EmptySeq
  <1>3. Append(s, e) # <<>>
    BY <1>1, <1>2, EmptySeq
  <1>4. s # <<>> => Append(s, e)[1] = s[1]
    BY <1>1, <1>2
  <1> QED
    BY <1>1, <1>3, <1>4

\* A rank that launches waits for no vote, and its streams hold work only.
LEMMA NoVoteAtLaunch ==
    ASSUME IInv, NEW r \in Ranks, vote[r] # "waits", NEW lane \in Lanes,
           NEW i \in 1 .. Len(streams[r][lane])
    PROVE  /\ streams[r][lane][i] \in Work(plan, lane)
           /\ Launched(plan, Host(r), streams[r][lane][i].about)
  BY DEF IInv, StreamsInv, IsVote

\* The model is launched on the two streams.
LEMMA LaunchIInv ==
    ASSUME IInv, NEW r \in Ranks, Launch(r)
    PROVE  IInv'
  <1> DEFINE n == host[r].step
             queue == IF plan[n].prefill THEN Append(pending[r], n) ELSE pending[r]
  <1>0. TypeInv /\ plan \in Plans /\ Host(r) \in HostStates(plan)
    BY DEF IInv, TypeInv, HostsInv
  <1>2. /\ At(plan, Host(r)) = "launch" /\ Host(r).step <= MaxSteps /\ Host(r).step = n
        /\ n \in Nat /\ n \in 1 .. MaxSteps /\ plan[n] \in Steps
    <2>1. At(plan, Host(r)) = "launch" /\ Host(r).step <= MaxSteps /\ Host(r).step = n
      BY HostWords, HostField DEF Launch
    <2> QED
      BY <1>0, <2>1, AtPlace, HostFields
  <1>3. vote[r] = "none"
    <2>1. Host(r).answer = "none"
      <3>1. Coherent(plan, Host(r))
        BY <1>0, HostFields
      <3> QED
        BY <1>2, <3>1 DEF Coherent
    <2>2. ~Stops(plan, Host(r))
      BY <1>2, RanksAssumption DEF Stops
    <2>3. vote[r] # "waits"
      BY <2>2 DEF IInv, HostsInv
    <2> QED
      BY <2>1, <2>3, HostField
  <1>1. /\ host'[r] = NextPlace(r) /\ pending'[r] = queue
        /\ \A s \in Ranks \ {r} :
              host'[s] = host[s] /\ pending'[s] = pending[s] /\ streams'[s] = streams[s]
        /\ vote' = vote /\ taken' = taken
        /\ plan' = plan /\ joined' = joined /\ copied' = copied
    BY <1>0 DEF Launch, TypeInv
  <1> HIDE DEF queue
  <1>4. \A lane \in Lanes : streams[r][lane] \in Seq(Collectives)
    BY <1>0 DEF TypeInv
  <1>5. ASSUME NEW lane \in Lanes
        PROVE  /\ plan[n][lane] => streams'[r][lane] = streams[r][lane] \o LaneWork(lane, n)
               /\ ~plan[n][lane] => streams'[r][lane] = streams[r][lane]
    <2>1. /\ streams \in [Ranks -> [Lanes -> Seq(Collectives)]]
          /\ streams' = [streams EXCEPT
                 ![r].decode  = IF plan[n].decode THEN @ \o LaneWork("decode", n) ELSE @,
                 ![r].prefill = IF plan[n].prefill THEN @ \o LaneWork("prefill", n) ELSE @]
      BY <1>0 DEF TypeInv, Launch
    <2> DEFINE d == IF plan[n].decode THEN streams[r]["decode"] \o LaneWork("decode", n)
                    ELSE streams[r]["decode"]
               q == IF plan[n].prefill THEN streams[r]["prefill"] \o LaneWork("prefill", n)
                    ELSE streams[r]["prefill"]
    <2>2. streams'[r]["decode"] = d /\ streams'[r]["prefill"] = q
      BY <2>1 DEF Lanes
    <2>3. plan[n].decode = plan[n]["decode"] /\ plan[n].prefill = plan[n]["prefill"]
      OBVIOUS
    <2> QED
      BY <2>2, <2>3 DEF Lanes
  <1>6. queue \in Seq(Nat)
    BY <1>0, <1>2, AppendSeq DEF TypeInv, queue
  <1>7. Advances(r)
    <2>1. Host(r)' = GoesOn(plan, Host(r), queue)
      BY <1>1, <1>3, NextPlaceGoesOn DEF Host
    <2>2. queue = IF plan[Host(r).step].prefill
                  THEN Append(Host(r).pending, Host(r).step) ELSE Host(r).pending
      BY HostField DEF queue
    <2>3. Host(r).answer # "ready"
      BY <1>3, HostField
    <2>4. ~Stops(plan, Host(r)) /\ After(plan, Host(r)) = GoesOn(plan, Host(r), queue)
      BY <1>2, <2>2, <2>3, RanksAssumption DEF Stops, After, Launches
    <2>5. \A s \in Ranks \ {r} : Host(s)' = Host(s)
      BY <1>1 DEF Host
    <2> QED
      BY <1>1, <1>3, <2>1, <2>4, <2>5 DEF Advances
  <1>8. TypeInv'
    <2>1. host[r] \in [step : Nat, place : Nat, turn : Nat]
      BY <1>0 DEF TypeInv
    <2>2. NextPlace(r) \in [step : Nat, place : Nat, turn : Nat]
      BY <2>1 DEF NextPlace
    <2>3. host' \in [Ranks -> [step : Nat, place : Nat, turn : Nat]]
      BY <1>0, <2>2 DEF TypeInv, Launch
    <2>4. pending' \in [Ranks -> Seq(Nat)]
      BY <1>0, <1>6 DEF TypeInv, Launch
    <2>5. streams' \in [Ranks -> [Lanes -> Seq(Collectives)]]
      <3>1. ASSUME NEW lane \in Lanes
            PROVE  streams'[r][lane] \in Seq(Collectives)
        <4>1. LaneWork(lane, n) \in Seq(Collectives) /\ streams[r][lane] \in Seq(Collectives)
          BY <1>2, <1>4, LaneWorkType
        <4>2. streams[r][lane] \o LaneWork(lane, n) \in Seq(Collectives)
          BY <4>1, ConcatProperties
        <4> QED
          BY <1>5, <4>1, <4>2
      <3>2. streams'[r] \in [Lanes -> Seq(Collectives)]
        <4>1. streams[r] \in [Lanes -> Seq(Collectives)]
          BY <1>0 DEF TypeInv
        <4>2. \E a, b : streams'[r] = [streams[r] EXCEPT !["decode"] = a, !["prefill"] = b]
          BY <1>0 DEF TypeInv, Launch
        <4> QED
          BY <3>1, <4>1, <4>2
      <3>3. \E a : streams' = [streams EXCEPT ![r] = a]
        BY <1>0 DEF TypeInv, Launch
      <3> QED
        BY <1>0, <3>2, <3>3 DEF TypeInv
    <2> QED
      BY <1>0, <1>1, <2>3, <2>4, <2>5 DEF TypeInv
  <1>9. \A m \in 1 .. MaxSteps : plan[m].prefill \/ plan[m].decode =>
          (Launched(plan, Host(r)', m) <=> Launched(plan, Host(r), m) \/ m = n)
    BY <1>0, <1>2, <1>7, AfterLaunched DEF Advances
  <1>10. \A lane \in Lanes : \A c \in Work(plan, lane) :
          /\ Launched(plan, Host(r)', c.about) <=> Launched(plan, Host(r), c.about) \/ c.about = n
          /\ Launched(plan, Host(r), c.about) <=> c.about < n
    <2> TAKE lane \in Lanes
    <2> TAKE c \in Work(plan, lane)
    <2>1. c.about \in 1 .. MaxSteps /\ plan[c.about][lane]
      BY <1>0, WorkFields
    <2>2. plan[c.about].prefill \/ plan[c.about].decode
      BY <2>1 DEF Lanes
    <2> QED
      BY <1>0, <1>2, <1>9, <2>1, <2>2, BeforeLaunch
  <1>11. ASSUME NEW lane \in Lanes, plan[n][lane]
         PROVE  /\ Collective("forward", lane, n, FALSE) \in Work(plan, lane)
                /\ Collective("logits", lane, n, FALSE) \in Work(plan, lane)
    BY <1>2, <1>11 DEF Collective, Work, Collectives
  <1>12. StreamsInv'
    <2>1. ASSUME NEW lane \in Lanes, plan[n][lane]
          PROVE  /\ InOrder(streams'[r][lane])
                 /\ \A i \in 1 .. Len(streams'[r][lane]) :
                        /\ streams'[r][lane][i] \in Work(plan, lane)
                        /\ Launched(plan, Host(r)', streams'[r][lane][i].about)
      <3> DEFINE s == streams[r][lane]
                 w == LaneWork(lane, n)
      <3>1. streams'[r][lane] = s \o w /\ s \in Seq(Collectives)
        BY <1>4, <1>5, <2>1
      <3>2. /\ w \in Seq(Collectives) /\ Len(w) = 2
            /\ w[1] = Collective("forward", lane, n, FALSE)
            /\ w[2] = Collective("logits", lane, n, FALSE)
        BY <1>2, LaneWorkType
      <3>3. /\ Len(s \o w) = Len(s) + 2 /\ Len(s) \in Nat
            /\ \A i \in 1 .. Len(s) : (s \o w)[i] = s[i]
            /\ (s \o w)[Len(s) + 1] = w[1] /\ (s \o w)[Len(s) + 2] = w[2]
        <4>1. w \in Seq(Collectives) /\ Len(w) = 2
          BY <3>2
        <4> HIDE DEF w, s
        <4> QED
          BY ONLY <4>1, ConcatFacts, <3>1
      <3>4. \A i \in 1 .. Len(s) : s[i] \in Work(plan, lane) /\ Launched(plan, Host(r), s[i].about)
        BY <1>3, NoVoteAtLaunch
      <3>5. \A i \in 1 .. Len(s) : s[i].about < n
        BY <1>10, <3>4
      <3>6. InOrder(s)
        BY DEF IInv, StreamsInv
      <3>7. InOrder(s \o w)
        BY <1>2, <3>1, <3>5, <3>6, WorkInOrder
      <3>8. w[1].about = n /\ w[2].about = n
        BY <3>2 DEF Collective
      <3> HIDE DEF s, w
      <3>9. ASSUME NEW i \in 1 .. Len(s \o w)
            PROVE  (s \o w)[i] \in Work(plan, lane) /\ Launched(plan, Host(r)', (s \o w)[i].about)
        <4>1. CASE i \in 1 .. Len(s)
          BY <4>1, <3>3, <3>4, <1>10
        <4>2. CASE i = Len(s) + 1
          <5>1. (s \o w)[i] = w[1] /\ w[1] \in Work(plan, lane)
            BY <4>2, <3>2, <3>3, <1>11, <2>1
          <5> QED
            BY <5>1, <3>8, <1>10
        <4>3. CASE i = Len(s) + 2
          <5>1. (s \o w)[i] = w[2] /\ w[2] \in Work(plan, lane)
            BY <4>3, <3>2, <3>3, <1>11, <2>1
          <5> QED
            BY <5>1, <3>8, <1>10
        <4> QED
          BY <3>3, <4>1, <4>2, <4>3
      <3> QED
        BY <3>1, <3>7, <3>9
    <2>2. ASSUME NEW lane \in Lanes, ~plan[n][lane]
          PROVE  /\ InOrder(streams'[r][lane])
                 /\ \A i \in 1 .. Len(streams'[r][lane]) :
                        /\ streams'[r][lane][i] \in Work(plan, lane)
                        /\ Launched(plan, Host(r)', streams'[r][lane][i].about)
      <3>1. streams'[r][lane] = streams[r][lane]
        BY <1>5, <2>2
      <3>2. InOrder(streams[r][lane])
        BY DEF IInv, StreamsInv
      <3> QED
        BY <1>3, <1>10, <3>1, <3>2, NoVoteAtLaunch
    <2>3. ASSUME NEW s \in Ranks \ {r}, NEW lane \in Lanes
          PROVE  /\ InOrder(streams[s][lane])
                 /\ \A i \in 1 .. Len(streams[s][lane]) :
                        \/ /\ streams[s][lane][i] \in Work(plan, lane)
                           /\ Launched(plan, Host(s)', streams[s][lane][i].about)
                        \/ /\ lane = "decode" /\ i = Len(streams[s][lane])
                           /\ IsVote(vote[s], Asked(s), copied[s], streams[s][lane][i])
      BY <1>7 DEF IInv, StreamsInv, Advances
    <2>5. ASSUME NEW s \in Ranks \ {r}, NEW lane \in Lanes
          PROVE  /\ InOrder(streams'[s][lane])
                 /\ \A i \in 1 .. Len(streams'[s][lane]) :
                        \/ /\ streams'[s][lane][i] \in Work(plan, lane)
                           /\ Launched(plan, Host(s)', streams'[s][lane][i].about)
                        \/ /\ lane = "decode" /\ i = Len(streams'[s][lane])
                           /\ IsVote(vote'[s], Asked(s)', copied'[s], streams[s][lane][i])
      <3>1. streams'[s] = streams[s]
        BY <1>1
      <3>2. \A i : IsVote(vote'[s], Asked(s)', copied'[s], streams[s][lane][i]) <=> IsVote(vote[s], Asked(s), copied[s], streams[s][lane][i])
        BY <1>1, <3>1 DEF IsVote, Asked
      <3> QED
        BY <2>3, <3>1, <3>2
    <2> QED
      BY <1>1, <2>1, <2>2, <2>5 DEF StreamsInv
  <1>13. OpenInv'
    <2>0. plan' = plan
      BY <1>1
    <2>1. ASSUME NEW lane \in Lanes, NEW c \in Work(plan, lane), NEW s \in Ranks
          PROVE  Open(s, lane, c)' <=> Open(s, lane, c)
      <3>1. CASE s # r
        BY <1>1, <1>7, <3>1 DEF Open, Advances
      <3>2. CASE s = r /\ ~plan[n][lane]
        <4>1. c.about # n
          <5>1. plan[c.about][lane]
            BY <1>0, WorkFields
          <5> QED
            BY <3>2, <5>1
        <4>2. streams'[r][lane] = streams[r][lane]
          BY <1>5, <3>2
        <4> QED
          BY <1>10, <2>0, <3>2, <4>1, <4>2 DEF Open
      <3>3. CASE s = r /\ plan[n][lane]
        <4> DEFINE a == Collective("forward", lane, n, FALSE)
                   b == Collective("logits", lane, n, FALSE)
        <4>1. Elements(streams'[r][lane]) = Elements(streams[r][lane]) \cup {a, b}
          <5>1. streams'[r][lane] = streams[r][lane] \o LaneWork(lane, n)
            BY <1>5, <3>3
          <5> QED
            BY <1>2, <1>4, <5>1, ElementsOfWork
        <4>2. /\ a \in Work(plan, lane) /\ b \in Work(plan, lane)
              /\ a.about = n /\ b.about = n /\ a.kind = "forward" /\ b.kind = "logits"
          BY <1>11, <3>3 DEF Collective
        <4>3. c.kind \in {"forward", "logits"} /\ c.about \in Nat
          BY <1>0, WorkFields
        <4> HIDE DEF a, b
        <4>4. c.about = n <=> c \in {a, b}
          BY <1>0, <4>2, <4>3, WorkEqual
        <4>5. c.about = n => ~Launched(plan, Host(r), c.about)
          BY <1>2, <1>10
        <4> QED
          BY <1>10, <2>0, <3>3, <4>1, <4>4, <4>5 DEF Open
      <3> QED
        BY <3>1, <3>2, <3>3
    <2>2. \A lane \in Lanes : \A c \in Work(plan, lane) : \A s, u \in Ranks :
            Open(s, lane, c) <=> Open(u, lane, c)
      BY DEF IInv, OpenInv
    <2>3. \A lane \in Lanes : \A c \in Work(plan, lane) : \A s, u \in Ranks :
            Open(s, lane, c)' <=> Open(u, lane, c)'
      BY <2>1, <2>2
    <2> QED
      BY <1>1, <2>3 DEF OpenInv
  <1>14. JoinedInv'
    <2>1. ASSUME NEW lane \in Lanes, streams[r][lane] # <<>>
          PROVE  streams'[r][lane] # <<>> /\ Head(streams'[r][lane]) = Head(streams[r][lane])
      <3>1. LaneWork(lane, n) \in Seq(Collectives) /\ streams[r][lane] \in Seq(Collectives)
        BY <1>2, <1>4, LaneWorkType
      <3>2. /\ streams[r][lane] \o LaneWork(lane, n) # <<>>
            /\ Head(streams[r][lane] \o LaneWork(lane, n)) = Head(streams[r][lane])
        BY <2>1, <3>1, HeadOfConcat
      <3> QED
        BY <1>5, <2>1, <3>2
    <2>2. ASSUME NEW s \in Ranks, NEW lane \in Lanes, streams[s][lane] # <<>>
          PROVE  streams'[s][lane] # <<>> /\ Head(streams'[s][lane]) = Head(streams[s][lane])
      BY <1>1, <2>1, <2>2
    <2> QED
      BY <1>1, <2>2 DEF IInv, JoinedInv
  <1>15. TakenWhenAllReady' /\ VotesInv'
    BY <1>1, <1>3 DEF IInv, TakenWhenAllReady, VotesInv
  <1> QED
    BY <1>7, <1>8, <1>12, <1>13, <1>14, <1>15, AdvancesOnePath, AdvancesAnswers DEF IInv

\* A vote at the end disturbs neither order nor work.
LEMMA VoteAppended ==
    ASSUME NEW s \in Seq(Collectives), NEW v \in Collectives, InOrder(s), v.kind = "ready"
    PROVE  /\ InOrder(Append(s, v))
           /\ \A c \in Collectives : c.kind # "ready" =>
                (c \in Elements(Append(s, v)) <=> c \in Elements(s))
  <1>1. /\ Len(Append(s, v)) = Len(s) + 1 /\ Len(s) \in Nat
        /\ \A i \in 1 .. Len(s) : Append(s, v)[i] = s[i]
        /\ Append(s, v)[Len(s) + 1] = v
    BY AppendFacts, LenProperties
  <1>2. \A i : i \in 1 .. Len(s) + 1 <=> i \in 1 .. Len(s) \/ i = Len(s) + 1
    BY <1>1
  <1>3. ASSUME NEW i \in 1 .. Len(s) + 1, NEW j \in 1 .. Len(s) + 1, i < j,
               Append(s, v)[j].kind # "ready"
        PROVE  Before(Append(s, v)[i], Append(s, v)[j])
    <2>1. j \in 1 .. Len(s)
      BY <1>1, <1>2, <1>3
    <2>2. i \in 1 .. Len(s)
      BY <1>1, <1>3, <2>1
    <2>3. Append(s, v)[i] = s[i] /\ Append(s, v)[j] = s[j]
      BY <1>1, <2>1, <2>2
    <2> QED
      BY <1>3, <2>1, <2>2, <2>3 DEF InOrder
  <1>4. ASSUME NEW c \in Collectives, c.kind # "ready"
        PROVE  c \in Elements(Append(s, v)) <=> c \in Elements(s)
    <2>1. c # v
      BY <1>4
    <2> QED
      BY <1>1, <1>2, <2>1 DEF Elements
  <1> QED
    BY <1>1, <1>3, <1>4 DEF InOrder

\* _async_output_ready: the vote is launched and the host waits.
LEMMA CallReadyIInv ==
    ASSUME IInv, NEW r \in Ranks, CallReady(r)
    PROVE  IInv'
  <1> DEFINE old == streams[r]["decode"]
             v == Collective("ready", "decode", Asked(r), Asked(r) \in copied[r])
  <1>0. TypeInv /\ plan \in Plans /\ Host(r) \in HostStates(plan)
    BY DEF IInv, TypeInv, HostsInv
  <1>1. /\ vote[r] = "none" /\ vote'[r] = "waits"
        /\ \A s \in Ranks \ {r} : vote'[s] = vote[s] /\ streams'[s] = streams[s]
        /\ UNCHANGED <<plan, host, pending, joined, copied, taken>>
    BY <1>0 DEF CallReady, TypeInv
  <1>2. streams'[r]["decode"] = Append(old, v) /\ streams'[r]["prefill"] = streams[r]["prefill"]
    <2>1. /\ streams \in [Ranks -> [Lanes -> Seq(Collectives)]]
          /\ streams' = [streams EXCEPT ![r].decode = Append(@, v)]
      BY <1>0 DEF TypeInv, CallReady
    <2> HIDE DEF v
    <2> QED
      BY <2>1 DEF Lanes
  <1>3. Host(r).answer = "none" /\ Host(r).step <= MaxSteps /\ Stops(plan, Host(r))
    <2>1. Host(r).answer = "none"
      BY <1>1, HostField
    <2>2. Host(r).step <= MaxSteps /\ At(plan, Host(r)) \in {"survey", "take"}
          /\ Host(r).turn <= Len(Host(r).pending)
      BY HostWords DEF CallReady
    <2> QED
      BY <2>1, <2>2 DEF Stops
  <1>4. /\ Asked(r) \in Nat /\ v \in Collectives
        /\ v.kind = "ready" /\ v.lane = "decode" /\ v.about = Asked(r)
        /\ v.ready = (Asked(r) \in copied[r])
    <2>1. Host(r).turn \in 1 .. Len(Host(r).pending) /\ Host(r).pending \in Seq(Nat)
      <3>1. Host(r).turn \in Nat /\ Host(r).turn > 0 /\ Host(r).pending \in Seq(Nat)
        BY <1>0, HostFields DEF Coherent
      <3>2. Host(r).turn <= Len(Host(r).pending) /\ Len(Host(r).pending) \in Nat
        BY <3>1, HostWords, LenProperties DEF CallReady
      <3> QED
        BY <3>1, <3>2
    <2>2. Asked(r) \in Nat
      BY <2>1, HostWords
    <2>3. (Asked(r) \in copied[r]) \in BOOLEAN
      OBVIOUS
    <2> DEFINE own == Asked(r) \in copied[r]
    <2> HIDE DEF own
    <2>4. own \in BOOLEAN
      BY <2>3 DEF own
    <2>5. v = Collective("ready", "decode", Asked(r), own)
      BY DEF own
    <2> HIDE DEF v
    <2>6. /\ v \in Collectives /\ v.kind = "ready" /\ v.lane = "decode"
          /\ v.about = Asked(r) /\ v.ready = own
      BY <2>2, <2>4, <2>5 DEF Collective, Collectives, Lanes
    <2> QED
      BY <2>2, <2>6 DEF own
  <1> HIDE DEF v
  <1>5. \A s \in Ranks : Host(s)' = Host(s)
    BY <1>1 DEF Host
  <1>6. \A lane \in Lanes : streams[r][lane] \in Seq(Collectives)
    BY <1>0 DEF TypeInv
  <1>7. old \in Seq(Collectives) /\ InOrder(old) /\ Append(old, v) \in Seq(Collectives)
        /\ Len(Append(old, v)) = Len(old) + 1 /\ Append(old, v)[Len(old) + 1] = v
        /\ \A i \in 1 .. Len(old) : Append(old, v)[i] = old[i]
    <2>1. "decode" \in Lanes
      BY DEF Lanes
    <2>2. old \in Seq(Collectives) /\ InOrder(old)
      BY <1>6, <2>1 DEF IInv, StreamsInv
    <2> QED
      BY <1>4, <2>2, AppendFacts
  <1>8. TypeInv'
    <2>1. vote' \in [Ranks -> {"none", "waits", "ready", "unready"}]
      BY <1>0 DEF TypeInv, CallReady
    <2>2. streams' = [streams EXCEPT ![r] = [streams[r] EXCEPT !["decode"] = Append(old, v)]]
      BY <1>0 DEF TypeInv, CallReady, v
    <2>3. streams[r] \in [Lanes -> Seq(Collectives)]
      BY <1>0 DEF TypeInv
    <2>4. [streams[r] EXCEPT !["decode"] = Append(old, v)] \in [Lanes -> Seq(Collectives)]
      BY <1>7, <2>3 DEF Lanes
    <2>5. streams' \in [Ranks -> [Lanes -> Seq(Collectives)]]
      BY <1>0, <2>2, <2>4 DEF TypeInv
    <2> QED
      BY <1>0, <1>1, <2>1, <2>5 DEF TypeInv
  <1>9. HostsInv' /\ OnePath'
    <2>1. Stops(plan, Host(r))' /\ host'[r].step <= MaxSteps
      BY <1>1, <1>3, <1>5, HostField
    <2> QED
      BY <1>1, <1>5, <2>1 DEF IInv, HostsInv, OnePath
  <1>10. AnswersInv'
    BY <1>1 DEF IInv, AnswersInv, Asked
  <1>11. StreamsInv'
    <2>1. ASSUME NEW s \in Ranks, NEW lane \in Lanes, s # r \/ lane # "decode",
                 NEW i \in 1 .. Len(streams[s][lane])
          PROVE  \/ /\ streams[s][lane][i] \in Work(plan, lane)
                    /\ Launched(plan, Host(s), streams[s][lane][i].about)
                 \/ /\ lane = "decode" /\ i = Len(streams[s][lane])
                    /\ IsVote(vote'[s], Asked(s)', copied'[s], streams[s][lane][i])
      <3>1. CASE s = r
        BY <1>1, <3>1, NoVoteAtLaunch
      <3>2. CASE s # r
        <4>1. IsVote(vote'[s], Asked(s)', copied'[s], streams[s][lane][i]) <=> IsVote(vote[s], Asked(s), copied[s], streams[s][lane][i])
          BY <1>1, <3>2 DEF IsVote, Asked
        <4> QED
          BY <4>1 DEF IInv, StreamsInv
      <3> QED
        BY <3>1, <3>2
    <2>2. ASSUME NEW s \in Ranks, NEW lane \in Lanes, s # r \/ lane # "decode"
          PROVE  streams'[s][lane] = streams[s][lane] /\ InOrder(streams[s][lane])
      BY <1>1, <1>2, <2>2 DEF Lanes, IInv, StreamsInv
    <2>3. InOrder(Append(old, v))
      BY <1>4, <1>7, VoteAppended
    <2>4. IsVote(vote'[r], Asked(r)', copied'[r], v)
      BY <1>1, <1>4 DEF IsVote, Asked
    <2>5. ASSUME NEW i \in 1 .. Len(Append(old, v))
          PROVE  \/ /\ Append(old, v)[i] \in Work(plan, "decode")
                    /\ Launched(plan, Host(r), Append(old, v)[i].about)
                 \/ /\ i = Len(Append(old, v))
                    /\ IsVote(vote'[r], Asked(r)', copied'[r], Append(old, v)[i])
      <3>1. CASE i \in 1 .. Len(old)
        BY <1>1, <1>7, <3>1, NoVoteAtLaunch DEF Lanes
      <3>2. CASE i = Len(old) + 1
        <4>1. Append(old, v)[i] = v
          BY <1>7, <3>2
        <4> QED
          BY <1>7, <2>4, <3>2, <4>1
      <3> QED
        <4>1. Len(old) \in Nat
          BY <1>7, LenProperties
        <4> QED
          BY <1>7, <3>1, <3>2, <4>1
    <2>6. ASSUME NEW s \in Ranks, NEW lane \in Lanes
          PROVE  /\ InOrder(streams'[s][lane])
                 /\ \A i \in 1 .. Len(streams'[s][lane]) :
                        \/ /\ streams'[s][lane][i] \in Work(plan, lane)
                           /\ Launched(plan, Host(s), streams'[s][lane][i].about)
                        \/ /\ lane = "decode" /\ i = Len(streams'[s][lane])
                           /\ IsVote(vote'[s], Asked(s)', copied'[s], streams'[s][lane][i])
      <3>1. CASE s = r /\ lane = "decode"
        <4>1. streams'[s][lane] = Append(old, v)
          BY <1>2, <3>1
        <4> HIDE DEF old
        <4> QED
          BY <2>3, <2>5, <3>1, <4>1
      <3>2. CASE ~(s = r /\ lane = "decode")
        <4>1. streams'[s][lane] = streams[s][lane] /\ InOrder(streams[s][lane])
          BY <2>2, <3>2
        <4> QED
          BY <2>1, <3>2, <4>1
      <3> QED
        BY <3>1, <3>2
    <2>7. plan' = plan
      BY <1>1
    <2> QED
      BY <1>5, <2>6, <2>7 DEF StreamsInv
  <1>12. OpenInv'
    <2>1. ASSUME NEW lane \in Lanes, NEW c \in Work(plan, lane), NEW s \in Ranks
          PROVE  Open(s, lane, c)' <=> Open(s, lane, c)
      <3>1. CASE s = r /\ lane = "decode"
        <4>1. c \in Collectives /\ c.kind # "ready"
          BY <1>0, WorkFields
        <4>2. c \in Elements(Append(old, v)) <=> c \in Elements(old)
          BY <1>4, <1>7, <4>1, VoteAppended
        <4> QED
          BY <1>1, <1>2, <1>5, <3>1, <4>2 DEF Open
      <3>2. CASE ~(s = r /\ lane = "decode")
        BY <1>1, <1>2, <1>5, <3>2 DEF Open, Lanes
      <3> QED
        BY <3>1, <3>2
    <2>2. \A lane \in Lanes : \A c \in Work(plan, lane) : \A s, u \in Ranks :
            Open(s, lane, c) <=> Open(u, lane, c)
      BY DEF IInv, OpenInv
    <2>3. \A lane \in Lanes : \A c \in Work(plan, lane) : \A s, u \in Ranks :
            Open(s, lane, c)' <=> Open(u, lane, c)'
      BY <2>1, <2>2
    <2> QED
      BY <1>1, <2>3 DEF OpenInv
  <1>13. JoinedInv'
    <2>1. ASSUME NEW s \in Ranks, NEW lane \in Lanes, streams[s][lane] # <<>>
          PROVE  streams'[s][lane] # <<>> /\ Head(streams'[s][lane]) = Head(streams[s][lane])
      <3>1. CASE s = r /\ lane = "decode"
        BY <1>2, <1>4, <1>7, <2>1, <3>1, HeadOfAppend
      <3>2. CASE ~(s = r /\ lane = "decode")
        BY <1>1, <1>2, <2>1, <3>2 DEF Lanes
      <3> QED
        BY <3>1, <3>2
    <2> QED
      BY <1>1, <2>1 DEF IInv, JoinedInv
  <1>14. TakenWhenAllReady'
    BY <1>1 DEF IInv, TakenWhenAllReady
  <1>15. VotesInv'
    <2>1. /\ Len(streams'[r]["decode"]) > 0
          /\ streams'[r]["decode"][Len(streams'[r]["decode"])].kind = "ready"
      <3>1. Len(old) \in Nat
        BY <1>7, LenProperties
      <3> QED
        BY <1>2, <1>4, <1>7, <3>1
    <2> QED
      BY <1>1, <2>1 DEF IInv, VotesInv
  <1> QED
    BY <1>8, <1>9, <1>10, <1>11, <1>12, <1>13, <1>14, <1>15 DEF IInv

-------------------------------------------------------------------------------
(* The steps of the devices. *)

\* A getter returns one of the two groups.
LEMMA GroupOfGroups ==
    ASSUME NEW c
    PROVE  GroupOf(c) \in Groups
  BY DEF GroupOf, GetGroup, Groups

\* A device joins the collective at the head of a stream.
LEMMA JoinsIInv ==
    ASSUME IInv, NEW r \in Ranks, NEW lane \in Lanes, Joins(r, lane)
    PROVE  IInv'
  <1> DEFINE c == Head(streams[r][lane])
  <1>0. TypeInv /\ plan \in Plans
    BY DEF IInv, TypeInv
  <1>1. /\ UNCHANGED <<plan, host, pending, vote, taken, streams, copied>>
        /\ streams[r][lane] # <<>> /\ joined' = [joined EXCEPT ![r][GroupOf(c)] = c]
    BY DEF Joins, hostVars
  <1>2. c \in Collectives /\ c.lane = lane
    <2>1. streams[r][lane] \in Seq(Collectives)
      BY <1>0 DEF TypeInv
    <2>2. c = streams[r][lane][1] /\ 1 \in 1 .. Len(streams[r][lane]) /\ c \in Collectives
      BY <1>1, <2>1, TailFacts, ElementOfSeq
    <2>3. c \in Work(plan, lane) \/ (lane = "decode" /\ IsVote(vote[r], Asked(r), copied[r], c))
      BY <2>2 DEF IInv, StreamsInv
    <2>4. c \in Work(plan, lane) => c.lane = lane
      BY DEF Work
    <2>5. lane = "decode" /\ IsVote(vote[r], Asked(r), copied[r], c) => c.lane = lane
      BY DEF IsVote
    <2> QED
      BY <2>2, <2>3, <2>4, <2>5
  <1> HIDE DEF c
  <1>3. GroupOf(c) \in Groups
    BY GroupOfGroups
  <1>4. TypeInv'
    <2>1. joined' \in [Ranks -> [Groups -> Collectives \cup {Idle}]]
      BY <1>0, <1>1, <1>2, <1>3 DEF TypeInv
    <2> QED
      BY <1>0, <1>1, <2>1 DEF TypeInv
  <1>5. JoinedInv'
    <2>1. ASSUME NEW s \in Ranks, NEW g \in Groups
          PROVE  joined'[s][g] = joined[s][g] \/ (s = r /\ g = GroupOf(c) /\ joined'[s][g] = c)
      BY <1>0, <1>1, <1>3 DEF TypeInv
    <2>2. c = Head(streams[r][lane])
      BY DEF c
    <2> QED
      BY <1>1, <1>2, <2>1, <2>2 DEF IInv, JoinedInv
  <1>6. \A s \in Ranks : Host(s)' = Host(s)
    BY <1>1 DEF Host
  <1>7. HostsInv' /\ OnePath' /\ AnswersInv' /\ TakenWhenAllReady' /\ VotesInv'
    BY <1>1, <1>6
      DEF IInv, HostsInv, OnePath, AnswersInv, TakenWhenAllReady, VotesInv, Asked
  <1>8. StreamsInv'
    BY <1>1, <1>6 DEF IInv, StreamsInv, IsVote, Asked
  <1>9. OpenInv'
    BY <1>1, <1>6 DEF IInv, OpenInv, Open
  <1> QED
    BY <1>4, <1>5, <1>7, <1>8, <1>9 DEF IInv

\* A copy to the host finishes, which moves nothing.
LEMMA CopiesIInv ==
    ASSUME IInv, NEW r \in Ranks, NEW n \in 1 .. MaxSteps, Copies(r, n)
    PROVE  IInv'
  <1>0. TypeInv /\ plan \in Plans
    BY DEF IInv, TypeInv
  <1>1. /\ UNCHANGED <<plan, host, pending, vote, taken, streams, joined>>
        /\ copied' = [copied EXCEPT ![r] = @ \cup {n}]
    BY DEF Copies, hostVars
  <1>2. copied' \in [Ranks -> SUBSET Nat] /\ \A s \in Ranks : copied[s] \subseteq copied'[s]
    BY <1>0, <1>1 DEF TypeInv
  <1>3. TypeInv'
    BY <1>0, <1>1, <1>2 DEF TypeInv
  <1>4. \A s \in Ranks : Host(s)' = Host(s)
    BY <1>1 DEF Host
  <1>5. HostsInv' /\ OnePath' /\ JoinedInv' /\ VotesInv'
    BY <1>1, <1>4 DEF IInv, HostsInv, OnePath, JoinedInv, VotesInv
  <1>6. AnswersInv' /\ TakenWhenAllReady'
    BY <1>1, <1>2 DEF IInv, AnswersInv, TakenWhenAllReady, Asked
  <1>7. StreamsInv'
    <2>1. ASSUME NEW s \in Ranks, NEW c, IsVote(vote[s], Asked(s), copied[s], c)
          PROVE  IsVote(vote'[s], Asked(s)', copied'[s], c)
      BY <1>1, <1>2, <2>1 DEF IsVote, Asked
    <2> QED
      BY <1>1, <1>4, <2>1 DEF IInv, StreamsInv
  <1>8. OpenInv'
    BY <1>1, <1>4 DEF IInv, OpenInv, Open
  <1> QED
    BY <1>3, <1>5, <1>6, <1>7, <1>8 DEF IInv

\* All ranks are at the heads of their streams of one lane.
LEMMA CompletesHeads ==
    ASSUME IInv, NEW g \in Groups, Completes(g)
    PROVE  \E lane \in Lanes :
             /\ \A r \in Ranks :
                  /\ joined[r][g].lane = lane /\ streams[r][lane] # <<>>
                  /\ streams[r][lane] \in Seq(Collectives)
                  /\ joined[r][g] = Head(streams[r][lane]) /\ GroupOf(joined[r][g]) = g
                  /\ joined[r][g] = streams[r][lane][1] /\ joined[r][g] \in Collectives
                  /\ 1 \in 1 .. Len(streams[r][lane])
                  /\ streams'[r][lane] = Tail(streams[r][lane])
                  /\ \A l \in Lanes \ {lane} : streams'[r][l] = streams[r][l]
             /\ streams' \in [Ranks -> [Lanes -> Seq(Collectives)]]
  <1>0. TypeInv /\ Ranks # {}
    BY RanksAssumption DEF IInv
  <1>1. PICK r0 \in Ranks : TRUE
    BY <1>0
  <1> DEFINE lane == joined[r0][g].lane
  <1>2. \A r \in Ranks : joined[r][g] # Idle /\ Same(joined[r][g], joined[r0][g])
    BY DEF Completes
  <1>3. \A r \in Ranks : joined[r][g].lane = lane
    BY <1>2 DEF Same
  <1>4. \A r \in Ranks :
          /\ lane \in Lanes /\ streams[r][lane] # <<>>
          /\ joined[r][g] = Head(streams[r][lane]) /\ GroupOf(joined[r][g]) = g
    BY <1>2, <1>3 DEF IInv, JoinedInv
  <1>5. lane \in Lanes
    BY <1>4
  <1> HIDE DEF lane
  <1>6. ASSUME NEW r \in Ranks
        PROVE  /\ streams[r][lane] \in Seq(Collectives)
               /\ joined[r][g] = streams[r][lane][1] /\ joined[r][g] \in Collectives
               /\ 1 \in 1 .. Len(streams[r][lane])
    <2>1. streams[r][lane] \in Seq(Collectives)
      BY <1>0, <1>5 DEF TypeInv
    <2> QED
      BY <1>4, <2>1, TailFacts, ElementOfSeq
  <1>7. ASSUME NEW r \in Ranks
        PROVE  /\ streams'[r] = [streams[r] EXCEPT ![lane] = Tail(streams[r][lane])]
               /\ streams[r] \in [Lanes -> Seq(Collectives)]
    BY <1>0, <1>3 DEF Completes, TypeInv
  <1>8. ASSUME NEW r \in Ranks
        PROVE  /\ streams'[r][lane] = Tail(streams[r][lane])
               /\ \A l \in Lanes \ {lane} : streams'[r][l] = streams[r][l]
               /\ streams'[r] \in [Lanes -> Seq(Collectives)]
    <2> DEFINE rest == Tail(streams[r][lane])
    <2>1. rest \in Seq(Collectives)
      BY <1>4, <1>6, TailSeq
    <2>2. streams'[r] = [streams[r] EXCEPT ![lane] = rest]
          /\ streams[r] \in [Lanes -> Seq(Collectives)]
      BY <1>7
    <2> HIDE DEF rest
    <2>3. /\ streams'[r][lane] = rest /\ streams'[r] \in [Lanes -> Seq(Collectives)]
          /\ \A l \in Lanes \ {lane} : streams'[r][l] = streams[r][l]
      BY <1>5, <2>1, <2>2
    <2> QED
      BY <2>3 DEF rest
  <1>9. streams' \in [Ranks -> [Lanes -> Seq(Collectives)]]
    <2>1. streams' = [r \in Ranks |-> streams'[r]]
      BY DEF Completes
    <2> QED
      BY <1>8, <2>1
  <1> QED
    BY <1>3, <1>4, <1>5, <1>6, <1>8, <1>9

\* What a completion does to the devices, whatever it is that completes.
LEMMA CompletesJoined ==
    ASSUME IInv, NEW g \in Groups, Completes(g)
    PROVE  JoinedInv' /\ joined' \in [Ranks -> [Groups -> Collectives \cup {Idle}]]
  <1>0. TypeInv
    BY DEF IInv
  <1>1. PICK lane \in Lanes :
          \A r \in Ranks :
             /\ joined[r][g].lane = lane
             /\ joined[r][g] = Head(streams[r][lane]) /\ GroupOf(joined[r][g]) = g
             /\ \A l \in Lanes \ {lane} : streams'[r][l] = streams[r][l]
    BY CompletesHeads
  <1>2. /\ joined' = [r \in Ranks |-> [joined[r] EXCEPT ![g] = Idle]]
        /\ \A r \in Ranks : joined[r] \in [Groups -> Collectives \cup {Idle}]
    BY <1>0 DEF TypeInv, Completes
  <1>3. joined' \in [Ranks -> [Groups -> Collectives \cup {Idle}]]
    BY <1>2
  <1>4. ASSUME NEW s \in Ranks, NEW f \in Groups, joined'[s][f] # Idle
        PROVE  /\ f # g /\ joined'[s][f] = joined[s][f]
               /\ streams'[s][joined[s][f].lane] = streams[s][joined[s][f].lane]
    <2>1. f # g /\ joined'[s][f] = joined[s][f]
      BY <1>2, <1>4
    <2>2. /\ joined[s][f].lane \in Lanes /\ GroupOf(joined[s][f]) = f
          /\ joined[s][f] = Head(streams[s][joined[s][f].lane])
      BY <1>4, <2>1 DEF IInv, JoinedInv
    <2>3. joined[s][f].lane # lane
      BY <1>1, <2>1, <2>2
    <2> QED
      BY <1>1, <2>1, <2>2, <2>3
  <1> QED
    BY <1>3, <1>4 DEF IInv, JoinedInv

\* Work ends for all ranks at once.
LEMMA WorkCompletes ==
    ASSUME IInv, NEW g \in Groups, Completes(g),
           \E r \in Ranks : joined[r][g].kind # "ready"
    PROVE  IInv'
  <1>0. TypeInv /\ plan \in Plans
    BY DEF IInv, TypeInv
  <1>1. PICK lane \in Lanes :
          /\ \A r \in Ranks :
                  /\ joined[r][g].lane = lane /\ streams[r][lane] # <<>>
                  /\ streams[r][lane] \in Seq(Collectives)
                  /\ joined[r][g] = Head(streams[r][lane]) /\ GroupOf(joined[r][g]) = g
                  /\ joined[r][g] = streams[r][lane][1] /\ joined[r][g] \in Collectives
                  /\ 1 \in 1 .. Len(streams[r][lane])
                  /\ streams'[r][lane] = Tail(streams[r][lane])
                  /\ \A l \in Lanes \ {lane} : streams'[r][l] = streams[r][l]
          /\ streams' \in [Ranks -> [Lanes -> Seq(Collectives)]]
    BY CompletesHeads
  <1>2. \A r, s \in Ranks : joined[r][g].kind = joined[s][g].kind
                          /\ joined[r][g].about = joined[s][g].about
    BY DEF Completes, Same
  <1>3. \A r \in Ranks : joined[r][g].kind # "ready"
    BY <1>2
  <1>4. UNCHANGED <<plan, host, pending, copied, taken>>
    BY DEF Completes
  <1>5. vote' = vote
    <2>1. \A r \in Ranks : vote'[r] = vote[r]
      BY <1>3 DEF Completes
    <2>2. vote' = [r \in Ranks |-> vote'[r]] /\ vote = [r \in Ranks |-> vote[r]]
      BY <1>0 DEF Completes, TypeInv
    <2> QED
      BY <2>1, <2>2
  <1>6. PICK c : \A r \in Ranks : joined[r][g] = c /\ c \in Work(plan, lane)
                                /\ Launched(plan, Host(r), c.about)
    <2>1. \A r \in Ranks : /\ joined[r][g] \in Work(plan, lane)
                           /\ Launched(plan, Host(r), joined[r][g].about)
      <3> TAKE r \in Ranks
      <3>1. 1 \in 1 .. Len(streams[r][lane]) /\ joined[r][g] = streams[r][lane][1]
            /\ joined[r][g].kind # "ready"
        BY <1>1, <1>3
      <3>2. \/ /\ streams[r][lane][1] \in Work(plan, lane)
               /\ Launched(plan, Host(r), streams[r][lane][1].about)
            \/ IsVote(vote[r], Asked(r), copied[r], streams[r][lane][1])
        BY <3>1 DEF IInv, StreamsInv
      <3> QED
        BY <3>1, <3>2 DEF IsVote
    <2>2. \A r, s \in Ranks : joined[r][g] = joined[s][g]
      BY <1>0, <1>2, <2>1, WorkEqual
    <2>3. PICK r0 \in Ranks : TRUE
      BY RanksAssumption
    <2> QED
      BY <2>1, <2>2, <2>3
  <1>7. \A r \in Ranks : Host(r)' = Host(r)
    BY <1>4, <1>5 DEF Host
  <1>8. TypeInv'
    BY <1>0, <1>1, <1>4, <1>5, CompletesJoined DEF TypeInv
  <1>9. HostsInv' /\ OnePath' /\ AnswersInv' /\ TakenWhenAllReady'
    BY <1>4, <1>5, <1>7 DEF IInv, HostsInv, OnePath, AnswersInv, TakenWhenAllReady, Asked
  <1>10. StreamsInv'
    <2>1. ASSUME NEW s \in Ranks, NEW l \in Lanes
          PROVE  /\ InOrder(streams'[s][l])
                 /\ \A i \in 1 .. Len(streams'[s][l]) :
                        \/ /\ streams'[s][l][i] \in Work(plan, l)
                           /\ Launched(plan, Host(s), streams'[s][l][i].about)
                        \/ /\ l = "decode" /\ i = Len(streams'[s][l])
                           /\ IsVote(vote[s], Asked(s), copied[s], streams'[s][l][i])
      <3> DEFINE old == streams[s][l]
      <3>1. /\ InOrder(old)
            /\ \A i \in 1 .. Len(old) :
                  \/ old[i] \in Work(plan, l) /\ Launched(plan, Host(s), old[i].about)
                  \/ /\ l = "decode" /\ i = Len(old)
                     /\ IsVote(vote[s], Asked(s), copied[s], old[i])
        BY DEF IInv, StreamsInv
      <3>2. CASE l # lane
        BY <1>1, <3>1, <3>2
      <3>3. CASE l = lane
        <4>1. streams'[s][l] = Tail(old) /\ old \in Seq(Collectives) /\ old # <<>>
          BY <1>1, <3>3
        <4> HIDE DEF old
        <4>2. /\ Len(Tail(old)) = Len(old) - 1 /\ Len(old) \in Nat
              /\ \A i \in 1 .. Len(Tail(old)) : Tail(old)[i] = old[i + 1]
          BY <4>1, TailFacts
        <4>3. InOrder(Tail(old))
          BY <3>1, <4>1, TailInOrder
        <4>4. ASSUME NEW i \in 1 .. Len(Tail(old))
              PROVE  /\ i + 1 \in 1 .. Len(old) /\ Tail(old)[i] = old[i + 1]
                     /\ i + 1 = Len(old) => i = Len(Tail(old))
          BY <4>2
        <4> QED
          BY <3>1, <4>1, <4>3, <4>4
      <3> QED
        BY <3>2, <3>3
    <2>2. plan' = plan /\ vote' = vote /\ copied' = copied /\ \A s : Asked(s)' = Asked(s)
      BY <1>4, <1>5 DEF Asked
    <2> QED
      BY <1>7, <2>1, <2>2 DEF StreamsInv
  <1>11. OpenInv'
    <2>1. ASSUME NEW l \in Lanes, NEW d \in Work(plan, l), NEW s \in Ranks
          PROVE  Open(s, l, d)' <=> Open(s, l, d) /\ ~(l = lane /\ d = c)
      <3>1. CASE l = lane
        <4>1. d \in Collectives /\ d.kind # "ready"
          BY <1>0, WorkFields
        <4>2. InOrder(streams[s][lane])
          BY DEF IInv, StreamsInv
        <4>3. d \in Elements(Tail(streams[s][lane])) <=>
                d \in Elements(streams[s][lane]) /\ d # c
          <5>1. streams[s][lane] \in Seq(Collectives) /\ streams[s][lane] # <<>>
                /\ Head(streams[s][lane]) = c
            BY <1>1, <1>6
          <5> QED
            BY <4>1, <4>2, <5>1, TailElements
        <4>4. Launched(plan, Host(s), c.about) /\ plan' = plan
          BY <1>4, <1>6
        <4>5. streams'[s][lane] = Tail(streams[s][lane])
          BY <1>1
        <4> QED
          BY <1>7, <3>1, <4>3, <4>4, <4>5 DEF Open
      <3>2. CASE l # lane
        <4>1. plan' = plan /\ streams'[s][l] = streams[s][l]
          BY <1>1, <1>4, <3>2
        <4> QED
          BY <1>7, <3>2, <4>1 DEF Open
      <3> QED
        BY <3>1, <3>2
    <2>2. \A l \in Lanes : \A d \in Work(plan, l) : \A s, u \in Ranks :
            Open(s, l, d) <=> Open(u, l, d)
      BY DEF IInv, OpenInv
    <2>3. \A l \in Lanes : \A d \in Work(plan, l) : \A s, u \in Ranks :
            Open(s, l, d)' <=> Open(u, l, d)'
      BY <2>1, <2>2
    <2>4. plan' = plan
      BY <1>4
    <2> QED
      BY <2>3, <2>4 DEF OpenInv
  <1>12. VotesInv'
    <2> SUFFICES ASSUME NEW s \in Ranks, vote[s] = "waits"
                 PROVE  /\ Len(streams'[s]["decode"]) > 0
                        /\ streams'[s]["decode"][Len(streams'[s]["decode"])].kind = "ready"
      BY <1>5 DEF VotesInv
    <2> DEFINE old == streams[s]["decode"]
    <2>1. Len(old) > 0 /\ old[Len(old)].kind = "ready"
      BY DEF IInv, VotesInv
    <2>2. CASE lane # "decode"
      <3>1. streams'[s]["decode"] = old
        BY <1>1, <2>2 DEF Lanes
      <3> QED
        BY <2>1, <3>1
    <2>3. CASE lane = "decode"
      <3>1. streams'[s]["decode"] = Tail(old) /\ old \in Seq(Collectives) /\ old # <<>>
            /\ old[1].kind # "ready"
        BY <1>1, <1>3, <2>3
      <3> HIDE DEF old
      <3>2. /\ Len(Tail(old)) = Len(old) - 1 /\ Len(old) \in Nat
            /\ \A i \in 1 .. Len(Tail(old)) : Tail(old)[i] = old[i + 1]
        BY <3>1, TailFacts
      <3>3. Len(old) # 1
        BY <2>1, <3>1
      <3>4. Len(Tail(old)) > 0 /\ Len(Tail(old)) \in 1 .. Len(Tail(old))
            /\ Len(Tail(old)) + 1 = Len(old)
        <4>1. Len(Tail(old)) + 1 = Len(old) /\ Len(old) \in Nat /\ Len(old) # 0
          BY <2>1, <3>2
        <4>2. \A n \in Nat : n # 0 /\ n # 1 => n - 1 > 0 /\ n - 1 \in 1 .. n - 1
          OBVIOUS
        <4>3. Len(Tail(old)) = Len(old) - 1
          BY <3>2
        <4> QED
          BY <3>3, <4>1, <4>2, <4>3
      <3> QED
        BY <2>1, <3>1, <3>2, <3>4
    <2> QED
      BY <2>2, <2>3
  <1> QED
    BY <1>8, <1>9, <1>10, <1>11, <1>12, CompletesJoined DEF IInv

\* Hosts that wait for the same vote are at the same place.
LEMMA StoppedAlike ==
    ASSUME IInv, NEW r \in Ranks, NEW s \in Ranks,
           Stops(plan, Host(r)), Stops(plan, Host(s))
    PROVE  Host(r) = Host(s)
  BY StoppedReaches DEF IInv, HostsInv, OnePath

\* A stream without work is in order.
LEMMA EmptyStream ==
    ASSUME NEW s \in Seq(Collectives), Len(s) = 0
    PROVE  InOrder(s) /\ Elements(s) = {}
  BY DEF InOrder, Elements

\* A vote ends for all ranks at once, with the same answer.
LEMMA VoteCompletes ==
    ASSUME IInv, NEW g \in Groups, Completes(g),
           \A r \in Ranks : joined[r][g].kind = "ready"
    PROVE  IInv'
  <1>0. TypeInv /\ plan \in Plans
    BY DEF IInv, TypeInv
  <1>1. PICK lane \in Lanes :
          /\ \A r \in Ranks :
                  /\ joined[r][g].lane = lane /\ streams[r][lane] # <<>>
                  /\ streams[r][lane] \in Seq(Collectives)
                  /\ joined[r][g] = Head(streams[r][lane]) /\ GroupOf(joined[r][g]) = g
                  /\ joined[r][g] = streams[r][lane][1] /\ joined[r][g] \in Collectives
                  /\ 1 \in 1 .. Len(streams[r][lane])
                  /\ streams'[r][lane] = Tail(streams[r][lane])
                  /\ \A l \in Lanes \ {lane} : streams'[r][l] = streams[r][l]
          /\ streams' \in [Ranks -> [Lanes -> Seq(Collectives)]]
    BY CompletesHeads
  <1>2. UNCHANGED <<plan, host, pending, copied, taken>>
    BY DEF Completes
  <1>3. \A r \in Ranks : /\ lane = "decode" /\ Len(streams[r][lane]) = 1
                         /\ IsVote(vote[r], Asked(r), copied[r], joined[r][g])
    <2> TAKE r \in Ranks
    <2>1. 1 \in 1 .. Len(streams[r][lane]) /\ joined[r][g] = streams[r][lane][1]
          /\ joined[r][g].kind = "ready"
      BY <1>1
    <2>2. streams[r][lane][1] \notin Work(plan, lane)
      BY <2>1 DEF Work
    <2> QED
      BY <2>1, <2>2 DEF IInv, StreamsInv
  <1>4. \A r \in Ranks : vote[r] = "waits" /\ Stops(plan, Host(r)) /\ host[r].step <= MaxSteps
    BY <1>3 DEF IsVote, IInv, HostsInv
  <1>5. \A r, s \in Ranks : Host(r) = Host(s)
    BY <1>4, StoppedAlike
  <1> DEFINE all == \A s \in Ranks : joined[s][g].ready
             answer == IF all THEN "ready" ELSE "unready"
  <1>6. vote' = [r \in Ranks |-> answer]
    <2>1. \A r \in Ranks : vote'[r] = answer
      BY DEF Completes, AllReady
    <2>2. vote' = [r \in Ranks |-> vote'[r]]
      BY DEF Completes
    <2> QED
      BY <2>1, <2>2
  <1>7. answer \in {"ready", "unready"} /\ (answer = "ready" => all)
    OBVIOUS
  <1> HIDE DEF answer
  <1>8. \A r \in Ranks :
          /\ Host(r)'.step = Host(r).step /\ Host(r)'.place = Host(r).place
          /\ Host(r)' = [step |-> Host(r).step, place |-> Host(r).place, turn |-> Host(r).turn,
                         pending |-> Host(r).pending, taken |-> Host(r).taken,
                         answer |-> answer]
    BY <1>2, <1>6, <1>7, HostField DEF Host
  <1>9. TypeInv'
    BY <1>0, <1>1, <1>2, <1>6, <1>7, CompletesJoined DEF TypeInv
  <1>10. HostsInv'
    <2>1. ASSUME NEW r \in Ranks
          PROVE  Host(r)' \in HostStates(plan)
      <3>0. Host(r) \in HostStates(plan)
        BY DEF IInv, HostsInv
      <3>1. /\ Host(r).step \in Nat /\ Host(r).step \in 1 .. MaxSteps + 1
            /\ Host(r).place \in Nat /\ Host(r).turn \in Nat
            /\ Host(r).pending \in Seq(Nat) /\ Host(r).taken \in SUBSET Outputs
            /\ Coherent(plan, Host(r))
        BY <3>0, HostFields
      <3>2. Host(r).step <= MaxSteps
        BY <1>4, HostField
      <3>3. At(plan, Host(r)) # "launch" /\ Host(r).turn <= Len(Host(r).pending)
        <4>1. ~(Host(r).step > MaxSteps)
          BY <3>1, <3>2, RanksAssumption
        <4> QED
          BY <1>4, <4>1 DEF Stops
      <3>4. Host(r).turn \in 1 .. Len(Host(r).pending) /\ Host(r).step \in 1 .. MaxSteps
        <4>1. Len(Host(r).pending) \in Nat
          BY <3>1, LenProperties
        <4> QED
          BY <3>1, <3>2, <3>3, <4>1, RanksAssumption DEF Coherent
      <3>5. /\ Host(r)'.step = Host(r).step /\ Host(r)'.place = Host(r).place
            /\ Host(r)'.turn = Host(r).turn /\ Host(r)'.pending = Host(r).pending
            /\ Host(r)'.answer = answer
        BY <1>8
      <3>6. At(plan, Host(r)') = At(plan, Host(r))
        BY <3>5 DEF At
      <3>7. Coherent(plan, Host(r)')
        BY <3>1, <3>3, <3>4, <3>5, <3>6 DEF Coherent
      <3>8. answer \in {"none", "ready", "unready"}
        BY <1>7
      <3>9. Host(r)' = [step |-> Host(r).step, place |-> Host(r).place, turn |-> Host(r).turn,
                       pending |-> Host(r).pending, taken |-> Host(r).taken,
                       answer |-> answer]
        BY <1>8
      <3>10. /\ Host(r).step \in 1 .. MaxSteps + 1
             /\ Host(r).place \in Nat /\ Host(r).turn \in Nat
             /\ Host(r).pending \in Seq(Nat) /\ Host(r).taken \in SUBSET Outputs
        BY <3>1
      <3>11. Coherent(plan, [step |-> Host(r).step, place |-> Host(r).place,
                             turn |-> Host(r).turn, pending |-> Host(r).pending,
                             taken |-> Host(r).taken, answer |-> answer])
        BY <3>7, <3>9
      <3>12. [step |-> Host(r).step, place |-> Host(r).place, turn |-> Host(r).turn,
              pending |-> Host(r).pending, taken |-> Host(r).taken,
              answer |-> answer] \in HostStates(plan)
        BY <3>8, <3>10, <3>11, HostFieldsSuffice
      <3> QED
        BY <3>9, <3>12
    <2>2. \A r \in Ranks : vote'[r] # "waits"
      BY <1>6, <1>7
    <2> QED
      BY <1>2, <2>1, <2>2 DEF HostsInv
  <1>11. OnePath'
    <2>1. \A r, s \in Ranks : Host(r)' = Host(s)'
      BY <1>5, <1>8
    <2> QED
      BY <2>1, ReachesItself DEF OnePath
  <1>12. AnswersInv'
    <2> SUFFICES ASSUME NEW r \in Ranks, NEW s \in Ranks, answer = "ready"
                 PROVE  Asked(r) \in copied[s]
      BY <1>2, <1>6 DEF AnswersInv, Asked
    <2>1. joined[s][g].ready = TRUE
      <3>1. joined[s][g].ready /\ joined[s][g].ready \in BOOLEAN
        BY <1>1, <1>7 DEF Collectives
      <3> QED
        BY <3>1
    <2>2. Asked(s) \in copied[s] /\ Asked(s) = joined[s][g].about
          /\ Asked(r) = joined[r][g].about
      BY <1>3, <2>1 DEF IsVote
    <2>3. joined[r][g].about = joined[s][g].about
      BY DEF Completes, Same
    <2> QED
      BY <2>2, <2>3
  <1>13. \A r \in Ranks : Len(streams'[r][lane]) = 0 /\ streams'[r][lane] \in Seq(Collectives)
    <2> TAKE r \in Ranks
    <2>1. /\ streams[r][lane] \in Seq(Collectives) /\ streams[r][lane] # <<>>
          /\ Len(streams[r][lane]) = 1 /\ streams'[r][lane] = Tail(streams[r][lane])
      BY <1>1, <1>3
    <2>2. /\ Tail(streams[r][lane]) \in Seq(Collectives)
          /\ Len(Tail(streams[r][lane])) = Len(streams[r][lane]) - 1
      BY <2>1, TailFacts
    <2> QED
      BY <2>1, <2>2
  <1>14. StreamsInv'
    <2>1. ASSUME NEW s \in Ranks, NEW l \in Lanes
          PROVE  /\ InOrder(streams'[s][l])
                 /\ \A i \in 1 .. Len(streams'[s][l]) :
                        /\ streams'[s][l][i] \in Work(plan, l)
                        /\ Launched(plan, Host(s)', streams'[s][l][i].about)
      <3>1. CASE l = lane
        BY <1>13, <3>1, EmptyStream
      <3>2. CASE l # lane
        <4>1. streams'[s][l] = streams[s][l] /\ l # "decode"
          BY <1>1, <1>3, <3>2
        <4>2. /\ InOrder(streams[s][l])
              /\ \A i \in 1 .. Len(streams[s][l]) :
                        /\ streams[s][l][i] \in Work(plan, l)
                        /\ Launched(plan, Host(s), streams[s][l][i].about)
          BY <4>1 DEF IInv, StreamsInv
        <4> QED
          BY <1>8, <4>1, <4>2 DEF Launched
      <3> QED
        BY <3>1, <3>2
    <2> QED
      BY <1>2, <2>1 DEF StreamsInv
  <1>15. OpenInv'
    <2>1. ASSUME NEW l \in Lanes, NEW d \in Work(plan, l), NEW s \in Ranks
          PROVE  Open(s, l, d)' <=> Open(s, l, d)
      <3>1. Launched(plan, Host(s)', d.about) <=> Launched(plan, Host(s), d.about)
        BY <1>8 DEF Launched
      <3>2. CASE l = lane
        <4>1. Elements(streams'[s][l]) = {}
          BY <1>13, <3>2, EmptyStream
        <4>2. d \notin Elements(streams[s][l])
          <5>1. /\ Len(streams[s][l]) = 1 /\ streams[s][l][1] = joined[s][g]
                /\ joined[s][g].kind = "ready"
            BY <1>1, <1>3, <3>2
          <5>2. d.kind # "ready"
            BY DEF Work
          <5> QED
            BY <5>1, <5>2 DEF Elements
        <4> QED
          BY <1>2, <3>1, <4>1, <4>2 DEF Open
      <3>3. CASE l # lane
        <4>1. plan' = plan /\ streams'[s][l] = streams[s][l]
          BY <1>1, <1>2, <3>3
        <4> QED
          BY <3>1, <4>1 DEF Open
      <3> QED
        BY <3>2, <3>3
    <2>2. \A l \in Lanes : \A d \in Work(plan, l) : \A s, u \in Ranks :
            Open(s, l, d) <=> Open(u, l, d)
      BY DEF IInv, OpenInv
    <2>3. \A l \in Lanes : \A d \in Work(plan, l) : \A s, u \in Ranks :
            Open(s, l, d)' <=> Open(u, l, d)'
      BY <2>1, <2>2
    <2>4. plan' = plan
      BY <1>2
    <2> QED
      BY <2>3, <2>4 DEF OpenInv
  <1>16. TakenWhenAllReady' /\ VotesInv'
    BY <1>2, <1>6, <1>7 DEF IInv, TakenWhenAllReady, VotesInv
  <1> QED
    BY <1>9, <1>10, <1>11, <1>12, <1>14, <1>15, <1>16, CompletesJoined DEF IInv

-------------------------------------------------------------------------------
(* The theorems. *)

\* The initial states satisfy the invariant.
LEMMA InitIInv ==
    ASSUME Init
    PROVE  IInv
  <1>1. plan \in Plans
    BY DEF Init, Plans
  <1>2. \A r \in Ranks :
          Host(r) = [step |-> 1, place |-> 1, turn |-> 1, pending |-> <<>>, taken |-> {},
                     answer |-> "none"]
    BY DEF Init, Host
  <1>3. \A r \in Ranks : Host(r) \in HostStates(plan)
    <2> DEFINE h == [step |-> 1, place |-> 1, turn |-> 1, pending |-> <<>>, taken |-> {},
                     answer |-> "none"]
    <2>1. 1 \in 1 .. MaxSteps => 1 \in 1 .. Len(Program(plan[1]))
      <3> SUFFICES ASSUME 1 \in 1 .. MaxSteps
                   PROVE  1 \in 1 .. Len(Program(plan[1]))
        OBVIOUS
      <3>1. plan[1] \in Steps
        BY <1>1 DEF Plans
      <3>2. Len(Program(plan[1])) \in Nat /\ Len(Program(plan[1])) >= 3
        BY <3>1, ProgramLength
      <3> QED
        BY <3>2
    <2>2. Coherent(plan, h)
      BY <2>1 DEF Coherent
    <2>3. 1 \in 1 .. MaxSteps + 1 /\ <<>> \in Seq(Nat) /\ {} \in SUBSET Outputs
      BY RanksAssumption, EmptySeq
    <2>4. h \in HostStates(plan)
      BY <2>2, <2>3, HostFieldsSuffice
    <2> QED
      BY <1>2, <2>4
  <1>4. \A r \in Ranks : vote[r] = "none" /\ taken[r] = {} /\ \A g \in Groups : joined[r][g] = Idle
    BY DEF Init
  <1>5. \A r \in Ranks : \A lane \in Lanes : streams[r][lane] = <<>>
    BY DEF Init
  <1>6. TypeInv
    <2>1. <<>> \in Seq(Collectives) /\ <<>> \in Seq(Nat)
      BY EmptySeq
    <2>2. streams \in [Ranks -> [Lanes -> Seq(Collectives)]] /\ pending \in [Ranks -> Seq(Nat)]
      BY <2>1 DEF Init
    <2>3. joined \in [Ranks -> [Groups -> Collectives \cup {Idle}]]
      BY DEF Init
    <2>4. /\ host \in [Ranks -> [step : Nat, place : Nat, turn : Nat]]
          /\ vote \in [Ranks -> {"none", "waits", "ready", "unready"}]
          /\ copied \in [Ranks -> SUBSET Nat] /\ taken \in [Ranks -> SUBSET Outputs]
      BY DEF Init
    <2> QED
      BY <1>1, <2>2, <2>3, <2>4 DEF TypeInv
  <1>7. HostsInv /\ AnswersInv /\ TakenWhenAllReady /\ JoinedInv /\ VotesInv
    BY <1>3, <1>4 DEF HostsInv, AnswersInv, TakenWhenAllReady, JoinedInv, VotesInv
  <1>8. OnePath
    BY <1>2, ReachesItself DEF OnePath
  <1>9. StreamsInv
    <2>1. ASSUME NEW r \in Ranks, NEW lane \in Lanes
          PROVE  InOrder(streams[r][lane]) /\ Len(streams[r][lane]) = 0
      BY <1>5, EmptySeq, EmptyStream
    <2> QED
      BY <2>1 DEF StreamsInv
  <1>10. OpenInv
    <2> SUFFICES ASSUME NEW lane \in Lanes, NEW c \in Work(plan, lane),
                        NEW r \in Ranks, NEW s \in Ranks
                 PROVE  Open(r, lane, c) <=> Open(s, lane, c)
      BY DEF OpenInv
    <2> QED
      BY <1>2, <1>5 DEF Open
  <1> QED
    BY <1>6, <1>7, <1>8, <1>9, <1>10 DEF IInv

\* Every step preserves it.
LEMMA NextIInv ==
    ASSUME IInv, [Next]_vars
    PROVE  IInv'
  <1>1. ASSUME NEW r \in Ranks, HostStep(r)
        PROVE  IInv'
    BY <1>1, LaunchIInv, CallReadyIInv, TakeReadyIInv, SurveyReadyIInv, MovesOnIInv DEF HostStep
  <1>2. ASSUME NEW r \in Ranks, DeviceStep(r)
        PROVE  IInv'
    BY <1>2, JoinsIInv, CopiesIInv DEF DeviceStep
  <1>3. ASSUME NEW g \in Groups, Completes(g)
        PROVE  IInv'
    BY <1>3, WorkCompletes, VoteCompletes
  <1>4. CASE UNCHANGED vars
    <2>1. UNCHANGED <<plan, host, pending, vote, taken, streams, joined, copied>>
      BY <1>4 DEF vars, hostVars
    <2>2. \A r \in Ranks : Host(r)' = Host(r) /\ Asked(r)' = Asked(r)
      BY <2>1 DEF Host, Asked
    <2>3. TypeInv' /\ HostsInv' /\ OnePath' /\ AnswersInv' /\ JoinedInv' /\ TakenWhenAllReady'
      BY <2>1, <2>2
        DEF IInv, TypeInv, HostsInv, OnePath, AnswersInv, JoinedInv, TakenWhenAllReady
    <2>4. StreamsInv' /\ OpenInv' /\ VotesInv'
      BY <2>1, <2>2 DEF IInv, StreamsInv, OpenInv, Open, VotesInv
    <2> QED
      BY <2>3, <2>4 DEF IInv
  <1> QED
    BY <1>1, <1>2, <1>3, <1>4 DEF Next

\* The inductive invariant: the hosts are on one path, the streams have what they
\* launched in order, and what has completed has completed for all.
THEOREM Invariance == Spec => []IInv
  <1>1. Init => IInv
    BY InitIInv
  <1>2. IInv /\ [Next]_vars => IInv'
    BY NextIInv
  <1> QED
    BY <1>1, <1>2, PTL DEF Spec

\* An output is taken only when it is on every host.
\* Code: the MIN over the answers of the ranks in _async_output_ready.
THEOREM TakesWhatAllHave == Spec => []TakenWhenAllReady
  <1>1. IInv => TakenWhenAllReady
    BY DEF IInv
  <1> QED
    BY <1>1, Invariance, PTL

\* Of two hosts on one path, what the first took with a step it has done the other one
\* took too.
LEMMA OnePathAgrees ==
    ASSUME IInv, NEW r \in Ranks, NEW s \in Ranks, NEW n \in Nat, Done(r, n),
           Reaches(plan, Host(r), Host(s))
    PROVE  {t \in taken[r] : t.step = n} = {t \in taken[s] : t.step = n}
  <1>1. NotBefore(Host(r), Host(s))
    BY ReachesNotBefore DEF IInv, TypeInv, HostsInv
  <1>2. \A t \in Outputs : t.step < host[r].step => (t \in taken[r] <=> t \in taken[s])
    BY <1>1, HostField DEF NotBefore
  <1>3. taken[r] \subseteq Outputs /\ taken[s] \subseteq Outputs
    BY DEF IInv, TypeInv
  <1>4. n < host[r].step
    <2>1. host[r].step \in Nat
      BY DEF IInv, TypeInv
    <2> QED
      BY <2>1 DEF Done
  <1> QED
    BY <1>2, <1>3, <1>4

\* All ranks take the same prefill outputs with the same step.
\* Code: _take_ready_prefill_outputs at both places of sample_tokens.
THEOREM RanksTakeAlike == Spec => []RanksAgree
  <1>1. ASSUME IInv
        PROVE  RanksAgree
    <2> SUFFICES ASSUME NEW r \in Ranks, NEW s \in Ranks, NEW n \in 1 .. MaxSteps,
                        Done(r, n), Done(s, n)
                 PROVE  {t \in taken[r] : t.step = n} = {t \in taken[s] : t.step = n}
      BY DEF RanksAgree
    <2>1. n \in Nat
      OBVIOUS
    <2>2. Reaches(plan, Host(r), Host(s)) \/ Reaches(plan, Host(s), Host(r))
      BY <1>1 DEF IInv, OnePath
    <2>3. CASE Reaches(plan, Host(r), Host(s))
      BY <1>1, <2>1, <2>3, OnePathAgrees
    <2>4. CASE Reaches(plan, Host(s), Host(r))
      <3>1. {t \in taken[s] : t.step = n} = {t \in taken[r] : t.step = n}
        BY <1>1, <2>1, <2>4, OnePathAgrees
      <3> QED
        BY <3>1
    <2> QED
      BY <2>2, <2>3, <2>4
  <1>2. IInv => RanksAgree
    BY <1>1
  <1> QED
    BY <1>2, Invariance, PTL

-------------------------------------------------------------------------------
(* No group pairs two different collectives, if all work is in its lane's group. *)

\* What a device is in: the first of the stream, in the group of the lane.
LEMMA JoinedIsFirst ==
    ASSUME IInv, NEW r \in Ranks, NEW g \in Groups, joined[r][g] # Idle
    PROVE  \E lane \in Lanes :
             /\ joined[r][g].lane = lane /\ GroupOf(joined[r][g]) = g
             /\ streams[r][lane] \in Seq(Collectives)
             /\ joined[r][g] = streams[r][lane][1] /\ 1 \in 1 .. Len(streams[r][lane])
             /\ \/ /\ joined[r][g] \in Work(plan, lane)
                   /\ Launched(plan, Host(r), joined[r][g].about)
                \/ /\ lane = "decode" /\ Len(streams[r][lane]) = 1
                   /\ IsVote(vote[r], Asked(r), copied[r], joined[r][g])
  <1> DEFINE lane == joined[r][g].lane
  <1>1. /\ lane \in Lanes /\ streams[r][lane] # <<>> /\ GroupOf(joined[r][g]) = g
        /\ joined[r][g] = Head(streams[r][lane])
    BY DEF IInv, JoinedInv
  <1>2. streams[r][lane] \in Seq(Collectives)
    BY <1>1 DEF IInv, TypeInv
  <1>3. joined[r][g] = streams[r][lane][1] /\ 1 \in 1 .. Len(streams[r][lane])
    <2> HIDE DEF lane
    <2> QED
      BY <1>1, <1>2, TailFacts
  <1>4. \/ /\ joined[r][g] \in Work(plan, lane)
           /\ Launched(plan, Host(r), joined[r][g].about)
        \/ /\ lane = "decode" /\ Len(streams[r][lane]) = 1
           /\ IsVote(vote[r], Asked(r), copied[r], joined[r][g])
    <2> HIDE DEF lane
    <2> QED
      BY <1>1, <1>3 DEF IInv, StreamsInv
  <1> QED
    BY <1>1, <1>2, <1>3, <1>4

\* The getters choose the group of the lane.
LEMMA GroupOfLane ==
    ASSUME LogitsInForward, NEW c, NEW lane \in Lanes, c.lane = lane,
           c.kind \in {"forward", "logits"} \/ (c.kind = "ready" /\ lane = "decode")
    PROVE  GroupOf(c) = IF lane = "prefill" THEN "offload" ELSE "primary"
  BY DEF GroupOf, GetGroup, UseOffloadGroup, ContextOf, ForwardContext, NoContext, Lanes

\* The steps are launched in their order.
LEMMA LaunchedEarlier ==
    ASSUME NEW p \in Plans, NEW h \in HostStates(p), NEW n \in 1 .. MaxSteps,
           NEW m \in 1 .. MaxSteps, Launched(p, h, n), m <= n
    PROVE  Launched(p, h, m)
  <1>1. h.step \in Nat /\ m \in Nat /\ n \in Nat
    BY HostFields
  <1>2. CASE m = n
    BY <1>2
  <1>3. CASE m < n
    BY <1>1, <1>3 DEF Launched
  <1> QED
    BY <1>1, <1>2, <1>3

\* Work that is first for one rank is not behind other work for another.
LEMMA FirstWork ==
    ASSUME IInv, NEW lane \in Lanes, NEW r \in Ranks, NEW s \in Ranks,
           NEW c \in Work(plan, lane), NEW d \in Work(plan, lane),
           1 \in 1 .. Len(streams[r][lane]), 1 \in 1 .. Len(streams[s][lane]),
           c = streams[r][lane][1], d = streams[s][lane][1], Launched(plan, Host(s), d.about)
    PROVE  ~Before(c, d)
  <1> SUFFICES ASSUME Before(c, d)
               PROVE  FALSE
    OBVIOUS
  <1>0. plan \in Plans /\ Host(s) \in HostStates(plan)
    BY DEF IInv, TypeInv, HostsInv
  <1>1. /\ c.about \in 1 .. MaxSteps /\ d.about \in 1 .. MaxSteps
        /\ c.about \in Nat /\ d.about \in Nat /\ c.kind # "ready"
    <2>1. c.about \in 1 .. MaxSteps /\ c.about \in Nat /\ c.kind \in {"forward", "logits"}
      BY DEF Work
    <2>2. d.about \in 1 .. MaxSteps /\ d.about \in Nat
      BY DEF Work
    <2> QED
      BY <2>1, <2>2
  <1>2. Launched(plan, Host(s), c.about)
    <2>1. c.about <= d.about
      BY <1>1 DEF Before
    <2> QED
      BY <1>0, <1>1, <2>1, LaunchedEarlier
  <1>3. Open(r, lane, c)
    BY DEF Open, Elements
  <1>4. c \in Elements(streams[s][lane])
    BY <1>2, <1>3 DEF IInv, OpenInv, Open
  <1>5. PICK i \in 1 .. Len(streams[s][lane]) : c = streams[s][lane][i]
    BY <1>4 DEF Elements
  <1>6. c # d /\ ~Before(d, c)
    BY <1>1, NotBeforeItself
  <1>7. 1 < i
    BY <1>5, <1>6
  <1>8. Before(d, c)
    BY <1>1, <1>5, <1>7 DEF IInv, StreamsInv, InOrder
  <1> QED
    BY <1>6, <1>8

\* No rank is in the work of a lane while another is in the vote after it.
LEMMA WorkIsNoVote ==
    ASSUME IInv, NEW r \in Ranks, NEW s \in Ranks, NEW c \in Work(plan, "decode"), NEW d,
           1 \in 1 .. Len(streams[r]["decode"]), c = streams[r]["decode"][1],
           Launched(plan, Host(r), c.about),
           Len(streams[s]["decode"]) = 1, d = streams[s]["decode"][1],
           IsVote(vote[s], Asked(s), copied[s], d)
    PROVE  FALSE
  <1>0. /\ plan \in Plans /\ Host(s) \in HostStates(plan) /\ Host(r) \in HostStates(plan)
        /\ "decode" \in Lanes
    BY DEF IInv, TypeInv, HostsInv, Lanes
  <1>1. Stops(plan, Host(s))
    BY DEF IInv, HostsInv, IsVote
  <1>2. c.about \in 1 .. MaxSteps /\ c.kind \in {"forward", "logits"}
    BY DEF Work
  <1>3. Launched(plan, Host(s), c.about)
    <2>1. CASE Reaches(plan, Host(s), Host(r))
      <3>1. Host(r) = Host(s)
        BY <1>0, <1>1, <2>1, StoppedReaches
      <3> QED
        BY <3>1
    <2>2. CASE Reaches(plan, Host(r), Host(s))
      BY <1>0, <1>2, <2>2, ReachesNotBefore, NotBeforeLaunched
    <2> QED
      BY <2>1, <2>2 DEF IInv, OnePath
  <1>4. Open(r, "decode", c)
    BY DEF Open, Elements
  <1>5. c \in Elements(streams[s]["decode"])
    BY <1>0, <1>3, <1>4 DEF IInv, OpenInv, Open
  <1>6. c = d
    BY <1>5 DEF Elements
  <1> QED
    BY <1>2, <1>6 DEF IsVote

\* Two devices in a collective of one group are in the same one.
LEMMA SameCollective ==
    ASSUME IInv, LogitsInForward, NEW g \in Groups, NEW r \in Ranks, NEW s \in Ranks,
           joined[r][g] # Idle, joined[s][g] # Idle
    PROVE  Same(joined[r][g], joined[s][g])
  <1> DEFINE c == joined[r][g]
             d == joined[s][g]
  <1>0. plan \in Plans
    BY DEF IInv, TypeInv
  <1>1. PICK lane \in Lanes :
          /\ c.lane = lane /\ GroupOf(c) = g
          /\ c = streams[r][lane][1] /\ 1 \in 1 .. Len(streams[r][lane])
          /\ \/ c \in Work(plan, lane) /\ Launched(plan, Host(r), c.about)
             \/ /\ lane = "decode" /\ Len(streams[r][lane]) = 1
                /\ IsVote(vote[r], Asked(r), copied[r], c)
    BY JoinedIsFirst
  <1>2. PICK l \in Lanes :
          /\ d.lane = l /\ GroupOf(d) = g
          /\ d = streams[s][l][1] /\ 1 \in 1 .. Len(streams[s][l])
          /\ \/ d \in Work(plan, l) /\ Launched(plan, Host(s), d.about)
             \/ /\ l = "decode" /\ Len(streams[s][l]) = 1
                /\ IsVote(vote[s], Asked(s), copied[s], d)
    BY JoinedIsFirst
  <1> HIDE DEF c, d
  <1>3. l = lane
    <2>1. g = IF lane = "prefill" THEN "offload" ELSE "primary"
      <3>1. c.kind \in {"forward", "logits"} \/ (c.kind = "ready" /\ lane = "decode")
        BY <1>1 DEF Work, IsVote
      <3> QED
        BY <1>1, <3>1, GroupOfLane
    <2>2. g = IF l = "prefill" THEN "offload" ELSE "primary"
      <3>1. d.kind \in {"forward", "logits"} \/ (d.kind = "ready" /\ l = "decode")
        BY <1>2 DEF Work, IsVote
      <3> QED
        BY <1>2, <3>1, GroupOfLane
    <2> QED
      BY <2>1, <2>2 DEF Lanes
  <1>4. CASE c \in Work(plan, lane) /\ d \in Work(plan, lane)
    <2>1. Launched(plan, Host(r), c.about) /\ Launched(plan, Host(s), d.about)
      BY <1>1, <1>2, <1>3, <1>4 DEF IsVote, Work
    <2>2. ~Before(c, d) /\ ~Before(d, c)
      BY <1>1, <1>2, <1>3, <1>4, <2>1, FirstWork
    <2>3. c = d
      BY <1>0, <1>4, <2>2, BeforeOrAfter
    <2> QED
      BY <2>3 DEF Same, c, d
  <1>5. CASE c \in Work(plan, lane) /\ d \notin Work(plan, lane)
    <2>1. /\ lane = "decode" /\ Len(streams[s]["decode"]) = 1
          /\ IsVote(vote[s], Asked(s), copied[s], d) /\ Launched(plan, Host(r), c.about)
      BY <1>1, <1>2, <1>3, <1>5 DEF IsVote, Work
    <2> QED
      BY <1>1, <1>2, <1>3, <1>5, <2>1, WorkIsNoVote
  <1>6. CASE c \notin Work(plan, lane) /\ d \in Work(plan, lane)
    <2>1. /\ lane = "decode" /\ Len(streams[r]["decode"]) = 1
          /\ IsVote(vote[r], Asked(r), copied[r], c) /\ Launched(plan, Host(s), d.about)
      BY <1>1, <1>2, <1>3, <1>6 DEF IsVote, Work
    <2> QED
      BY <1>1, <1>2, <1>3, <1>6, <2>1, WorkIsNoVote
  <1>7. CASE c \notin Work(plan, lane) /\ d \notin Work(plan, lane)
    <2>1. /\ IsVote(vote[r], Asked(r), copied[r], c)
          /\ IsVote(vote[s], Asked(s), copied[s], d)
      BY <1>1, <1>2, <1>3, <1>7
    <2>2. Stops(plan, Host(r)) /\ Stops(plan, Host(s))
      BY <2>1 DEF IsVote, IInv, HostsInv
    <2>3. Host(r) = Host(s)
      BY <2>2, StoppedAlike
    <2>4. Asked(r) = Asked(s)
      BY <2>3, HostWords
    <2> QED
      BY <2>1, <2>4 DEF IsVote, Same, c, d
  <1> QED
    BY <1>4, <1>5, <1>6, <1>7

\* No group pairs two different collectives.
\* Code: the getters that choose the group by the forward context, and the
\* all-reduce that makes the ranks branch alike.
THEOREM RanksMatch ==
    ASSUME LogitsInForward
    PROVE  Spec => []CollectivesMatch
  <1>1. IInv => CollectivesMatch
    BY SameCollective DEF CollectivesMatch
  <1> QED
    BY <1>1, Invariance, PTL

\* When every host has stopped all have stopped at the same vote, and its group has
\* a device that can join or a collective that all have joined.
LEMMA StoppedGoesOn ==
    ASSUME IInv, LogitsInForward, NEW r0 \in Ranks, ~Done(r0, MaxSteps),
           \A r \in Ranks : Busy(r) => vote[r] = "waits"
    PROVE  NothingHangs
  <1>0. /\ TypeInv /\ plan \in Plans
        /\ \A r \in Ranks : Host(r) \in HostStates(plan) /\ Host(r).step \in Nat
    BY HostFields DEF IInv, TypeInv, HostsInv
  <1>1. \A r \in Ranks : Busy(r) <=> ~(Host(r).step > MaxSteps)
    BY <1>0, HostWords, RanksAssumption
  <1>2. \A r \in Ranks : Stops(plan, Host(r))
    <2> TAKE r \in Ranks
    <2>1. CASE Busy(r)
      BY <2>1 DEF IInv, HostsInv
    <2>2. CASE ~Busy(r)
      BY <1>1, <2>2 DEF Stops
    <2> QED
      BY <2>1, <2>2
  <1>3. \A r \in Ranks : Host(r) = Host(r0)
    BY <1>2, StoppedAlike
  <1>4. Busy(r0)
    <2>1. ~(Host(r0).step > MaxSteps)
      BY HostField DEF Done
    <2> QED
      BY <1>1, <2>1
  <1>5. \A r \in Ranks : vote[r] = "waits"
    BY <1>1, <1>3, <1>4
  <1>6. "primary" \in Groups /\ "decode" \in Lanes
    BY DEF Groups, Lanes
  <1>7. CASE \E r \in Ranks : joined[r]["primary"] = Idle
    <2>1. PICK r \in Ranks : joined[r]["primary"] = Idle
      BY <1>7
    <2> DEFINE s == streams[r]["decode"]
    <2>2. s \in Seq(Collectives) /\ Len(s) > 0
      BY <1>0, <1>5, <1>6 DEF TypeInv, IInv, VotesInv
    <2>3. \/ s[1] \in Work(plan, "decode")
          \/ IsVote(vote[r], Asked(r), copied[r], s[1])
      <3>1. 1 \in 1 .. Len(s)
        BY <2>2, LenProperties
      <3> QED
        BY <1>6, <3>1 DEF IInv, StreamsInv
    <2> HIDE DEF s
    <2>4. s # <<>> /\ Head(s) = s[1]
      BY <2>2, EmptySeq
    <2>5. GroupOf(s[1]) = "primary"
      <3>1. s[1].lane = "decode" /\ s[1].kind \in {"forward", "logits", "ready"}
        BY <2>3 DEF Work, IsVote
      <3> QED
        BY <1>6, <3>1, GroupOfLane
    <2> QED
      BY <1>6, <2>1, <2>4, <2>5 DEF NothingHangs, s
  <1>8. CASE \A r \in Ranks : joined[r]["primary"] # Idle
    <2>1. \A r, s \in Ranks : Same(joined[r]["primary"], joined[s]["primary"])
      BY <1>6, <1>8, SameCollective
    <2> QED
      BY <1>6, <1>8, <2>1 DEF NothingHangs
  <1> QED
    BY <1>7, <1>8

\* Until every step has been executed something can go on without the copies.
\* Code: the docstring of install_parallel_state_patch names the deadlock.
THEOREM RanksNeverHang ==
    ASSUME LogitsInForward
    PROVE  Spec => []NothingHangs
  <1>1. ASSUME IInv
        PROVE  NothingHangs
    BY <1>1, StoppedGoesOn DEF NothingHangs
  <1>2. IInv => NothingHangs
    BY <1>1
  <1> QED
    BY <1>2, Invariance, PTL

===============================================================================
