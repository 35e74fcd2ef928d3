------------------------------ MODULE LaneRanks ------------------------------
(***************************************************************************)
(* The two lanes on every rank of a tensor-parallel group                  *)
(* (src/dynamicPD/vllm_ascend/vllm_ascend/worker/model_runner_v1.py with   *)
(* the communication groups of the two patched parallel_state.py).         *)
(*                                                                         *)
(* Every rank is a process of its own and executes the same steps at its   *)
(* own pace.  Its model launches collectives on two streams; readiness of  *)
(* a prefill output is a collective, too, and decides what the rank does   *)
(* next.  PrefillLanes has one worker stand for all ranks; this module     *)
(* shows that it may.                                                      *)
(*                                                                         *)
(* External: a device runs each of its streams in order and the two in any *)
(* order; a communication group of a rank is in one collective at a time,  *)
(* and a collective ends when every rank of the group has joined it.       *)
(***************************************************************************)
EXTENDS Naturals, Sequences, FiniteSets

CONSTANTS
    Ranks,              \* the ranks of the tensor-parallel group
    MaxSteps,           \* how many steps the engine sends
    LogitsInForward     \* external: logits are gathered within the forward context

ASSUME RanksAssumption == Ranks # {} /\ LogitsInForward \in BOOLEAN /\ MaxSteps \in Nat

VARIABLES
    plan,       \* the steps the engine sends to all ranks: any of them, so that
                \* what the scheduler makes of the results needs no model here
    host,       \* rank -> its place in the step it executes
    pending,    \* rank -> _dynamic_pd_pending_prefill_outputs, by step
    vote,       \* rank -> the all-reduce of _async_output_ready it waits for
    streams,    \* rank -> lane -> collectives launched and not complete
    joined,     \* rank -> group -> the collective its device is in
    copied,     \* rank -> the prefill outputs that are on its host
    taken       \* rank -> the prefill outputs it took, each with the step (history)

hostVars == <<host, pending, vote, taken>>
vars == <<plan, hostVars, streams, joined, copied>>

Lanes  == {"decode", "prefill"}
Groups == {"primary", "offload"}
Steps  == [decode : BOOLEAN, prefill : BOOLEAN]
Idle   == [kind |-> "none", lane |-> "none", about |-> 0, ready |-> FALSE]

Init ==
    /\ plan \in [1 .. MaxSteps -> Steps]
    /\ host = [r \in Ranks |-> [step |-> 1, place |-> 1, turn |-> 1]]
    /\ pending = [r \in Ranks |-> <<>>]
    /\ vote = [r \in Ranks |-> "none"]
    /\ streams = [r \in Ranks |-> [lane \in Lanes |-> <<>>]]
    /\ joined = [r \in Ranks |-> [g \in Groups |-> Idle]]
    /\ copied = [r \in Ranks |-> {}]
    /\ taken = [r \in Ranks |-> {}]

-------------------------------------------------------------------------------
(* Which group a collective uses. *)

NoContext == [entered |-> FALSE, use_offload_tp |-> FALSE]

\* _patch_forward_context_once and set_ascend_forward_context: use_offload_tp
\* is what _dynamic_pd_lane_context sets for the lane.
ForwardContext(lane) == [entered |-> TRUE, use_offload_tp |-> lane = "prefill"]

\* _use_offload_group, without an explicit argument
UseOffloadGroup(context) == context.entered /\ context.use_offload_tp

\* mutant: the getter bound before the patch, which knows the primary group only
GetOriginalGroup(context) == "primary"

\* get_tp_group() and the other getters
GetGroup(context) == IF UseOffloadGroup(context) THEN "offload" ELSE "primary"

\* Where a collective is called: in the model's forward or after it.
ContextOf(c) ==
    IF c.kind = "forward" \/ (c.kind = "logits" /\ LogitsInForward)
    THEN ForwardContext(c.lane) ELSE NoContext

\* tensor_model_parallel_all_reduce, _all_gather, ...
GroupOf(c) == GetGroup(ContextOf(c))

Collective(kind, lane, about, ready) ==
    [kind |-> kind, lane |-> lane, about |-> about, ready |-> ready]

\* What a lane's model launches for step n.
LaneWork(lane, n) ==
    <<Collective("forward", lane, n, FALSE), Collective("logits", lane, n, FALSE)>>

-------------------------------------------------------------------------------
(* The host program of a rank. *)

\* Where execute_model() and sample_tokens() ask for readiness: a survey asks
\* about one output after the other until one is not ready, a take also pops.
Program(step) ==
    IF step.prefill THEN <<"launch", "take", "take">>
    ELSE IF step.decode THEN <<"survey", "survey", "launch", "take", "take">>
    ELSE <<"survey", "survey", "take">>

Busy(r) == host[r].step <= MaxSteps

Place(r) == Program(plan[host[r].step])[host[r].place]

\* The place that follows.
NextPlace(r) ==
    IF host[r].place < Len(Program(plan[host[r].step]))
    THEN [step |-> host[r].step, place |-> host[r].place + 1, turn |-> 1]
    ELSE [step |-> host[r].step + 1, place |-> 1, turn |-> 1]

\* The model is launched on both streams, and the prefill output is queued.
Launch(r) ==
    /\ Busy(r) /\ Place(r) = "launch"
    /\ LET n    == host[r].step
           step == plan[n]
       IN  /\ streams' = [streams EXCEPT
                 ![r].decode  = IF step.decode THEN @ \o LaneWork("decode", n) ELSE @,
                 ![r].prefill = IF step.prefill THEN @ \o LaneWork("prefill", n) ELSE @]
           /\ pending' = [pending EXCEPT ![r] = IF step.prefill THEN Append(@, n) ELSE @]
    /\ host' = [host EXCEPT ![r] = NextPlace(r)]
    /\ UNCHANGED <<plan, vote, joined, copied, taken>>

\* Whether and about which output the rank asks at a survey or a take.
Asks(r) == Place(r) \in {"survey", "take"} /\ host[r].turn <= Len(pending[r])
Asked(r) == pending[r][host[r].turn]

\* mutant: a rank whose own copy is not finished does not take part in the vote
CallReadyIfReady(r) ==
    /\ Busy(r) /\ vote[r] = "none" /\ Asks(r)
    /\ IF Asked(r) \in copied[r]
       THEN /\ streams' = [streams EXCEPT ![r].decode =
                             Append(@, Collective("ready", "decode", Asked(r), TRUE))]
            /\ vote' = [vote EXCEPT ![r] = "waits"]
       ELSE /\ vote' = [vote EXCEPT ![r] = "unready"]
            /\ UNCHANGED streams
    /\ UNCHANGED <<plan, host, pending, joined, copied, taken>>

\* _async_output_ready: query the copy event, launch the all-reduce of the answer
\* on the default stream, wait for the result.
CallReady(r) ==
    /\ Busy(r) /\ vote[r] = "none" /\ Asks(r)
    /\ streams' = [streams EXCEPT ![r].decode =
                     Append(@, Collective("ready", "decode", Asked(r), Asked(r) \in copied[r]))]
    /\ vote' = [vote EXCEPT ![r] = "waits"]
    /\ UNCHANGED <<plan, host, pending, joined, copied, taken>>

\* _take_ready_prefill_outputs pops an output that is ready.
TakeReady(r) ==
    /\ Busy(r) /\ Place(r) = "take" /\ vote[r] = "ready"
    /\ taken' = [taken EXCEPT ![r] = @ \cup {[step |-> host[r].step, output |-> Asked(r)]}]
    /\ pending' = [pending EXCEPT ![r] = Tail(@)]
    /\ vote' = [vote EXCEPT ![r] = "none"]
    /\ UNCHANGED <<plan, host, streams, joined, copied>>

\* all() over the pending outputs goes on with the next one.
SurveyReady(r) ==
    /\ Busy(r) /\ Place(r) = "survey" /\ vote[r] = "ready"
    /\ host' = [host EXCEPT ![r].turn = @ + 1]
    /\ vote' = [vote EXCEPT ![r] = "none"]
    /\ UNCHANGED <<plan, pending, streams, joined, copied, taken>>

\* The first output that is not ready, or the end of the list, ends both.
MovesOn(r) ==
    /\ Busy(r) /\ Place(r) # "launch"
    /\ vote[r] = "unready" \/ (vote[r] = "none" /\ ~Asks(r))
    /\ host' = [host EXCEPT ![r] = NextPlace(r)]
    /\ vote' = [vote EXCEPT ![r] = "none"]
    /\ UNCHANGED <<plan, pending, streams, joined, copied, taken>>

-------------------------------------------------------------------------------
(* The devices. *)

\* A stream of the rank reaches its next collective.
Joins(r, lane) ==
    /\ streams[r][lane] # <<>>
    /\ LET c == Head(streams[r][lane])
       IN  /\ joined[r][GroupOf(c)] = Idle
           /\ joined' = [joined EXCEPT ![r][GroupOf(c)] = c]
    /\ UNCHANGED <<plan, hostVars, streams, copied>>

Same(c, d) == c.kind = d.kind /\ c.lane = d.lane /\ c.about = d.about

\* mutant: MAX instead of MIN
SomeReady(g, r) == \E s \in Ranks : joined[s][g].ready

\* mutant: no all-reduce, each rank goes by its own event
OwnReady(g, r) == joined[r][g].ready

\* The answer rank r gets from the all_reduce with ReduceOp.MIN.
AllReady(g, r) == \A s \in Ranks : joined[s][g].ready

\* All ranks are in the same collective: it ends.
Completes(g) ==
    /\ \A r \in Ranks : joined[r][g] # Idle
    /\ \A r, s \in Ranks : Same(joined[r][g], joined[s][g])
    /\ streams' = [r \in Ranks |-> [streams[r] EXCEPT ![joined[r][g].lane] = Tail(@)]]
    /\ joined' = [r \in Ranks |-> [joined[r] EXCEPT ![g] = Idle]]
    /\ vote' = [r \in Ranks |->
                  IF joined[r][g].kind # "ready" THEN vote[r]
                  ELSE IF AllReady(g, r) THEN "ready" ELSE "unready"]
    /\ UNCHANGED <<plan, host, pending, copied, taken>>

\* The output of a computed prefill has been copied to the host.
Copies(r, n) ==
    /\ n \in 1 .. MaxSteps /\ plan[n].prefill /\ n \notin copied[r]
    /\ n < host[r].step \/ (n = host[r].step /\ host[r].place > 1)
    /\ \A i \in DOMAIN streams[r].prefill : streams[r].prefill[i].about # n
    /\ copied' = [copied EXCEPT ![r] = @ \cup {n}]
    /\ UNCHANGED <<plan, hostVars, streams, joined>>

HostStep(r) ==
    \/ Launch(r) \/ CallReady(r) \/ TakeReady(r) \/ SurveyReady(r) \/ MovesOn(r)

DeviceStep(r) ==
    \/ \E lane \in Lanes : Joins(r, lane)
    \/ \E n \in 1 .. MaxSteps : Copies(r, n)

Next ==
    \/ \E r \in Ranks : HostStep(r) \/ DeviceStep(r)
    \/ \E g \in Groups : Completes(g)

\* Each host runs, each stream goes on, and a complete collective ends.  The copies
\* get no fairness: no step of a host depends on them.
Fairness ==
    /\ \A r \in Ranks : WF_vars(HostStep(r))
    /\ \A r \in Ranks, lane \in Lanes : WF_vars(Joins(r, lane))
    /\ \A g \in Groups : WF_vars(Completes(g))

Spec == Init /\ [][Next]_vars /\ Fairness

-------------------------------------------------------------------------------
(* Properties *)

\* No group pairs two different collectives: ranks of one group are never in the
\* forward of different lanes or steps, or in a vote about different outputs.
\* Code: the getters that choose the group by the forward context, and the
\* all-reduce that makes the ranks branch alike.
CollectivesMatch ==
    \A g \in Groups : \A r, s \in Ranks :
        joined[r][g] # Idle /\ joined[s][g] # Idle => Same(joined[r][g], joined[s][g])

Done(r, n) == host[r].step > n

\* All ranks take the same prefill outputs with the same step, although their
\* copies finish at different times; the engine reads one rank's output only.
\* Code: _take_ready_prefill_outputs at both places of sample_tokens.
RanksAgree ==
    \A r, s \in Ranks : \A n \in 1 .. MaxSteps :
        Done(r, n) /\ Done(s, n) =>
            {t \in taken[r] : t.step = n} = {t \in taken[s] : t.step = n}

\* An output is taken only when the copies of all ranks are finished.
\* Code: the MIN over the answers of the ranks in _async_output_ready.
TakenWhenAllReady ==
    \A r, s \in Ranks : \A t \in taken[r] : t.output \in copied[s]

\* Until every rank has executed every step, some host, stream or group can go on,
\* whatever the copies do: no rank waits for a collective that cannot come.
\* Code: the docstring of install_parallel_state_patch names the deadlock.
NothingHangs ==
    \/ \A r \in Ranks : Done(r, MaxSteps)
    \/ \E r \in Ranks : Busy(r) /\ vote[r] # "waits"
    \/ \E r \in Ranks : \E lane \in Lanes :
          streams[r][lane] # <<>> /\ joined[r][GroupOf(Head(streams[r][lane]))] = Idle
    \/ \E g \in Groups :
          /\ \A r \in Ranks : joined[r][g] # Idle
          /\ \A r, s \in Ranks : Same(joined[r][g], joined[s][g])

\* Every rank executes every step: no vote and no collective hangs.
\* Code: the docstring of install_parallel_state_patch names the deadlock.
EveryStepEnds ==
    <>(\A r \in Ranks : Done(r, MaxSteps))

===============================================================================
