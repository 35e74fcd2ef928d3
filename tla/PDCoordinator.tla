---------------------------- MODULE PDCoordinator ----------------------------
(***************************************************************************)
(* The way of a load report: an engine publishes its load after every      *)
(* step, the coordinator process keeps the last report of each engine and  *)
(* publishes them all at most once per interval, and the load client of a  *)
(* prefill engine reads what has arrived when it has to decide.            *)
(*                                                                         *)
(* A report carries its age instead of the time it was made: every test in *)
(* the code is of the form now - ts_ms <= stale_ms.  Ages stop at MaxAge,  *)
(* a bound per engine.  Where it does not exceed StaleMs the reports of    *)
(* the engine do not expire: it reports often enough, or stale_ms has its  *)
(* default 0xffffffff.                                                     *)
(***************************************************************************)
EXTENDS Naturals, Sequences, SequencesExt, FiniteSets

CONSTANTS
    Engines,                  \* instance ids
    Role,                     \* pd_role of each engine
    Group,                    \* pd_group of each engine
    PdGroup,                  \* the group of the client
    Loads,                    \* per engine: its loads [prefill_tokens_in_decode, kv_cache_usage]
    DecodeKvWatermark,
    MaxDecodeOffloadTokens,
    StaleMs,
    PublishIntervalMs,
    MaxAge,                   \* per engine: ages above it are not told apart
    ReportHWM,                \* high-water marks of the PUSH and of the PUB socket
    PublishHWM

ASSUME CoordinatorAssumption ==
    /\ Role \in [Engines -> {"prefill", "decode", "both"}]
    /\ DOMAIN Group = Engines
    /\ Loads \in [Engines -> SUBSET [prefill_tokens_in_decode : Nat, kv_cache_usage : Nat]]
    /\ {DecodeKvWatermark, MaxDecodeOffloadTokens, StaleMs} \subseteq Nat
    /\ MaxAge \in [Engines -> Nat]
    /\ {PublishIntervalMs, ReportHWM, PublishHWM} \subseteq Nat \ {0}

VARIABLES
    load,                     \* what _scheduler_load() would return, per engine
    reports,                  \* reports on their way to the coordinator, per engine
    dropped,                  \* whether the last report of an engine was dropped
    loads,                    \* the coordinator's last report of each engine it knows
    since_publish,            \* time since last_publish_ms, up to the interval
    published,                \* messages not yet read by the load client
    view                      \* PDLoadView.engines of the load client

coordinatorVars == <<load, reports, dropped, loads, since_publish, published, view>>

LoadOfEach == {f \in [Engines -> UNION Range(Loads)] : \A e \in Engines : f[e] \in Loads[e]}

Report(e) == [load : Loads[e], age : 0 .. MaxAge[e]]

\* Tables of the last report of some engines.
IsTable(known) == DOMAIN known \subseteq Engines /\ \A e \in DOMAIN known : known[e] \in Report(e)

CoordinatorInit ==
    /\ load \in LoadOfEach
    /\ reports = [e \in Engines |-> <<[load |-> load[e], age |-> 0]>>]
    /\ dropped = [e \in Engines |-> FALSE]
    /\ loads = <<>>
    /\ since_publish = PublishIntervalMs
    /\ published = <<>>
    /\ view = <<>>

-------------------------------------------------------------------------------
(* The engines *)

\* mutant: the socket is never full
PublishUnbounded(e, l) ==
    /\ dropped' = [dropped EXCEPT ![e] = FALSE]
    /\ reports' = [reports EXCEPT ![e] = Append(@, [load |-> l, age |-> 0])]

\* publish(): the report is dropped when the socket cannot take it.
Publish(e, l) ==
    LET full == Len(reports[e]) >= ReportHWM
    IN  /\ dropped' = [dropped EXCEPT ![e] = full]
        /\ reports' = IF full THEN reports
                      ELSE [reports EXCEPT ![e] = Append(@, [load |-> l, age |-> 0])]

\* post_step(): a step has changed the load and the new one is reported.  An
\* engine without work does not step and reports nothing.
PostStep(e, l) ==
    /\ load' = [load EXCEPT ![e] = l]
    /\ Publish(e, l)
    /\ UNCHANGED <<loads, since_publish, published, view>>

-------------------------------------------------------------------------------
(* The coordinator process *)

Fresh(known) == [e \in {f \in DOMAIN known : known[f].age <= StaleMs} |-> known[e]]

PublishDue == since_publish >= PublishIntervalMs

\* A PUB socket drops a message for a subscriber whose queue is full.
PublishView(known) ==
    IF PublishDue
    THEN /\ published' = IF Len(published) < PublishHWM
                         THEN Append(published, Fresh(known)) ELSE published
         /\ since_publish' = 0
    ELSE UNCHANGED <<published, since_publish>>

\* mutant: the first report of an engine is kept
WithFirstReport(known, e, report) ==
    [f \in DOMAIN known \cup {e} |-> IF f \in DOMAIN known THEN known[f] ELSE report]

WithReport(known, e, report) ==
    [f \in DOMAIN known \cup {e} |-> IF f = e THEN report ELSE known[f]]

\* One turn of the loop in which poll() found a report, and one in which it timed out.
ReceiveReport(e) ==
    /\ reports[e] # <<>>
    /\ loads' = WithReport(loads, e, Head(reports[e]))
    /\ reports' = [reports EXCEPT ![e] = Tail(@)]
    /\ PublishView(loads')
    /\ UNCHANGED <<load, dropped, view>>

PollTimesOut ==
    /\ \A e \in Engines : reports[e] = <<>>
    /\ PublishDue
    /\ PublishView(loads)
    /\ UNCHANGED <<load, reports, dropped, loads, view>>

CoordinatorTurn == PollTimesOut \/ \E e \in Engines : ReceiveReport(e)

-------------------------------------------------------------------------------
(* The load client *)

\* mutant: the new loads are merged into the old ones
ViewMerged(latest) ==
    [f \in DOMAIN view \cup DOMAIN Fresh(latest) |->
        IF f \in DOMAIN Fresh(latest) THEN latest[f] ELSE view[f]]

\* PDLoadView.update(): the new loads replace the old ones.
ViewUpdate(latest) == Fresh(latest)

\* What poll() returns: it drains the socket, and without a message the view stays.
Polled == IF published = <<>> THEN view ELSE ViewUpdate(Last(published))

\* mutant: the last message is read and the ones before it stay in the socket
PollOne ==
    /\ published # <<>>
    /\ view' = Polled
    /\ published' = Front(published)
    /\ UNCHANGED <<load, reports, dropped, loads, since_publish>>

Poll ==
    /\ published # <<>>
    /\ view' = Polled
    /\ published' = <<>>
    /\ UNCHANGED <<load, reports, dropped, loads, since_publish>>

\* The decodes best_decode() chooses from; the choice is logged and used for nothing.
Candidates(engines) ==
    {e \in DOMAIN engines :
        /\ Group[e] = PdGroup
        /\ Role[e] \in {"decode", "both"}
        /\ engines[e].load.kv_cache_usage < DecodeKvWatermark
        /\ engines[e].load.prefill_tokens_in_decode < MaxDecodeOffloadTokens}

-------------------------------------------------------------------------------
(* Time *)

Aged(report, e) == [report EXCEPT !.age = IF @ < MaxAge[e] THEN @ + 1 ELSE @]

Older(known) == [e \in DOMAIN known |-> Aged(known[e], e)]

Tick ==
    /\ since_publish' = IF PublishDue THEN since_publish ELSE since_publish + 1
    /\ reports' = [e \in Engines |-> [i \in DOMAIN reports[e] |-> Aged(reports[e][i], e)]]
    /\ loads' = Older(loads)
    /\ published' = [i \in DOMAIN published |-> Older(published[i])]
    /\ view' = Older(view)
    /\ UNCHANGED <<load, dropped>>

-------------------------------------------------------------------------------
Next ==
    \/ \E e \in Engines : \E l \in Loads[e] : PostStep(e, l)
    \/ CoordinatorTurn
    \/ Poll
    \/ Tick

\* The coordinator loops for ever, one report of an engine after the other; the
\* poller serves the engines in turn.  Nobody has to step or to poll.
Spec ==
    /\ CoordinatorInit
    /\ [][Next]_coordinatorVars
    /\ WF_coordinatorVars(Tick)
    /\ WF_coordinatorVars(PollTimesOut)
    /\ \A e \in Engines : WF_coordinatorVars(ReceiveReport(e))

-------------------------------------------------------------------------------
(* Properties *)

\* The sockets and the tables hold what they should, within their bounds.
TypeOK ==
    /\ load \in LoadOfEach
    /\ \A e \in Engines : reports[e] \in BoundedSeq(Report(e), ReportHWM)
    /\ dropped \in [Engines -> BOOLEAN]
    /\ IsTable(loads) /\ IsTable(view)
    /\ since_publish \in 0 .. PublishIntervalMs
    /\ Len(published) <= PublishHWM
    /\ \A i \in DOMAIN published : IsTable(published[i])

\* What the client knows of an engine is never replaced by an older report, although
\* reports wait in two queues, are thinned out by the interval and dropped where a
\* queue is full.  Code: the way from publish() to PDLoadView.update().
NeverOlder ==
    [][Poll => \A e \in DOMAIN view \cap DOMAIN view' : view'[e].age <= view[e].age]_coordinatorVars

PollsForEver == []<><<Poll>>_coordinatorVars

Expires(e) == MaxAge[e] > StaleMs

\* The last load of an engine arrives: when its load stays what it is and the
\* report of it was not dropped, a client that goes on polling ends up with it
\* and with no older one, although reports are queued, thinned out by the
\* interval, and messages are dropped.  It may expire on the way.
\* Code: run_coordinator, which publishes on a timeout too; poll.
LastLoadArrives ==
    \A e \in Engines : \A l \in Loads[e] :
        (PollsForEver /\ <>[](load[e] = l /\ ~dropped[e]))
            => <>[](IF e \in DOMAIN view THEN view[e].load = l ELSE Expires(e))

\* An engine that stops reporting is forgotten, by a client that goes on polling.
\* Code: the age tests in run_coordinator and PDLoadView.update.
SilentEngineExpires ==
    \A e \in {f \in Engines : Expires(f)} :
        (PollsForEver /\ <>[][\A l \in Loads[e] : ~PostStep(e, l)]_coordinatorVars)
            => <>[](e \notin DOMAIN view)

===============================================================================
