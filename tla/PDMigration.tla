----------------------------- MODULE PDMigration -----------------------------
(***************************************************************************)
(* A prefill engine that sends requests away.                              *)
(*                                                                         *)
(* The input thread takes the requests of the client off a socket, decides *)
(* for each whether it is to migrate, answers it on the spot if so, and    *)
(* puts it into input_queue in either case.  The engine thread takes it    *)
(* from there, drops what has migrated and serves the rest.  The two       *)
(* threads share the queues of the scheduler without a lock: the decision  *)
(* reads them while the engine thread changes them.                        *)
(*                                                                         *)
(* What the decision knows of the decode engines is the view of            *)
(* PDCoordinator.  Its own reports are left out: nobody uses the load of a *)
(* prefill engine.                                                         *)
(***************************************************************************)
EXTENDS PDCoordinator

CONSTANTS
    Requests,
    NumTokens,                \* prompt length of each request
    OverloadTrd,
    PrefillTokenCost,
    PrefillFixedCost,
    MaxBatches                \* steps in flight

ASSUME MigrationAssumption ==
    /\ NumTokens \in [Requests -> Nat \ {0}]
    /\ {OverloadTrd, PrefillTokenCost, PrefillFixedCost} \subseteq Nat
    /\ MaxBatches \in Nat \ {0}

VARIABLES
    sent,                     \* requests the client has sent
    aborted,                  \* requests it has taken back
    input_socket,             \* its messages, not yet read
    decision,                 \* where the input thread is in _pd_should_migrate()
    to_migrate,               \* the flag of the request object
    input_queue,              \* from the input thread to the engine thread
    waiting, running, batch_infos,   \* of the scheduler
    answers                   \* final outputs put into output_queue, per request

engineVars == <<waiting, running, batch_infos>>
migrationVars == <<sent, aborted, input_socket, decision, to_migrate, input_queue, answers, engineVars>>
vars == <<coordinatorVars, migrationVars>>

Message == [type : {"ADD", "ABORT"}, req : Requests]
Idle == [at |-> "idle"]

MigrationInit ==
    /\ sent = {} /\ aborted = {} /\ to_migrate = {}
    /\ input_socket = <<>> /\ input_queue = <<>>
    /\ decision = Idle
    /\ waiting = <<>> /\ running = {} /\ batch_infos = <<>>
    /\ answers = [r \in Requests |-> <<>>]

Answer(r, kind) == answers' = [answers EXCEPT ![r] = Append(@, kind)]

TokensOf(reqs) == FoldFunctionOnSet(+, 0, NumTokens, reqs)

-------------------------------------------------------------------------------
(* The client: it sends a request once, and takes back one that has no answer. *)

ClientAdds(r) ==
    /\ r \notin sent
    /\ sent' = sent \cup {r}
    /\ input_socket' = Append(input_socket, [type |-> "ADD", req |-> r])
    /\ UNCHANGED <<coordinatorVars, aborted, decision, to_migrate, input_queue, answers, engineVars>>

ClientAborts(r) ==
    /\ r \in sent \ aborted
    /\ answers[r] = <<>>
    /\ aborted' = aborted \cup {r}
    /\ input_socket' = Append(input_socket, [type |-> "ABORT", req |-> r])
    /\ UNCHANGED <<coordinatorVars, sent, decision, to_migrate, input_queue, answers, engineVars>>

-------------------------------------------------------------------------------
(* The input thread *)

inputThreadOnly == <<coordinatorVars, sent, aborted, engineVars>>

PutInput(message) == input_queue' = Append(input_queue, message)

\* Only an ADD is preprocessed; its flag is reset first.
ReadSocket ==
    /\ decision = Idle
    /\ input_socket # <<>>
    /\ input_socket' = Tail(input_socket)
    /\ LET message == Head(input_socket)
       IN  \/ /\ message.type = "ABORT"
              /\ PutInput(message)
              /\ UNCHANGED <<decision, to_migrate>>
           \/ /\ message.type = "ADD"
              /\ decision' = [at |-> "stats", req |-> message.req]
              /\ to_migrate' = to_migrate \ {message.req}
              /\ UNCHANGED input_queue
    /\ UNCHANGED <<inputThreadOnly, answers>>

\* make_stats() counts the waiting requests ...
ReadStats ==
    /\ decision.at = "stats"
    /\ decision' = [at |-> "iterate", req |-> decision.req, waiting_reqs |-> Len(waiting)]
    /\ UNCHANGED <<inputThreadOnly, input_socket, to_migrate, input_queue, answers>>

\* ... and _get_sum_request_tokens() then walks over them.
StartSum ==
    /\ decision.at = "iterate"
    /\ decision' = [at |-> "sum", req |-> decision.req,
                    waiting_reqs |-> decision.waiting_reqs, seen |-> waiting]
    /\ UNCHANGED <<inputThreadOnly, input_socket, to_migrate, input_queue, answers>>

\* mutant: the request that has failed goes on to the engine thread
SumRaisesAndQueues ==
    /\ decision.at = "sum"
    /\ waiting # decision.seen
    /\ Answer(decision.req, "error")
    /\ decision' = [at |-> "put", req |-> decision.req]
    /\ UNCHANGED <<inputThreadOnly, input_socket, to_migrate, input_queue>>

\* A deque that has changed under the iterator raises; the request is answered
\* with an error and goes no further.
SumRaises ==
    /\ decision.at = "sum"
    /\ waiting # decision.seen
    /\ Answer(decision.req, "error")
    /\ decision' = Idle
    /\ UNCHANGED <<inputThreadOnly, input_socket, to_migrate, input_queue>>

SumWaiting ==
    /\ decision.at = "sum"
    /\ waiting = decision.seen
    /\ decision' = [at |-> "decide", req |-> decision.req, waiting_reqs |-> decision.waiting_reqs,
                    waiting_tokens |-> TokensOf(Range(waiting))]
    /\ UNCHANGED <<inputThreadOnly, input_socket, to_migrate, input_queue, answers>>

PredictWait(tokens, reqs) == PrefillFixedCost + PrefillTokenCost * tokens + reqs * PrefillFixedCost

\* The time the steps in flight still take: what has passed of it is anybody's guess.
ResidualTimes ==
    0 .. Max({0} \cup {PredictWait(TokensOf(batch_infos[i]), Cardinality(batch_infos[i])) :
                          i \in DOMAIN batch_infos})

Overloaded(residual) ==
    PredictWait(decision.waiting_tokens + NumTokens[decision.req], decision.waiting_reqs)
        + residual > OverloadTrd

\* poll() is called for an overloaded engine only.
KeepsRequest ==
    /\ decision.at = "decide"
    /\ \/ /\ \E residual \in ResidualTimes : ~Overloaded(residual)
          /\ UNCHANGED <<view, published>>
       \/ /\ \E residual \in ResidualTimes : Overloaded(residual)
          /\ Candidates(Polled) = {}
          /\ view' = Polled
          /\ published' = <<>>
    /\ decision' = [at |-> "put", req |-> decision.req]
    /\ UNCHANGED <<load, reports, dropped, loads, since_publish, sent, aborted,
                   input_socket, to_migrate, input_queue, answers, engineVars>>

\* mutant: the flag is set and the answer is forgotten
MigratesSilently ==
    /\ decision.at = "decide"
    /\ \E residual \in ResidualTimes : Overloaded(residual)
    /\ Candidates(Polled) # {}
    /\ view' = Polled
    /\ published' = <<>>
    /\ to_migrate' = to_migrate \cup {decision.req}
    /\ decision' = [at |-> "put", req |-> decision.req]
    /\ UNCHANGED <<load, reports, dropped, loads, since_publish, sent, aborted,
                   input_socket, input_queue, answers, engineVars>>

\* _pd_emit_migrate_output(): the answer leaves before the request is queued.
MigratesRequest ==
    /\ decision.at = "decide"
    /\ \E residual \in ResidualTimes : Overloaded(residual)
    /\ Candidates(Polled) # {}
    /\ view' = Polled
    /\ published' = <<>>
    /\ to_migrate' = to_migrate \cup {decision.req}
    /\ Answer(decision.req, "migrate")
    /\ decision' = [at |-> "put", req |-> decision.req]
    /\ UNCHANGED <<load, reports, dropped, loads, since_publish, sent, aborted,
                   input_socket, input_queue, engineVars>>

QueueRequest ==
    /\ decision.at = "put"
    /\ PutInput([type |-> "ADD", req |-> decision.req])
    /\ decision' = Idle
    /\ UNCHANGED <<inputThreadOnly, input_socket, to_migrate, answers>>

InputThread ==
    \/ ReadSocket \/ ReadStats \/ StartSum \/ SumRaises \/ SumWaiting
    \/ KeepsRequest \/ MigratesRequest \/ QueueRequest

-------------------------------------------------------------------------------
(* The engine thread *)

engineThreadOnly == <<coordinatorVars, sent, aborted, input_socket, decision, to_migrate>>

\* mutant: the flag is not looked at
AdmittedAlways(r) == TRUE

Admitted(r) == r \notin to_migrate

\* _handle_client_request(): a request that has migrated is dropped; an abort of
\* a request the scheduler does not know changes nothing.
HandleClientRequest ==
    /\ input_queue # <<>>
    /\ input_queue' = Tail(input_queue)
    /\ LET message == Head(input_queue)
       IN  \/ /\ message.type = "ADD"
              /\ waiting' = IF Admitted(message.req) THEN Append(waiting, message.req) ELSE waiting
              /\ UNCHANGED running
           \/ /\ message.type = "ABORT"
              /\ waiting' = RemoveFirst(waiting, message.req)
              /\ running' = running \ {message.req}
    /\ UNCHANGED <<engineThreadOnly, batch_infos, answers>>

\* A step takes requests from the front of the queue (external).
EngineSchedules ==
    /\ Len(batch_infos) < MaxBatches
    /\ \E n \in 1 .. Len(waiting) :
        LET taken == Range(SubSeq(waiting, 1, n))
        IN  /\ waiting' = SubSeq(waiting, n + 1, Len(waiting))
            /\ running' = running \cup taken
            /\ batch_infos' = Append(batch_infos, taken)
    /\ UNCHANGED <<engineThreadOnly, input_queue, answers>>

\* The oldest step is done; its requests have their token and are finished.
EngineUpdates ==
    /\ batch_infos # <<>>
    /\ LET served == Head(batch_infos) \cap running
       IN  /\ answers' = [r \in Requests |-> IF r \in served THEN Append(answers[r], "served")
                                             ELSE answers[r]]
           /\ running' = running \ served
    /\ batch_infos' = Tail(batch_infos)
    /\ UNCHANGED <<engineThreadOnly, input_queue, waiting>>

-------------------------------------------------------------------------------
MigrationNext ==
    \/ \E r \in Requests : ClientAdds(r) \/ ClientAborts(r)
    \/ InputThread
    \/ HandleClientRequest \/ EngineSchedules \/ EngineUpdates
    \/ (\E e \in Engines : \E l \in Loads[e] : PostStep(e, l)) /\ UNCHANGED migrationVars
    \/ CoordinatorTurn /\ UNCHANGED migrationVars
    \/ Tick /\ UNCHANGED migrationVars

\* Both threads of the engine run on; the engine loop handles input, schedules
\* and updates in turn.  Nothing is assumed of the coordinator and the decodes.
MigrationSpec ==
    /\ CoordinatorInit /\ MigrationInit
    /\ [][MigrationNext]_vars
    /\ WF_vars(InputThread)
    /\ WF_vars(HandleClientRequest) /\ WF_vars(EngineSchedules) /\ WF_vars(EngineUpdates)

-------------------------------------------------------------------------------
(* Properties *)

\* A request has one final answer at most: it is served, migrated or failed.
\* Code: preprocess_add_request answers on the input thread what
\* _handle_client_request has to drop on the engine thread.
OneAnswer == \A r \in Requests : Len(answers[r]) <= 1

\* The engine spends nothing on a request it has answered: from the answer of the
\* input thread on, the scheduler never has the request.
\* Code: to_migrate is set before the request is queued, and read when it leaves.
AnsweredIsGone ==
    \A r \in Requests : answers[r] # <<>> => r \notin Range(waiting) \cup running

\* Every request gets an answer or is taken back, whatever the input thread meets.
\* Code: preprocess_add_request and _handle_client_request together.
EveryoneAnswered ==
    \A r \in Requests : (r \in sent) ~> (answers[r] # <<>> \/ r \in aborted)

===============================================================================
