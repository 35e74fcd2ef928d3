----------------------------- MODULE HoldRestore -----------------------------
(***************************************************************************)
(* The order of `running' through one patched schedule()                   *)
(* (src/dynamicPD/vllm/vllm/v1/core/sched/scheduler.py:228-308).           *)
(*                                                                         *)
(* OffloadScheduler treats `running' as a set.  It is a list, and the      *)
(* original schedule() serves it front to back and, under the fcfs policy, *)
(* preempts from its end: the order is the priority.  The patch takes the  *)
(* in-flight requests out by index and inserts them again into whatever    *)
(* list the original schedule() leaves, also when it raises.               *)
(***************************************************************************)
EXTENDS Integers, Sequences, FiniteSets, SequencesExt, FiniteSetsExt

CONSTANTS
    Requests,       \* request ids
    Inflight        \* async_offload_inflight_req_ids: fixed during schedule()

ASSUME InflightAssumption == IsFiniteSet(Requests) /\ Inflight \subseteq Requests

VARIABLES
    running,        \* self.running
    skipped,        \* the held requests, each with its index
    policy,         \* "fcfs" or "priority"
    phase,          \* where schedule() is
    before,         \* history: running when schedule() was called
    preempted       \* history: what the original schedule() preempted

vars == <<running, skipped, policy, phase, before, preempted>>

\* The lists of distinct requests.
Lists == UNION {{s \in [1 .. n -> Requests] : Cardinality(ToSet(s)) = n} :
                  n \in 0 .. Cardinality(Requests)}

Init ==
    /\ running \in Lists
    /\ policy \in {"fcfs", "priority"}
    /\ skipped = <<>>
    /\ phase = "hold"
    /\ before = running
    /\ preempted = {}

-------------------------------------------------------------------------------
\* [x for x in list if x in S]
Those(list, S) ==
    FoldLeft(LAMBDA acc, x : IF x \in S THEN Append(acc, x) ELSE acc, <<>>, list)

\* enumerate(self.running), from index 0.
Enumerated(list) == [i \in DOMAIN list |-> [index |-> i - 1, request |-> list[i]]]

\* _hold_inflight_async_offload_requests
Hold ==
    /\ phase = "hold"
    /\ skipped' = Those(Enumerated(running), [index : Nat, request : Inflight])
    /\ running' = Those(running, Requests \ Inflight)
    /\ phase' = "schedule"
    /\ UNCHANGED <<policy, before, preempted>>

\* External: the original schedule() preempts, from the end under fcfs, or else
\* appends requests it admits; or it raises before it has done any of it.
OriginalSchedule ==
    /\ phase = "schedule"
    /\ \/ \E gone \in SUBSET ToSet(running) :
             /\ policy = "fcfs" =>
                   \E n \in 0 .. Len(running) : gone = ToSet(SubSeq(running, n + 1, Len(running)))
             /\ preempted' = gone
             /\ running' = Those(running, Requests \ gone)
       \/ \E admitted \in Lists :
             /\ ToSet(admitted) \cap (ToSet(before) \cup Inflight) = {}
             /\ running' = running \o admitted
             /\ UNCHANGED preempted
    /\ phase' = "restore"
    /\ UNCHANGED <<skipped, policy, before>>

-------------------------------------------------------------------------------
\* list.insert(min(index, len(list)), request)
InsertAtIndex(list, item) ==
    InsertAt(list, Min({item.index, Len(list)}) + 1, item.request)

\* mutant: the held requests are inserted last to first
RestoreReversed(list, items) ==
    FoldRight(LAMBDA item, acc : IF item.request \in ToSet(acc) THEN acc
                                 ELSE InsertAtIndex(acc, item), items, list)

\* mutant: a held request is put back where it was, or not at all
RestoreInPlace(list, items) ==
    FoldLeft(LAMBDA acc, item : IF item.request \in ToSet(acc) \/ item.index > Len(acc) THEN acc
                                ELSE InsertAtIndex(acc, item), list, items)

\* _restore_inflight_async_offload_requests, for held requests that are still
\* known: nothing removes a request during schedule().
RestoreInto(list, items) ==
    FoldLeft(LAMBDA acc, item : IF item.request \in ToSet(acc) THEN acc
                                ELSE InsertAtIndex(acc, item), list, items)

Restore ==
    /\ phase = "restore"
    /\ running' = RestoreInto(running, skipped)
    /\ phase' = "done"
    /\ UNCHANGED <<skipped, policy, before, preempted>>

Next == Hold \/ OriginalSchedule \/ Restore

Spec == Init /\ [][Next]_vars

-------------------------------------------------------------------------------
(* Properties *)

\* Nobody is lost or doubled: the batch is what it was, less the preempted, with
\* the admitted, each once.  Code: the skip of known ids and min(index, len).
NobodyLost ==
    phase = "done" =>
        /\ ToSet(before) \ preempted \subseteq ToSet(running)
        /\ ToSet(running) \cap preempted = {}
        /\ Cardinality(ToSet(running)) = Len(running)

Position(list, r) == CHOOSE i \in DOMAIN list : list[i] = r

\* Under fcfs no request overtakes another one: the requests that stay keep their
\* order, held or not, and the admitted come after them.  The indices recorded
\* before the original schedule() are applied to a list it has changed.
OrderKept ==
    phase = "done" /\ policy = "fcfs" =>
        \A r, s \in ToSet(running) :
            /\ r \in ToSet(before) /\ s \in ToSet(before) /\ Position(before, r) < Position(before, s)
               => Position(running, r) < Position(running, s)
            /\ r \in ToSet(before) /\ s \notin ToSet(before)
               => Position(running, r) < Position(running, s)

===============================================================================
