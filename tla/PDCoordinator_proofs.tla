------------------------ MODULE PDCoordinator_proofs ------------------------
(***************************************************************************)
(* Proofs about PDCoordinator, for any set of engines, any loads and any   *)
(* high-water marks: the queues stay within their marks, every report in a *)
(* queue, a message or a table is one of the engine it stands for, and the *)
(* client never replaces what it knows of an engine by an older report.    *)
(*                                                                         *)
(* The argument: on the way from the engine to the client every place has  *)
(* a report of an engine that is not older than those at later places, and *)
(* time does not change that, as long as it goes by everywhere.            *)
(***************************************************************************)
EXTENDS PDCoordinator, TLAPS

-------------------------------------------------------------------------------
(* Reports and tables *)

\* A report of an engine with no load older than its bound stays one when time passes.
LEMMA AgedReport ==
    ASSUME NEW e \in Engines, NEW report \in Report(e)
    PROVE  Aged(report, e) \in Report(e)
  <1>1. MaxAge[e] \in Nat /\ report.age \in 0 .. MaxAge[e] /\ report.load \in Loads[e]
    BY CoordinatorAssumption DEF Report
  <1>2. Aged(report, e) = [load |-> report.load,
                           age |-> IF report.age < MaxAge[e] THEN report.age + 1 ELSE report.age]
    BY DEF Aged, Report
  <1> QED
    BY <1>1, <1>2 DEF Report

\* A table stays one when time passes.
LEMMA OlderTable ==
    ASSUME NEW known, IsTable(known)
    PROVE  IsTable(Older(known))
  BY AgedReport DEF IsTable, Older

\* A table without its stale reports is one.
LEMMA FreshTable ==
    ASSUME NEW known, IsTable(known)
    PROVE  IsTable(Fresh(known))
  BY DEF IsTable, Fresh

\* A table with a new report is one.
LEMMA WithReportTable ==
    ASSUME NEW known, IsTable(known), NEW e \in Engines, NEW report \in Report(e)
    PROVE  IsTable(WithReport(known, e, report))
  BY DEF IsTable, WithReport

\* A new report is a report of its engine.
LEMMA NewReport ==
    ASSUME NEW e \in Engines, NEW l \in Loads[e]
    PROVE  [load |-> l, age |-> 0] \in Report(e)
  <1>1. MaxAge[e] \in Nat
    BY CoordinatorAssumption
  <1> QED
    BY <1>1 DEF Report

-------------------------------------------------------------------------------
(* Queues *)

\* A bounded sequence is a sequence that is not too long.
LEMMA BoundedIs ==
    ASSUME NEW S, NEW n \in Nat, NEW q
    PROVE  q \in BoundedSeq(S, n) <=> q \in Seq(S) /\ Len(q) <= n
  <1>1. ASSUME q \in BoundedSeq(S, n)
        PROVE  q \in Seq(S) /\ Len(q) <= n
    <2>1. PICK m \in 0 .. n : q \in [1 .. m -> S]
      BY <1>1 DEF BoundedSeq, SeqOf
    <2> QED
      BY <2>1
  <1>2. ASSUME q \in Seq(S), Len(q) <= n
        PROVE  q \in BoundedSeq(S, n)
    <2>1. Len(q) \in 0 .. n /\ q \in [1 .. Len(q) -> S]
      BY <1>2
    <2> QED
      BY <2>1 DEF BoundedSeq, SeqOf
  <1> QED
    BY <1>1, <1>2

\* A queue that is read or written keeps its high-water mark.
LEMMA QueueSteps ==
    ASSUME NEW S, NEW n \in Nat, NEW q \in BoundedSeq(S, n)
    PROVE  /\ q # <<>> => Head(q) \in S /\ Tail(q) \in BoundedSeq(S, n)
           /\ \A x \in S : ~(Len(q) >= n) => Append(q, x) \in BoundedSeq(S, n)
  <1>1. q \in Seq(S) /\ Len(q) <= n
    BY BoundedIs
  <1>2. ASSUME q # <<>>
        PROVE  Head(q) \in S /\ Tail(q) \in Seq(S) /\ Len(Tail(q)) <= n
    BY <1>1, <1>2
  <1>3. ASSUME NEW x \in S, ~(Len(q) >= n)
        PROVE  Append(q, x) \in Seq(S) /\ Len(Append(q, x)) <= n
    BY <1>1, <1>3
  <1> QED
    BY <1>2, <1>3, BoundedIs

-------------------------------------------------------------------------------
(* The invariant *)

Reports == [load : UNION Range(Loads), age : Nat]
Tables  == UNION {[known -> Reports] : known \in SUBSET Engines}

\* TypeOK, and that the queues are sequences.
TypeInv ==
    /\ TypeOK
    /\ reports \in [Engines -> Seq(Reports)]
    /\ published \in Seq(Tables)

\* Of the engines in both tables the first one has no older reports.
NotOlder(new, old) ==
    \A e \in DOMAIN new \cap DOMAIN old : new[e].age <= old[e].age

\* The same, and the first one knows all engines that the second one knows.
Follows(new, old) == DOMAIN old \subseteq DOMAIN new /\ NotOlder(new, old)

\* A report that waits is not older than those before it and the one it will replace.
ReportsInOrder(e) ==
    /\ \A i, j \in DOMAIN reports[e] : i < j => reports[e][j].age <= reports[e][i].age
    /\ e \in DOMAIN loads => \A i \in DOMAIN reports[e] : reports[e][i].age <= loads[e].age

\* The tables on the way are in order too.
TablesInOrder ==
    /\ \A i \in DOMAIN published : Follows(loads, published[i]) /\ NotOlder(published[i], view)
    /\ \A i, j \in DOMAIN published : i < j => NotOlder(published[j], published[i])
    /\ Follows(loads, view)

OrderInv == TablesInOrder /\ \A e \in Engines : ReportsInOrder(e)

IInv == TypeInv /\ OrderInv

\* A report of an engine is a report.
LEMMA ReportIs ==
    ASSUME NEW e \in Engines
    PROVE  Report(e) \subseteq Reports
  <1>1. MaxAge[e] \in Nat /\ Loads[e] \subseteq UNION Range(Loads)
    BY CoordinatorAssumption DEF Range
  <1> QED
    BY <1>1 DEF Report, Reports

\* A table of reports of some engines.
LEMMA TableIs ==
    ASSUME NEW known, IsTable(known), known = [e \in DOMAIN known |-> known[e]]
    PROVE  known \in Tables
  BY ReportIs DEF IsTable, Tables

\* The same of the reports that are not stale.
LEMMA FreshIsTable ==
    ASSUME NEW known, IsTable(known)
    PROVE  IsTable(Fresh(known)) /\ Fresh(known) \in Tables
  <1> DEFINE fresh == Fresh(known)
  <1>1. IsTable(fresh)
    BY FreshTable
  <1>2. fresh = [e \in DOMAIN fresh |-> fresh[e]]
    BY DEF Fresh
  <1> HIDE DEF fresh
  <1>3. fresh \in Tables
    BY <1>1, <1>2, TableIs
  <1> QED
    BY <1>1, <1>3 DEF fresh

\* The same when time passes.
LEMMA OlderIsTable ==
    ASSUME NEW known, IsTable(known)
    PROVE  IsTable(Older(known)) /\ Older(known) \in Tables
  <1> DEFINE older == Older(known)
  <1>1. IsTable(older)
    BY OlderTable
  <1>2. older = [e \in DOMAIN older |-> older[e]]
    BY DEF Older
  <1> HIDE DEF older
  <1>3. older \in Tables
    BY <1>1, <1>2, TableIs
  <1> QED
    BY <1>1, <1>3 DEF older

-------------------------------------------------------------------------------
(* The steps keep the types. *)

\* The initial states have their types.
LEMMA InitTypes == CoordinatorInit => TypeInv
  <1> SUFFICES ASSUME CoordinatorInit PROVE TypeInv
    OBVIOUS
  <1>1. ASSUME NEW e \in Engines
        PROVE  /\ reports[e] \in BoundedSeq(Report(e), ReportHWM)
               /\ reports[e] \in Seq(Reports)
    <2>1. load[e] \in Loads[e]
      BY DEF CoordinatorInit, LoadOfEach
    <2>2. [load |-> load[e], age |-> 0] \in Report(e)
      BY <2>1, NewReport
    <2>3. ReportHWM \in Nat /\ 1 <= ReportHWM
      BY CoordinatorAssumption
    <2>4. reports[e] = <<[load |-> load[e], age |-> 0]>>
      BY DEF CoordinatorInit
    <2>5. reports[e] \in Seq(Report(e)) /\ Len(reports[e]) = 1
      BY <2>2, <2>4
    <2>6. reports[e] \in Seq(Reports)
      BY <2>2, <2>4, ReportIs
    <2> QED
      BY <2>3, <2>5, <2>6, BoundedIs
  <1>2. IsTable(<<>>)
    BY DEF IsTable
  <1>3. TypeOK
    BY <1>1, <1>2, CoordinatorAssumption DEF CoordinatorInit, TypeOK
  <1>4. reports \in [Engines -> Seq(Reports)]
    <2>1. reports = [e \in Engines |-> reports[e]]
      BY DEF CoordinatorInit
    <2> QED
      BY <1>1, <2>1
  <1> QED
    BY <1>3, <1>4 DEF CoordinatorInit, TypeInv

\* What the coordinator publishes is a table, and its queue stays bounded.
LEMMA PublishViewType ==
    ASSUME TypeInv, NEW known, IsTable(known), PublishView(known)
    PROVE  /\ since_publish' \in 0 .. PublishIntervalMs
           /\ published' \in Seq(Tables)
           /\ Len(published') <= PublishHWM
           /\ \A i \in DOMAIN published' : IsTable(published'[i])
  <1>1. published \in Seq(Tables) /\ PublishHWM \in Nat /\ 0 \in 0 .. PublishIntervalMs
    BY CoordinatorAssumption DEF TypeInv
  <1>2. CASE UNCHANGED <<published, since_publish>>
    BY <1>1, <1>2 DEF TypeInv, TypeOK
  <1>3. CASE /\ published' = Append(published, Fresh(known)) /\ Len(published) < PublishHWM
             /\ since_publish' = 0
    <2> DEFINE fresh == Fresh(known)
    <2>1. fresh \in Tables /\ IsTable(fresh)
      BY FreshIsTable
    <2>2. published' = Append(published, fresh)
      BY <1>3
    <2> HIDE DEF fresh
    <2>3. Len(published') = Len(published) + 1 /\ published' \in Seq(Tables)
      BY <1>1, <2>1, <2>2
    <2>4. ASSUME NEW i \in DOMAIN published'
          PROVE  IsTable(published'[i])
      <3>1. CASE i \in DOMAIN published
        BY <1>1, <2>1, <2>2, <3>1 DEF TypeInv, TypeOK
      <3>2. CASE i \notin DOMAIN published
        BY <1>1, <2>1, <2>2, <3>2
      <3> QED
        BY <3>1, <3>2
    <2> QED
      BY <1>1, <1>3, <2>3, <2>4
  <1>4. CASE published' = published /\ since_publish' = 0
    BY <1>1, <1>4 DEF TypeInv, TypeOK
  <1> QED
    BY <1>2, <1>3, <1>4 DEF PublishView

\* publish() after a step: the report is queued or dropped.
LEMMA PostStepTypes ==
    ASSUME TypeInv, NEW e \in Engines, NEW l \in Loads[e], PostStep(e, l)
    PROVE  TypeInv'
  <1> DEFINE new == [load |-> l, age |-> 0]
  <1>1. UNCHANGED <<loads, since_publish, published, view>>
    BY DEF PostStep
  <1>2. load' \in LoadOfEach /\ dropped' \in [Engines -> BOOLEAN]
    <2>1. l \in UNION Range(Loads)
      BY CoordinatorAssumption DEF Range
    <2>2. load' \in LoadOfEach
      BY <2>1 DEF PostStep, TypeInv, TypeOK, LoadOfEach
    <2> QED
      BY <2>2 DEF PostStep, Publish, TypeInv, TypeOK
  <1>3. \/ reports' = reports
        \/ ~(Len(reports[e]) >= ReportHWM) /\ reports' = [reports EXCEPT ![e] = Append(@, new)]
    BY DEF PostStep, Publish
  <1>4. new \in Report(e) /\ new \in Reports
    <2>1. new \in Report(e)
      BY NewReport
    <2> QED
      BY <2>1, ReportIs
  <1> HIDE DEF new
  <1>5. ASSUME NEW f \in Engines
        PROVE  reports'[f] \in BoundedSeq(Report(f), ReportHWM)
    <2>1. reports[f] \in BoundedSeq(Report(f), ReportHWM)
      BY DEF TypeInv, TypeOK
    <2>2. CASE f = e /\ reports' # reports
      <3>1. reports'[f] = Append(reports[e], new)
        BY <1>3, <2>2 DEF TypeInv
      <3> QED
        BY <1>3, <1>4, <2>1, <2>2, <3>1, QueueSteps, CoordinatorAssumption
    <2>3. CASE f # e \/ reports' = reports
      <3>1. reports'[f] = reports[f]
        BY <1>3, <2>3 DEF TypeInv
      <3> QED
        BY <2>1, <3>1
    <2> QED
      BY <2>2, <2>3
  <1>6. reports' \in [Engines -> Seq(Reports)]
    <2>1. reports[e] \in Seq(Reports)
      BY DEF TypeInv
    <2>2. Append(reports[e], new) \in Seq(Reports)
      BY <1>4, <2>1
    <2> QED
      BY <1>3, <2>2 DEF TypeInv
  <1> QED
    BY <1>1, <1>2, <1>5, <1>6 DEF TypeInv, TypeOK

\* The coordinator takes a report, and publishes if the interval is over.
LEMMA ReceiveReportTypes ==
    ASSUME TypeInv, NEW e \in Engines, ReceiveReport(e)
    PROVE  TypeInv'
  <1>1. /\ UNCHANGED <<load, dropped, view>>
        /\ reports[e] # <<>>
        /\ loads' = WithReport(loads, e, Head(reports[e]))
        /\ reports' = [reports EXCEPT ![e] = Tail(@)]
        /\ PublishView(loads')
    BY DEF ReceiveReport
  <1>2. reports[e] \in BoundedSeq(Report(e), ReportHWM) /\ ReportHWM \in Nat
    BY CoordinatorAssumption DEF TypeInv, TypeOK
  <1>3. Head(reports[e]) \in Report(e) /\ Tail(reports[e]) \in BoundedSeq(Report(e), ReportHWM)
    BY <1>1, <1>2, QueueSteps
  <1>4. IsTable(loads')
    BY <1>1, <1>3, WithReportTable DEF TypeInv, TypeOK
  <1>5. ASSUME NEW f \in Engines
        PROVE  reports'[f] \in BoundedSeq(Report(f), ReportHWM)
    BY <1>1, <1>3 DEF TypeInv, TypeOK
  <1>6. reports' \in [Engines -> Seq(Reports)]
    <2>1. reports[e] \in Seq(Reports)
      BY DEF TypeInv
    <2>2. Tail(reports[e]) \in Seq(Reports)
      BY <1>1, <2>1
    <2> QED
      BY <1>1, <2>2 DEF TypeInv
  <1>7. /\ since_publish' \in 0 .. PublishIntervalMs
        /\ published' \in Seq(Tables)
        /\ Len(published') <= PublishHWM
        /\ \A i \in DOMAIN published' : IsTable(published'[i])
    BY <1>1, <1>4, PublishViewType
  <1> QED
    BY <1>1, <1>4, <1>5, <1>6, <1>7 DEF TypeInv, TypeOK

\* The coordinator's poll times out, and it publishes if the interval is over.
LEMMA PollTimesOutTypes ==
    ASSUME TypeInv, PollTimesOut
    PROVE  TypeInv'
  <1>1. UNCHANGED <<load, reports, dropped, loads, view>> /\ PublishView(loads)
    BY DEF PollTimesOut
  <1>2. /\ since_publish' \in 0 .. PublishIntervalMs
        /\ published' \in Seq(Tables)
        /\ Len(published') <= PublishHWM
        /\ \A i \in DOMAIN published' : IsTable(published'[i])
    BY <1>1, PublishViewType DEF TypeInv, TypeOK
  <1> QED
    BY <1>1, <1>2 DEF TypeInv, TypeOK

\* PDLoadClient.poll(): the last message received becomes the view.
LEMMA PollTypes ==
    ASSUME TypeInv, Poll
    PROVE  TypeInv'
  <1>1. /\ published # <<>> /\ published' = <<>>
        /\ view' = Fresh(Last(published))
        /\ UNCHANGED <<load, reports, dropped, loads, since_publish>>
    BY DEF Poll, Polled, ViewUpdate
  <1>2. published \in Seq(Tables) /\ Len(published) \in DOMAIN published
    BY <1>1 DEF TypeInv
  <1>3. IsTable(Last(published))
    BY <1>2 DEF TypeInv, TypeOK, Last
  <1>4. IsTable(view')
    BY <1>1, <1>3, FreshTable
  <1> QED
    BY <1>1, <1>4, CoordinatorAssumption DEF TypeInv, TypeOK

\* Time passes everywhere.
LEMMA TickTypes ==
    ASSUME TypeInv, Tick
    PROVE  TypeInv'
  <1>1. /\ since_publish' = IF PublishDue THEN since_publish ELSE since_publish + 1
        /\ reports' = [e \in Engines |-> [i \in DOMAIN reports[e] |-> Aged(reports[e][i], e)]]
        /\ loads' = Older(loads) /\ view' = Older(view)
        /\ published' = [i \in DOMAIN published |-> Older(published[i])]
        /\ UNCHANGED <<load, dropped>>
    BY DEF Tick
  <1>2. since_publish' \in 0 .. PublishIntervalMs
    BY <1>1, CoordinatorAssumption DEF TypeInv, TypeOK, PublishDue
  <1>3. IsTable(loads') /\ IsTable(view')
    BY <1>1, OlderTable DEF TypeInv, TypeOK
  <1>4. ASSUME NEW e \in Engines
        PROVE  /\ reports'[e] \in BoundedSeq(Report(e), ReportHWM)
               /\ reports'[e] \in Seq(Reports)
    <2> DEFINE q == reports[e]
               aged == [i \in DOMAIN q |-> Aged(q[i], e)]
    <2>1. ReportHWM \in Nat /\ q \in Seq(Report(e)) /\ Len(q) <= ReportHWM
      BY BoundedIs, CoordinatorAssumption DEF TypeInv, TypeOK
    <2>2. reports'[e] = aged
      BY <1>1
    <2> HIDE DEF q
    <2>3. \A i \in DOMAIN q : Aged(q[i], e) \in Report(e)
      BY <2>1, AgedReport
    <2>4. aged \in [1 .. Len(q) -> Report(e)]
      BY <2>1, <2>3
    <2> HIDE DEF aged
    <2>5. aged \in Seq(Report(e)) /\ Len(aged) = Len(q)
      BY <2>1, <2>4
    <2>6. aged \in Seq(Reports)
      BY <2>5, ReportIs
    <2> QED
      BY <2>1, <2>2, <2>5, <2>6, BoundedIs
  <1>5. reports' \in [Engines -> Seq(Reports)]
    <2>1. reports' = [e \in Engines |-> reports'[e]]
      BY <1>1
    <2> QED
      BY <1>4, <2>1
  <1>6. ASSUME NEW i \in DOMAIN published
        PROVE  IsTable(published'[i]) /\ published'[i] \in Tables
    BY <1>1, OlderIsTable DEF TypeInv, TypeOK
  <1>7. /\ published' \in Seq(Tables) /\ Len(published') <= PublishHWM
        /\ \A i \in DOMAIN published' : IsTable(published'[i])
    <2>1. DOMAIN published = 1 .. Len(published) /\ Len(published) \in Nat
      BY DEF TypeInv
    <2>2. published' \in [1 .. Len(published) -> Tables]
      <3>1. published' = [i \in 1 .. Len(published) |-> published'[i]]
        BY <1>1, <2>1
      <3> QED
        BY <1>6, <2>1, <3>1
    <2>3. published' \in Seq(Tables) /\ Len(published') = Len(published)
      BY <2>1, <2>2
    <2>4. DOMAIN published' = DOMAIN published
      BY <1>1
    <2> QED
      BY <1>6, <2>3, <2>4 DEF TypeInv, TypeOK
  <1> QED
    BY <1>1, <1>2, <1>3, <1>4, <1>5, <1>7 DEF TypeInv, TypeOK

-------------------------------------------------------------------------------
(* The steps keep the order. *)

\* Time does not change which of two reports is older.
LEMMA AgedOrder ==
    ASSUME NEW e \in Engines, NEW x \in Report(e), NEW y \in Report(e), x.age <= y.age
    PROVE  Aged(x, e).age <= Aged(y, e).age
  <1>1. MaxAge[e] \in Nat /\ x.age \in 0 .. MaxAge[e] /\ y.age \in 0 .. MaxAge[e]
    BY CoordinatorAssumption DEF Report
  <1>2. /\ Aged(x, e).age = IF x.age < MaxAge[e] THEN x.age + 1 ELSE x.age
        /\ Aged(y, e).age = IF y.age < MaxAge[e] THEN y.age + 1 ELSE y.age
    BY DEF Aged, Report
  <1> QED
    BY <1>1, <1>2

\* Time does not change which of two tables is older.
LEMMA OlderOrder ==
    ASSUME NEW new, NEW old, IsTable(new), IsTable(old)
    PROVE  /\ NotOlder(new, old) => NotOlder(Older(new), Older(old))
           /\ Follows(new, old) => Follows(Older(new), Older(old))
  <1>1. DOMAIN Older(new) = DOMAIN new /\ DOMAIN Older(old) = DOMAIN old
    BY DEF Older
  <1>2. ASSUME NotOlder(new, old), NEW e \in DOMAIN new \cap DOMAIN old
        PROVE  Older(new)[e].age <= Older(old)[e].age
    <2>1. e \in Engines /\ new[e] \in Report(e) /\ old[e] \in Report(e)
      BY DEF IsTable
    <2>2. Older(new)[e] = Aged(new[e], e) /\ Older(old)[e] = Aged(old[e], e)
      BY DEF Older
    <2>3. new[e].age <= old[e].age
      BY <1>2 DEF NotOlder
    <2> QED
      BY <2>1, <2>2, <2>3, AgedOrder
  <1> QED
    BY <1>1, <1>2 DEF NotOlder, Follows

\* What Fresh() leaves is in order with what the whole was in order with.
LEMMA FreshOrder ==
    ASSUME NEW new, NEW old
    PROVE  /\ NotOlder(new, old) => NotOlder(Fresh(new), old)
           /\ NotOlder(new, old) => NotOlder(new, Fresh(old))
           /\ Follows(new, old) => Follows(new, Fresh(old))
           /\ DOMAIN Fresh(old) \subseteq DOMAIN old
  BY DEF NotOlder, Follows, Fresh

\* A report in a table has an age.
LEMMA AgeIsNat ==
    ASSUME NEW known, IsTable(known), NEW e \in DOMAIN known
    PROVE  e \in Engines /\ known[e].age \in Nat
  <1>1. e \in Engines /\ known[e] \in Report(e)
    BY DEF IsTable
  <1>2. known[e].age \in 0 .. MaxAge[e] /\ MaxAge[e] \in Nat
    BY <1>1, CoordinatorAssumption DEF Report
  <1> QED
    BY <1>1, <1>2

\* A table is not older than itself.
LEMMA SelfOrder ==
    ASSUME NEW known, IsTable(known)
    PROVE  Follows(known, known)
  BY AgeIsNat DEF Follows, NotOlder

\* Of each engine there is one report at first.
LEMMA InitOrder == CoordinatorInit => OrderInv
  <1> SUFFICES ASSUME CoordinatorInit PROVE OrderInv
    OBVIOUS
  <1>1. loads = <<>> /\ published = <<>> /\ view = <<>>
    BY DEF CoordinatorInit
  <1>2. \A e \in Engines : Len(reports[e]) = 1 /\ DOMAIN reports[e] = {1}
    BY DEF CoordinatorInit
  <1> QED
    BY <1>1, <1>2 DEF OrderInv, TablesInOrder, ReportsInOrder, Follows, NotOlder

\* What is published follows what was published before.
LEMMA PublishViewOrder ==
    ASSUME TypeInv, NEW known, IsTable(known), PublishView(known),
           \A i \in DOMAIN published : Follows(known, published[i]) /\ NotOlder(published[i], view),
           \A i, j \in DOMAIN published : i < j => NotOlder(published[j], published[i]),
           Follows(known, view)
    PROVE  /\ \A i \in DOMAIN published' : Follows(known, published'[i]) /\ NotOlder(published'[i], view)
           /\ \A i, j \in DOMAIN published' : i < j => NotOlder(published'[j], published'[i])
  <1>1. CASE published' = published
    BY <1>1
  <1>2. CASE published' = Append(published, Fresh(known))
    <2> DEFINE fresh == Fresh(known)
               last == Len(published) + 1
    <2>1. /\ Follows(known, fresh) /\ NotOlder(fresh, view)
          /\ \A i \in DOMAIN published : NotOlder(fresh, published[i])
      BY FreshOrder, SelfOrder DEF Follows
    <2>2. fresh \in Tables /\ published \in Seq(Tables)
      BY FreshIsTable DEF TypeInv
    <2>3. published' = Append(published, fresh)
      BY <1>2
    <2> HIDE DEF fresh
    <2>4. /\ DOMAIN published' = DOMAIN published \cup {last} /\ last \notin DOMAIN published
          /\ DOMAIN published = 1 .. Len(published) /\ Len(published) \in Nat
          /\ published'[last] = fresh
          /\ \A i \in DOMAIN published : published'[i] = published[i] /\ i < last
      BY <2>2, <2>3
    <2>5. ASSUME NEW i \in DOMAIN published', NEW j \in DOMAIN published', i < j
          PROVE  NotOlder(published'[j], published'[i])
      <3>1. i \in DOMAIN published
        BY <2>4, <2>5
      <3>2. CASE j \in DOMAIN published
        BY <2>4, <2>5, <3>1, <3>2
      <3>3. CASE j = last
        <4> HIDE DEF last
        <4> QED
          BY <2>1, <2>4, <3>1, <3>3
      <3> QED
        BY <2>4, <3>2, <3>3
    <2> HIDE DEF last
    <2>6. \A i \in DOMAIN published' : Follows(known, published'[i]) /\ NotOlder(published'[i], view)
      BY <2>1, <2>4
    <2> QED
      BY <2>5, <2>6
  <1> QED
    BY <1>1, <1>2 DEF PublishView

\* publish(): a report made now is not older than any other.
LEMMA PostStepOrder ==
    ASSUME IInv, NEW e \in Engines, NEW l \in Loads[e], PostStep(e, l)
    PROVE  OrderInv'
  <1> DEFINE new == [load |-> l, age |-> 0]
  <1>1. UNCHANGED <<loads, published, view>>
    BY DEF PostStep
  <1>2. reports' = reports \/ reports' = [reports EXCEPT ![e] = Append(@, new)]
    BY DEF PostStep, Publish
  <1>3. TablesInOrder'
    BY <1>1 DEF IInv, OrderInv, TablesInOrder
  <1>4. ASSUME NEW f \in Engines
        PROVE  ReportsInOrder(f)'
    <2>1. CASE reports'[f] = reports[f]
      BY <1>1, <2>1 DEF IInv, OrderInv, ReportsInOrder
    <2>2. CASE reports'[f] # reports[f]
      <3> DEFINE q == reports[f]
                 last == Len(q) + 1
      <3>1. f = e /\ reports'[f] = Append(q, new)
        BY <1>2, <2>2 DEF IInv, TypeInv
      <3>2. new \in Reports /\ new.age = 0
        <4>1. new \in Report(e)
          BY NewReport
        <4> QED
          BY <4>1, ReportIs
      <3>3. q \in Seq(Reports)
        BY DEF IInv, TypeInv
      <3> HIDE DEF new, q
      <3>4. /\ DOMAIN Append(q, new) = DOMAIN q \cup {last} /\ DOMAIN q = 1 .. Len(q)
            /\ Append(q, new)[last] = new
            /\ \A i \in DOMAIN q : Append(q, new)[i] = q[i] /\ i < last /\ q[i].age \in Nat
        <4>1. /\ DOMAIN Append(q, new) = DOMAIN q \cup {last} /\ DOMAIN q = 1 .. Len(q)
              /\ Append(q, new)[last] = new
              /\ \A i \in DOMAIN q : Append(q, new)[i] = q[i] /\ i < last
          BY <3>2, <3>3
        <4>2. \A i \in DOMAIN q : q[i] \in Reports
          BY <3>3
        <4> QED
          BY <4>1, <4>2 DEF Reports
      <3>5. ASSUME NEW i \in DOMAIN Append(q, new), NEW j \in DOMAIN Append(q, new), i < j
            PROVE  Append(q, new)[j].age <= Append(q, new)[i].age
        <4>1. i \in DOMAIN q
          BY <3>3, <3>4, <3>5
        <4>2. CASE j \in DOMAIN q
          BY <3>4, <3>5, <4>1, <4>2 DEF IInv, OrderInv, ReportsInOrder, q
        <4>3. CASE j = last
          BY <3>2, <3>4, <4>1, <4>3
        <4> QED
          BY <3>4, <4>2, <4>3
      <3>6. ASSUME f \in DOMAIN loads', NEW i \in DOMAIN Append(q, new)
            PROVE  Append(q, new)[i].age <= loads'[f].age
        <4>1. loads' = loads /\ loads[f].age \in Nat
          BY <1>1, <3>6, CoordinatorAssumption DEF IInv, TypeInv, TypeOK, IsTable, Report
        <4>2. CASE i \in DOMAIN q
          BY <3>4, <3>6, <4>1, <4>2 DEF IInv, OrderInv, ReportsInOrder, q
        <4>3. CASE i = last
          BY <3>2, <3>4, <4>1, <4>3
        <4> QED
          BY <3>4, <4>2, <4>3
      <3> QED
        BY <3>1, <3>5, <3>6 DEF ReportsInOrder
    <2> QED
      BY <2>1, <2>2
  <1> QED
    BY <1>3, <1>4 DEF OrderInv

\* The report that replaces one in the table is not older, and the table published last
\* is not older than those before.
LEMMA ReceiveReportOrder ==
    ASSUME IInv, NEW e \in Engines, ReceiveReport(e)
    PROVE  OrderInv'
  <1> DEFINE q == reports[e]
  <1>1. /\ UNCHANGED view /\ q # <<>>
        /\ loads' = WithReport(loads, e, Head(q))
        /\ reports' = [reports EXCEPT ![e] = Tail(@)]
        /\ PublishView(loads')
    BY DEF ReceiveReport
  <1>2. q \in Seq(Reports) /\ Head(q) = q[1] /\ 1 \in DOMAIN q
    BY <1>1 DEF IInv, TypeInv
  <1>3. IsTable(loads')
    BY <1>1, ReceiveReportTypes DEF IInv, TypeInv, TypeOK
  <1>4. /\ DOMAIN loads' = DOMAIN loads \cup {e} /\ loads'[e] = q[1]
        /\ \A f \in DOMAIN loads \ {e} : loads'[f] = loads[f]
    BY <1>1, <1>2 DEF WithReport
  <1>5. /\ \A i \in DOMAIN q : q[i].age \in Nat
        /\ \A f \in DOMAIN loads : loads[f].age \in Nat
    <2>1. \A i \in DOMAIN q : q[i] \in Reports
      BY <1>2
    <2> HIDE DEF q
    <2> QED
      BY <2>1, AgeIsNat DEF IInv, TypeInv, TypeOK, Reports
  <1>6. ASSUME NEW f \in DOMAIN loads
        PROVE  loads'[f].age <= loads[f].age
    <2>1. loads[f].age \in Nat
      BY <1>5
    <2>2. CASE f = e
      <3>1. q[1].age <= loads[f].age
        BY <1>2, <2>2 DEF IInv, OrderInv, ReportsInOrder
      <3> QED
        BY <1>4, <2>2, <3>1
    <2>3. CASE f # e
      BY <1>4, <2>1, <2>3
    <2> QED
      BY <2>2, <2>3
  <1>7. ASSUME NEW old, IsTable(old), Follows(loads, old)
        PROVE  Follows(loads', old)
    <2>1. ASSUME NEW f \in DOMAIN old
          PROVE  f \in DOMAIN loads' /\ loads'[f].age <= old[f].age
      <3>1. f \in DOMAIN loads /\ loads[f].age <= old[f].age
        BY <1>7 DEF Follows, NotOlder
      <3>2. old[f].age \in Nat /\ loads'[f].age \in Nat
        BY <1>3, <1>4, <1>7, <3>1, CoordinatorAssumption DEF IsTable, Report
      <3> QED
        BY <1>4, <1>5, <1>6, <3>1, <3>2
    <2> QED
      BY <2>1 DEF Follows, NotOlder
  <1>8. TablesInOrder'
    <2>1. \A i \in DOMAIN published : Follows(loads', published[i]) /\ NotOlder(published[i], view)
      BY <1>7 DEF IInv, TypeInv, TypeOK, OrderInv, TablesInOrder
    <2>2. Follows(loads', view)
      BY <1>7 DEF IInv, TypeInv, TypeOK, OrderInv, TablesInOrder
    <2>3. /\ \A i \in DOMAIN published' : Follows(loads', published'[i]) /\ NotOlder(published'[i], view)
          /\ \A i, j \in DOMAIN published' : i < j => NotOlder(published'[j], published'[i])
      BY <1>1, <1>3, <2>1, <2>2, PublishViewOrder DEF IInv, OrderInv, TablesInOrder
    <2> QED
      BY <1>1, <2>2, <2>3 DEF TablesInOrder
  <1>9. ASSUME NEW f \in Engines
        PROVE  ReportsInOrder(f)'
    <2>1. CASE f # e
      <3>1. reports'[f] = reports[f] /\ (f \in DOMAIN loads' => f \in DOMAIN loads /\ loads'[f] = loads[f])
        BY <1>1, <1>4, <2>1 DEF IInv, TypeInv
      <3> QED
        BY <3>1 DEF IInv, OrderInv, ReportsInOrder
    <2>2. CASE f = e
      <3>1. reports'[f] = Tail(q)
        BY <1>1, <2>2 DEF IInv, TypeInv
      <3>2. \A i, j \in DOMAIN q : i < j => q[j].age <= q[i].age
        BY DEF IInv, OrderInv, ReportsInOrder
      <3> HIDE DEF q
      <3>3. \A i \in DOMAIN Tail(q) : i + 1 \in DOMAIN q /\ 1 < i + 1 /\ Tail(q)[i] = q[i + 1] /\ i \in Nat
        BY <1>1, <1>2
      <3>4. \A i, j \in DOMAIN Tail(q) : i < j => Tail(q)[j].age <= Tail(q)[i].age
        BY <3>2, <3>3
      <3>5. \A i \in DOMAIN Tail(q) : Tail(q)[i].age <= loads'[e].age
        BY <1>2, <1>4, <3>2, <3>3
      <3> QED
        BY <2>2, <3>1, <3>4, <3>5 DEF ReportsInOrder
    <2> QED
      BY <2>1, <2>2
  <1> QED
    BY <1>8, <1>9 DEF OrderInv

\* The same when nothing but the publication happens.
LEMMA PollTimesOutOrder ==
    ASSUME IInv, PollTimesOut
    PROVE  OrderInv'
  <1>1. UNCHANGED <<reports, loads, view>> /\ PublishView(loads)
    BY DEF PollTimesOut
  <1>2. /\ \A i \in DOMAIN published' : Follows(loads, published'[i]) /\ NotOlder(published'[i], view)
        /\ \A i, j \in DOMAIN published' : i < j => NotOlder(published'[j], published'[i])
    BY <1>1, PublishViewOrder DEF IInv, TypeInv, TypeOK, OrderInv, TablesInOrder
  <1> QED
    BY <1>1, <1>2 DEF IInv, OrderInv, TablesInOrder, ReportsInOrder

\* The last message received is not older than the view it replaces.
LEMMA PollOrder ==
    ASSUME IInv, Poll
    PROVE  OrderInv' /\ NotOlder(view', view)
  <1>1. /\ published # <<>> /\ published' = <<>>
        /\ view' = Fresh(published[Len(published)])
        /\ UNCHANGED <<reports, loads>>
    BY DEF Poll, Polled, ViewUpdate, Last
  <1>2. Len(published) \in DOMAIN published
    BY <1>1 DEF IInv, TypeInv
  <1>3. Follows(loads, published[Len(published)]) /\ NotOlder(published[Len(published)], view)
    BY <1>2 DEF IInv, OrderInv, TablesInOrder
  <1>4. Follows(loads, view') /\ NotOlder(view', view)
    BY <1>1, <1>3, FreshOrder
  <1>5. TablesInOrder'
    BY <1>1, <1>4 DEF TablesInOrder
  <1> QED
    BY <1>1, <1>4, <1>5 DEF IInv, OrderInv, ReportsInOrder

\* Time passes everywhere, so the order stays.
LEMMA TickOrder ==
    ASSUME IInv, Tick
    PROVE  OrderInv'
  <1>1. /\ reports' = [e \in Engines |-> [i \in DOMAIN reports[e] |-> Aged(reports[e][i], e)]]
        /\ loads' = Older(loads) /\ view' = Older(view)
        /\ published' = [i \in DOMAIN published |-> Older(published[i])]
    BY DEF Tick
  <1>2. /\ IsTable(loads) /\ IsTable(view) /\ \A i \in DOMAIN published : IsTable(published[i])
    BY DEF IInv, TypeInv, TypeOK
  <1>3. TablesInOrder'
    <2>1. DOMAIN published' = DOMAIN published /\ \A i \in DOMAIN published : published'[i] = Older(published[i])
      BY <1>1
    <2>2. \A i \in DOMAIN published : Follows(loads', published'[i]) /\ NotOlder(published'[i], view')
      BY <1>1, <1>2, <2>1, OlderOrder DEF IInv, OrderInv, TablesInOrder
    <2>3. \A i, j \in DOMAIN published : i < j => NotOlder(published'[j], published'[i])
      BY <1>2, <2>1, OlderOrder DEF IInv, OrderInv, TablesInOrder
    <2>4. Follows(loads', view')
      BY <1>1, <1>2, OlderOrder DEF IInv, OrderInv, TablesInOrder
    <2> QED
      BY <2>1, <2>2, <2>3, <2>4 DEF TablesInOrder
  <1>4. ASSUME NEW e \in Engines
        PROVE  ReportsInOrder(e)'
    <2>1. DOMAIN reports'[e] = DOMAIN reports[e] /\ \A i \in DOMAIN reports[e] : reports'[e][i] = Aged(reports[e][i], e)
      BY <1>1
    <2>2. \A i \in DOMAIN reports[e] : reports[e][i] \in Report(e)
      <3>1. reports[e] \in Seq(Report(e))
        BY BoundedIs, CoordinatorAssumption DEF IInv, TypeInv, TypeOK
      <3> QED
        BY <3>1
    <2>3. \A i, j \in DOMAIN reports[e] : i < j => reports'[e][j].age <= reports'[e][i].age
      BY <2>1, <2>2, AgedOrder DEF IInv, OrderInv, ReportsInOrder
    <2>4. ASSUME e \in DOMAIN loads', NEW i \in DOMAIN reports[e]
          PROVE  reports'[e][i].age <= loads'[e].age
      <3>1. e \in DOMAIN loads /\ loads'[e] = Aged(loads[e], e) /\ loads[e] \in Report(e)
        BY <1>1, <1>2, <2>4 DEF Older, IsTable
      <3>2. reports[e][i].age <= loads[e].age
        BY <2>4, <3>1 DEF IInv, OrderInv, ReportsInOrder
      <3> QED
        BY <2>1, <2>2, <3>1, <3>2, AgedOrder
    <2> QED
      BY <2>1, <2>3, <2>4 DEF ReportsInOrder
  <1> QED
    BY <1>3, <1>4 DEF OrderInv

-------------------------------------------------------------------------------
(* The theorems *)

\* Every step preserves the invariant.
LEMMA Inductive == IInv /\ [Next]_coordinatorVars => IInv'
  <1> SUFFICES ASSUME IInv, [Next]_coordinatorVars PROVE IInv'
    OBVIOUS
  <1>1. CASE UNCHANGED coordinatorVars
    BY <1>1 DEF coordinatorVars, IInv, TypeInv, TypeOK, OrderInv, TablesInOrder, ReportsInOrder
  <1>2. CASE Next
    <2>1. TypeInv'
      BY <1>2, PostStepTypes, ReceiveReportTypes, PollTimesOutTypes, PollTypes, TickTypes
      DEF Next, CoordinatorTurn, IInv
    <2>2. OrderInv'
      BY <1>2, PostStepOrder, ReceiveReportOrder, PollTimesOutOrder, PollOrder, TickOrder
      DEF Next, CoordinatorTurn
    <2> QED
      BY <2>1, <2>2 DEF IInv
  <1> QED
    BY <1>1, <1>2

\* From the engine to the client every place has reports that are not older than
\* those at later places.  Code: publish(), run_coordinator, poll(), update().
THEOREM Invariance == Spec => []IInv
  <1>1. CoordinatorInit => IInv
    BY InitTypes, InitOrder DEF IInv
  <1> QED
    BY <1>1, Inductive, PTL DEF Spec

\* The queues stay within the marks of their sockets, and the coordinator and the
\* client know an engine by its own reports.  Code: run_coordinator, PDLoadView.update.
THEOREM TypeCorrect == Spec => []TypeOK
  <1>1. IInv => TypeOK
    BY DEF IInv, TypeInv
  <1> QED
    BY <1>1, Invariance, PTL

\* The client never replaces what it knows of an engine by an older report.
\* Code: PDLoadClient.poll, with the last message it finds.
THEOREM ReportsArriveInOrder == Spec => NeverOlder
  <1> DEFINE Newer == Poll => \A e \in DOMAIN view \cap DOMAIN view' : view'[e].age <= view[e].age
  <1>1. IInv /\ [Next]_coordinatorVars => [Newer]_coordinatorVars
    BY PollOrder DEF NotOlder
  <1>2. NeverOlder <=> [][Newer]_coordinatorVars
    BY DEF NeverOlder
  <1> HIDE DEF Newer
  <1> QED
    BY <1>1, <1>2, Invariance, PTL DEF Spec

===============================================================================
