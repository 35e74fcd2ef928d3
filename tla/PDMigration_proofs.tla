------------------------- MODULE PDMigration_proofs -------------------------
(***************************************************************************)
(* Proofs about PDMigration, for every set of requests and engines, every  *)
(* limit and every number of steps in flight.                              *)
(***************************************************************************)
EXTENDS PDMigration, SequenceTheorems, TLAPS

-------------------------------------------------------------------------------
(* Queues *)

\* An element is at one place of a sequence at most.
Once(q, x) == \A i, j \in DOMAIN q : q[i] = x /\ q[j] = x => i = j

\* put(): the queue has what it had and the new element.
LEMMA RangeAppend ==
    ASSUME NEW S, NEW q \in Seq(S), NEW x \in S
    PROVE  /\ Append(q, x) \in Seq(S)
           /\ Range(Append(q, x)) = Range(q) \cup {x}
           /\ \A y : Once(q, y) /\ (y = x => x \notin Range(q)) => Once(Append(q, x), y)
  <1>1. /\ Append(q, x) \in Seq(S)
        /\ DOMAIN Append(q, x) = 1 .. Len(q) + 1
        /\ \A i \in 1 .. Len(q) : Append(q, x)[i] = q[i]
        /\ Append(q, x)[Len(q) + 1] = x
        /\ DOMAIN q = 1 .. Len(q)
        /\ Len(q) \in Nat
    BY AppendProperties
  <1>2. Range(Append(q, x)) = Range(q) \cup {x}
    <2>1. ASSUME NEW y \in Range(Append(q, x))
          PROVE  y \in Range(q) \cup {x}
      BY <1>1, <2>1 DEF Range
    <2>2. ASSUME NEW y \in Range(q)
          PROVE  y \in Range(Append(q, x))
      BY <1>1, <2>2 DEF Range
    <2>3. x \in Range(Append(q, x))
      BY <1>1 DEF Range
    <2> QED
      BY <2>1, <2>2, <2>3
  <1>3. ASSUME NEW y, Once(q, y), y = x => x \notin Range(q),
               NEW i \in DOMAIN Append(q, x), NEW j \in DOMAIN Append(q, x),
               Append(q, x)[i] = y, Append(q, x)[j] = y
        PROVE  i = j
    <2>1. CASE i \in 1 .. Len(q) /\ j \in 1 .. Len(q)
      BY <1>1, <1>3, <2>1 DEF Once
    <2>2. CASE i = Len(q) + 1 \/ j = Len(q) + 1
      BY <1>1, <1>3, <2>2 DEF Range
    <2> QED
      BY <1>1, <2>1, <2>2
  <1> QED
    BY <1>1, <1>2, <1>3 DEF Once

\* get(): the first element is gone, if it was there once, and no other is.
LEMMA RangeTail ==
    ASSUME NEW S, NEW q \in Seq(S), q # <<>>
    PROVE  /\ Tail(q) \in Seq(S)
           /\ Head(q) \in Range(q)
           /\ Head(q) \in S
           /\ Range(q) = Range(Tail(q)) \cup {Head(q)}
           /\ Once(q, Head(q)) => Head(q) \notin Range(Tail(q))
           /\ \A y : Once(q, y) => Once(Tail(q), y)
  <1>1. /\ Tail(q) \in Seq(S)
        /\ Head(q) = q[1]
        /\ Len(q) \in Nat \ {0}
        /\ DOMAIN q = 1 .. Len(q)
        /\ DOMAIN Tail(q) = 1 .. Len(q) - 1
        /\ \A i \in 1 .. Len(q) - 1 : Tail(q)[i] = q[i + 1]
        /\ Head(q) \in S
    BY HeadTailProperties, LenProperties, EmptySeq
  <1>2. Head(q) \in Range(q)
    BY <1>1 DEF Range
  <1>3. Range(q) \subseteq Range(Tail(q)) \cup {Head(q)}
    <2> SUFFICES ASSUME NEW i \in DOMAIN q, i # 1
                 PROVE  q[i] \in Range(Tail(q))
      BY <1>1 DEF Range
    <2>1. i - 1 \in DOMAIN Tail(q) /\ Tail(q)[i - 1] = q[i]
      BY <1>1
    <2> QED
      BY <2>1 DEF Range
  <1>4. Range(Tail(q)) \subseteq Range(q)
    BY <1>1 DEF Range
  <1>5. ASSUME Once(q, Head(q)), NEW i \in DOMAIN Tail(q), Tail(q)[i] = Head(q)
        PROVE  FALSE
    <2>1. i + 1 \in DOMAIN q /\ 1 \in DOMAIN q /\ q[i + 1] = Head(q) /\ q[1] = Head(q)
      BY <1>1, <1>5
    <2>2. i + 1 = 1
      BY <1>5, <2>1 DEF Once
    <2> QED
      BY <1>1, <2>2
  <1>6. ASSUME NEW y, Once(q, y), NEW i \in DOMAIN Tail(q), NEW j \in DOMAIN Tail(q),
               Tail(q)[i] = y, Tail(q)[j] = y
        PROVE  i = j
    <2>1. i + 1 \in DOMAIN q /\ j + 1 \in DOMAIN q /\ q[i + 1] = y /\ q[j + 1] = y
      BY <1>1, <1>6
    <2>2. i + 1 = j + 1
      BY <1>6, <2>1 DEF Once
    <2> QED
      BY <1>1, <2>2
  <1>7. Once(q, Head(q)) => Head(q) \notin Range(Tail(q))
    BY <1>5 DEF Range
  <1>8. \A y : Once(q, y) => Once(Tail(q), y)
    BY <1>6 DEF Once
  <1> QED
    BY <1>1, <1>2, <1>3, <1>4, <1>7, <1>8

\* A queue cut in two: nothing is lost, and what is there once is on one side.
LEMMA RangeSplit ==
    ASSUME NEW S, NEW q \in Seq(S), NEW n \in 1 .. Len(q)
    PROVE  LET front == SubSeq(q, 1, n)
               back  == SubSeq(q, n + 1, Len(q))
           IN  /\ back \in Seq(S)
               /\ Range(front) \subseteq Range(q)
               /\ Range(back) \subseteq Range(q)
               /\ \A y : Once(q, y) => Once(back, y) /\ ~(y \in Range(front) /\ y \in Range(back))
  <1> DEFINE front == SubSeq(q, 1, n)
             back  == SubSeq(q, n + 1, Len(q))
  <1>1. /\ DOMAIN q = 1 .. Len(q)
        /\ Len(q) \in Nat
    BY LenProperties
  <1>2. /\ DOMAIN front = 1 .. n
        /\ \A i \in 1 .. n : front[i] = q[i]
    BY <1>1, SubSeqProperties
  <1>3. /\ back \in Seq(S)
        /\ DOMAIN back = 1 .. Len(q) - n
        /\ \A i \in 1 .. Len(q) - n : back[i] = q[n + i]
    BY <1>1, SubSeqProperties
  <1> HIDE DEF front, back
  <1>4. Range(front) \subseteq Range(q) /\ Range(back) \subseteq Range(q)
    <2>1. ASSUME NEW i \in DOMAIN front
          PROVE  front[i] \in Range(q)
      BY <1>1, <1>2, <2>1 DEF Range
    <2>2. ASSUME NEW i \in DOMAIN back
          PROVE  back[i] \in Range(q)
      <3>1. n + i \in DOMAIN q /\ back[i] = q[n + i]
        BY <1>1, <1>3, <2>2
      <3> QED
        BY <3>1 DEF Range
    <2> QED
      BY <2>1, <2>2 DEF Range
  <1>5. ASSUME NEW y, Once(q, y)
        PROVE  Once(back, y)
    <2> SUFFICES ASSUME NEW i \in DOMAIN back, NEW j \in DOMAIN back, back[i] = y, back[j] = y
                 PROVE  i = j
      BY DEF Once
    <2>1. n + i \in DOMAIN q /\ n + j \in DOMAIN q /\ q[n + i] = y /\ q[n + j] = y
      BY <1>1, <1>3
    <2>2. n + i = n + j
      BY <1>5, <2>1 DEF Once
    <2> QED
      BY <1>3, <2>2
  <1>6. ASSUME NEW y, Once(q, y), y \in Range(front), y \in Range(back)
        PROVE  FALSE
    <2>1. PICK i \in DOMAIN front : front[i] = y
      BY <1>6 DEF Range
    <2>2. PICK j \in DOMAIN back : back[j] = y
      BY <1>6 DEF Range
    <2>3. i \in DOMAIN q /\ n + j \in DOMAIN q /\ q[i] = y /\ q[n + j] = y
      BY <1>1, <1>2, <1>3, <2>1, <2>2
    <2>4. i = n + j
      BY <1>6, <2>3 DEF Once
    <2> QED
      BY <1>2, <1>3, <2>4
  <1> QED
    BY <1>3, <1>4, <1>5, <1>6 DEF front, back

\* deque.remove(): the element is gone, if it was there once, and no other is.
LEMMA RangeRemoveFirst ==
    ASSUME NEW S, NEW q \in Seq(S), NEW x, Once(q, x)
    PROVE  /\ RemoveFirst(q, x) \in Seq(S)
           /\ Range(RemoveFirst(q, x)) \subseteq Range(q) \ {x}
           /\ \A y : Once(q, y) => Once(RemoveFirst(q, x), y)
  <1>1. /\ DOMAIN q = 1 .. Len(q)
        /\ Len(q) \in Nat
    BY LenProperties
  <1>2. CASE ~ \E i \in 1 .. Len(q) : q[i] = x
    <2>1. RemoveFirst(q, x) = q
      BY <1>2 DEF RemoveFirst
    <2> QED
      BY <1>1, <1>2, <2>1 DEF Range
  <1>3. CASE \E i \in 1 .. Len(q) : q[i] = x
    <2>1. PICK i \in 1 .. Len(q) : q[i] = x
      BY <1>3
    <2>2. {k \in 1 .. Len(q) : q[k] = x} = {i}
      BY <1>1, <2>1 DEF Once
    <2>3. Min({i}) = i
      BY DEF Min
    <2>4. RemoveFirst(q, x) = SubSeq(q, 1, i - 1) \o SubSeq(q, i + 1, Len(q))
      BY <1>3, <2>2, <2>3 DEF RemoveFirst, RemoveAt, SelectInSeq
    <2> DEFINE front == SubSeq(q, 1, i - 1)
               back  == SubSeq(q, i + 1, Len(q))
               rest  == RemoveFirst(q, x)
    <2>5. /\ front \in Seq(S) /\ Len(front) = i - 1
          /\ \A k \in 1 .. i - 1 : front[k] = q[k]
      <3>1. \A k \in 1 .. i - 1 : q[k] \in S
        BY <1>1
      <3> QED
        BY <1>1, <3>1, SubSeqProperties
    <2>6. /\ back \in Seq(S) /\ Len(back) = Len(q) - i
          /\ \A k \in 1 .. Len(q) - i : back[k] = q[i + k]
      <3>1. /\ \A k \in i + 1 .. Len(q) : q[k] \in S
            /\ i + 1 \in Int /\ Len(q) \in Int
        BY <1>1
      <3>2. /\ back \in Seq(S)
            /\ Len(back) = IF i + 1 <= Len(q) THEN Len(q) - (i + 1) + 1 ELSE 0
            /\ \A k \in 1 .. Len(q) - (i + 1) + 1 : back[k] = q[i + 1 + k - 1]
        BY <3>1, SubSeqProperties
      <3> HIDE DEF back
      <3>3. Len(back) = Len(q) - i
        <4>1. CASE i + 1 <= Len(q)
          BY <1>1, <3>2, <4>1
        <4>2. CASE i = Len(q)
          <5>1. ~(i + 1 <= Len(q)) /\ Len(q) - i = 0
            BY <1>1, <4>2
          <5> QED
            BY <3>2, <5>1
        <4>3. i + 1 <= Len(q) \/ i = Len(q)
          <5>1. ASSUME NEW l \in Nat, NEW k \in 1 .. l
                PROVE  k + 1 <= l \/ k = l
            OBVIOUS
          <5> QED
            BY <1>1, <5>1
        <4> QED
          BY <4>1, <4>2, <4>3
      <3>4. ASSUME NEW k \in 1 .. Len(q) - i
            PROVE  back[k] = q[i + k]
        <4>1. k \in 1 .. Len(q) - (i + 1) + 1 /\ i + 1 + k - 1 = i + k
          BY <1>1
        <4> QED
          BY <3>2, <4>1
      <3> QED
        BY <3>2, <3>3, <3>4
    <2>7. /\ rest \in Seq(S)
          /\ DOMAIN rest = 1 .. Len(q) - 1
          /\ \A k \in 1 .. Len(q) - 1 : rest[k] = IF k < i THEN q[k] ELSE q[k + 1]
      <3> HIDE DEF front, back
      <3>1. rest = front \o back
        BY <2>4 DEF front, back
      <3> HIDE DEF rest
      <3>2. /\ rest \in Seq(S)
            /\ Len(rest) = Len(front) + Len(back)
            /\ \A k \in 1 .. Len(front) + Len(back) :
                  rest[k] = IF k <= Len(front) THEN front[k] ELSE back[k - Len(front)]
        BY <2>5, <2>6, <3>1, ConcatProperties
      <3>3. DOMAIN rest = 1 .. Len(q) - 1
        BY <1>1, <2>5, <2>6, <3>2, LenProperties
      <3>4. ASSUME NEW k \in 1 .. Len(q) - 1
            PROVE  rest[k] = IF k < i THEN q[k] ELSE q[k + 1]
        <4>1. CASE k < i
          <5>1. k \in 1 .. Len(front) + Len(back) /\ k <= Len(front) /\ k \in 1 .. Len(front)
            BY <1>1, <2>5, <2>6, <4>1
          <5>2. rest[k] = front[k]
            BY <3>2, <5>1
          <5> QED
            BY <2>5, <4>1, <5>1, <5>2
        <4>2. CASE k >= i
          <5>1. k - (i - 1) \in 1 .. Len(q) - i /\ i + (k - (i - 1)) = k + 1
            BY <1>1, <4>2
          <5>2. rest[k] = back[k - (i - 1)]
            <6>1. k \in 1 .. Len(front) + Len(back) /\ ~(k <= Len(front))
              BY <1>1, <2>5, <2>6, <4>2
            <6> QED
              BY <2>5, <3>2, <6>1
          <5> QED
            BY <2>6, <4>2, <5>1, <5>2
        <4> QED
          BY <1>1, <4>1, <4>2
      <3> QED
        BY <3>2, <3>3, <3>4
    <2> HIDE DEF front, back, rest
    <2> DEFINE pos(k) == IF k < i THEN k ELSE k + 1
    <2>8. \A k \in DOMAIN rest : pos(k) \in DOMAIN q /\ pos(k) # i /\ rest[k] = q[pos(k)]
      BY <1>1, <2>7
    <2>9. Range(rest) \subseteq Range(q) \ {x}
      <3> SUFFICES ASSUME NEW k \in DOMAIN rest
                   PROVE  rest[k] \in Range(q) /\ rest[k] # x
        BY DEF Range
      <3> HIDE DEF pos
      <3> QED
        BY <1>1, <2>1, <2>8 DEF Range, Once
    <2>10. ASSUME NEW y, Once(q, y), NEW k \in DOMAIN rest, NEW l \in DOMAIN rest,
                  rest[k] = y, rest[l] = y
           PROVE  k = l
      <3>1. pos(k) = pos(l)
        <4> HIDE DEF pos
        <4> QED
          BY <2>8, <2>10 DEF Once
      <3> QED
        BY <2>7, <3>1
    <2> QED
      BY <2>7, <2>9, <2>10 DEF Once, rest
  <1> QED
    BY <1>2, <1>3

-------------------------------------------------------------------------------
(* The invariant *)

Add(r) == [type |-> "ADD", req |-> r]

\* The places a request can be at, from the socket to the running ones.
AtSocket(r)   == Add(r) \in Range(input_socket)
AtDecision(r) == decision.at # "idle" /\ decision.req = r
AtInput(r)    == Add(r) \in Range(input_queue)
AtWaiting(r)  == r \in Range(waiting)
AtRunning(r)  == r \in running

TypeInv ==
    /\ sent \subseteq Requests
    /\ input_socket \in Seq(Message)
    /\ decision.at \in {"idle", "stats", "iterate", "sum", "decide", "put"}
    /\ decision.at # "idle" => decision.req \in Requests
    /\ input_queue \in Seq(Message)
    /\ waiting \in Seq(Requests)
    /\ running \subseteq Requests
    /\ batch_infos \in Seq(SUBSET Requests)
    /\ answers \in [Requests -> Seq({"served", "migrate", "error"})]

\* A queue has a request once at most.
OnceEach ==
    \A r \in Requests :
        Once(input_socket, Add(r)) /\ Once(input_queue, Add(r)) /\ Once(waiting, r)

\* A request is at one place, and only after it was sent.
OnePlace ==
    \A r \in Requests :
        /\ AtSocket(r) => ~ (AtDecision(r) \/ AtInput(r) \/ AtWaiting(r) \/ AtRunning(r))
        /\ AtDecision(r) => ~ (AtInput(r) \/ AtWaiting(r) \/ AtRunning(r))
        /\ AtInput(r) => ~ (AtWaiting(r) \/ AtRunning(r))
        /\ AtWaiting(r) => ~ AtRunning(r)
        /\ AtSocket(r) \/ AtDecision(r) \/ AtInput(r) \/ AtWaiting(r) \/ AtRunning(r)
              \/ answers[r] # <<>> => r \in sent

\* A request that has its answer is marked, or it is nowhere.
AnsweredIsMarked ==
    \A r \in Requests : answers[r] # <<>> =>
        /\ ~ (AtSocket(r) \/ AtWaiting(r) \/ AtRunning(r))
        /\ AtDecision(r) => decision.at = "put" /\ r \in to_migrate
        /\ AtInput(r) => r \in to_migrate

IInv == TypeInv /\ OnceEach /\ OnePlace /\ AnsweredIsMarked /\ OneAnswer

USE DEF AtSocket, AtDecision, AtInput, AtWaiting, AtRunning

\* The ADD of a request is a message, and names the request.
LEMMA Adds ==
    /\ \A r \in Requests : Add(r) \in Message
    /\ \A r, s \in Requests : Add(r) = Add(s) => r = s
  BY DEF Message, Add

\* A message is the ADD of its request ...
LEMMA AddMessage ==
    ASSUME NEW m \in Message, m.type = "ADD"
    PROVE  m.req \in Requests /\ m = Add(m.req)
  BY DEF Message, Add

\* ... or an abort.
LEMMA AbortMessage ==
    ASSUME NEW m \in Message, m.type = "ABORT"
    PROVE  m.req \in Requests /\ \A r \in Requests : Add(r) # m
  BY DEF Message, Add

\* Initially there is no request.
LEMMA InitIInv ==
    ASSUME MigrationInit
    PROVE  IInv
  <1>1. Range(<<>>) = {}
    BY DEF Range
  <1>2. TypeInv
    BY DEF MigrationInit, TypeInv, Idle
  <1>3. OnceEach
    BY DEF MigrationInit, OnceEach, Once
  <1>4. OnePlace /\ AnsweredIsMarked /\ OneAnswer
    BY <1>1 DEF MigrationInit, OnePlace, AnsweredIsMarked, OneAnswer, Idle
  <1> QED
    BY <1>2, <1>3, <1>4 DEF IInv

\* What the invariant is about does not change.
LEMMA SameIInv ==
    ASSUME IInv, UNCHANGED migrationVars
    PROVE  IInv'
  BY DEF IInv, TypeInv, OnceEach, Once, OnePlace, AnsweredIsMarked, OneAnswer, migrationVars, engineVars

\* The decision about a request goes on.
LEMMA DecisionIInv ==
    ASSUME IInv,
           decision.at \in {"stats", "iterate", "sum", "decide"},
           decision'.at \in {"iterate", "sum", "decide", "put"},
           decision'.req = decision.req,
           UNCHANGED <<sent, input_socket, to_migrate, input_queue, answers, engineVars>>
    PROVE  IInv'
  <1> USE DEF engineVars
  <1>1. TypeInv'
    BY DEF IInv, TypeInv
  <1>2. OnceEach'
    BY DEF IInv, OnceEach, Once
  <1>3. OnePlace'
    BY DEF IInv, OnePlace
  <1>4. AnsweredIsMarked' /\ OneAnswer'
    BY DEF IInv, AnsweredIsMarked, OneAnswer
  <1> QED
    BY <1>1, <1>2, <1>3, <1>4 DEF IInv

\* Messages of the client are read one after the other.
LEMMA ClientAddsIInv ==
    ASSUME IInv, NEW r \in Requests, ClientAdds(r)
    PROVE  IInv'
  <1> USE DEF engineVars
  <1>1. /\ r \notin sent /\ sent' = sent \cup {r}
        /\ input_socket' = Append(input_socket, Add(r))
        /\ UNCHANGED <<decision, to_migrate, input_queue, answers, waiting, running, batch_infos>>
    BY DEF ClientAdds, Add
  <1>2. TypeInv /\ OnceEach /\ OnePlace /\ AnsweredIsMarked /\ OneAnswer
    BY DEF IInv
  <1>3. /\ input_socket' \in Seq(Message)
        /\ Range(input_socket') = Range(input_socket) \cup {Add(r)}
        /\ \A y : Once(input_socket, y) /\ (y = Add(r) => Add(r) \notin Range(input_socket))
                => Once(input_socket', y)
    <2>1. input_socket \in Seq(Message) /\ Add(r) \in Message
      BY <1>2, Adds DEF TypeInv
    <2> QED
      BY <1>1, <2>1, RangeAppend
  <1>4. Add(r) \notin Range(input_socket) /\ answers[r] = <<>>
        /\ ~AtDecision(r) /\ ~AtInput(r) /\ ~AtWaiting(r) /\ ~AtRunning(r)
    BY <1>1, <1>2 DEF OnePlace
  <1>5. TypeInv'
    BY <1>1, <1>2, <1>3 DEF TypeInv
  <1>6. OnceEach'
    BY <1>1, <1>2, <1>3, <1>4 DEF OnceEach, Once
  <1>7. OnePlace'
    BY <1>1, <1>2, <1>3, <1>4, Adds DEF OnePlace
  <1>8. AnsweredIsMarked' /\ OneAnswer'
    BY <1>1, <1>2, <1>3, <1>4, Adds DEF AnsweredIsMarked, OneAnswer
  <1> QED
    BY <1>5, <1>6, <1>7, <1>8 DEF IInv

\* An abort takes a request out of its place.
LEMMA ClientAbortsIInv ==
    ASSUME IInv, NEW r \in Requests, ClientAborts(r)
    PROVE  IInv'
  <1> USE DEF engineVars
  <1> DEFINE abort == [type |-> "ABORT", req |-> r]
  <1>1. /\ input_socket' = Append(input_socket, abort)
        /\ UNCHANGED <<sent, decision, to_migrate, input_queue, answers, waiting, running, batch_infos>>
    BY DEF ClientAborts
  <1>2. TypeInv /\ OnceEach /\ OnePlace /\ AnsweredIsMarked /\ OneAnswer
    BY DEF IInv
  <1>3. \A s \in Requests : Add(s) # abort
    BY DEF Add
  <1>4. /\ input_socket' \in Seq(Message)
        /\ Range(input_socket') = Range(input_socket) \cup {abort}
        /\ \A y : Once(input_socket, y) /\ (y = abort => abort \notin Range(input_socket))
                => Once(input_socket', y)
    <2>1. input_socket \in Seq(Message) /\ abort \in Message
      BY <1>2 DEF TypeInv, Message
    <2> HIDE DEF abort
    <2> QED
      BY <1>1, <2>1, RangeAppend
  <1> HIDE DEF abort
  <1>5. \A s \in Requests : AtSocket(s)' <=> AtSocket(s)
    BY <1>3, <1>4
  <1>6. TypeInv'
    BY <1>1, <1>2, <1>4 DEF TypeInv
  <1>7. OnceEach'
    BY <1>1, <1>2, <1>3, <1>4 DEF OnceEach, Once
  <1>8. OnePlace' /\ AnsweredIsMarked' /\ OneAnswer'
    BY <1>1, <1>2, <1>5 DEF OnePlace, AnsweredIsMarked, OneAnswer
  <1> QED
    BY <1>6, <1>7, <1>8 DEF IInv

\* A request leaves the socket: it moves to the decision, and its mark is reset.
LEMMA ReadSocketIInv ==
    ASSUME IInv, ReadSocket
    PROVE  IInv'
  <1> USE DEF inputThreadOnly, engineVars, Idle
  <1>1. /\ decision.at = "idle" /\ input_socket # <<>>
        /\ input_socket' = Tail(input_socket)
        /\ UNCHANGED <<sent, answers, waiting, running, batch_infos>>
    BY DEF ReadSocket
  <1>2. TypeInv /\ OnceEach /\ OnePlace /\ AnsweredIsMarked /\ OneAnswer
    BY DEF IInv
  <1>m. PICK m \in Message : m = Head(input_socket)
    <2>1. input_socket \in Seq(Message)
      BY <1>2 DEF TypeInv
    <2> QED
      BY <1>1, <2>1, RangeTail
  <1>3. /\ input_socket' \in Seq(Message)
        /\ m \in Range(input_socket)
        /\ Range(input_socket) = Range(input_socket') \cup {m}
        /\ Once(input_socket, m) => m \notin Range(input_socket')
        /\ \A y : Once(input_socket, y) => Once(input_socket', y)
    <2>1. input_socket \in Seq(Message)
      BY <1>2 DEF TypeInv
    <2> QED
      BY <1>1, <1>m, <2>1, RangeTail
  <1>4. \/ /\ m.type = "ABORT"
           /\ input_queue' = Append(input_queue, m)
           /\ UNCHANGED <<decision, to_migrate>>
        \/ /\ m.type = "ADD"
           /\ decision' = [at |-> "stats", req |-> m.req]
           /\ to_migrate' = to_migrate \ {m.req}
           /\ UNCHANGED input_queue
    BY <1>m DEF ReadSocket, PutInput
  <1>5. CASE m.type = "ABORT"
    <2>1. input_queue' = Append(input_queue, m) /\ UNCHANGED <<decision, to_migrate>>
      BY <1>4, <1>5
    <2>2. /\ input_queue' \in Seq(Message)
          /\ Range(input_queue') = Range(input_queue) \cup {m}
          /\ \A y : Once(input_queue, y) /\ (y = m => m \notin Range(input_queue))
                  => Once(input_queue', y)
      <3>1. input_queue \in Seq(Message)
        BY <1>2 DEF TypeInv
      <3> QED
        BY <1>3, <2>1, <3>1, RangeAppend
    <2>3. \A r \in Requests : Add(r) # m
      BY <1>3, <1>5, AbortMessage
    <2>4. \A r \in Requests : (AtSocket(r)' <=> AtSocket(r)) /\ (AtInput(r)' <=> AtInput(r))
      BY <1>3, <2>2, <2>3
    <2>5. TypeInv'
      BY <1>1, <1>2, <1>3, <2>1, <2>2 DEF TypeInv
    <2>6. OnceEach'
      BY <1>1, <1>2, <1>3, <2>2, <2>3 DEF OnceEach, Once
    <2>7. OnePlace' /\ AnsweredIsMarked' /\ OneAnswer'
      BY <1>1, <1>2, <2>1, <2>4 DEF OnePlace, AnsweredIsMarked, OneAnswer
    <2> QED
      BY <2>5, <2>6, <2>7 DEF IInv
  <1>6. CASE m.type = "ADD"
    <2>q. PICK q \in Requests : q = m.req /\ m = Add(q)
      BY <1>6, AddMessage
    <2>1. /\ m = Add(q)
          /\ decision' = [at |-> "stats", req |-> q]
          /\ to_migrate' = to_migrate \ {q}
          /\ UNCHANGED input_queue
      BY <1>4, <1>6, <2>q
    <2>2. /\ AtSocket(q) /\ ~AtSocket(q)'
          /\ \A r \in Requests : r # q => (AtSocket(r)' <=> AtSocket(r))
      <3>1. Once(input_socket, m)
        BY <1>2, <2>1 DEF OnceEach
      <3>2. AtSocket(q) /\ ~AtSocket(q)'
        BY <1>3, <2>1, <3>1
      <3>3. \A r \in Requests : r # q => Add(r) # m
        BY <2>1, Adds
      <3> QED
        BY <1>3, <3>2, <3>3
    <2>3. /\ ~AtInput(q) /\ ~AtWaiting(q) /\ ~AtRunning(q) /\ answers[q] = <<>> /\ q \in sent
      BY <1>2, <2>1, <2>2 DEF OnePlace, AnsweredIsMarked
    <2>4. TypeInv'
      BY <1>1, <1>2, <1>3, <2>1 DEF TypeInv
    <2>5. OnceEach'
      BY <1>1, <1>2, <1>3, <2>1 DEF OnceEach, Once
    <2>6. OnePlace'
      BY <1>1, <1>2, <2>1, <2>2, <2>3 DEF OnePlace
    <2>7. AnsweredIsMarked' /\ OneAnswer'
      BY <1>1, <1>2, <2>1, <2>2, <2>3 DEF AnsweredIsMarked, OneAnswer
    <2> QED
      BY <2>4, <2>5, <2>6, <2>7 DEF IInv
  <1> QED
    BY <1>3, <1>5, <1>6 DEF Message

\* An error is the only answer of the request, which goes nowhere.
LEMMA SumRaisesIInv ==
    ASSUME IInv, SumRaises
    PROVE  IInv'
  <1> USE DEF inputThreadOnly, engineVars, Idle
  <1>q. PICK q \in Requests : q = decision.req
    BY DEF IInv, TypeInv, SumRaises
  <1>1. /\ decision.at = "sum" /\ decision'.at = "idle"
        /\ answers' = [answers EXCEPT ![q] = Append(@, "error")]
        /\ UNCHANGED <<sent, input_socket, to_migrate, input_queue, waiting, running, batch_infos>>
    BY <1>q DEF SumRaises, Answer
  <1>2. TypeInv /\ OnceEach /\ OnePlace /\ AnsweredIsMarked /\ OneAnswer
    BY DEF IInv
  <1>3. AtDecision(q)
    BY <1>1, <1>q
  <1>4. /\ answers[q] = <<>> /\ q \in sent
        /\ ~AtSocket(q) /\ ~AtInput(q) /\ ~AtWaiting(q) /\ ~AtRunning(q)
    BY <1>1, <1>2, <1>3 DEF OnePlace, AnsweredIsMarked
  <1>5. answers' = [answers EXCEPT ![q] = <<"error">>]
    BY <1>1, <1>4
  <1>6. TypeInv'
    BY <1>1, <1>2, <1>3, <1>5 DEF TypeInv
  <1>7. OnceEach'
    BY <1>1, <1>2 DEF OnceEach, Once
  <1>8. OnePlace'
    BY <1>1, <1>2, <1>3, <1>4, <1>5 DEF OnePlace, TypeInv
  <1>9. AnsweredIsMarked' /\ OneAnswer'
    BY <1>1, <1>2, <1>3, <1>4, <1>5 DEF AnsweredIsMarked, OneAnswer, TypeInv
  <1> QED
    BY <1>6, <1>7, <1>8, <1>9 DEF IInv

\* The request is marked with the step that answers it.
LEMMA MigratesRequestIInv ==
    ASSUME IInv, MigratesRequest
    PROVE  IInv'
  <1> USE DEF engineVars
  <1>q. PICK q \in Requests : q = decision.req
    BY DEF IInv, TypeInv, MigratesRequest
  <1>1. /\ decision.at = "decide" /\ decision' = [at |-> "put", req |-> q]
        /\ answers' = [answers EXCEPT ![q] = Append(@, "migrate")]
        /\ to_migrate' = to_migrate \cup {q}
        /\ UNCHANGED <<sent, input_socket, input_queue, waiting, running, batch_infos>>
    BY <1>q DEF MigratesRequest, Answer
  <1>2. TypeInv /\ OnceEach /\ OnePlace /\ AnsweredIsMarked /\ OneAnswer
    BY DEF IInv
  <1>3. AtDecision(q) /\ \A r \in Requests : AtDecision(r)' <=> AtDecision(r)
    BY <1>1, <1>q
  <1>4. /\ answers[q] = <<>> /\ q \in sent
        /\ ~AtSocket(q) /\ ~AtInput(q) /\ ~AtWaiting(q) /\ ~AtRunning(q)
    BY <1>1, <1>2, <1>3 DEF OnePlace, AnsweredIsMarked
  <1>5. answers' = [answers EXCEPT ![q] = <<"migrate">>]
    BY <1>1, <1>4
  <1>6. TypeInv'
    BY <1>1, <1>2, <1>3, <1>5 DEF TypeInv
  <1>7. OnceEach'
    BY <1>1, <1>2 DEF OnceEach, Once
  <1>8. OnePlace'
    BY <1>1, <1>2, <1>3, <1>4, <1>5 DEF OnePlace, TypeInv
  <1>9. AnsweredIsMarked' /\ OneAnswer'
    BY <1>1, <1>2, <1>3, <1>4, <1>5 DEF AnsweredIsMarked, OneAnswer, TypeInv
  <1> QED
    BY <1>6, <1>7, <1>8, <1>9 DEF IInv

\* The request moves to the input queue, with its mark.
LEMMA QueueRequestIInv ==
    ASSUME IInv, QueueRequest
    PROVE  IInv'
  <1> USE DEF inputThreadOnly, engineVars, Idle
  <1>q. PICK q \in Requests : q = decision.req
    BY DEF IInv, TypeInv, QueueRequest
  <1>1. /\ decision.at = "put" /\ decision'.at = "idle"
        /\ input_queue' = Append(input_queue, Add(q))
        /\ UNCHANGED <<sent, input_socket, to_migrate, answers, waiting, running, batch_infos>>
    BY <1>q DEF QueueRequest, PutInput, Add
  <1>2. TypeInv /\ OnceEach /\ OnePlace /\ AnsweredIsMarked /\ OneAnswer
    BY DEF IInv
  <1>3. AtDecision(q)
    BY <1>1, <1>q
  <1>4. /\ q \in sent /\ (answers[q] # <<>> => q \in to_migrate)
        /\ ~AtSocket(q) /\ ~AtInput(q) /\ ~AtWaiting(q) /\ ~AtRunning(q)
    BY <1>1, <1>2, <1>3 DEF OnePlace, AnsweredIsMarked
  <1>5. /\ input_queue' \in Seq(Message)
        /\ Range(input_queue') = Range(input_queue) \cup {Add(q)}
        /\ \A y : Once(input_queue, y) /\ (y = Add(q) => Add(q) \notin Range(input_queue))
                => Once(input_queue', y)
    <2>1. input_queue \in Seq(Message) /\ Add(q) \in Message
      BY <1>2, <1>3, Adds DEF TypeInv
    <2> QED
      BY <1>1, <2>1, RangeAppend
  <1>6. AtInput(q)' /\ \A r \in Requests : r # q => (AtInput(r)' <=> AtInput(r))
    <2>1. \A r \in Requests : r # q => Add(r) # Add(q)
      BY <1>3, Adds
    <2> QED
      BY <1>5, <2>1
  <1>7. TypeInv'
    BY <1>1, <1>2, <1>5 DEF TypeInv
  <1>8. OnceEach'
    BY <1>1, <1>2, <1>4, <1>5 DEF OnceEach, Once
  <1>9. OnePlace'
    BY <1>1, <1>2, <1>3, <1>4, <1>6 DEF OnePlace
  <1>10. AnsweredIsMarked' /\ OneAnswer'
    BY <1>1, <1>2, <1>3, <1>4, <1>6 DEF AnsweredIsMarked, OneAnswer
  <1> QED
    BY <1>7, <1>8, <1>9, <1>10 DEF IInv

\* A request leaves the input queue: it waits, or it has migrated and is gone.
LEMMA HandleClientRequestIInv ==
    ASSUME IInv, HandleClientRequest
    PROVE  IInv'
  <1> USE DEF engineThreadOnly
  <1>1. /\ input_queue # <<>>
        /\ input_queue' = Tail(input_queue)
        /\ UNCHANGED <<sent, input_socket, decision, to_migrate, answers, batch_infos>>
    BY DEF HandleClientRequest
  <1>2. TypeInv /\ OnceEach /\ OnePlace /\ AnsweredIsMarked /\ OneAnswer
    BY DEF IInv
  <1>m. PICK m \in Message : m = Head(input_queue)
    <2>1. input_queue \in Seq(Message)
      BY <1>2 DEF TypeInv
    <2> QED
      BY <1>1, <2>1, RangeTail
  <1>3. /\ input_queue' \in Seq(Message)
        /\ m \in Range(input_queue)
        /\ Range(input_queue) = Range(input_queue') \cup {m}
        /\ Once(input_queue, m) => m \notin Range(input_queue')
        /\ \A y : Once(input_queue, y) => Once(input_queue', y)
    <2>1. input_queue \in Seq(Message)
      BY <1>2 DEF TypeInv
    <2> QED
      BY <1>1, <1>m, <2>1, RangeTail
  <1>4. \/ /\ m.type = "ADD"
           /\ waiting' = IF Admitted(m.req) THEN Append(waiting, m.req) ELSE waiting
           /\ UNCHANGED running
        \/ /\ m.type = "ABORT"
           /\ waiting' = RemoveFirst(waiting, m.req)
           /\ running' = running \ {m.req}
    BY <1>m DEF HandleClientRequest
  <1>5. CASE m.type = "ADD"
    <2>q. PICK q \in Requests : q = m.req /\ m = Add(q)
      BY <1>5, AddMessage
    <2>1. /\ waiting' = IF Admitted(q) THEN Append(waiting, q) ELSE waiting
          /\ UNCHANGED running
      BY <1>4, <1>5, <2>q
    <2>2. /\ AtInput(q) /\ ~AtInput(q)'
          /\ \A r \in Requests : r # q => (AtInput(r)' <=> AtInput(r))
      <3>1. Once(input_queue, m)
        BY <1>2, <2>q DEF OnceEach
      <3>2. AtInput(q) /\ ~AtInput(q)'
        BY <1>3, <2>q, <3>1
      <3>3. \A r \in Requests : r # q => Add(r) # m
        BY <2>q, Adds
      <3> QED
        BY <1>3, <3>2, <3>3
    <2>3. /\ q \in sent /\ (answers[q] # <<>> => q \in to_migrate)
          /\ ~AtSocket(q) /\ ~AtDecision(q) /\ ~AtWaiting(q) /\ ~AtRunning(q)
      BY <1>2, <2>2 DEF OnePlace, AnsweredIsMarked
    <2>4. /\ waiting' \in Seq(Requests)
          /\ \A r \in Requests : Once(waiting', r)
          /\ \A r \in Requests : r # q => (AtWaiting(r)' <=> AtWaiting(r))
          /\ AtWaiting(q)' => q \notin to_migrate
      <3>1. waiting \in Seq(Requests) /\ \A r \in Requests : Once(waiting, r)
        BY <1>2 DEF TypeInv, OnceEach
      <3>2. CASE q \in to_migrate
        BY <2>1, <2>3, <3>1, <3>2 DEF Admitted
      <3>3. CASE q \notin to_migrate
        <4>1. waiting' = Append(waiting, q)
          BY <2>1, <3>3 DEF Admitted
        <4>2. /\ waiting' \in Seq(Requests)
              /\ Range(waiting') = Range(waiting) \cup {q}
              /\ \A y : Once(waiting, y) /\ (y = q => q \notin Range(waiting))
                      => Once(waiting', y)
          BY <3>1, <4>1, RangeAppend
        <4> QED
          BY <2>3, <3>1, <3>3, <4>2
      <3> QED
        BY <3>2, <3>3
    <2>5. TypeInv'
      BY <1>1, <1>2, <1>3, <2>1, <2>4 DEF TypeInv
    <2>6. OnceEach'
      BY <1>1, <1>2, <1>3, <2>4 DEF OnceEach, Once
    <2>7. OnePlace'
      BY <1>1, <1>2, <2>1, <2>2, <2>3, <2>4 DEF OnePlace
    <2>8. AnsweredIsMarked' /\ OneAnswer'
      BY <1>1, <1>2, <2>1, <2>2, <2>3, <2>4 DEF AnsweredIsMarked, OneAnswer
    <2> QED
      BY <2>5, <2>6, <2>7, <2>8 DEF IInv
  <1>6. CASE m.type = "ABORT"
    <2>q. PICK q \in Requests : q = m.req
      BY <1>6, AbortMessage
    <2>1. waiting' = RemoveFirst(waiting, q) /\ running' = running \ {q}
      BY <1>4, <1>6, <2>q
    <2>2. \A r \in Requests : AtInput(r)' <=> AtInput(r)
      BY <1>3, <1>6, AbortMessage
    <2>3. /\ waiting' \in Seq(Requests)
          /\ Range(waiting') \subseteq Range(waiting)
          /\ \A r \in Requests : Once(waiting', r)
      <3>1. waiting \in Seq(Requests) /\ \A r \in Requests : Once(waiting, r)
        BY <1>2 DEF TypeInv, OnceEach
      <3> QED
        BY <2>1, <3>1, RangeRemoveFirst
    <2>4. TypeInv'
      BY <1>1, <1>2, <1>3, <2>1, <2>3 DEF TypeInv
    <2>5. OnceEach'
      BY <1>1, <1>2, <1>3, <2>3 DEF OnceEach, Once
    <2>6. OnePlace' /\ AnsweredIsMarked' /\ OneAnswer'
      BY <1>1, <1>2, <2>1, <2>2, <2>3 DEF OnePlace, AnsweredIsMarked, OneAnswer
    <2> QED
      BY <2>4, <2>5, <2>6 DEF IInv
  <1> QED
    BY <1>4, <1>5, <1>6

\* Requests move from the front of the queue to the running ones.
LEMMA EngineSchedulesIInv ==
    ASSUME IInv, EngineSchedules
    PROVE  IInv'
  <1> USE DEF engineThreadOnly
  <1>1. UNCHANGED <<sent, input_socket, decision, to_migrate, input_queue, answers>>
    BY DEF EngineSchedules
  <1>2. TypeInv /\ OnceEach /\ OnePlace /\ AnsweredIsMarked /\ OneAnswer
    BY DEF IInv
  <1>3. PICK n \in 1 .. Len(waiting) :
            /\ waiting' = SubSeq(waiting, n + 1, Len(waiting))
            /\ running' = running \cup Range(SubSeq(waiting, 1, n))
            /\ batch_infos' = Append(batch_infos, Range(SubSeq(waiting, 1, n)))
    BY DEF EngineSchedules
  <1>4. PICK taken : taken = Range(SubSeq(waiting, 1, n))
    OBVIOUS
  <1>5. /\ waiting' \in Seq(Requests)
        /\ taken \subseteq Range(waiting)
        /\ Range(waiting') \subseteq Range(waiting)
        /\ \A y : Once(waiting, y) => Once(waiting', y) /\ ~(y \in taken /\ y \in Range(waiting'))
    <2>1. waiting \in Seq(Requests)
      BY <1>2 DEF TypeInv
    <2> QED
      BY <1>3, <1>4, <2>1, RangeSplit
  <1>6. Range(waiting) \subseteq Requests
    <2>1. waiting \in Seq(Requests)
      BY <1>2 DEF TypeInv
    <2> QED
      BY <2>1 DEF Range
  <1>7. TypeInv'
    <2>1. batch_infos \in Seq(SUBSET Requests) /\ taken \in SUBSET Requests
      BY <1>2, <1>5, <1>6 DEF TypeInv
    <2>2. batch_infos' \in Seq(SUBSET Requests)
      BY <1>3, <1>4, <2>1, RangeAppend
    <2> QED
      BY <1>1, <1>2, <1>3, <1>4, <1>5, <2>1, <2>2 DEF TypeInv
  <1>8. OnceEach'
    BY <1>1, <1>2, <1>5 DEF OnceEach, Once
  <1>9. OnePlace'
    BY <1>1, <1>2, <1>3, <1>4, <1>5 DEF OnePlace, OnceEach
  <1>10. AnsweredIsMarked' /\ OneAnswer'
    BY <1>1, <1>2, <1>3, <1>4, <1>5 DEF AnsweredIsMarked, OneAnswer
  <1> QED
    BY <1>7, <1>8, <1>9, <1>10 DEF IInv

\* Running requests are answered and gone; they had no answer before.
LEMMA EngineUpdatesIInv ==
    ASSUME IInv, EngineUpdates
    PROVE  IInv'
  <1> USE DEF engineThreadOnly
  <1>1. PICK served : /\ served = Head(batch_infos) \cap running
                      /\ running' = running \ served
                      /\ answers' = [r \in Requests |->
                             IF r \in served THEN Append(answers[r], "served") ELSE answers[r]]
    BY DEF EngineUpdates
  <1>2. /\ batch_infos # <<>> /\ batch_infos' = Tail(batch_infos)
        /\ UNCHANGED <<sent, input_socket, decision, to_migrate, input_queue, waiting>>
    BY DEF EngineUpdates
  <1>3. TypeInv /\ OnceEach /\ OnePlace /\ AnsweredIsMarked /\ OneAnswer
    BY DEF IInv
  <1>4. served \subseteq running /\ running \subseteq Requests
    BY <1>1, <1>3 DEF TypeInv
  <1>5. \A r \in served :
            /\ answers[r] = <<>> /\ answers'[r] = <<"served">>
            /\ r \in sent /\ ~AtSocket(r) /\ ~AtDecision(r) /\ ~AtInput(r) /\ ~AtWaiting(r)
    <2> SUFFICES ASSUME NEW r \in served
                 PROVE  /\ answers[r] = <<>> /\ answers'[r] = <<"served">>
                        /\ r \in sent /\ ~AtSocket(r) /\ ~AtDecision(r) /\ ~AtInput(r) /\ ~AtWaiting(r)
      OBVIOUS
    <2>1. r \in Requests /\ r \in running
      BY <1>4
    <2>2. r \in sent /\ ~AtSocket(r) /\ ~AtDecision(r) /\ ~AtInput(r) /\ ~AtWaiting(r)
      BY <1>3, <2>1 DEF OnePlace
    <2>3. answers[r] = <<>>
      BY <1>3, <2>1 DEF AnsweredIsMarked
    <2>4. answers'[r] = Append(answers[r], "served")
      BY <1>1, <2>1
    <2>5. Append(<<>>, "served") = <<"served">>
      OBVIOUS
    <2> QED
      BY <2>2, <2>3, <2>4, <2>5
  <1>6. \A r \in Requests \ served : answers'[r] = answers[r]
    BY <1>1
  <1>7. TypeInv'
    <2>1. batch_infos' \in Seq(SUBSET Requests)
      BY <1>2, <1>3, RangeTail DEF TypeInv
    <2>2. answers' \in [Requests -> Seq({"served", "migrate", "error"})]
      <3>1. ASSUME NEW r \in Requests
            PROVE  answers'[r] \in Seq({"served", "migrate", "error"})
        <4>1. CASE r \in served
          <5>1. <<"served">> \in Seq({"served", "migrate", "error"})
            OBVIOUS
          <5> QED
            BY <1>5, <4>1, <5>1
        <4>2. CASE r \notin served
          BY <1>3, <1>6, <4>2 DEF TypeInv
        <4> QED
          BY <4>1, <4>2
      <3> QED
        BY <1>1, <3>1
    <2> QED
      BY <1>1, <1>2, <1>3, <2>1, <2>2 DEF TypeInv
  <1>8. OnceEach'
    BY <1>2, <1>3 DEF OnceEach, Once
  <1>9. OnePlace'
    BY <1>1, <1>2, <1>3, <1>4, <1>5, <1>6 DEF OnePlace
  <1>10. AnsweredIsMarked'
    BY <1>1, <1>2, <1>3, <1>4, <1>5, <1>6 DEF AnsweredIsMarked
  <1>11. OneAnswer'
    <2>1. ASSUME NEW r \in Requests
          PROVE  Len(answers'[r]) <= 1
      <3>1. CASE r \in served
        <4>1. PICK served_only : served_only = <<"served">>
          OBVIOUS
        <4>2. answers'[r] = served_only
          BY <1>5, <3>1, <4>1
        <4>3. Len(served_only) = 1
          BY ONLY <4>1
        <4> QED
          BY <4>2, <4>3
      <3>2. CASE r \notin served
        BY <1>3, <1>6, <3>2 DEF OneAnswer
      <3> QED
        BY <3>1, <3>2
    <2> QED
      BY <2>1 DEF OneAnswer
  <1> QED
    BY <1>7, <1>8, <1>9, <1>10, <1>11 DEF IInv

-------------------------------------------------------------------------------
(* The theorems *)

\* A step of the coordinator or of an engine preserves the invariant.
LEMMA NextIInv ==
    ASSUME IInv, [MigrationNext]_vars
    PROVE  IInv'
  <1>1. CASE \E r \in Requests : ClientAdds(r) \/ ClientAborts(r)
    BY <1>1, ClientAddsIInv, ClientAbortsIInv
  <1>2. CASE InputThread
    <2>1. CASE ReadStats \/ StartSum \/ SumWaiting \/ KeepsRequest
      BY <2>1, DecisionIInv
        DEF ReadStats, StartSum, SumWaiting, KeepsRequest, inputThreadOnly, engineVars
    <2> QED
      BY <1>2, <2>1, ReadSocketIInv, SumRaisesIInv, MigratesRequestIInv, QueueRequestIInv
        DEF InputThread
  <1>3. CASE HandleClientRequest \/ EngineSchedules \/ EngineUpdates
    BY <1>3, HandleClientRequestIInv, EngineSchedulesIInv, EngineUpdatesIInv
  <1>4. CASE UNCHANGED migrationVars
    BY <1>4, SameIInv
  <1> QED
    BY <1>1, <1>2, <1>3, <1>4 DEF MigrationNext, vars

\* The inductive invariant: a request is at one place, and one that has been
\* answered is marked until the engine thread has dropped it.
THEOREM Invariance == MigrationSpec => []IInv
  <1>1. CoordinatorInit /\ MigrationInit => IInv
    BY InitIInv
  <1>2. IInv /\ [MigrationNext]_vars => IInv'
    BY NextIInv
  <1> QED
    BY <1>1, <1>2, PTL DEF MigrationSpec

\* A request has one final answer at most, from whichever of the two threads.
\* Code: preprocess_add_request and _handle_client_request.
THEOREM AnsweredOnce == MigrationSpec => []OneAnswer
  <1>1. IInv => OneAnswer
    BY DEF IInv
  <1> QED
    BY <1>1, Invariance, PTL

\* The scheduler never has a request that has been answered.
\* Code: the test of to_migrate in _handle_client_request.
THEOREM AnsweredNeverScheduled == MigrationSpec => []AnsweredIsGone
  <1>1. IInv => AnsweredIsGone
    BY DEF IInv, AnsweredIsMarked, AnsweredIsGone
  <1> QED
    BY <1>1, Invariance, PTL

===============================================================================
