-------------------------- MODULE StepRecords_proofs --------------------------
(***************************************************************************)
(* The list `running' and the records of a step (HoldRestore, StepRecords).*)
(*                                                                         *)
(* A comprehension is known by its places: the entries it keeps, their     *)
(* places increasing (Picks).  From that come its entries and their order, *)
(* which determine a list of distinct requests (SameList).                 *)
(*                                                                         *)
(* The held requests are put back in the order of their indices.  When the *)
(* one of index i is put back, those before it in the old list are either  *)
(* all there again, so that it lands at i after them, or some of them were *)
(* preempted: from the end under fcfs, so that every visible request       *)
(* behind it is gone too and the end of the list is its place              *)
(* (InsertInOrder).                                                        *)
(*                                                                         *)
(* The two views of a step are what the step has for two sets of requests, *)
(* one the complement of the other (LanesGet).  The outputs merged are     *)
(* followed one by one: the rows of logprobs fall behind the rows as soon  *)
(* as an output without any has been merged, and not before (RowsUpTo).    *)
(***************************************************************************)
EXTENDS StepRecords, FiniteSetTheorems, SequenceTheorems, WellFoundedInduction, TLAPS

-------------------------------------------------------------------------------
(* Folds *)

\* A set of naturals that has 0 and with every number the next one has them all.
LEMMA AllOfNat ==
    ASSUME NEW T \in SUBSET Nat, 0 \in T, \A k \in T : k + 1 \in T
    PROVE  T = Nat
  <1> DEFINE B == Nat \ T
  <1>1. SUFFICES ASSUME B # {} PROVE FALSE
    OBVIOUS
  <1>2. B \subseteq Nat
    OBVIOUS
  <1>3. PICK k \in B : \A j \in B : ~(<<j, k>> \in OpToRel(<, Nat))
    <2> HIDE DEF B
    <2> QED
      BY <1>1, <1>2, NatLessThanWellFounded, WFMin, Zenon
  <1>4. \A j \in B : ~(j < k)
    BY <1>2, <1>3 DEF OpToRel
  <1>5. k \in Nat /\ k \notin T /\ k # 0
    BY <1>3
  <1>6. k - 1 \in Nat /\ k - 1 < k /\ (k - 1) + 1 = k
    BY <1>5
  <1>7. k - 1 \in T
    BY <1>4, <1>6
  <1> QED
    BY <1>5, <1>6, <1>7

\* The same up to a bound.
LEMMA AllUpTo ==
    ASSUME NEW n \in Nat, NEW T, 0 \in T, \A k \in 0 .. n : k \in T /\ k < n => k + 1 \in T
    PROVE  0 .. n \subseteq T
  <1> DEFINE U == {k \in Nat : k <= n => k \in T}
  <1>1. U \in SUBSET Nat /\ 0 \in U
    OBVIOUS
  <1>2. ASSUME NEW k \in U
        PROVE  k + 1 \in U
    OBVIOUS
  <1> HIDE DEF U
  <1>3. U = Nat
    BY <1>1, <1>2, AllOfNat
  <1> QED
    BY <1>3 DEF U

\* The function over the sets of positions that the fold of the community modules takes.
IsFold(f, base, move, n) ==
    f = [s \in SUBSET (1 .. n) |-> IF s = {} THEN base ELSE move[<<f[s \ {Max(s)}], Max(s)>>]]

\* The largest number up to n is n when it is there.
LEMMA MaxIs ==
    ASSUME NEW n \in Nat, NEW s \in SUBSET (1 .. n), n \in s
    PROVE  Max(s) = n
  <1>1. \A y \in s : n >= y
    OBVIOUS
  <1> DEFINE m == Max(s)
  <1>2. m \in s /\ \A y \in s : m >= y
    BY <1>1, Zenon DEF Max
  <1> HIDE DEF m
  <1>3. m \in 1 .. n /\ m >= n
    BY <1>2
  <1>4. m = n
    BY <1>3
  <1> QED
    BY <1>4 DEF m

\* The largest number of a set is in it.
LEMMA MaxIn ==
    ASSUME NEW n \in Nat, NEW s \in SUBSET (1 .. n), s # {}
    PROVE  Max(s) \in s
  <1> DEFINE T == {k \in 0 .. n : \A u \in SUBSET (1 .. k) :
                       u # {} => \E x \in u : \A y \in u : x >= y}
  <1>1. 0 \in T
    <2>1. 1 .. 0 = {}
      OBVIOUS
    <2>2. \A u \in SUBSET (1 .. 0) : u # {} => \E x \in u : \A y \in u : x >= y
      BY <2>1
    <2>3. 0 \in 0 .. n
      OBVIOUS
    <2> QED
      BY <2>2, <2>3, Zenon
  <1>2. ASSUME NEW k \in 0 .. n, k \in T, k < n
        PROVE  k + 1 \in T
    <2> SUFFICES ASSUME NEW u \in SUBSET (1 .. k + 1), u # {}
                 PROVE  \E x \in u : \A y \in u : x >= y
      BY <1>2
    <2>1. CASE k + 1 \in u
      BY <2>1
    <2>2. CASE k + 1 \notin u
      <3>1. u \in SUBSET (1 .. k)
        BY <2>2
      <3> QED
        BY <1>2, <3>1
    <2> QED
      BY <2>1, <2>2
  <1> HIDE DEF T
  <1>3. n \in T
    BY <1>1, <1>2, AllUpTo
  <1>4. \E x \in s : \A y \in s : x >= y
    BY <1>3 DEF T
  <1> QED
    BY <1>4, Zenon DEF Max

\* There is such a function.
LEMMA FoldExists ==
    ASSUME NEW n \in Nat, NEW A, NEW base \in A, NEW move \in [A \X (1 .. n) -> A]
    PROVE  \E f \in [SUBSET (1 .. n) -> A] : IsFold(f, base, move, n)
  <1> DEFINE T == {k \in 0 .. n : \E f \in [SUBSET (1 .. k) -> A] : IsFold(f, base, move, k)}
  <1>1. 0 \in T
    <2> DEFINE f == [s \in SUBSET (1 .. 0) |-> base]
    <2>1. f \in [SUBSET (1 .. 0) -> A]
      OBVIOUS
    <2>2. IsFold(f, base, move, 0)
      <3>1. \A s \in SUBSET (1 .. 0) : s = {}
        OBVIOUS
      <3> QED
        BY <3>1 DEF IsFold
    <2> QED
      BY <2>1, <2>2
  <1>2. ASSUME NEW k \in 0 .. n, k \in T, k < n
        PROVE  k + 1 \in T
    <2>1. PICK f \in [SUBSET (1 .. k) -> A] : IsFold(f, base, move, k)
      BY <1>2
    <2> DEFINE m == k + 1
               g == [s \in SUBSET (1 .. m) |-> IF m \in s THEN move[<<f[s \ {m}], m>>] ELSE f[s]]
               h == [s \in SUBSET (1 .. m) |->
                        IF s = {} THEN base ELSE move[<<g[s \ {Max(s)}], Max(s)>>]]
    <2>2. m \in 1 .. n /\ m \in Nat /\ \A s \in SUBSET (1 .. m) : m \notin s => s \in SUBSET (1 .. k)
      BY <1>2
    <2>3. \A s \in SUBSET (1 .. m) : s \ {m} \in SUBSET (1 .. k)
      BY <1>2
    <2>4. g \in [SUBSET (1 .. m) -> A]
      BY <2>2, <2>3
    <2>5. ASSUME NEW s \in SUBSET (1 .. m)
          PROVE  g[s] = h[s]
      <3>1. CASE m \in s
        <4>1. Max(s) = m
          BY <2>2, <3>1, MaxIs
        <4>2. s \ {m} \in SUBSET (1 .. m) /\ m \notin s \ {m}
          OBVIOUS
        <4>3. g[s \ {m}] = f[s \ {m}]
          BY <4>2
        <4> HIDE DEF m
        <4>4. g[s] = move[<<f[s \ {m}], m>>]
          BY <3>1
        <4>5. h[s] = move[<<g[s \ {m}], m>>]
          BY <3>1, <4>1
        <4> QED
          BY <4>3, <4>4, <4>5
      <3>2. CASE m \notin s
        <4>1. s \in SUBSET (1 .. k) /\ g[s] = f[s]
          BY <2>2, <3>2
        <4>2. CASE s = {}
          <5>1. f[s] = base
            BY <2>1, <4>1, <4>2 DEF IsFold
          <5> QED
            BY <4>1, <4>2, <5>1
        <4>3. CASE s # {}
          <5>1. f[s] = move[<<f[s \ {Max(s)}], Max(s)>>]
            BY <2>1, <4>1, <4>3 DEF IsFold
          <5>2. g[s \ {Max(s)}] = f[s \ {Max(s)}]
            BY <2>2, <3>2
          <5>3. h[s] = move[<<g[s \ {Max(s)}], Max(s)>>]
            BY <4>3
          <5> QED
            BY <4>1, <5>1, <5>2, <5>3
        <4> QED
          BY <4>2, <4>3
      <3> QED
        BY <3>1, <3>2
    <2>6. g = h
      <3>1. DOMAIN g = DOMAIN h /\ g = [s \in DOMAIN g |-> g[s]] /\ h = [s \in DOMAIN h |-> h[s]]
            /\ DOMAIN g = SUBSET (1 .. m)
        OBVIOUS
      <3> HIDE DEF g, h
      <3> QED
        BY <2>5, <3>1
    <2>7. IsFold(g, base, move, m)
      BY <2>6 DEF IsFold
    <2> HIDE DEF g, h
    <2>8. m \in 0 .. n
      BY <2>2
    <2> QED
      BY <2>4, <2>7, <2>8
  <1>3. 0 .. n \subseteq T
    <2> HIDE DEF T
    <2> QED
      BY <1>1, <1>2, AllUpTo
  <1>4. n \in 0 .. n
    OBVIOUS
  <1> QED
    BY <1>3, <1>4

-------------------------------------------------------------------------------
(* The entries of a list that are in a set *)

IsThose(f, list, S) ==
    f = [s \in SUBSET DOMAIN list |->
            IF s = {} THEN <<>>
            ELSE LET x == Max(s)
                 IN  IF list[x] \in S THEN Append(f[s \ {x}], list[x]) ELSE f[s \ {x}]]

\* The comprehension is a fold over the places of the list.
LEMMA ThoseIsFold ==
    ASSUME NEW list, NEW S
    PROVE  Those(list, S) = (CHOOSE f : IsThose(f, list, S))[DOMAIN list]
  BY DEF Those, FoldLeft, MapThenFoldSet, IsThose

\* What is left of the first entries follows from what is left of those before.
LEMMA ThoseSteps ==
    ASSUME NEW X, NEW list \in Seq(X), NEW S
    PROVE  \E v : /\ v[0] = <<>> /\ v[Len(list)] = Those(list, S)
                  /\ \A k \in 1 .. Len(list) :
                        v[k] = IF list[k] \in S THEN Append(v[k - 1], list[k]) ELSE v[k - 1]
  <1> DEFINE n == Len(list)
             move == [p \in Seq(X) \X (1 .. n) |->
                        IF list[p[2]] \in S THEN Append(p[1], list[p[2]]) ELSE p[1]]
  <1>1. n \in Nat /\ DOMAIN list = 1 .. n /\ \A k \in 1 .. n : list[k] \in X
    OBVIOUS
  <1>2. move \in [Seq(X) \X (1 .. n) -> Seq(X)] /\ <<>> \in Seq(X)
    BY <1>1
  <1>3. \A q \in Seq(X), k \in 1 .. n :
           move[<<q, k>>] = IF list[k] \in S THEN Append(q, list[k]) ELSE q
    OBVIOUS
  <1> HIDE DEF n, move
  <1>4. PICK f \in [SUBSET (1 .. n) -> Seq(X)] : IsFold(f, <<>>, move, n)
    BY <1>1, <1>2, FoldExists
  <1> DEFINE body(s) == IF s = {} THEN <<>>
                        ELSE LET x == Max(s)
                             IN  IF list[x] \in S THEN Append(f[s \ {x}], list[x]) ELSE f[s \ {x}]
  <1>5. ASSUME NEW s \in SUBSET (1 .. n)
        PROVE  f[s] = body(s)
    <2>1. CASE s = {}
      BY <1>4, <2>1 DEF IsFold
    <2>2. CASE s # {}
      <3>1. Max(s) \in 1 .. n
        BY <1>1, <2>2, MaxIn
      <3>2. f[s \ {Max(s)}] \in Seq(X)
        OBVIOUS
      <3>3. f[s] = move[<<f[s \ {Max(s)}], Max(s)>>]
        BY <1>4, <2>2 DEF IsFold
      <3> QED
        BY <1>3, <2>2, <3>1, <3>2, <3>3
    <2> QED
      BY <2>1, <2>2
  <1>6. IsThose(f, list, S)
    <2>1. f = [s \in SUBSET (1 .. n) |-> body(s)]
      <3>1. f = [s \in SUBSET (1 .. n) |-> f[s]]
        OBVIOUS
      <3> HIDE DEF body
      <3> QED
        BY <1>5, <3>1
    <2> QED
      BY <1>1, <2>1 DEF IsThose
  <1> DEFINE g == CHOOSE f1 : IsThose(f1, list, S)
  <1>7. IsThose(g, list, S)
    BY <1>6
  <1>8. Those(list, S) = g[1 .. n]
    BY <1>1, ThoseIsFold
  <1> HIDE DEF g
  <1> DEFINE v == [k \in 0 .. n |-> g[1 .. k]]
  <1>9. v[0] = <<>>
    <2>1. 1 .. 0 = {} /\ 0 \in 0 .. n
      BY <1>1
    <2>2. g[{}] = <<>>
      BY <1>7 DEF IsThose
    <2> QED
      BY <2>1, <2>2
  <1>10. v[n] = Those(list, S)
    BY <1>1, <1>8
  <1>11. ASSUME NEW k \in 1 .. n
         PROVE  v[k] = IF list[k] \in S THEN Append(v[k - 1], list[k]) ELSE v[k - 1]
    <2>1. /\ 1 .. k \in SUBSET DOMAIN list /\ 1 .. k # {} /\ k \in Nat
          /\ (1 .. k) \ {k} = 1 .. (k - 1) /\ k \in 1 .. k
      <3>1. k \in Nat /\ k >= 1 /\ k <= n
        BY <1>1
      <3>2. k \in 1 .. k /\ \A i \in 1 .. k : i \in 1 .. n
        BY <1>1, <3>1
      <3>3. \A i : i \in (1 .. k) \ {k} <=> i \in 1 .. (k - 1)
        BY <3>1
      <3>4. (1 .. k) \ {k} = 1 .. (k - 1)
        BY <3>3
      <3> QED
        BY <1>1, <3>1, <3>2, <3>4
    <2>2. Max(1 .. k) = k
      BY <2>1, MaxIs
    <2>3. g[1 .. k] = IF list[k] \in S THEN Append(g[1 .. (k - 1)], list[k]) ELSE g[1 .. (k - 1)]
      BY <1>7, <2>1, <2>2 DEF IsThose
    <2>4. v[k] = g[1 .. k] /\ v[k - 1] = g[1 .. (k - 1)]
      BY <1>1
    <2> HIDE DEF v
    <2> QED
      BY <2>3, <2>4
  <1> HIDE DEF v
  <1> QED
    BY <1>9, <1>10, <1>11 DEF n

\* The entries of part are those of the first k entries of list that are in S, in
\* order: the i-th of them is the entry e[i] of list.
Picks(part, list, k, S, e) ==
    /\ e \in [1 .. Len(part) -> 1 .. k]
    /\ \A i, j \in 1 .. Len(part) : i < j => e[i] < e[j]
    /\ \A i \in 1 .. Len(part) : part[i] = list[e[i]] /\ part[i] \in S
    /\ \A m \in 1 .. k : list[m] \in S => \E i \in 1 .. Len(part) : e[i] = m

\* An entry that is picked comes behind those picked before.
LEMMA PicksAppend ==
    ASSUME NEW X, NEW list \in Seq(X), NEW S, NEW k \in 1 .. Len(list), NEW part \in Seq(X),
           NEW e, Picks(part, list, k - 1, S, e), list[k] \in S
    PROVE  \E d : Picks(Append(part, list[k]), list, k, S, d)
  <1> DEFINE n == Len(part)
             new == Append(part, list[k])
             d == [i \in 1 .. n + 1 |-> IF i = n + 1 THEN k ELSE e[i]]
  <1>1. /\ n \in Nat /\ list[k] \in X /\ k \in Nat /\ k >= 1
        /\ Len(new) = n + 1 /\ new[n + 1] = list[k] /\ \A i \in 1 .. n : new[i] = part[i]
    OBVIOUS
  <1>2. /\ \A i \in 1 .. n : e[i] \in 1 .. k - 1 /\ part[i] = list[e[i]] /\ part[i] \in S
        /\ \A i, j \in 1 .. n : i < j => e[i] < e[j]
        /\ \A m \in 1 .. k - 1 : list[m] \in S => \E i \in 1 .. n : e[i] = m
    BY DEF Picks
  <1> HIDE DEF n, new
  <1>3. \A i \in 1 .. n + 1 : i # n + 1 => i \in 1 .. n /\ d[i] = e[i]
    BY <1>1
  <1>4. d[n + 1] = k /\ n + 1 \in 1 .. n + 1
    BY <1>1
  <1>5. DOMAIN d = 1 .. n + 1 /\ d = [i \in 1 .. n + 1 |-> d[i]]
    OBVIOUS
  <1> HIDE DEF d
  <1>6. \A i \in 1 .. n + 1 : d[i] \in 1 .. k
    BY <1>1, <1>2, <1>3, <1>4
  <1>7. d \in [1 .. n + 1 -> 1 .. k]
    BY <1>5, <1>6
  <1>8. ASSUME NEW i \in 1 .. n + 1, NEW j \in 1 .. n + 1, i < j
        PROVE  d[i] < d[j]
    <2>1. i \in 1 .. n /\ d[i] = e[i] /\ e[i] \in 1 .. k - 1
      BY <1>1, <1>2, <1>3, <1>8
    <2>2. CASE j = n + 1
      BY <1>1, <1>4, <2>1, <2>2
    <2>3. CASE j # n + 1
      BY <1>2, <1>3, <1>8, <2>1, <2>3
    <2> QED
      BY <2>2, <2>3
  <1>9. ASSUME NEW i \in 1 .. n + 1
        PROVE  new[i] = list[d[i]] /\ new[i] \in S
    BY <1>1, <1>2, <1>3, <1>4
  <1>10. ASSUME NEW m \in 1 .. k, list[m] \in S
         PROVE  \E i \in 1 .. n + 1 : d[i] = m
    <2>1. CASE m = k
      BY <1>4, <2>1
    <2>2. CASE m # k
      <3>1. m \in 1 .. k - 1
        BY <1>1, <2>2
      <3>2. PICK i \in 1 .. n : e[i] = m
        BY <1>2, <1>10, <3>1
      <3>3. i \in 1 .. n + 1 /\ i # n + 1
        BY <1>1
      <3> QED
        BY <1>3, <3>2, <3>3
    <2> QED
      BY <2>1, <2>2
  <1>11. Picks(new, list, k, S, d)
    BY <1>1, <1>7, <1>8, <1>9, <1>10 DEF Picks
  <1> QED
    BY <1>11 DEF new

\* An entry that is not picked changes nothing.
LEMMA PicksSkip ==
    ASSUME NEW X, NEW list \in Seq(X), NEW S, NEW k \in 1 .. Len(list), NEW part \in Seq(X),
           NEW e, Picks(part, list, k - 1, S, e), list[k] \notin S
    PROVE  Picks(part, list, k, S, e)
  <1>1. k \in Nat /\ \A m \in 1 .. k : m # k => m \in 1 .. k - 1
    OBVIOUS
  <1>2. e \in [1 .. Len(part) -> 1 .. k]
    BY <1>1 DEF Picks
  <1> QED
    BY <1>1, <1>2 DEF Picks

\* What the comprehension gives, for a list of any length.
LEMMA ThosePicks ==
    ASSUME NEW X, NEW list \in Seq(X), NEW S
    PROVE  /\ Those(list, S) \in Seq(X)
           /\ \E e : Picks(Those(list, S), list, Len(list), S, e)
  <1> DEFINE n == Len(list)
  <1>1. PICK v : /\ v[0] = <<>> /\ v[n] = Those(list, S)
                 /\ \A k \in 1 .. n :
                       v[k] = IF list[k] \in S THEN Append(v[k - 1], list[k]) ELSE v[k - 1]
    BY ThoseSteps
  <1> DEFINE T == {k \in 0 .. n : v[k] \in Seq(X) /\ \E e : Picks(v[k], list, k, S, e)}
  <1>2. n \in Nat
    OBVIOUS
  <1>3. 0 \in T
    <2>1. Picks(<<>>, list, 0, S, <<>>)
      BY DEF Picks
    <2>2. v[0] \in Seq(X) /\ 0 \in 0 .. n
      BY <1>1
    <2> QED
      BY <1>1, <2>1, <2>2
  <1>4. ASSUME NEW k \in 0 .. n, k \in T, k < n
        PROVE  k + 1 \in T
    <2> DEFINE m == k + 1
    <2>1. m \in 1 .. n /\ m - 1 = k /\ m \in 0 .. n /\ list[m] \in X
      BY <1>4
    <2>2. PICK e : Picks(v[k], list, k, S, e)
      BY <1>4
    <2>3. v[k] \in Seq(X)
      BY <1>4
    <2> HIDE DEF m
    <2>4. CASE list[m] \in S
      <3>1. v[m] = Append(v[k], list[m])
        BY <1>1, <2>1, <2>4
      <3>2. \E d : Picks(Append(v[k], list[m]), list, m, S, d)
        BY <2>1, <2>2, <2>3, <2>4, PicksAppend
      <3>3. v[m] \in Seq(X)
        BY <2>1, <2>3, <3>1
      <3>4. m \in T
        BY <2>1, <3>1, <3>2, <3>3
      <3> QED
        BY <3>4 DEF m
    <2>5. CASE list[m] \notin S
      <3>1. v[m] = v[k]
        BY <1>1, <2>1, <2>5
      <3>2. Picks(v[k], list, m, S, e)
        BY <2>1, <2>2, <2>3, <2>5, PicksSkip
      <3>3. m \in T
        BY <2>1, <2>3, <3>1, <3>2
      <3> QED
        BY <3>3 DEF m
    <2> QED
      BY <2>4, <2>5
  <1>5. n \in T
    <2> HIDE DEF T, n
    <2>1. 0 .. n \subseteq T
      BY <1>2, <1>3, <1>4, AllUpTo
    <2> QED
      BY <1>2, <2>1
  <1> QED
    BY <1>1, <1>5

-------------------------------------------------------------------------------
(* Lists of distinct entries *)

Distinct(list) == \A i, j \in 1 .. Len(list) : list[i] = list[j] => i = j

\* x comes before y.
Before(list, x, y) == \E i, j \in 1 .. Len(list) : i < j /\ list[i] = x /\ list[j] = y

\* What is in a list is at a place of it.
LEMMA InSet ==
    ASSUME NEW X, NEW list \in Seq(X), NEW x
    PROVE  x \in ToSet(list) <=> \E i \in 1 .. Len(list) : list[i] = x
  <1>1. DOMAIN list = 1 .. Len(list)
    OBVIOUS
  <1> QED
    BY <1>1 DEF ToSet

\* In a list of distinct entries two of them are in one order.
LEMMA OneOrder ==
    ASSUME NEW X, NEW list \in Seq(X), Distinct(list), NEW x \in ToSet(list), NEW y \in ToSet(list)
    PROVE  /\ x # y => Before(list, x, y) \/ Before(list, y, x)
           /\ ~(Before(list, x, y) /\ Before(list, y, x))
           /\ ~Before(list, x, x)
  <1>1. PICK i \in 1 .. Len(list) : list[i] = x
    BY InSet
  <1>2. PICK j \in 1 .. Len(list) : list[j] = y
    BY InSet
  <1>3. \A k \in 1 .. Len(list) : (list[k] = x => k = i) /\ (list[k] = y => k = j)
    BY <1>1, <1>2 DEF Distinct
  <1>4. i \in Nat /\ j \in Nat /\ (x # y => i # j)
    BY <1>1, <1>2
  <1> QED
    BY <1>1, <1>2, <1>3, <1>4 DEF Before

\* What is picked from a list of distinct entries.
LEMMA PicksFacts ==
    ASSUME NEW X, NEW list \in Seq(X), NEW part \in Seq(X), NEW S, NEW e,
           Picks(part, list, Len(list), S, e), Distinct(list)
    PROVE  /\ Distinct(part)
           /\ ToSet(part) = ToSet(list) \cap S
           /\ \A x, y : Before(part, x, y) <=> x \in S /\ y \in S /\ Before(list, x, y)
  <1> DEFINE n == Len(list)
             m == Len(part)
  <1>1. /\ \A i \in 1 .. m : e[i] \in 1 .. n /\ part[i] = list[e[i]] /\ part[i] \in S
        /\ \A i, j \in 1 .. m : i < j => e[i] < e[j]
        /\ \A k \in 1 .. n : list[k] \in S => \E i \in 1 .. m : e[i] = k
        /\ n \in Nat /\ m \in Nat
    BY DEF Picks
  <1>2. \A i, j \in 1 .. n : list[i] = list[j] => i = j
    BY DEF Distinct
  <1>3. /\ \A x : x \in ToSet(list) <=> \E i \in 1 .. n : list[i] = x
        /\ \A x : x \in ToSet(part) <=> \E i \in 1 .. m : part[i] = x
    BY InSet
  <1>4. \A x, y : Before(part, x, y) <=> \E i, j \in 1 .. m : i < j /\ part[i] = x /\ part[j] = y
    BY DEF Before
  <1>5. \A x, y : Before(list, x, y) <=> \E i, j \in 1 .. n : i < j /\ list[i] = x /\ list[j] = y
    BY DEF Before
  <1> HIDE DEF n, m
  <1>6. \A i, j \in 1 .. m : e[i] < e[j] => i < j
    <2> SUFFICES ASSUME NEW i \in 1 .. m, NEW j \in 1 .. m, e[i] < e[j], ~(i < j) PROVE FALSE
      OBVIOUS
    <2>1. e[i] \in Nat /\ e[j] \in Nat /\ i \in Nat /\ j \in Nat
      BY <1>1
    <2>2. i = j \/ j < i
      BY <2>1
    <2> QED
      BY <1>1, <2>1, <2>2
  <1>7. ASSUME NEW i \in 1 .. m, NEW j \in 1 .. m, part[i] = part[j]
        PROVE  i = j
    <2>1. /\ e[i] \in 1 .. n /\ part[i] = list[e[i]]
          /\ e[j] \in 1 .. n /\ part[j] = list[e[j]]
      BY <1>1
    <2>2. e[i] = e[j]
      BY <1>2, <1>7, <2>1
    <2>3. e[i] \in Nat /\ i \in Nat /\ j \in Nat
      BY <1>1, <2>1
    <2>4. ~(i < j) /\ ~(j < i)
      BY <1>1, <2>2, <2>3
    <2> QED
      BY <2>3, <2>4
  <1>8. Distinct(part)
    BY <1>7 DEF Distinct, m
  <1>9. \A x : x \in ToSet(part) <=> x \in ToSet(list) /\ x \in S
    <2>1. ASSUME NEW x, x \in ToSet(part)
          PROVE  x \in ToSet(list) /\ x \in S
      <3>1. PICK i \in 1 .. m : part[i] = x
        BY <1>3, <2>1
      <3>2. e[i] \in 1 .. n /\ list[e[i]] = x /\ x \in S
        BY <1>1, <3>1
      <3> QED
        BY <1>3, <3>2
    <2>2. ASSUME NEW x, x \in ToSet(list), x \in S
          PROVE  x \in ToSet(part)
      <3>1. PICK k \in 1 .. n : list[k] = x
        BY <1>3, <2>2
      <3>2. PICK i \in 1 .. m : e[i] = k
        BY <1>1, <2>2, <3>1
      <3>3. part[i] = x
        BY <1>1, <3>1, <3>2
      <3> QED
        BY <1>3, <3>3
    <2> QED
      BY <2>1, <2>2
  <1>10. ASSUME NEW x, NEW y, Before(part, x, y)
         PROVE  x \in S /\ y \in S /\ Before(list, x, y)
    <2>1. PICK i \in 1 .. m, j \in 1 .. m : i < j /\ part[i] = x /\ part[j] = y
      BY <1>4, <1>10
    <2>2. /\ e[i] \in 1 .. n /\ list[e[i]] = x /\ x \in S
          /\ e[j] \in 1 .. n /\ list[e[j]] = y /\ y \in S
      BY <1>1, <2>1
    <2>3. e[i] < e[j]
      BY <1>1, <2>1
    <2> QED
      BY <1>5, <2>2, <2>3
  <1>11. ASSUME NEW x, NEW y, x \in S, y \in S, Before(list, x, y)
         PROVE  Before(part, x, y)
    <2>1. PICK i \in 1 .. n, j \in 1 .. n : i < j /\ list[i] = x /\ list[j] = y
      BY <1>5, <1>11
    <2>2. PICK k \in 1 .. m : e[k] = i
      BY <1>1, <1>11, <2>1
    <2>3. PICK l \in 1 .. m : e[l] = j
      BY <1>1, <1>11, <2>1
    <2>4. k < l /\ part[k] = x /\ part[l] = y
      BY <1>1, <1>6, <2>1, <2>2, <2>3
    <2> QED
      BY <1>4, <2>4
  <1> QED
    BY <1>8, <1>9, <1>10, <1>11

\* A comprehension keeps the entries of the set, once each, in their order.
LEMMA ThoseFacts ==
    ASSUME NEW X, NEW list \in Seq(X), NEW S, Distinct(list)
    PROVE  /\ Those(list, S) \in Seq(X)
           /\ Distinct(Those(list, S))
           /\ ToSet(Those(list, S)) = ToSet(list) \cap S
           /\ \A x, y : Before(Those(list, S), x, y) <=> x \in S /\ y \in S /\ Before(list, x, y)
  BY ThosePicks, PicksFacts

\* A list of n entries has n places.
LEMMA PlacesCardinality ==
    ASSUME NEW n \in Nat
    PROVE  IsFiniteSet(1 .. n) /\ Cardinality(1 .. n) = n
  BY FS_Interval

\* The lists the model starts with and admits are lists of distinct requests.
LEMMA ListsAre ==
    ASSUME NEW list \in Lists
    PROVE  list \in Seq(Requests) /\ Distinct(list)
  <1>1. Cardinality(Requests) \in Nat
    BY InflightAssumption, FS_CardinalityType
  <1>2. PICK n \in 0 .. Cardinality(Requests) :
            list \in [1 .. n -> Requests] /\ Cardinality(ToSet(list)) = n
    BY DEF Lists
  <1>3. n \in Nat /\ list \in Seq(Requests) /\ Len(list) = n /\ DOMAIN list = 1 .. n
    BY <1>1, <1>2
  <1>4. IsFiniteSet(1 .. n) /\ Cardinality(1 .. n) = n
    BY <1>3, FS_Interval
  <1>5. list \in Surjection(1 .. n, ToSet(list))
    BY <1>2, <1>3 DEF Surjection, ToSet
  <1>6. IsFiniteSet(ToSet(list))
    BY <1>4, <1>5, FS_Surjection
  <1>7. list \in Injection(1 .. n, ToSet(list))
    BY <1>2, <1>4, <1>5, <1>6, FS_SurjSameCardinalityImpliesInj
  <1>8. \A i, j \in 1 .. n : list[i] = list[j] => i = j
    BY <1>7 DEF Injection, IsInjective
  <1> QED
    BY <1>3, <1>8 DEF Distinct

\* As many entries as places.
LEMMA DistinctCardinality ==
    ASSUME NEW X, NEW list \in Seq(X), Distinct(list)
    PROVE  Cardinality(ToSet(list)) = Len(list)
  <1> DEFINE n == Len(list)
  <1>1. n \in Nat /\ DOMAIN list = 1 .. n /\ list \in [1 .. n -> ToSet(list)]
    BY DEF ToSet
  <1>2. IsFiniteSet(1 .. n) /\ Cardinality(1 .. n) = n
    BY <1>1, FS_Interval
  <1>3. list \in Bijection(1 .. n, ToSet(list))
    BY <1>1 DEF Bijection, Injection, IsInjective, Surjection, ToSet, Distinct
  <1> QED
    BY <1>2, <1>3, FS_Bijection DEF ExistsBijection

-------------------------------------------------------------------------------
(* Insertion *)

Inserted(list, i, x) == InsertAt(list, i + 1, x)

\* The entry after the first i is x, the others are where they were or one further.
LEMMA InsertedIs ==
    ASSUME NEW X, NEW list \in Seq(X), NEW x \in X, NEW i \in 0 .. Len(list)
    PROVE  /\ Inserted(list, i, x) \in Seq(X)
           /\ Len(Inserted(list, i, x)) = Len(list) + 1
           /\ \A j \in 1 .. i : Inserted(list, i, x)[j] = list[j]
           /\ Inserted(list, i, x)[i + 1] = x
           /\ \A j \in i + 1 .. Len(list) : Inserted(list, i, x)[j + 1] = list[j]
  <1> DEFINE n == Len(list)
             front == SubSeq(list, 1, i)
             back == SubSeq(list, i + 1, n)
             new == front \o <<x>> \o back
  <1>1. n \in Nat /\ i \in Nat /\ i <= n /\ \A j \in 1 .. n : list[j] \in X
    OBVIOUS
  <1>2. front \in Seq(X) /\ Len(front) = i /\ \A j \in 1 .. i : front[j] = list[j]
    BY <1>1
  <1>3. back \in Seq(X) /\ Len(back) = n - i /\ \A j \in 1 .. n - i : back[j] = list[i + j]
    <2>1. /\ \A j \in i + 1 .. n : list[j] \in X
          /\ Len(back) = n - i
          /\ \A j \in 1 .. n - i : back[j] = list[i + j]
      BY <1>1, SubSeqProperties
    <2>2. back \in Seq(X)
      BY <1>1, SubSeqProperties
    <2> QED
      BY <2>1, <2>2
  <1>4. Inserted(list, i, x) = new
    <2>1. (i + 1) - 1 = i
      BY <1>1
    <2> QED
      BY <2>1, Zenon DEF Inserted, InsertAt
  <1> HIDE DEF front, back
  <1>5. /\ front \o <<x>> \in Seq(X) /\ Len(front \o <<x>>) = i + 1
        /\ \A j \in 1 .. i : (front \o <<x>>)[j] = list[j]
        /\ (front \o <<x>>)[i + 1] = x
    BY <1>1, <1>2
  <1> DEFINE pre == front \o <<x>>
  <1> HIDE DEF pre, n
  <1>6. /\ pre \o back \in Seq(X) /\ Len(pre \o back) = n + 1
        /\ \A j \in 1 .. i + 1 : (pre \o back)[j] = pre[j]
        /\ \A j \in 1 .. n - i : (pre \o back)[i + 1 + j] = back[j]
    <2>1. pre \in Seq(X) /\ Len(pre) = i + 1
      BY <1>5 DEF pre
    <2>2. /\ pre \o back \in Seq(X) /\ Len(pre \o back) = Len(pre) + Len(back)
          /\ \A j \in 1 .. Len(pre) + Len(back) :
                (pre \o back)[j] = IF j <= Len(pre) THEN pre[j] ELSE back[j - Len(pre)]
      BY <1>3, <2>1, ConcatProperties
    <2>3. /\ pre \o back \in Seq(X) /\ Len(pre \o back) = n + 1
          /\ \A j \in 1 .. n + 1 : (pre \o back)[j] = IF j <= i + 1 THEN pre[j] ELSE back[j - (i + 1)]
      BY <1>1, <1>3, <2>1, <2>2
    <2>4. ASSUME NEW j \in 1 .. n - i
          PROVE  (pre \o back)[i + 1 + j] = back[j]
      <3>1. i + 1 + j \in 1 .. n + 1 /\ ~(i + 1 + j <= i + 1) /\ (i + 1 + j) - (i + 1) = j
        BY <1>1
      <3> QED
        BY <2>3, <3>1
    <2>5. \A j \in 1 .. i + 1 : j \in 1 .. n + 1 /\ j <= i + 1
      BY <1>1
    <2> QED
      BY <2>3, <2>4, <2>5
  <1>7. ASSUME NEW j \in i + 1 .. n
        PROVE  (pre \o back)[j + 1] = list[j]
    <2>1. PICK k \in 1 .. n - i : i + 1 + k = j + 1 /\ i + k = j
      <3>1. j - i \in 1 .. n - i /\ i + 1 + (j - i) = j + 1 /\ i + (j - i) = j
        BY <1>1
      <3> QED
        BY <3>1
    <2>2. (pre \o back)[j + 1] = back[k]
      BY <1>6, <2>1
    <2>3. back[k] = list[j]
      BY <1>3, <2>1 DEF n
    <2> QED
      BY <2>2, <2>3
  <1>8. new = pre \o back
    BY DEF pre
  <1>9. \A j \in 1 .. i : (pre \o back)[j] = list[j]
    BY <1>1, <1>5, <1>6 DEF pre
  <1>10. (pre \o back)[i + 1] = x
    BY <1>1, <1>5, <1>6 DEF pre
  <1> HIDE DEF new
  <1> QED
    BY <1>4, <1>6, <1>7, <1>8, <1>9, <1>10 DEF n

\* A new entry disturbs no other one.
LEMMA InsertedFacts ==
    ASSUME NEW X, NEW list \in Seq(X), Distinct(list), NEW x \in X, x \notin ToSet(list),
           NEW i \in 0 .. Len(list)
    PROVE  /\ Distinct(Inserted(list, i, x))
           /\ ToSet(Inserted(list, i, x)) = ToSet(list) \cup {x}
           /\ \A y, z : Before(list, y, z) => Before(Inserted(list, i, x), y, z)
           /\ \A j \in 1 .. Len(list) :
                 IF j <= i THEN Before(Inserted(list, i, x), list[j], x)
                           ELSE Before(Inserted(list, i, x), x, list[j])
  <1> DEFINE n == Len(list)
             new == Inserted(list, i, x)
             to(j) == IF j <= i THEN j ELSE j + 1
  <1>1. n \in Nat /\ i \in Nat /\ i <= n
    OBVIOUS
  <1>2. /\ new \in Seq(X) /\ Len(new) = n + 1 /\ new[i + 1] = x
        /\ \A j \in 1 .. i : new[j] = list[j]
        /\ \A j \in i + 1 .. n : new[j + 1] = list[j]
    <2>1. new \in Seq(X) /\ Len(new) = n + 1 /\ new[i + 1] = x
      BY InsertedIs
    <2>2. \A j \in 1 .. i : new[j] = list[j]
      BY InsertedIs
    <2>3. \A j \in i + 1 .. n : new[j + 1] = list[j]
      BY InsertedIs
    <2> HIDE DEF n, new
    <2> QED
      BY <2>1, <2>2, <2>3
  <1> HIDE DEF n, new
  <1>3. \A j \in 1 .. n : to(j) \in 1 .. n + 1 /\ new[to(j)] = list[j] /\ to(j) # i + 1
    BY <1>1, <1>2
  <1>4. \A j \in 1 .. n + 1 : j = i + 1 \/ \E k \in 1 .. n : to(k) = j
    <2> TAKE j \in 1 .. n + 1
    <2>1. CASE j <= i
      <3>1. j \in 1 .. n /\ to(j) = j
        BY <1>1, <2>1
      <3> QED
        BY <3>1
    <2>2. CASE j > i + 1
      <3>1. j - 1 \in 1 .. n /\ to(j - 1) = j
        BY <1>1, <2>2
      <3> QED
        BY <3>1
    <2> QED
      BY <1>1, <2>1, <2>2
  <1>5. \A j, k \in 1 .. n : j < k => to(j) < to(k)
    BY <1>1
  <1>6. i + 1 \in 1 .. n + 1
    BY <1>1
  <1>7. \A j \in 1 .. n : IF j <= i THEN to(j) < i + 1 ELSE i + 1 < to(j)
    BY <1>1
  <1> HIDE DEF to
  <1>8. \A j \in 1 .. n : list[j] # x
    BY InSet DEF n
  <1>9. \A j, k \in 1 .. n : list[j] = list[k] => j = k
    BY DEF Distinct, n
  <1>10. Distinct(new)
    <2>1. ASSUME NEW j \in 1 .. n + 1, NEW k \in 1 .. n + 1, new[j] = new[k]
          PROVE  j = k
      <3>1. CASE j = i + 1
        <4>1. ~(\E l \in 1 .. n : to(l) = k)
          BY <1>2, <1>3, <1>8, <2>1, <3>1
        <4> QED
          BY <1>4, <3>1, <4>1
      <3>2. CASE j # i + 1
        <4>1. PICK l \in 1 .. n : to(l) = j
          BY <1>4, <3>2
        <4>2. new[k] = list[l]
          BY <1>3, <2>1, <4>1
        <4>3. k # i + 1
          BY <1>2, <1>8, <4>2
        <4>4. PICK o \in 1 .. n : to(o) = k
          BY <1>4, <4>3
        <4>5. list[o] = list[l]
          BY <1>3, <4>2, <4>4
        <4> QED
          BY <1>9, <4>1, <4>4, <4>5
      <3> QED
        BY <3>1, <3>2
    <2> QED
      BY <1>2, <2>1 DEF Distinct
  <1>11. \A y : y \in ToSet(new) <=> y \in ToSet(list) \cup {x}
    <2>1. /\ \A y : y \in ToSet(list) <=> \E j \in 1 .. n : list[j] = y
          /\ \A y : y \in ToSet(new) <=> \E j \in 1 .. n + 1 : new[j] = y
      BY <1>2, InSet DEF n
    <2>2. ASSUME NEW y, y \in ToSet(new)
          PROVE  y \in ToSet(list) \cup {x}
      <3>1. PICK j \in 1 .. n + 1 : new[j] = y
        BY <2>1, <2>2
      <3>2. CASE j = i + 1
        BY <1>2, <3>1, <3>2
      <3>3. CASE j # i + 1
        <4>1. PICK k \in 1 .. n : to(k) = j
          BY <1>4, <3>3
        <4> QED
          BY <1>3, <2>1, <3>1, <4>1
      <3> QED
        BY <3>2, <3>3
    <2>3. ASSUME NEW y, y \in ToSet(list) \cup {x}
          PROVE  y \in ToSet(new)
      BY <1>2, <1>3, <1>6, <2>1, <2>3
    <2> QED
      BY <2>2, <2>3
  <1>12. ASSUME NEW y, NEW z, Before(list, y, z)
         PROVE  Before(new, y, z)
    <2>1. PICK j \in 1 .. n, k \in 1 .. n : j < k /\ list[j] = y /\ list[k] = z
      BY <1>12 DEF Before, n
    <2>2. to(j) \in 1 .. n + 1 /\ to(k) \in 1 .. n + 1 /\ to(j) < to(k)
          /\ new[to(j)] = y /\ new[to(k)] = z
      BY <1>3, <1>5, <2>1
    <2> QED
      BY <1>2, <2>2 DEF Before
  <1>13. ASSUME NEW j \in 1 .. n
         PROVE  IF j <= i THEN Before(new, list[j], x) ELSE Before(new, x, list[j])
    <2>1. to(j) \in 1 .. n + 1 /\ new[to(j)] = list[j]
      BY <1>3
    <2>2. CASE j <= i
      <3>1. to(j) < i + 1
        BY <1>7, <2>2
      <3> QED
        BY <1>2, <1>6, <2>1, <2>2, <3>1 DEF Before
    <2>3. CASE ~(j <= i)
      <3>1. i + 1 < to(j)
        BY <1>7, <2>3
      <3> QED
        BY <1>2, <1>6, <2>1, <2>3, <3>1 DEF Before
    <2> QED
      BY <2>2, <2>3
  <1>14. ToSet(new) = ToSet(list) \cup {x}
    BY <1>11
  <1> QED
    BY <1>10, <1>12, <1>13, <1>14 DEF n, new

-------------------------------------------------------------------------------
(* The insertion of the held requests *)

Items == [index : Nat, request : Requests]

\* min(index, len(list))
Place(list, item) == IF item.index <= Len(list) THEN item.index ELSE Len(list)

\* An item is put at its index, or at the end when the list is shorter.
LEMMA InsertAtIndexIs ==
    ASSUME NEW list \in Seq(Requests), NEW item \in Items
    PROVE  /\ InsertAtIndex(list, item) = Inserted(list, Place(list, item), item.request)
           /\ Place(list, item) \in 0 .. Len(list)
           /\ item.request \in Requests
           /\ InsertAtIndex(list, item) \in Seq(Requests)
  <1> DEFINE i == item.index
             n == Len(list)
             m == Min({i, n})
  <1>1. i \in Nat /\ n \in Nat /\ item.request \in Requests
    BY DEF Items
  <1> HIDE DEF i, n
  <1>2. \E x \in {i, n} : \A y \in {i, n} : x =< y
    BY <1>1
  <1>3. m \in {i, n} /\ \A y \in {i, n} : m =< y
    BY <1>2, Zenon DEF Min
  <1> HIDE DEF m
  <1>4. m = IF i <= n THEN i ELSE n
    BY <1>1, <1>3
  <1>5. m = Place(list, item)
    BY <1>4 DEF Place, i, n
  <1>6. InsertAtIndex(list, item) = Inserted(list, m, item.request)
    BY Zenon DEF InsertAtIndex, Inserted, m, i, n
  <1>7. Place(list, item) \in 0 .. n
    BY <1>1, <1>4, <1>5
  <1>8. Inserted(list, m, item.request) \in Seq(Requests)
    BY <1>1, <1>5, <1>7, InsertedIs DEF n
  <1> QED
    BY <1>1, <1>5, <1>6, <1>7, <1>8 DEF n

IsRestore(f, list, items) ==
    f = [s \in SUBSET DOMAIN items |->
            IF s = {} THEN list
            ELSE LET x == Max(s)
                 IN  IF items[x].request \in ToSet(f[s \ {x}]) THEN f[s \ {x}]
                     ELSE InsertAtIndex(f[s \ {x}], items[x])]

\* The restore is a fold over the recorded items.
LEMMA RestoreIsFold ==
    ASSUME NEW list, NEW items
    PROVE  RestoreInto(list, items) = (CHOOSE f : IsRestore(f, list, items))[DOMAIN items]
  BY DEF RestoreInto, FoldLeft, MapThenFoldSet, IsRestore

\* The list after each insertion.
LEMMA RestoreSteps ==
    ASSUME NEW list \in Seq(Requests), NEW items \in Seq(Items)
    PROVE  \E v : /\ v[0] = list /\ v[Len(items)] = RestoreInto(list, items)
                  /\ \A k \in 1 .. Len(items) :
                        v[k] = IF items[k].request \in ToSet(v[k - 1]) THEN v[k - 1]
                               ELSE InsertAtIndex(v[k - 1], items[k])
  <1> DEFINE n == Len(items)
             A == Seq(Requests)
             move == [p \in A \X (1 .. n) |->
                        IF items[p[2]].request \in ToSet(p[1]) THEN p[1]
                        ELSE InsertAtIndex(p[1], items[p[2]])]
  <1>1. n \in Nat /\ DOMAIN items = 1 .. n /\ \A k \in 1 .. n : items[k] \in Items
    OBVIOUS
  <1>2. move \in [A \X (1 .. n) -> A] /\ list \in A
    BY <1>1, InsertAtIndexIs
  <1>3. \A q \in A, k \in 1 .. n :
           move[<<q, k>>] = IF items[k].request \in ToSet(q) THEN q ELSE InsertAtIndex(q, items[k])
    OBVIOUS
  <1> HIDE DEF n, move, A
  <1>4. PICK f \in [SUBSET (1 .. n) -> A] : IsFold(f, list, move, n)
    BY <1>1, <1>2, FoldExists
  <1> DEFINE body(s) == IF s = {} THEN list
                        ELSE LET x == Max(s)
                             IN  IF items[x].request \in ToSet(f[s \ {x}]) THEN f[s \ {x}]
                                 ELSE InsertAtIndex(f[s \ {x}], items[x])
  <1>5. ASSUME NEW s \in SUBSET (1 .. n)
        PROVE  f[s] = body(s)
    <2>1. CASE s = {}
      BY <1>4, <2>1 DEF IsFold
    <2>2. CASE s # {}
      <3>1. Max(s) \in 1 .. n
        BY <1>1, <2>2, MaxIn
      <3>2. f[s \ {Max(s)}] \in A
        OBVIOUS
      <3>3. f[s] = move[<<f[s \ {Max(s)}], Max(s)>>]
        BY <1>4, <2>2 DEF IsFold
      <3> QED
        BY <1>3, <2>2, <3>1, <3>2, <3>3
    <2> QED
      BY <2>1, <2>2
  <1>6. IsRestore(f, list, items)
    <2>1. f = [s \in SUBSET (1 .. n) |-> body(s)]
      <3>1. f = [s \in SUBSET (1 .. n) |-> f[s]]
        OBVIOUS
      <3> HIDE DEF body
      <3> QED
        BY <1>5, <3>1
    <2> QED
      BY <1>1, <2>1 DEF IsRestore
  <1> DEFINE g == CHOOSE f1 : IsRestore(f1, list, items)
  <1>7. IsRestore(g, list, items)
    BY <1>6
  <1>8. RestoreInto(list, items) = g[1 .. n]
    BY <1>1, RestoreIsFold
  <1> HIDE DEF g
  <1> DEFINE v == [k \in 0 .. n |-> g[1 .. k]]
  <1>9. v[0] = list
    <2>1. 1 .. 0 = {} /\ 0 \in 0 .. n
      BY <1>1
    <2>2. g[{}] = list
      BY <1>7 DEF IsRestore
    <2> QED
      BY <2>1, <2>2
  <1>10. v[n] = RestoreInto(list, items)
    BY <1>1, <1>8
  <1>11. ASSUME NEW k \in 1 .. n
         PROVE  v[k] = IF items[k].request \in ToSet(v[k - 1]) THEN v[k - 1]
                       ELSE InsertAtIndex(v[k - 1], items[k])
    <2>1. /\ 1 .. k \in SUBSET DOMAIN items /\ 1 .. k # {} /\ k \in Nat
          /\ (1 .. k) \ {k} = 1 .. (k - 1) /\ k \in 1 .. k
      <3>1. k \in Nat /\ k >= 1 /\ k <= n
        BY <1>1
      <3>2. k \in 1 .. k /\ \A i \in 1 .. k : i \in 1 .. n
        BY <1>1, <3>1
      <3>3. \A i : i \in (1 .. k) \ {k} <=> i \in 1 .. (k - 1)
        BY <3>1
      <3>4. (1 .. k) \ {k} = 1 .. (k - 1)
        BY <3>3
      <3> QED
        BY <1>1, <3>1, <3>2, <3>4
    <2>2. Max(1 .. k) = k
      BY <2>1, MaxIs
    <2>3. g[1 .. k] = IF items[k].request \in ToSet(g[1 .. (k - 1)]) THEN g[1 .. (k - 1)]
                      ELSE InsertAtIndex(g[1 .. (k - 1)], items[k])
      BY <1>7, <2>1, <2>2 DEF IsRestore
    <2>4. v[k] = g[1 .. k] /\ v[k - 1] = g[1 .. (k - 1)]
      BY <1>1
    <2> HIDE DEF v
    <2> QED
      BY <2>3, <2>4
  <1> HIDE DEF v
  <1> QED
    BY <1>9, <1>10, <1>11 DEF n

\* Entries of list that are in b are in the order of b, the others come after them.
InOrder(b, list) ==
    \A x, y \in ToSet(list) :
        /\ Before(b, x, y) => Before(list, x, y)
        /\ x \in ToSet(b) /\ y \notin ToSet(b) => Before(list, x, y)

\* When nobody before place a of b is missing, the list begins like b.
LEMMA SameBeginning ==
    ASSUME NEW X, NEW b \in Seq(X), NEW list \in Seq(X), Distinct(b), Distinct(list),
           InOrder(b, list), NEW a \in 1 .. Len(b), \A m \in 1 .. a - 1 : b[m] \in ToSet(list)
    PROVE  a - 1 <= Len(list) /\ \A i \in 1 .. a - 1 : list[i] = b[i]
  <1> DEFINE n == Len(list)
             T == {k \in 0 .. a - 1 : k <= n /\ \A i \in 1 .. k : list[i] = b[i]}
  <1>1. n \in Nat /\ a \in Nat /\ a - 1 \in Nat /\ \A m \in 1 .. a - 1 : m \in 1 .. Len(b)
    OBVIOUS
  <1>2. 0 \in T
    BY <1>1
  <1>3. ASSUME NEW k \in 0 .. a - 1, k \in T, k < a - 1
        PROVE  k + 1 \in T
    <2> DEFINE m == k + 1
    <2>1. m \in 1 .. a - 1 /\ m \in Nat /\ \A i \in Nat : i >= 1 /\ i < m => i \in 1 .. k
      BY <1>1, <1>3
    <2>2. k <= n /\ \A i \in 1 .. k : list[i] = b[i]
      BY <1>3
    <2> HIDE DEF m, T
    <2>3. PICK q \in 1 .. n : list[q] = b[m]
      BY <2>1, InSet
    <2>4. \A i \in 1 .. k : i # q
      BY <1>1, <2>1, <2>2, <2>3 DEF Distinct, m
    <2>5. q >= m /\ q \in Nat
      BY <2>1, <2>4
    <2>6. q = m
      <3> SUFFICES ASSUME q # m PROVE FALSE
        OBVIOUS
      <3> DEFINE u == list[m]
      <3>1. m < q /\ m \in 1 .. n
        BY <2>1, <2>5
      <3>2. Before(list, u, b[m]) /\ u \in ToSet(list) /\ b[m] \in ToSet(list) /\ b[m] \in ToSet(b)
        BY <1>1, <2>1, <2>3, <3>1, InSet DEF Before
      <3>3. ~Before(list, b[m], u)
        BY <3>2, OneOrder
      <3>4. u \in ToSet(b)
        BY <3>2, <3>3 DEF InOrder
      <3>5. PICK c \in 1 .. Len(b) : b[c] = u
        BY <3>4, InSet
      <3>6. ~(m < c)
        <4>1. m < c => Before(b, b[m], u)
          BY <1>1, <2>1, <3>5 DEF Before
        <4> QED
          BY <3>2, <3>3, <4>1 DEF InOrder
      <3>7. c # m
        BY <2>3, <3>1, <3>5 DEF Distinct
      <3>8. c \in 1 .. k
        BY <2>1, <3>6, <3>7
      <3>9. list[c] = list[m] /\ c \in 1 .. n /\ c # m
        BY <2>1, <2>2, <3>1, <3>5, <3>6, <3>7, <3>8
      <3> QED
        BY <3>1, <3>9 DEF Distinct
    <2>7. m <= n /\ \A i \in 1 .. m : list[i] = b[i]
      BY <2>1, <2>2, <2>3, <2>6
    <2> QED
      BY <1>1, <2>1, <2>7 DEF m, T
  <1>4. a - 1 \in T
    <2> HIDE DEF T
    <2>1. 0 .. a - 1 \subseteq T
      BY <1>1, <1>2, <1>3, AllUpTo
    <2> QED
      BY <1>1, <2>1
  <1> QED
    BY <1>4

\* When everyone in the list comes before place a of b, it is not longer than that.
LEMMA ShortList ==
    ASSUME NEW X, NEW b \in Seq(X), NEW list \in Seq(X), Distinct(b), Distinct(list),
           NEW a \in 1 .. Len(b), \A y \in ToSet(list) : Before(b, y, b[a])
    PROVE  Len(list) <= a - 1
  <1> DEFINE n == Len(list)
             f == [j \in 1 .. n |-> CHOOSE m \in 1 .. a - 1 : b[m] = list[j]]
  <1>1. n \in Nat /\ a \in Nat /\ a - 1 \in Nat
    OBVIOUS
  <1>2. ASSUME NEW j \in 1 .. n
        PROVE  \E m \in 1 .. a - 1 : b[m] = list[j]
    <2>1. list[j] \in ToSet(list)
      BY InSet
    <2>2. PICK i \in 1 .. Len(b), k \in 1 .. Len(b) : i < k /\ b[i] = list[j] /\ b[k] = b[a]
      BY <2>1 DEF Before
    <2>3. k = a
      BY <2>2 DEF Distinct
    <2> QED
      BY <1>1, <2>2, <2>3
  <1>3. \A j \in 1 .. n : f[j] \in 1 .. a - 1 /\ b[f[j]] = list[j]
    BY <1>2
  <1>4. DOMAIN f = 1 .. n /\ f = [j \in 1 .. n |-> f[j]]
    OBVIOUS
  <1> HIDE DEF f
  <1>5. f \in [1 .. n -> 1 .. a - 1]
    BY <1>3, <1>4
  <1>6. \A i, j \in 1 .. n : f[i] = f[j] => i = j
    <2> SUFFICES ASSUME NEW i \in 1 .. n, NEW j \in 1 .. n, f[i] = f[j] PROVE i = j
      OBVIOUS
    <2>1. list[i] = list[j]
      BY <1>3
    <2> QED
      BY <2>1 DEF Distinct
  <1>7. f \in Injection(1 .. n, 1 .. a - 1)
    BY <1>4, <1>5, <1>6 DEF Injection, IsInjective
  <1>8. IsFiniteSet(1 .. a - 1) /\ Cardinality(1 .. a - 1) = a - 1
    BY <1>1, PlacesCardinality
  <1>9. Cardinality(1 .. n) = n
    BY <1>1, PlacesCardinality
  <1>10. Cardinality(1 .. n) <= Cardinality(1 .. a - 1)
    BY <1>7, <1>8, FS_Injection
  <1> QED
    BY <1>8, <1>9, <1>10

\* An entry of b that is inserted between those before it and the rest is in order.
LEMMA InsertInOrder ==
    ASSUME NEW b \in Seq(Requests), NEW list \in Seq(Requests), Distinct(b), Distinct(list),
           InOrder(b, list), NEW x \in ToSet(b), x \in Requests, x \notin ToSet(list),
           NEW p \in 0 .. Len(list),
           \A j \in 1 .. Len(list) : IF j <= p THEN Before(b, list[j], x) ELSE ~Before(b, list[j], x)
    PROVE  InOrder(b, Inserted(list, p, x))
  <1> DEFINE new == Inserted(list, p, x)
  <1>1. /\ ToSet(new) = ToSet(list) \cup {x}
        /\ \A y, z : Before(list, y, z) => Before(new, y, z)
        /\ \A j \in 1 .. Len(list) :
              IF j <= p THEN Before(new, list[j], x) ELSE Before(new, x, list[j])
    BY InsertedFacts
  <1> HIDE DEF new
  <1>2. ASSUME NEW y \in ToSet(list)
        PROVE  \E j \in 1 .. Len(list) : list[j] = y
    BY InSet
  <1>3. ASSUME NEW y, NEW z, Before(b, y, z)
        PROVE  y \in ToSet(b) /\ z \in ToSet(b) /\ ~Before(b, z, y) /\ y # z
    <2>1. y \in ToSet(b) /\ z \in ToSet(b)
      BY <1>3, InSet DEF Before
    <2> QED
      BY <1>3, <2>1, OneOrder
  <1>4. ASSUME NEW y \in ToSet(new), NEW z \in ToSet(new),
               \/ Before(b, y, z)
               \/ y \in ToSet(b) /\ z \notin ToSet(b)
        PROVE  Before(new, y, z)
    <2>1. CASE y \in ToSet(list) /\ z \in ToSet(list)
      BY <1>1, <1>4, <2>1 DEF InOrder
    <2>2. CASE y = x /\ z \in ToSet(list)
      <3>1. PICK j \in 1 .. Len(list) : list[j] = z
        BY <1>2, <2>2
      <3>2. ~Before(b, z, x)
        BY <1>3, <1>4, <2>2
      <3> QED
        BY <1>1, <2>2, <3>1, <3>2
    <2>3. CASE z = x /\ y \in ToSet(list)
      <3>1. PICK j \in 1 .. Len(list) : list[j] = y
        BY <1>2, <2>3
      <3>2. Before(b, y, x)
        BY <1>4, <2>3
      <3> QED
        BY <1>1, <2>3, <3>1, <3>2
    <2>4. CASE y = x /\ z = x
      BY <1>3, <1>4, <2>4
    <2> QED
      BY <1>1, <2>1, <2>2, <2>3, <2>4
  <1> QED
    BY <1>4 DEF InOrder, new

\* The items that are held of a list, and where they come from.
HeldOf(b) == Those(Enumerated(b), [index : Nat, request : Inflight])

\* The recorded items: the held requests with their indices, in order.
LEMMA HeldAre ==
    ASSUME NEW b \in Seq(Requests)
    PROVE  /\ HeldOf(b) \in Seq(Items)
           /\ \E e \in [1 .. Len(HeldOf(b)) -> 1 .. Len(b)] :
                 /\ \A i, j \in 1 .. Len(HeldOf(b)) : i < j => e[i] < e[j]
                 /\ \A k \in 1 .. Len(HeldOf(b)) :
                       /\ HeldOf(b)[k].index = e[k] - 1 /\ HeldOf(b)[k].request = b[e[k]]
                       /\ b[e[k]] \in Inflight
                 /\ \A m \in 1 .. Len(b) : b[m] \in Inflight =>
                       \E k \in 1 .. Len(HeldOf(b)) : e[k] = m
  <1> DEFINE n == Len(b)
             list == Enumerated(b)
             S == [index : Nat, request : Inflight]
             held == HeldOf(b)
  <1>1. n \in Nat /\ DOMAIN b = 1 .. n /\ \A m \in 1 .. n : b[m] \in Requests
    OBVIOUS
  <1>2. \A m \in 1 .. n : list[m] = [index |-> m - 1, request |-> b[m]] /\ m - 1 \in Nat
    BY <1>1 DEF Enumerated
  <1>3. list \in [1 .. n -> Items]
    BY <1>1 DEF Enumerated, Items
  <1>4. list \in Seq(Items) /\ Len(list) = n
    BY <1>1, <1>3
  <1>5. held = Those(list, S)
    BY DEF HeldOf
  <1> HIDE DEF list, held, n
  <1>6. PICK e : Picks(held, list, n, S, e)
    BY <1>4, <1>5, ThosePicks
  <1>7. held \in Seq(Items)
    BY <1>4, <1>5, ThosePicks
  <1>8. /\ e \in [1 .. Len(held) -> 1 .. n]
        /\ \A i, j \in 1 .. Len(held) : i < j => e[i] < e[j]
        /\ \A k \in 1 .. Len(held) : held[k] = list[e[k]] /\ held[k] \in S
        /\ \A m \in 1 .. n : list[m] \in S => \E k \in 1 .. Len(held) : e[k] = m
    BY <1>6 DEF Picks
  <1>9. ASSUME NEW k \in 1 .. Len(held)
        PROVE  /\ held[k].index = e[k] - 1 /\ held[k].request = b[e[k]]
               /\ b[e[k]] \in Inflight
    <2>1. e[k] \in 1 .. n /\ held[k] = list[e[k]] /\ held[k] \in S
      BY <1>8
    <2>2. held[k] = [index |-> e[k] - 1, request |-> b[e[k]]]
      BY <1>2, <2>1
    <2> QED
      BY <2>1, <2>2
  <1>10. ASSUME NEW m \in 1 .. n, b[m] \in Inflight
         PROVE  \E k \in 1 .. Len(held) : e[k] = m
    <2>1. list[m] = [index |-> m - 1, request |-> b[m]] /\ m - 1 \in Nat
      BY <1>2
    <2>2. list[m] \in S
      BY <1>10, <2>1
    <2> QED
      BY <1>8, <2>2
  <1> QED
    BY <1>7, <1>8, <1>9, <1>10 DEF held, n

\* What the original schedule() leaves of the list b, when it has preempted gone.
AfterSchedule(b, list, gone) ==
    /\ list \in Seq(Requests) /\ Distinct(list)
    /\ ToSet(list) \cap (Inflight \cup gone) = {}
    /\ gone \subseteq ToSet(b) \ Inflight
    /\ ToSet(b) \ (Inflight \cup gone) \subseteq ToSet(list)

\* Only the last of the visible requests are gone, and then none is admitted.
TailGone(b, list, gone) ==
    /\ \A x \in gone : \A y \in ToSet(b) \ Inflight : Before(b, x, y) => y \in gone
    /\ gone # {} => ToSet(list) \subseteq ToSet(b)

\* The held requests are in the list again, each once, and when the visible ones are in
\* order all are.
LEMMA RestoreFacts ==
    ASSUME NEW b \in Seq(Requests), Distinct(b), NEW list, NEW gone, AfterSchedule(b, list, gone)
    PROVE  /\ RestoreInto(list, HeldOf(b)) \in Seq(Requests)
           /\ Distinct(RestoreInto(list, HeldOf(b)))
           /\ ToSet(RestoreInto(list, HeldOf(b))) = ToSet(list) \cup (ToSet(b) \cap Inflight)
           /\ InOrder(b, list) /\ TailGone(b, list, gone) => InOrder(b, RestoreInto(list, HeldOf(b)))
  <1> DEFINE items == HeldOf(b)
             n == Len(items)
  <1>1. items \in Seq(Items) /\ n \in Nat /\ list \in Seq(Requests) /\ Distinct(list)
    BY HeldAre DEF AfterSchedule
  <1>2. PICK e \in [1 .. n -> 1 .. Len(b)] :
                 /\ \A i, j \in 1 .. n : i < j => e[i] < e[j]
                 /\ \A k \in 1 .. n : /\ items[k].index = e[k] - 1 /\ items[k].request = b[e[k]]
                                      /\ b[e[k]] \in Inflight
                 /\ \A m \in 1 .. Len(b) : b[m] \in Inflight => \E k \in 1 .. n : e[k] = m
    BY HeldAre
  <1>3. PICK v : /\ v[0] = list /\ v[n] = RestoreInto(list, items)
                 /\ \A k \in 1 .. n :
                       v[k] = IF items[k].request \in ToSet(v[k - 1]) THEN v[k - 1]
                              ELSE InsertAtIndex(v[k - 1], items[k])
    BY <1>1, RestoreSteps
  <1> HIDE DEF items, n
  <1> DEFINE Held(k) == {b[e[j]] : j \in 1 .. k}
             T == {k \in 0 .. n :
                     /\ v[k] \in Seq(Requests) /\ Distinct(v[k])
                     /\ ToSet(v[k]) = ToSet(list) \cup Held(k)
                     /\ InOrder(b, list) /\ TailGone(b, list, gone) => InOrder(b, v[k])}
  <1>4. 0 \in T
    <2>1. Held(0) = {}
      OBVIOUS
    <2> QED
      BY <1>1, <1>3, <2>1
  <1>5. ASSUME NEW k \in 0 .. n, k \in T, k < n
        PROVE  k + 1 \in T
    <2> DEFINE m == k + 1
               acc == v[k]
               a == e[m]
               x == b[a]
               p == Place(acc, items[m])
    <2>1. m \in 1 .. n /\ m \in 0 .. n /\ m - 1 = k /\ k \in Nat
      BY <1>1, <1>5
    <2>2. /\ acc \in Seq(Requests) /\ Distinct(acc) /\ ToSet(acc) = ToSet(list) \cup Held(k)
          /\ InOrder(b, list) /\ TailGone(b, list, gone) => InOrder(b, acc)
      BY <1>5
    <2>3. /\ a \in 1 .. Len(b) /\ x \in Inflight /\ x \in ToSet(b) /\ x \in Requests
          /\ items[m].request = x /\ items[m].index = a - 1 /\ items[m] \in Items
      BY <1>1, <1>2, <2>1, InSet, InflightAssumption DEF n
    <2>4. \A j \in 1 .. k : e[j] \in 1 .. Len(b) /\ e[j] < a /\ j \in 1 .. n
      <3>1. \A j \in 1 .. k : j \in 1 .. n /\ j < m
        BY <1>1, <2>1
      <3> QED
        BY <1>2, <2>1, <3>1
    <2>5. x \notin ToSet(acc)
      <3>1. x \notin ToSet(list)
        BY <2>3 DEF AfterSchedule
      <3>2. x \notin Held(k)
        BY <2>3, <2>4 DEF Distinct
      <3> QED
        BY <2>2, <3>1, <3>2
    <2>6. Held(m) = Held(k) \cup {x}
      <3>1. \A j : j \in 1 .. m <=> j \in 1 .. k \/ j = m
        BY <2>1
      <3> QED
        BY <3>1
    <2> HIDE DEF T, acc, a, m, x
    <2>7. v[m] = Inserted(acc, p, x) /\ p \in 0 .. Len(acc)
      <3>1. v[m] = IF items[m].request \in ToSet(v[m - 1]) THEN v[m - 1]
                   ELSE InsertAtIndex(v[m - 1], items[m])
        BY <1>3, <2>1
      <3>2. v[m] = InsertAtIndex(acc, items[m])
        BY <2>1, <2>3, <2>5, <3>1 DEF acc
      <3> QED
        BY <2>2, <2>3, <3>2, InsertAtIndexIs
    <2>8. p = IF a - 1 <= Len(acc) THEN a - 1 ELSE Len(acc)
      BY <2>3 DEF Place
    <2> HIDE DEF p
    <2>9. v[m] \in Seq(Requests)
      BY <2>2, <2>3, <2>7, InsertedIs
    <2>10. Distinct(v[m]) /\ ToSet(v[m]) = ToSet(acc) \cup {x}
      BY <2>2, <2>3, <2>5, <2>7, InsertedFacts
    <2>11. ASSUME InOrder(b, list), TailGone(b, list, gone)
           PROVE  InOrder(b, v[m])
      <3>1. InOrder(b, acc)
        BY <2>2, <2>11
      <3>2. ASSUME NEW j \in 1 .. Len(acc)
            PROVE  acc[j] \in ToSet(acc)
        BY <2>2, InSet
      <3>3. ASSUME NEW c \in 1 .. Len(b), c < a
            PROVE  Before(b, b[c], x)
        BY <2>3, <3>3 DEF Before, x
      <3>4. CASE \A c \in 1 .. a - 1 : b[c] \in ToSet(acc)
        <4>1. a - 1 <= Len(acc) /\ \A i \in 1 .. a - 1 : acc[i] = b[i]
          <5>1. a \in 1 .. Len(b) /\ acc \in Seq(Requests) /\ Distinct(acc)
            BY <2>2, <2>3
          <5>2. \A m1 \in 1 .. a - 1 : b[m1] \in ToSet(acc)
            BY <3>4
          <5> HIDE <2>2, <2>3
          <5> QED
            BY <3>1, <5>1, <5>2, SameBeginning
        <4>2. p = a - 1 /\ a \in Nat /\ \A i \in 1 .. a - 1 : i \in 1 .. Len(b) /\ i < a
          BY <2>3, <2>8, <4>1
        <4>3. ASSUME NEW j \in 1 .. Len(acc)
              PROVE  IF j <= p THEN Before(b, acc[j], x) ELSE ~Before(b, acc[j], x)
          <5>1. CASE j <= p
            <6>1. j \in 1 .. a - 1
              BY <4>2, <5>1
            <6> QED
              BY <3>3, <4>1, <4>2, <5>1, <6>1
          <5>2. CASE ~(j <= p)
            <6> SUFFICES ASSUME Before(b, acc[j], x) PROVE FALSE
              BY <5>2
            <6>1. PICK c \in 1 .. Len(b), d \in 1 .. Len(b) : c < d /\ b[c] = acc[j] /\ b[d] = x
              BY DEF Before
            <6>2. d = a
              BY <2>3, <6>1 DEF Distinct, x
            <6>3. c \in 1 .. a - 1 /\ c \in 1 .. Len(acc) /\ c # j
              BY <4>1, <4>2, <5>2, <6>1, <6>2
            <6>4. acc[c] = acc[j]
              BY <4>1, <6>1, <6>3
            <6> QED
              BY <2>2, <6>3, <6>4 DEF Distinct
          <5> QED
            BY <5>1, <5>2
        <4> QED
          BY <2>2, <2>3, <2>5, <2>7, <3>1, <4>3, InsertInOrder
      <3>5. CASE \E c \in 1 .. a - 1 : b[c] \notin ToSet(acc)
        <4>1. PICK c \in 1 .. a - 1 : b[c] \notin ToSet(acc)
          BY <3>5
        <4>2. c \in 1 .. Len(b) /\ c < a /\ a \in Nat
          BY <2>3
        <4>3. b[c] \notin Inflight
          <5> SUFFICES ASSUME b[c] \in Inflight PROVE FALSE
            OBVIOUS
          <5>1. PICK j \in 1 .. n : e[j] = c
            BY <1>2, <4>2
          <5>2. j < m
            <6>1. ~(m < j) /\ j # m
              BY <1>2, <2>1, <4>2, <5>1 DEF a
            <6> QED
              BY <2>1, <6>1
          <5>3. j \in 1 .. k
            BY <2>1, <5>2
          <5>4. b[c] \in Held(k)
            BY <5>1, <5>3
          <5> QED
            BY <2>2, <4>1, <5>4
        <4>4. b[c] \in gone
          <5>1. b[c] \in ToSet(b) /\ b[c] \notin ToSet(list)
            BY <2>2, <4>1, <4>2, InSet
          <5> QED
            BY <4>3, <5>1 DEF AfterSchedule
        <4>5. ASSUME NEW y \in ToSet(acc)
              PROVE  Before(b, y, x)
          <5>1. CASE y \in Held(k)
            <6>1. PICK j \in 1 .. k : y = b[e[j]]
              BY <5>1
            <6> QED
              BY <2>4, <3>3, <6>1
          <5>2. CASE y \in ToSet(list)
            <6>1. y \in ToSet(b) /\ y \notin gone /\ y \notin Inflight
              BY <2>11, <4>4, <5>2 DEF TailGone, AfterSchedule
            <6>2. PICK d \in 1 .. Len(b) : b[d] = y
              BY <6>1, InSet
            <6>3. ~(c < d)
              <7>1. c < d => Before(b, b[c], y)
                BY <4>2, <6>2 DEF Before
              <7> QED
                BY <2>11, <4>4, <6>1, <7>1 DEF TailGone
            <6> QED
              BY <3>3, <4>2, <6>2, <6>3
          <5> QED
            BY <2>2, <5>1, <5>2
        <4>6. Len(acc) <= a - 1
          BY <2>2, <2>3, <4>5, ShortList DEF x
        <4>7. p = Len(acc)
          BY <2>2, <2>3, <2>8, <4>6
        <4>8. \A j \in 1 .. Len(acc) : j <= p /\ Before(b, acc[j], x)
          BY <3>2, <4>5, <4>7
        <4> QED
          BY <2>2, <2>3, <2>5, <2>7, <3>1, <4>8, InsertInOrder
      <3> QED
        BY <3>4, <3>5
    <2>12. ToSet(v[m]) = ToSet(list) \cup Held(m)
      BY <2>2, <2>6, <2>10
    <2> HIDE DEF Held
    <2>13. m \in T
      BY <2>1, <2>9, <2>10, <2>11, <2>12 DEF T
    <2> QED
      BY <2>13 DEF m
  <1>6. n \in T
    <2> HIDE DEF T
    <2>1. 0 .. n \subseteq T
      BY <1>1, <1>4, <1>5, AllUpTo DEF n
    <2> QED
      BY <1>1, <2>1 DEF n
  <1>7. Held(n) = ToSet(b) \cap Inflight
    <2>1. ASSUME NEW y \in Held(n)
          PROVE  y \in ToSet(b) /\ y \in Inflight
      BY <1>2, InSet
    <2>2. ASSUME NEW y \in ToSet(b), y \in Inflight
          PROVE  y \in Held(n)
      <3>1. PICK m \in 1 .. Len(b) : b[m] = y
        BY InSet
      <3> QED
        BY <1>2, <2>2, <3>1
    <2> QED
      BY <2>1, <2>2
  <1> QED
    BY <1>3, <1>6, <1>7 DEF items

-------------------------------------------------------------------------------
(* The original schedule() *)

\* Entries that are appended come after the others.
LEMMA ConcatFacts ==
    ASSUME NEW X, NEW list \in Seq(X), NEW more \in Seq(X), Distinct(list), Distinct(more),
           ToSet(list) \cap ToSet(more) = {}
    PROVE  /\ list \o more \in Seq(X) /\ Distinct(list \o more)
           /\ ToSet(list \o more) = ToSet(list) \cup ToSet(more)
           /\ \A x, y : Before(list, x, y) => Before(list \o more, x, y)
           /\ \A x \in ToSet(list), y \in ToSet(more) : Before(list \o more, x, y)
  <1> DEFINE n == Len(list)
             m == Len(more)
             all == list \o more
  <1>1. /\ all \in Seq(X) /\ Len(all) = n + m
        /\ \A i \in 1 .. n + m : all[i] = IF i <= n THEN list[i] ELSE more[i - n]
    BY ConcatProperties
  <1>2. n \in Nat /\ m \in Nat
    OBVIOUS
  <1>3. /\ \A x : x \in ToSet(list) <=> \E i \in 1 .. n : list[i] = x
        /\ \A x : x \in ToSet(more) <=> \E i \in 1 .. m : more[i] = x
        /\ \A x : x \in ToSet(all) <=> \E i \in 1 .. n + m : all[i] = x
    <2>1. /\ \A x : x \in ToSet(list) <=> \E i \in 1 .. n : list[i] = x
          /\ \A x : x \in ToSet(more) <=> \E i \in 1 .. m : more[i] = x
      BY InSet
    <2>2. \A x : x \in ToSet(all) <=> \E i \in 1 .. Len(all) : all[i] = x
      <3>1. all \in Seq(X)
        BY <1>1
      <3> HIDE DEF all
      <3> QED
        BY <3>1, InSet
    <2> QED
      BY <1>1, <2>1, <2>2
  <1>4. /\ \A i, j \in 1 .. n : list[i] = list[j] => i = j
        /\ \A i, j \in 1 .. m : more[i] = more[j] => i = j
    BY DEF Distinct
  <1>5. /\ \A x, y : Before(list, x, y) <=> \E i, j \in 1 .. n : i < j /\ list[i] = x /\ list[j] = y
        /\ \A x, y : Before(all, x, y) <=> \E i, j \in 1 .. n + m : i < j /\ all[i] = x /\ all[j] = y
    BY <1>1 DEF Before
  <1> HIDE DEF n, m, all
  <1>6. \A i \in 1 .. n : i \in 1 .. n + m /\ all[i] = list[i]
    BY <1>1, <1>2
  <1>7. \A i \in 1 .. m : n + i \in 1 .. n + m /\ all[n + i] = more[i]
    <2> TAKE i \in 1 .. m
    <2>1. n + i \in 1 .. n + m /\ ~(n + i <= n) /\ (n + i) - n = i
      BY <1>2
    <2> QED
      BY <1>1, <2>1
  <1>8. \A i \in 1 .. n + m : i \in 1 .. n \/ \E j \in 1 .. m : i = n + j
    <2> TAKE i \in 1 .. n + m
    <2>1. CASE i <= n
      BY <1>2, <2>1
    <2>2. CASE ~(i <= n)
      <3>1. i - n \in 1 .. m /\ i = n + (i - n)
        BY <1>2, <2>2
      <3> QED
        BY <3>1
    <2> QED
      BY <2>1, <2>2
  <1>9. \A i \in 1 .. n, j \in 1 .. m : list[i] # more[j]
    <2> SUFFICES ASSUME NEW i \in 1 .. n, NEW j \in 1 .. m, list[i] = more[j] PROVE FALSE
      OBVIOUS
    <2>1. list[i] \in ToSet(list) /\ list[i] \in ToSet(more)
      BY <1>3
    <2> QED
      BY <2>1
  <1>10. ASSUME NEW i \in 1 .. n + m, NEW j \in 1 .. n + m, all[i] = all[j]
         PROVE  i = j
    <2>1. CASE i \in 1 .. n /\ j \in 1 .. n
      BY <1>4, <1>6, <1>10, <2>1
    <2>2. CASE i \in 1 .. n /\ \E k \in 1 .. m : j = n + k
      BY <1>6, <1>7, <1>9, <1>10, <2>2
    <2>3. CASE j \in 1 .. n /\ \E k \in 1 .. m : i = n + k
      BY <1>6, <1>7, <1>9, <1>10, <2>3
    <2>4. CASE (\E k \in 1 .. m : i = n + k) /\ (\E k \in 1 .. m : j = n + k)
      <3>1. PICK k \in 1 .. m : i = n + k
        BY <2>4
      <3>2. PICK l \in 1 .. m : j = n + l
        BY <2>4
      <3>3. more[k] = more[l]
        BY <1>7, <1>10, <3>1, <3>2
      <3> QED
        BY <1>4, <3>1, <3>2, <3>3
    <2> QED
      BY <1>8, <2>1, <2>2, <2>3, <2>4
  <1>11. Distinct(all)
    BY <1>1, <1>10 DEF Distinct
  <1>12. ASSUME NEW x
         PROVE  x \in ToSet(all) <=> x \in ToSet(list) \cup ToSet(more)
    <2>1. ASSUME x \in ToSet(all)
          PROVE  x \in ToSet(list) \cup ToSet(more)
      <3>1. PICK i \in 1 .. n + m : all[i] = x
        BY <1>3, <2>1
      <3>2. CASE i \in 1 .. n
        BY <1>3, <1>6, <3>1, <3>2
      <3>3. CASE \E k \in 1 .. m : i = n + k
        BY <1>3, <1>7, <3>1, <3>3
      <3> QED
        BY <1>8, <3>1, <3>2, <3>3
    <2>2. x \in ToSet(list) => x \in ToSet(all)
      BY <1>3, <1>6
    <2>3. x \in ToSet(more) => x \in ToSet(all)
      BY <1>3, <1>7
    <2> QED
      BY <2>1, <2>2, <2>3
  <1>13. ASSUME NEW x, NEW y, Before(list, x, y)
         PROVE  Before(all, x, y)
    BY <1>5, <1>6, <1>13
  <1>14. ASSUME NEW x \in ToSet(list), NEW y \in ToSet(more)
         PROVE  Before(all, x, y)
    <2>1. PICK i \in 1 .. n : list[i] = x
      BY <1>3
    <2>2. PICK j \in 1 .. m : more[j] = y
      BY <1>3
    <2>3. i < n + j /\ i \in 1 .. n + m /\ n + j \in 1 .. n + m
      BY <1>2
    <2>4. all[i] = x /\ all[n + j] = y
      BY <1>6, <1>7, <2>1, <2>2
    <2> QED
      BY <1>5, <2>3, <2>4
  <1>15. ToSet(all) = ToSet(list) \cup ToSet(more)
    BY <1>12
  <1> QED
    BY <1>1, <1>11, <1>13, <1>14, <1>15 DEF all

\* The requests the original schedule() sees.
Visible(b) == Those(b, Requests \ Inflight)

\* What schedule() sees: the requests not in flight, in order.
LEMMA VisibleFacts ==
    ASSUME NEW b \in Seq(Requests), Distinct(b)
    PROVE  /\ Visible(b) \in Seq(Requests) /\ Distinct(Visible(b))
           /\ ToSet(Visible(b)) = ToSet(b) \ Inflight
           /\ \A x \in ToSet(b) \ Inflight, y \in ToSet(b) \ Inflight :
                 Before(b, x, y) => Before(Visible(b), x, y)
  <1>1. \A x \in ToSet(b) : x \in Requests
    BY InSet
  <1>2. /\ Visible(b) \in Seq(Requests) /\ Distinct(Visible(b))
        /\ ToSet(Visible(b)) = ToSet(b) \cap (Requests \ Inflight)
        /\ \A x, y : Before(Visible(b), x, y)
                 <=> x \in Requests \ Inflight /\ y \in Requests \ Inflight /\ Before(b, x, y)
    BY ThoseFacts DEF Visible
  <1> QED
    BY <1>1, <1>2

\* It preempts some of them.
LEMMA PreemptFacts ==
    ASSUME NEW b \in Seq(Requests), Distinct(b), NEW gone \in SUBSET ToSet(Visible(b))
    PROVE  /\ AfterSchedule(b, Those(Visible(b), Requests \ gone), gone)
           /\ InOrder(b, Those(Visible(b), Requests \ gone))
           /\ ToSet(Those(Visible(b), Requests \ gone)) \subseteq ToSet(b)
  <1> DEFINE seen == Visible(b)
             left == Those(seen, Requests \ gone)
  <1>1. /\ seen \in Seq(Requests) /\ Distinct(seen)
        /\ ToSet(seen) = ToSet(b) \ Inflight
        /\ \A x \in ToSet(b) \ Inflight, y \in ToSet(b) \ Inflight :
              Before(b, x, y) => Before(seen, x, y)
    BY VisibleFacts
  <1>2. \A x \in ToSet(b) : x \in Requests
    BY InSet
  <1> HIDE DEF seen
  <1>3. /\ left \in Seq(Requests) /\ Distinct(left)
        /\ ToSet(left) = ToSet(seen) \cap (Requests \ gone)
        /\ \A x, y : Before(left, x, y)
                 <=> x \in Requests \ gone /\ y \in Requests \ gone /\ Before(seen, x, y)
    BY <1>1, ThoseFacts
  <1>4. gone \subseteq ToSet(b) \ Inflight
    BY <1>1 DEF seen
  <1> HIDE DEF left
  <1>5. AfterSchedule(b, left, gone)
    BY <1>1, <1>2, <1>3, <1>4 DEF AfterSchedule
  <1>6. InOrder(b, left)
    BY <1>1, <1>2, <1>3 DEF InOrder
  <1>7. ToSet(left) \subseteq ToSet(b)
    BY <1>1, <1>3
  <1> QED
    BY <1>5, <1>6, <1>7 DEF left, seen

\* Under fcfs it preempts from the end.
LEMMA TailFacts ==
    ASSUME NEW b \in Seq(Requests), Distinct(b), NEW n \in 0 .. Len(Visible(b)), NEW gone,
           gone = ToSet(SubSeq(Visible(b), n + 1, Len(Visible(b)))),
           ToSet(Those(Visible(b), Requests \ gone)) \subseteq ToSet(b)
    PROVE  TailGone(b, Those(Visible(b), Requests \ gone), gone)
  <1> DEFINE seen == Visible(b)
             tail == SubSeq(seen, n + 1, Len(seen))
  <1>1. /\ seen \in Seq(Requests) /\ Distinct(seen)
        /\ ToSet(seen) = ToSet(b) \ Inflight
        /\ \A x \in ToSet(b) \ Inflight, y \in ToSet(b) \ Inflight :
              Before(b, x, y) => Before(seen, x, y)
    BY VisibleFacts
  <1>2. n \in Nat /\ n <= Len(seen) /\ Len(seen) \in Nat
    BY <1>1
  <1> HIDE DEF seen
  <1>3. /\ tail \in Seq(Requests) /\ Len(tail) = Len(seen) - n
        /\ \A i \in 1 .. Len(seen) - n : tail[i] = seen[n + i]
    BY <1>1, <1>2
  <1> HIDE DEF tail
  <1>4. ASSUME NEW x
        PROVE  x \in ToSet(tail) <=> \E i \in n + 1 .. Len(seen) : seen[i] = x
    <2>1. x \in ToSet(tail) <=> \E i \in 1 .. Len(seen) - n : tail[i] = x
      BY <1>3, InSet
    <2>2. ASSUME NEW i \in n + 1 .. Len(seen), seen[i] = x
          PROVE  x \in ToSet(tail)
      <3>1. i - n \in 1 .. Len(seen) - n /\ n + (i - n) = i
        BY <1>2
      <3> QED
        BY <1>3, <2>1, <2>2, <3>1
    <2>3. ASSUME NEW i \in 1 .. Len(seen) - n, tail[i] = x
          PROVE  n + i \in n + 1 .. Len(seen) /\ seen[n + i] = x
      <3>1. n + i \in n + 1 .. Len(seen)
        BY <1>2, <2>3
      <3>2. tail[i] = seen[n + i]
        BY <1>3, <2>3
      <3> QED
        BY <2>3, <3>1, <3>2
    <2> QED
      BY <2>1, <2>2, <2>3
  <1>5. gone = ToSet(tail)
    BY DEF tail, seen
  <1>6. ASSUME NEW x \in gone, NEW y \in ToSet(b) \ Inflight, Before(b, x, y)
        PROVE  y \in gone
    <2>1. PICK k \in n + 1 .. Len(seen) : seen[k] = x
      BY <1>4, <1>5
    <2>2. k \in 1 .. Len(seen) /\ k \in Nat /\ k > n
      BY <1>2
    <2>3. x \in ToSet(b) \ Inflight
      <3>1. x \in ToSet(seen)
        BY <1>1, <2>1, <2>2, InSet
      <3> QED
        BY <1>1, <3>1
    <2>4. Before(seen, x, y)
      BY <1>1, <1>6, <2>3
    <2>5. PICK i \in 1 .. Len(seen), j \in 1 .. Len(seen) : i < j /\ seen[i] = x /\ seen[j] = y
      BY <2>4 DEF Before
    <2>6. i = k
      BY <1>1, <2>1, <2>2, <2>5 DEF Distinct
    <2>7. j \in n + 1 .. Len(seen)
      BY <1>2, <2>2, <2>5, <2>6
    <2> QED
      BY <1>4, <1>5, <2>5, <2>7
  <1> QED
    BY <1>6 DEF TailGone

\* Or it admits some others.
LEMMA AdmitFacts ==
    ASSUME NEW b \in Seq(Requests), Distinct(b), NEW more \in Seq(Requests), Distinct(more),
           ToSet(more) \cap (ToSet(b) \cup Inflight) = {}
    PROVE  /\ AfterSchedule(b, Visible(b) \o more, {})
           /\ InOrder(b, Visible(b) \o more)
           /\ TailGone(b, Visible(b) \o more, {})
  <1> DEFINE seen == Visible(b)
             all == seen \o more
  <1>1. /\ seen \in Seq(Requests) /\ Distinct(seen)
        /\ ToSet(seen) = ToSet(b) \ Inflight
        /\ \A x \in ToSet(b) \ Inflight, y \in ToSet(b) \ Inflight :
              Before(b, x, y) => Before(seen, x, y)
    BY VisibleFacts
  <1> HIDE DEF seen
  <1>2. ToSet(seen) \cap ToSet(more) = {}
    BY <1>1
  <1>3. /\ all \in Seq(Requests) /\ Distinct(all)
        /\ ToSet(all) = ToSet(seen) \cup ToSet(more)
        /\ \A x, y : Before(seen, x, y) => Before(all, x, y)
        /\ \A x \in ToSet(seen), y \in ToSet(more) : Before(all, x, y)
    BY <1>1, <1>2, ConcatFacts
  <1> HIDE DEF all
  <1>4. AfterSchedule(b, all, {})
    BY <1>1, <1>3 DEF AfterSchedule
  <1>5. ASSUME NEW x \in ToSet(all), NEW y \in ToSet(all)
        PROVE  /\ Before(b, x, y) => Before(all, x, y)
               /\ x \in ToSet(b) /\ y \notin ToSet(b) => Before(all, x, y)
    <2>1. ASSUME Before(b, x, y)
          PROVE  x \in ToSet(b) /\ y \in ToSet(b)
      BY <2>1, InSet DEF Before
    <2> QED
      BY <1>1, <1>3, <2>1
  <1>6. InOrder(b, all)
    BY <1>5 DEF InOrder
  <1> QED
    BY <1>4, <1>6 DEF all, seen, TailGone

-------------------------------------------------------------------------------
(* The invariant *)

\* Where the list is on its way through schedule().
ListInv ==
    /\ before \in Seq(Requests) /\ Distinct(before)
    /\ phase \in {"hold", "schedule", "restore", "done", "moved", "merged", "back"}
    /\ phase = "hold" => running = before /\ preempted = {}
    /\ phase = "schedule" => running = Visible(before) /\ skipped = HeldOf(before) /\ preempted = {}
    /\ phase = "restore" =>
          /\ skipped = HeldOf(before)
          /\ AfterSchedule(before, running, preempted)
          /\ policy = "fcfs" => InOrder(before, running) /\ TailGone(before, running, preempted)
    /\ phase \in {"done", "moved", "merged", "back"} =>
          /\ running \in Seq(Requests) /\ Distinct(running)
          /\ ToSet(before) \ preempted \subseteq ToSet(running)
          /\ ToSet(running) \cap preempted = {}
          /\ policy = "fcfs" => InOrder(before, running)

\* Before schedule() the list is as it was.
LEMMA ListInvInit == Init => ListInv
  BY ListsAre DEF Init, ListInv

\* The hold leaves the visible requests in the list.
LEMMA ListInvHold == ListInv /\ Hold => ListInv'
  BY DEF ListInv, Hold, Visible, HeldOf

\* Whatever the original schedule() preempts or admits.
LEMMA ListInvSchedule == ListInv /\ OriginalSchedule => ListInv'
  <1> SUFFICES ASSUME ListInv, OriginalSchedule PROVE ListInv'
    OBVIOUS
  <1>1. /\ before \in Seq(Requests) /\ Distinct(before)
        /\ running = Visible(before) /\ skipped = HeldOf(before) /\ preempted = {}
    BY DEF ListInv, OriginalSchedule
  <1>2. /\ phase' = "restore" /\ skipped' = skipped /\ policy' = policy /\ before' = before
    BY DEF OriginalSchedule
  <1>3. SUFFICES /\ AfterSchedule(before, running', preempted')
                 /\ policy = "fcfs" => /\ InOrder(before, running')
                                       /\ TailGone(before, running', preempted')
    BY <1>1, <1>2 DEF ListInv
  <1>4. CASE \E gone \in SUBSET ToSet(running) :
               /\ policy = "fcfs" =>
                     \E n \in 0 .. Len(running) : gone = ToSet(SubSeq(running, n + 1, Len(running)))
               /\ preempted' = gone
               /\ running' = Those(running, Requests \ gone)
    <2>1. PICK gone \in SUBSET ToSet(Visible(before)) :
             /\ policy = "fcfs" => \E n \in 0 .. Len(Visible(before)) :
                   gone = ToSet(SubSeq(Visible(before), n + 1, Len(Visible(before))))
             /\ preempted' = gone
             /\ running' = Those(Visible(before), Requests \ gone)
      BY <1>1, <1>4
    <2>2. /\ AfterSchedule(before, running', preempted')
          /\ InOrder(before, running')
          /\ ToSet(running') \subseteq ToSet(before)
      BY <1>1, <2>1, PreemptFacts
    <2>3. ASSUME policy = "fcfs"
          PROVE  TailGone(before, running', preempted')
      <3>1. PICK n \in 0 .. Len(Visible(before)) :
               gone = ToSet(SubSeq(Visible(before), n + 1, Len(Visible(before))))
        BY <2>1, <2>3
      <3>2. ToSet(Those(Visible(before), Requests \ gone)) \subseteq ToSet(before)
        BY <2>1, <2>2
      <3>3. TailGone(before, Those(Visible(before), Requests \ gone), gone)
        BY <1>1, <3>1, <3>2, TailFacts
      <3> QED
        BY <2>1, <3>3
    <2> QED
      BY <2>2, <2>3
  <1>5. CASE \E admitted \in Lists :
               /\ ToSet(admitted) \cap (ToSet(before) \cup Inflight) = {}
               /\ running' = running \o admitted
               /\ UNCHANGED preempted
    <2>1. PICK more \in Lists :
             /\ ToSet(more) \cap (ToSet(before) \cup Inflight) = {}
             /\ running' = Visible(before) \o more /\ preempted' = {}
      BY <1>1, <1>5
    <2>2. more \in Seq(Requests) /\ Distinct(more)
      BY ListsAre
    <2> QED
      BY <1>1, <2>1, <2>2, AdmitFacts
  <1> QED
    BY <1>4, <1>5 DEF OriginalSchedule

\* The restore puts the held requests back, each where it belongs.
LEMMA ListInvRestore == ListInv /\ Restore => ListInv'
  <1> SUFFICES ASSUME ListInv, Restore PROVE ListInv'
    OBVIOUS
  <1>1. /\ before \in Seq(Requests) /\ Distinct(before)
        /\ skipped = HeldOf(before)
        /\ AfterSchedule(before, running, preempted)
        /\ policy = "fcfs" => InOrder(before, running) /\ TailGone(before, running, preempted)
    BY DEF ListInv, Restore
  <1>2. /\ running' = RestoreInto(running, skipped)
        /\ phase' = "done" /\ policy' = policy /\ before' = before /\ preempted' = preempted
    BY DEF Restore
  <1>3. /\ running' \in Seq(Requests) /\ Distinct(running')
        /\ ToSet(running') = ToSet(running) \cup (ToSet(before) \cap Inflight)
        /\ policy = "fcfs" => InOrder(before, running')
    BY <1>1, <1>2, RestoreFacts
  <1>4. /\ ToSet(before) \ preempted \subseteq ToSet(running')
        /\ ToSet(running') \cap preempted = {}
    BY <1>1, <1>3 DEF AfterSchedule
  <1> QED
    BY <1>1, <1>2, <1>3, <1>4 DEF ListInv, Distinct, InOrder, Before, ToSet

\* The rest of the step leaves the list alone.
LEMMA ListInvKept ==
    /\ ListInv /\ (Move \/ Merge \/ MoveBack) => ListInv'
    /\ ListInv /\ UNCHANGED vars => ListInv'
  <1>1. ASSUME ListInv, UNCHANGED vars
        PROVE  ListInv'
    BY <1>1 DEF ListInv, vars
  <1>2. ASSUME ListInv, UNCHANGED <<running, skipped, policy, before, preempted>>,
               phase \in {"done", "moved", "merged"}, phase' \in {"moved", "merged", "back"}
        PROVE  ListInv'
    BY <1>2 DEF ListInv, InOrder, Distinct, Before
  <1> QED
    BY <1>1, <1>2 DEF Move, Merge, MoveBack

\* The list is as claimed in every phase.
LEMMA ListInvInvariant == StepSpec => []ListInv
  <1>1. StepInit => ListInv
    BY ListInvInit DEF StepInit
  <1>2. ListInv /\ [StepNext]_<<vars, stepVars>> => ListInv'
    BY ListInvHold, ListInvSchedule, ListInvRestore, ListInvKept DEF StepNext, Next
  <1> QED
    BY <1>1, <1>2, PTL DEF StepSpec

\* Nobody is lost or doubled by a patched schedule(): the batch is what it was, less the
\* preempted, with the admitted, each once.  Code: scheduler.py:276-308, the skip of known
\* ids and min(index, len).
THEOREM NobodyIsLost == StepSpec => []NobodyLost
  <1>1. ListInv => NobodyLost
    BY DistinctCardinality DEF ListInv, NobodyLost
  <1> QED
    BY <1>1, ListInvInvariant, PTL

\* The index of an entry of a list without repetition is its place.
LEMMA PositionIs ==
    ASSUME NEW X, NEW list \in Seq(X), Distinct(list), NEW i \in 1 .. Len(list)
    PROVE  Position(list, list[i]) = i
  <1>1. DOMAIN list = 1 .. Len(list)
    OBVIOUS
  <1>2. /\ Position(list, list[i]) \in DOMAIN list
        /\ list[Position(list, list[i])] = list[i]
    BY <1>1, Zenon DEF Position
  <1> QED
    BY <1>1, <1>2 DEF Distinct

\* Before, by position.
LEMMA PositionBefore ==
    ASSUME NEW X, NEW list \in Seq(X), Distinct(list), NEW x \in ToSet(list), NEW y \in ToSet(list)
    PROVE  Before(list, x, y) <=> Position(list, x) < Position(list, y)
  <1>1. PICK i \in 1 .. Len(list) : list[i] = x
    BY InSet
  <1>2. PICK j \in 1 .. Len(list) : list[j] = y
    BY InSet
  <1>3. Position(list, x) = i /\ Position(list, y) = j
    BY <1>1, <1>2, PositionIs
  <1> QED
    BY <1>1, <1>2, <1>3 DEF Before, Distinct

\* Under fcfs no request overtakes another one through a patched schedule(), held or not,
\* and the admitted come last.  Code: scheduler.py:276-308, the recorded indices still fit
\* the list when it has only grown or lost its end.
THEOREM OrderIsKept == StepSpec => []OrderKept
  <1>1. ASSUME ListInv, phase = "done", policy = "fcfs",
               NEW r \in ToSet(running), NEW s \in ToSet(running)
        PROVE  /\ r \in ToSet(before) /\ s \in ToSet(before) /\ Position(before, r) < Position(before, s)
                  => Position(running, r) < Position(running, s)
               /\ r \in ToSet(before) /\ s \notin ToSet(before)
                  => Position(running, r) < Position(running, s)
    <2>1. /\ before \in Seq(Requests) /\ Distinct(before)
          /\ running \in Seq(Requests) /\ Distinct(running)
          /\ Before(before, r, s) => Before(running, r, s)
          /\ r \in ToSet(before) /\ s \notin ToSet(before) => Before(running, r, s)
      BY <1>1 DEF ListInv, InOrder
    <2>2. Before(running, r, s) => Position(running, r) < Position(running, s)
      BY <2>1, PositionBefore
    <2>3. r \in ToSet(before) /\ s \in ToSet(before) /\ Position(before, r) < Position(before, s)
            => Before(before, r, s)
      BY <2>1, PositionBefore
    <2> QED
      BY <2>1, <2>2, <2>3
  <1>2. ListInv => OrderKept
    BY <1>1 DEF OrderKept
  <1> QED
    BY <1>2, ListInvInvariant, PTL

-------------------------------------------------------------------------------
(* The parts of the lists of a step *)

\* Lists of the same requests in the same order are the same list.
LEMMA SameList ==
    ASSUME NEW X, NEW p \in Seq(X), NEW q \in Seq(X), Distinct(p), Distinct(q),
           ToSet(p) = ToSet(q), \A x, y : Before(p, x, y) => Before(q, x, y)
    PROVE  p = q
  <1> DEFINE n == Len(p)
  <1>1. n \in Nat /\ Len(q) = n
    BY DistinctCardinality
  <1>2. /\ p \in [1 .. n -> X] /\ q \in [1 .. n -> X]
    BY <1>1
  <1>3. SUFFICES ASSUME n # 0
                 PROVE  \A i \in 1 .. n : p[i] = q[i]
    BY <1>1, <1>2
  <1>4. InOrder(p, q)
    BY DEF InOrder
  <1>5. \A i \in 1 .. n : p[i] \in ToSet(q)
    BY InSet
  <1>6. n \in 1 .. Len(p)
    BY <1>1, <1>3
  <1>7. \A i \in 1 .. n - 1 : q[i] = p[i]
    <2>1. \A i \in 1 .. n - 1 : p[i] \in ToSet(q)
      BY <1>1, <1>5
    <2> QED
      BY <1>4, <1>6, <2>1, SameBeginning
  <1>8. PICK j \in 1 .. n : q[j] = p[n]
    BY <1>1, <1>5, <1>6, InSet
  <1>9. j = n
    <2> SUFFICES ASSUME j # n PROVE FALSE
      OBVIOUS
    <2>1. j \in 1 .. n - 1
      BY <1>1
    <2> QED
      BY <1>1, <1>6, <1>7, <1>8, <2>1 DEF Distinct
  <1> QED
    BY <1>1, <1>7, <1>8, <1>9

\* Only what is in the list counts.
LEMMA ThoseSame ==
    ASSUME NEW X, NEW list \in Seq(X), Distinct(list), NEW S, NEW T,
           ToSet(list) \cap S = ToSet(list) \cap T
    PROVE  Those(list, S) = Those(list, T)
  <1> DEFINE p == Those(list, S)
             q == Those(list, T)
  <1>1. /\ p \in Seq(X) /\ Distinct(p)
        /\ ToSet(p) = ToSet(list) \cap S
        /\ \A x, y : Before(p, x, y) <=> x \in S /\ y \in S /\ Before(list, x, y)
    BY ThoseFacts
  <1>2. /\ q \in Seq(X) /\ Distinct(q)
        /\ ToSet(q) = ToSet(list) \cap T
        /\ \A x, y : Before(q, x, y) <=> x \in T /\ y \in T /\ Before(list, x, y)
    BY ThoseFacts
  <1> HIDE DEF p, q
  <1>3. ASSUME NEW x, NEW y, Before(p, x, y)
        PROVE  Before(q, x, y)
    <2>1. x \in ToSet(p) /\ y \in ToSet(p)
      BY <1>1, <1>3, InSet DEF Before
    <2> QED
      BY <1>1, <1>2, <1>3, <2>1
  <1>4. p = q
    BY <1>1, <1>2, <1>3, SameList
  <1> QED
    BY <1>4 DEF p, q

\* What is taken out twice is taken out once.
LEMMA ThoseOfThose ==
    ASSUME NEW X, NEW list \in Seq(X), Distinct(list), NEW S, NEW T
    PROVE  Those(Those(list, S), T) = Those(list, S \cap T)
  <1>1. /\ Those(list, S) \in Seq(X) /\ Distinct(Those(list, S))
        /\ ToSet(Those(list, S)) = ToSet(list) \cap S
        /\ \A x, y : Before(Those(list, S), x, y) <=> x \in S /\ y \in S /\ Before(list, x, y)
    BY ThoseFacts
  <1>2. /\ Those(list, S \cap T) \in Seq(X) /\ Distinct(Those(list, S \cap T))
        /\ ToSet(Those(list, S \cap T)) = ToSet(list) \cap (S \cap T)
        /\ \A x, y : Before(Those(list, S \cap T), x, y)
                 <=> x \in S \cap T /\ y \in S \cap T /\ Before(list, x, y)
    BY ThoseFacts
  <1> DEFINE p == Those(list, S)
             q == Those(list, S \cap T)
  <1>3. /\ p \in Seq(X) /\ Distinct(p)
    BY <1>1
  <1> HIDE DEF p, q
  <1>4. /\ Those(p, T) \in Seq(X) /\ Distinct(Those(p, T))
        /\ ToSet(Those(p, T)) = ToSet(p) \cap T
        /\ \A x, y : Before(Those(p, T), x, y) <=> x \in T /\ y \in T /\ Before(p, x, y)
    BY <1>3, ThoseFacts
  <1>5. /\ ToSet(p) = ToSet(list) \cap S
        /\ \A x, y : Before(p, x, y) <=> x \in S /\ y \in S /\ Before(list, x, y)
    BY <1>1 DEF p
  <1>6. /\ q \in Seq(X) /\ Distinct(q)
        /\ ToSet(q) = ToSet(list) \cap (S \cap T)
        /\ \A x, y : Before(q, x, y) <=> x \in S \cap T /\ y \in S \cap T /\ Before(list, x, y)
    BY <1>2 DEF q
  <1>7. ToSet(Those(p, T)) = ToSet(q)
    BY <1>4, <1>5, <1>6
  <1>8. \A x, y : Before(Those(p, T), x, y) => Before(q, x, y)
    BY <1>4, <1>5, <1>6
  <1>9. Those(p, T) = q
    BY <1>4, <1>6, <1>7, <1>8, SameList
  <1> QED
    BY <1>9 DEF p, q

\* A list by the places of some of its entries.
LEMMA ByPlaces ==
    ASSUME NEW X, NEW ids \in Seq(X), Distinct(ids), NEW S,
           NEW places, places = Those([i \in DOMAIN ids |-> i], {i \in DOMAIN ids : ids[i] \in S})
    PROVE  [k \in DOMAIN places |-> ids[places[k]]] = Those(ids, S)
  <1> DEFINE n == Len(ids)
             all == [i \in DOMAIN ids |-> i]
             at == {i \in DOMAIN ids : ids[i] \in S}
             part == [k \in DOMAIN places |-> ids[places[k]]]
  <1>1. n \in Nat /\ DOMAIN ids = 1 .. n /\ \A i \in 1 .. n : ids[i] \in X
    OBVIOUS
  <1>2. all \in Seq(Nat) /\ Len(all) = n /\ \A i \in 1 .. n : all[i] = i
    <2>1. all \in [1 .. n -> Nat]
      BY <1>1
    <2> QED
      BY <1>1, <2>1
  <1>3. places = Those(all, at)
    OBVIOUS
  <1>4. \A i \in 1 .. n : i \in at <=> ids[i] \in S
    BY <1>1
  <1> HIDE DEF all, at
  <1>5. places \in Seq(Nat) /\ \E e : Picks(places, all, n, at, e)
    BY <1>2, <1>3, ThosePicks
  <1>6. PICK e : Picks(places, all, n, at, e)
    BY <1>5
  <1> HIDE DEF n
  <1>7. /\ e \in [1 .. Len(places) -> 1 .. n]
        /\ \A i, j \in 1 .. Len(places) : i < j => e[i] < e[j]
        /\ \A k \in 1 .. Len(places) : places[k] = all[e[k]] /\ places[k] \in at
        /\ \A m \in 1 .. n : all[m] \in at => \E k \in 1 .. Len(places) : e[k] = m
    BY <1>6 DEF Picks
  <1>8. \A k \in 1 .. Len(places) : places[k] = e[k] /\ e[k] \in 1 .. n /\ ids[e[k]] \in S
    <2> TAKE k \in 1 .. Len(places)
    <2>1. e[k] \in 1 .. n /\ places[k] = all[e[k]] /\ places[k] \in at
      BY <1>7
    <2>2. all[e[k]] = e[k]
      BY <1>2, <2>1
    <2>3. e[k] \in at
      BY <2>1, <2>2
    <2> QED
      BY <1>4, <2>1, <2>2, <2>3
  <1>9. Len(places) \in Nat /\ DOMAIN places = 1 .. Len(places)
    BY <1>5
  <1>10. /\ part \in Seq(X) /\ Len(part) = Len(places)
         /\ \A k \in 1 .. Len(places) : part[k] = ids[e[k]]
    <2>1. part \in [1 .. Len(places) -> X]
      BY <1>1, <1>8, <1>9
    <2>2. \A k \in 1 .. Len(places) : part[k] = ids[e[k]]
      BY <1>8, <1>9
    <2> HIDE DEF part
    <2>3. part \in Seq(X) /\ Len(part) = Len(places)
      <3>1. PICK m \in Nat : m = Len(places)
        BY <1>9
      <3>2. part \in [1 .. m -> X]
        BY <2>1, <3>1
      <3>3. part \in Seq(X) /\ Len(part) = m
        BY <3>2
      <3> QED
        BY <3>1, <3>3
    <2> QED
      BY <2>2, <2>3
  <1> HIDE DEF part
  <1>11. Picks(part, ids, n, S, e)
    <2>1. /\ e \in [1 .. Len(part) -> 1 .. n]
          /\ \A i, j \in 1 .. Len(part) : i < j => e[i] < e[j]
      BY <1>7, <1>10
    <2>2. \A i \in 1 .. Len(part) : part[i] = ids[e[i]] /\ part[i] \in S
      BY <1>8, <1>10
    <2>3. ASSUME NEW m \in 1 .. n, ids[m] \in S
          PROVE  \E k \in 1 .. Len(part) : e[k] = m
      <3>1. all[m] = m /\ m \in at
        BY <1>2, <1>4, <2>3
      <3> QED
        BY <1>7, <1>10, <3>1
    <2> QED
      BY <2>1, <2>2, <2>3 DEF Picks
  <1>12. /\ Distinct(part)
         /\ ToSet(part) = ToSet(ids) \cap S
         /\ \A x, y : Before(part, x, y) <=> x \in S /\ y \in S /\ Before(ids, x, y)
    BY <1>10, <1>11, PicksFacts DEF n
  <1>13. /\ Those(ids, S) \in Seq(X)
         /\ Distinct(Those(ids, S))
         /\ ToSet(Those(ids, S)) = ToSet(ids) \cap S
         /\ \A x, y : Before(Those(ids, S), x, y) <=> x \in S /\ y \in S /\ Before(ids, x, y)
    BY ThoseFacts
  <1>14. ToSet(part) = ToSet(Those(ids, S)) /\ \A x, y : Before(part, x, y) => Before(Those(ids, S), x, y)
    BY <1>12, <1>13
  <1>15. part = Those(ids, S)
    BY <1>10, <1>12, <1>13, <1>14, SameList
  <1> QED
    BY <1>15 DEF part

\* Lists of cached data that have entries for the requests of ids, each its own.
CachedFor(cached, ids) ==
    cached \in [req_ids : {ids}, computed : {ids}, new_token_ids : {<<>>, ids}]

\* A part of them has them for these requests, in the same order.
LEMMA PartIs ==
    ASSUME NEW X, NEW ids \in Seq(X), Distinct(ids), NEW S, NEW cached, CachedFor(cached, ids)
    PROVE  CachedFor(Part(cached, S), Those(ids, S))
  <1> DEFINE places == Those([i \in DOMAIN ids |-> i], {i \in DOMAIN ids : ids[i] \in S})
  <1>1. [k \in DOMAIN places |-> ids[places[k]]] = Those(ids, S)
    BY ByPlaces
  <1>2. cached.req_ids = ids /\ cached.computed = ids /\ cached.new_token_ids \in {<<>>, ids}
    BY DEF CachedFor
  <1>3. Part(cached, S) = Entries(cached, places)
    BY <1>2 DEF Part
  <1> HIDE DEF places
  <1> QED
    BY <1>1, <1>2, <1>3 DEF Entries, CachedFor

-------------------------------------------------------------------------------
(* The step between the lanes *)

\* What a lane gets of the requests of all when it has those of T.
ViewOf(view, all, T) ==
    /\ view.tokens = ToSet(all) \cap T
    /\ view.new = Those(all, (Requests \ ToSet(before)) \cap T)
    /\ CachedFor(view.cached, Those(all, ToSet(before) \cap T))

\* The view of a lane has the requests of its part, each with its own entries.
LEMMA ViewFacts ==
    ASSUME NEW all \in Seq(Requests), Distinct(all), NEW T, NEW view, ViewOf(view, all, T)
    PROVE  /\ ToSet(Listed(view)) = view.tokens
           /\ Aligned(view.cached)
           /\ view.cached.req_ids = Those(all, ToSet(view.cached.req_ids))
           /\ Len(Listed(view)) = Cardinality(ToSet(all) \cap T)
           /\ Len(Listed(view)) \in Nat
  <1> DEFINE B == ToSet(before)
             new == Those(all, (Requests \ B) \cap T)
             known == Those(all, B \cap T)
  <1>1. /\ new \in Seq(Requests) /\ Distinct(new)
        /\ ToSet(new) = ToSet(all) \cap ((Requests \ B) \cap T)
    BY ThoseFacts
  <1>2. /\ known \in Seq(Requests) /\ Distinct(known)
        /\ ToSet(known) = ToSet(all) \cap (B \cap T)
        /\ \A x, y : Before(known, x, y) <=> x \in B \cap T /\ y \in B \cap T /\ Before(all, x, y)
    BY ThoseFacts
  <1>3. /\ view.tokens = ToSet(all) \cap T /\ view.new = new
        /\ view.cached.req_ids = known /\ view.cached.computed = known
        /\ view.cached.new_token_ids \in {<<>>, known}
    BY DEF ViewOf, CachedFor
  <1>4. \A x \in ToSet(all) : x \in Requests
    BY InSet
  <1> HIDE DEF new, known
  <1>5. /\ new \o known \in Seq(Requests) /\ Distinct(new \o known)
        /\ ToSet(new \o known) = ToSet(new) \cup ToSet(known)
    <2>1. ToSet(new) \cap ToSet(known) = {}
      BY <1>1, <1>2
    <2> QED
      BY <1>1, <1>2, <2>1, ConcatFacts
  <1>6. ToSet(new \o known) = ToSet(all) \cap T
    BY <1>1, <1>2, <1>4, <1>5
  <1>7. Listed(view) = new \o known
    BY <1>3 DEF Listed
  <1>8. Cardinality(ToSet(new \o known)) = Len(new \o known)
    BY <1>5, DistinctCardinality
  <1>9. Len(new \o known) \in Nat
    BY <1>5
  <1>10. known = Those(all, ToSet(known))
    <2>1. ToSet(all) \cap ToSet(known) = ToSet(all) \cap (B \cap T)
      BY <1>2
    <2>2. Those(all, ToSet(known)) = Those(all, B \cap T)
      BY <2>1, ThoseSame
    <2> QED
      BY <2>2 DEF known
  <1> QED
    BY <1>3, <1>6, <1>7, <1>8, <1>9, <1>10 DEF Aligned

\* The step that the scheduler hands over.
HandedOver ==
    /\ scheduled \in Seq(Requests) /\ Distinct(scheduled)
    /\ ToSet(scheduled) \cap Inflight = {}
    /\ \E offload \in SUBSET ToSet(scheduled), async \in BOOLEAN :
          step = Moved(OriginalStep(scheduled, async), offload)

\* _move_requests_to_prefill_output gives the lanes a part each.
LEMMA HandedOverByMove == ListInv /\ Move => HandedOver'
  <1> SUFFICES ASSUME ListInv, Move PROVE HandedOver'
    OBVIOUS
  <1>1. running \in Seq(Requests) /\ Distinct(running)
    BY DEF ListInv, Move
  <1>2. PICK chosen \in SUBSET (ToSet(running) \ Inflight) :
           /\ scheduled' = Those(running, chosen)
           /\ \E offload \in SUBSET ToSet(Those(running, chosen)), async \in BOOLEAN :
                 step' = Moved(OriginalStep(Those(running, chosen), async), offload)
    BY DEF Move
  <1>3. /\ Those(running, chosen) \in Seq(Requests) /\ Distinct(Those(running, chosen))
        /\ ToSet(Those(running, chosen)) \subseteq chosen
    <2>1. /\ Those(running, chosen) \in Seq(Requests) /\ Distinct(Those(running, chosen))
          /\ ToSet(Those(running, chosen)) = ToSet(running) \cap chosen
      BY <1>1, ThoseFacts
    <2> QED
      BY <2>1
  <1>4. ToSet(Those(running, chosen)) \cap Inflight = {}
    BY <1>2, <1>3
  <1>5. before' = before
    BY DEF Move
  <1> QED
    BY <1>2, <1>3, <1>4, <1>5 DEF HandedOver, OriginalStep

\* The scheduler cuts the prefill lane's part and the worker the decode lane's.
LEMMA LanesGet ==
    ASSUME ListInv, HandedOver
    PROVE  \E offload \in SUBSET ToSet(scheduled) :
              /\ ViewOf(PrefillView, scheduled, offload)
              /\ ViewOf(DecodeView, scheduled, ToSet(scheduled) \ offload)
  <1> DEFINE all == scheduled
             B == ToSet(before)
             new == Those(all, Requests \ B)
             known == Those(all, B)
  <1>1. PICK offload \in SUBSET ToSet(all), async \in BOOLEAN :
           step = Moved(OriginalStep(all, async), offload)
    BY DEF HandedOver
  <1>2. all \in Seq(Requests) /\ Distinct(all)
    BY DEF HandedOver
  <1> DEFINE T == ToSet(all) \ offload
             cached == [req_ids |-> known, computed |-> known,
                        new_token_ids |-> IF async THEN <<>> ELSE known]
  <1>3. /\ step.new = new /\ step.cached = cached
        /\ step.tokens = ToSet(all) \ offload
        /\ step.prefill_new = Those(new, offload)
        /\ step.prefill_cached = Part(cached, offload)
        /\ step.prefill_tokens = offload
    BY <1>1 DEF Moved, OriginalStep, NoStep
  <1>4. /\ new \in Seq(Requests) /\ Distinct(new)
        /\ ToSet(new) = ToSet(all) \cap (Requests \ B)
    BY <1>2, ThoseFacts
  <1>5. /\ known \in Seq(Requests) /\ Distinct(known)
        /\ ToSet(known) = ToSet(all) \cap B
    BY <1>2, ThoseFacts
  <1>6. CachedFor(cached, known)
    BY DEF CachedFor
  <1>7. \A S : /\ Those(new, S) = Those(all, (Requests \ B) \cap S)
               /\ Those(known, S) = Those(all, B \cap S)
    BY <1>2, ThoseOfThose
  <1> HIDE DEF new, known, cached
  <1>8. \A S : CachedFor(Part(cached, S), Those(known, S))
    BY <1>5, <1>6, PartIs
  <1>9. ViewOf(PrefillView, all, offload)
    BY <1>3, <1>7, <1>8 DEF PrefillView, ViewOf
  <1>10. \A S, R : ToSet(all) \cap S = ToSet(all) \cap R => Those(all, S) = Those(all, R)
    BY <1>2, ThoseSame
  <1>11. ASSUME offload = {}
         PROVE  ViewOf(DecodeView, all, T)
    <2>1. DecodeView = [new |-> new, cached |-> cached, tokens |-> ToSet(all)]
      BY <1>3, <1>11 DEF DecodeView
    <2>2. /\ ToSet(all) \cap ((Requests \ B) \cap T) = ToSet(all) \cap (Requests \ B)
          /\ ToSet(all) \cap (B \cap T) = ToSet(all) \cap B
          /\ ToSet(all) \cap T = ToSet(all)
      BY <1>11
    <2>3. new = Those(all, (Requests \ B) \cap T) /\ known = Those(all, B \cap T)
      BY <1>10, <2>2 DEF new, known
    <2> QED
      BY <1>6, <2>1, <2>2, <2>3 DEF ViewOf
  <1>12. ASSUME offload # {}
         PROVE  ViewOf(DecodeView, all, T)
    <2>1. /\ DecodeView.new = Those(new, Requests \ offload)
          /\ DecodeView.cached = Part(cached, ToSet(known) \ offload)
          /\ DecodeView.tokens = T
      BY <1>3, <1>6, <1>12 DEF DecodeView, CachedFor
    <2>2. /\ ToSet(all) \cap ((Requests \ B) \cap (Requests \ offload))
             = ToSet(all) \cap ((Requests \ B) \cap T)
          /\ ToSet(all) \cap (B \cap (ToSet(known) \ offload)) = ToSet(all) \cap (B \cap T)
          /\ ToSet(all) \cap T = T
      BY <1>5
    <2>3. /\ DecodeView.new = Those(all, (Requests \ B) \cap T)
          /\ Those(known, ToSet(known) \ offload) = Those(all, B \cap T)
      <3>1. Those(new, Requests \ offload) = Those(all, (Requests \ B) \cap (Requests \ offload))
        BY <1>7
      <3>2. Those(known, ToSet(known) \ offload) = Those(all, B \cap (ToSet(known) \ offload))
        BY <1>7
      <3>3. Those(all, (Requests \ B) \cap (Requests \ offload)) = Those(all, (Requests \ B) \cap T)
        BY <1>10, <2>2
      <3>4. Those(all, B \cap (ToSet(known) \ offload)) = Those(all, B \cap T)
        BY <1>10, <2>2
      <3> QED
        BY <2>1, <3>1, <3>2, <3>3, <3>4
    <2>4. CachedFor(DecodeView.cached, Those(all, B \cap T))
      BY <1>8, <2>1, <2>3
    <2> QED
      BY <2>1, <2>2, <2>3, <2>4 DEF ViewOf
  <1> QED
    BY <1>9, <1>11, <1>12

-------------------------------------------------------------------------------
(* Lists one after the other *)

IsFlat(f, seqs, k) ==
    f = [i \in 1 .. k |-> IF i = 1 THEN seqs[i] ELSE f[i - 1] \o seqs[i]]

\* The concatenation of the first outputs exists at every number of them.
LEMMA FlatExists ==
    ASSUME NEW X, NEW seqs \in Seq(Seq(X))
    PROVE  \E f \in [1 .. Len(seqs) -> Seq(X)] : IsFlat(f, seqs, Len(seqs))
  <1> DEFINE n == Len(seqs)
             T == {k \in 0 .. n : \E f \in [1 .. k -> Seq(X)] : IsFlat(f, seqs, k)}
  <1>1. n \in Nat /\ \A i \in 1 .. n : seqs[i] \in Seq(X)
    OBVIOUS
  <1> HIDE DEF n
  <1>2. 0 \in T
    <2> DEFINE f == [i \in 1 .. 0 |-> <<>>]
    <2>1. f \in [1 .. 0 -> Seq(X)] /\ IsFlat(f, seqs, 0)
      BY DEF IsFlat
    <2> HIDE DEF f
    <2>2. \E g \in [1 .. 0 -> Seq(X)] : IsFlat(g, seqs, 0)
      BY <2>1
    <2>3. 0 \in 0 .. n
      BY <1>1
    <2> QED
      BY <2>2, <2>3
  <1>3. ASSUME NEW k \in 0 .. n, k \in T, k < n
        PROVE  k + 1 \in T
    <2>1. PICK f \in [1 .. k -> Seq(X)] : IsFlat(f, seqs, k)
      BY <1>3
    <2> DEFINE m == k + 1
               value(h, i) == IF i = 1 THEN seqs[i] ELSE h[i - 1] \o seqs[i]
               g == [i \in 1 .. m |-> IF i = m THEN value(f, m) ELSE f[i]]
    <2>2. m \in 1 .. n /\ k \in Nat /\ \A i \in 1 .. m : i = m \/ i \in 1 .. k
      BY <1>1, <1>3
    <2>3. \A i \in 1 .. m : i # 1 => i - 1 \in 1 .. k
      BY <2>2
    <2>4. \A i \in 1 .. k : f[i] = value(f, i)
      BY <2>1 DEF IsFlat
    <2>5. value(f, m) \in Seq(X)
      <3>1. seqs[m] \in Seq(X) /\ m \in 1 .. m
        BY <1>1, <2>2
      <3>2. CASE m = 1
        BY <3>1, <3>2
      <3>3. CASE m # 1
        <4>1. f[m - 1] \in Seq(X)
          BY <2>3, <3>1, <3>3
        <4> HIDE DEF m
        <4>2. f[m - 1] \o seqs[m] \in Seq(X)
          BY <3>1, <4>1, ConcatProperties
        <4> QED
          BY <3>3, <4>2
      <3> QED
        BY <3>2, <3>3
    <2> HIDE DEF m
    <2>6. g \in [1 .. m -> Seq(X)]
      BY <2>2, <2>5
    <2>7. ASSUME NEW i \in 1 .. m
          PROVE  g[i] = value(g, i)
      <3>1. i # 1 => g[i - 1] = f[i - 1]
        <4>1. i # 1 => i - 1 # m /\ i - 1 \in 1 .. m
          BY <2>2, <2>3 DEF m
        <4> QED
          BY <4>1
      <3>2. g[i] = value(f, i)
        BY <2>2, <2>4
      <3> HIDE DEF g
      <3> QED
        BY <3>1, <3>2
    <2>8. g = [i \in 1 .. m |-> value(g, i)]
      <3> HIDE DEF value
      <3>1. g = [i \in 1 .. m |-> g[i]]
        OBVIOUS
      <3> HIDE DEF g
      <3> QED
        BY <2>7, <3>1
    <2>9. IsFlat(g, seqs, m)
      <3> HIDE DEF g
      <3> QED
        BY <2>8 DEF IsFlat
    <2> HIDE DEF g
    <2>10. m \in 0 .. n
      BY <2>2
    <2>11. m \in T
      BY <2>6, <2>9, <2>10
    <2> QED
      BY <2>11 DEF m
  <1>4. 0 .. n \subseteq T
    <2> HIDE DEF T
    <2> QED
      BY <1>1, <1>2, <1>3, AllUpTo
  <1>5. n \in T
    BY <1>1, <1>4
  <1> QED
    BY <1>5 DEF n

\* The concatenation of lists is a fold.
LEMMA FlattenIs ==
    ASSUME NEW seqs, Len(seqs) # 0
    PROVE  FlattenSeq(seqs) = (CHOOSE f : IsFlat(f, seqs, Len(seqs)))[Len(seqs)]
  BY DEF FlattenSeq, IsFlat

\* What the first lists give.
LEMMA FlattenSteps ==
    ASSUME NEW X, NEW seqs \in Seq(Seq(X))
    PROVE  \E v : /\ v \in [0 .. Len(seqs) -> Seq(X)]
                  /\ v[0] = <<>> /\ v[Len(seqs)] = FlattenSeq(seqs)
                  /\ \A k \in 1 .. Len(seqs) : v[k] = v[k - 1] \o seqs[k]
  <1> DEFINE n == Len(seqs)
  <1>1. n \in Nat /\ \A i \in 1 .. n : seqs[i] \in Seq(X)
    OBVIOUS
  <1>2. CASE n = 0
    <2> DEFINE v == [k \in 0 .. n |-> <<>>]
    <2>1. seqs = <<>> /\ FlattenSeq(seqs) = <<>>
      BY <1>2 DEF FlattenSeq
    <2>2. 0 \in 0 .. n /\ n \in 0 .. n /\ v[0] = <<>> /\ v[n] = <<>>
      BY <1>1
    <2>3. v \in [0 .. n -> Seq(X)]
      OBVIOUS
    <2>4. \A k \in 1 .. n : FALSE
      BY <1>2
    <2> HIDE DEF v
    <2> QED
      BY <2>1, <2>2, <2>3, <2>4
  <1>3. CASE n # 0
    <2> DEFINE f == CHOOSE f : IsFlat(f, seqs, n)
    <2>1. \E g \in [1 .. n -> Seq(X)] : IsFlat(g, seqs, n)
      BY FlatExists
    <2>2. IsFlat(f, seqs, n)
      BY <2>1, Zenon
    <2>3. FlattenSeq(seqs) = f[n]
      BY <1>3, FlattenIs
    <2> HIDE DEF f, n
    <2>4. \A i \in 1 .. n : f[i] = IF i = 1 THEN seqs[i] ELSE f[i - 1] \o seqs[i]
      BY <2>2 DEF IsFlat
    <2> DEFINE T == {k \in 0 .. n : k # 0 => f[k] \in Seq(X)}
    <2>5. 0 \in T
      BY <1>1
    <2>6. ASSUME NEW k \in 0 .. n, k \in T, k < n
          PROVE  k + 1 \in T
      <3>1. k + 1 \in 1 .. n /\ k + 1 \in 0 .. n /\ (k + 1) - 1 = k /\ (k = 0 <=> k + 1 = 1)
        BY <1>1, <2>6
      <3>2. seqs[k + 1] \in Seq(X)
        BY <1>1, <3>1
      <3>3. f[k + 1] = IF k = 0 THEN seqs[k + 1] ELSE f[k] \o seqs[k + 1]
        BY <2>4, <3>1
      <3>4. k # 0 => f[k] \in Seq(X)
        BY <2>6
      <3>5. f[k + 1] \in Seq(X)
        <4>1. CASE k = 0
          BY <3>2, <3>3, <4>1
        <4>2. CASE k # 0
          BY <3>2, <3>3, <3>4, <4>2, ConcatProperties
        <4> QED
          BY <4>1, <4>2
      <3> QED
        BY <3>1, <3>5
    <2>7. 0 .. n \subseteq T
      <3> HIDE DEF T
      <3> QED
        BY <1>1, <2>5, <2>6, AllUpTo
    <2> DEFINE v == [k \in 0 .. n |-> IF k = 0 THEN <<>> ELSE f[k]]
    <2>8. v \in [0 .. n -> Seq(X)]
      BY <2>7
    <2>9. v[0] = <<>> /\ v[n] = FlattenSeq(seqs)
      BY <1>1, <1>3, <2>3
    <2>10. ASSUME NEW k \in 1 .. n
           PROVE  v[k] = v[k - 1] \o seqs[k]
      <3>1. k \in 0 .. n /\ k - 1 \in 0 .. n /\ k # 0 /\ (k - 1 = 0 <=> k = 1)
        BY <1>1
      <3>2. v[k] = f[k] /\ v[k - 1] = IF k = 1 THEN <<>> ELSE f[k - 1]
        BY <3>1
      <3>3. seqs[k] \in Seq(X)
        BY <1>1
      <3> HIDE DEF v
      <3>4. CASE k = 1
        <4>1. <<>> \o seqs[k] = seqs[k]
          BY <3>3
        <4> QED
          BY <2>4, <3>2, <3>4, <4>1
      <3>5. CASE k # 1
        BY <2>4, <3>2, <3>5
      <3> QED
        BY <3>4, <3>5
    <2> HIDE DEF v
    <2> QED
      BY <2>8, <2>9, <2>10 DEF n
  <1> QED
    BY <1>2, <1>3

\* v[k] is the first k lists one after the other, and nothing is in two of the lists.
JoinedSteps(v, seqs, n, X) ==
    /\ \A i \in 1 .. n : seqs[i] \in Seq(X) /\ Distinct(seqs[i])
    /\ \A i, j \in 1 .. n : i # j => ToSet(seqs[i]) \cap ToSet(seqs[j]) = {}
    /\ v \in [0 .. n -> Seq(X)] /\ v[0] = <<>>
    /\ \A k \in 1 .. n : v[k] = v[k - 1] \o seqs[k]

JoinOf(list, seqs, k) ==
    /\ Distinct(list)
    /\ \A x : x \in ToSet(list) <=> \E i \in 1 .. k : x \in ToSet(seqs[i])

\* Then the entries of all are distinct.
LEMMA FlattenFacts ==
    ASSUME NEW X, NEW n \in Nat, NEW seqs, NEW v, JoinedSteps(v, seqs, n, X), NEW k \in 0 .. n
    PROVE  JoinOf(v[k], seqs, k)
  <1> DEFINE T == {m \in 0 .. n : /\ Distinct(v[m])
                                  /\ ToSet(v[m]) = UNION {ToSet(seqs[i]) : i \in 1 .. m}}
  <1>1. /\ \A i \in 1 .. n : seqs[i] \in Seq(X) /\ Distinct(seqs[i])
        /\ \A i, j \in 1 .. n : i # j => ToSet(seqs[i]) \cap ToSet(seqs[j]) = {}
        /\ v \in [0 .. n -> Seq(X)] /\ v[0] = <<>>
        /\ \A i \in 1 .. n : v[i] = v[i - 1] \o seqs[i]
    BY DEF JoinedSteps
  <1>2. 0 \in T
    <2>1. Distinct(v[0]) /\ ToSet(v[0]) = {}
      BY <1>1 DEF Distinct, ToSet
    <2>2. UNION {ToSet(seqs[i]) : i \in 1 .. 0} = {}
      OBVIOUS
    <2> QED
      BY <1>1, <2>1, <2>2
  <1>3. ASSUME NEW m \in 0 .. n, m \in T, m < n
        PROVE  m + 1 \in T
    <2>1. m + 1 \in 1 .. n /\ m + 1 \in 0 .. n /\ (m + 1) - 1 = m /\ m \in Nat
      BY <1>1, <1>3
    <2>2. v[m + 1] = v[m] \o seqs[m + 1] /\ v[m] \in Seq(X) /\ seqs[m + 1] \in Seq(X)
      BY <1>1, <2>1
    <2>3. Distinct(v[m]) /\ ToSet(v[m]) = UNION {ToSet(seqs[i]) : i \in 1 .. m}
      BY <1>3
    <2>4. Distinct(seqs[m + 1])
      BY <1>1, <2>1
    <2>5. ToSet(v[m]) \cap ToSet(seqs[m + 1]) = {}
      <3>1. \A i \in 1 .. m : i \in 1 .. n /\ i # m + 1
        BY <1>1, <2>1
      <3>2. \A i \in 1 .. m : ToSet(seqs[i]) \cap ToSet(seqs[m + 1]) = {}
        BY <1>1, <2>1, <3>1
      <3> QED
        BY <2>3, <3>2
    <2>6. /\ Distinct(v[m] \o seqs[m + 1])
          /\ ToSet(v[m] \o seqs[m + 1]) = ToSet(v[m]) \cup ToSet(seqs[m + 1])
      BY <2>2, <2>3, <2>4, <2>5, ConcatFacts
    <2>7. UNION {ToSet(seqs[i]) : i \in 1 .. m + 1}
             = (UNION {ToSet(seqs[i]) : i \in 1 .. m}) \cup ToSet(seqs[m + 1])
      <3>1. 1 .. m + 1 = (1 .. m) \cup {m + 1}
        BY <2>1
      <3> QED
        BY <3>1
    <2> QED
      BY <2>1, <2>2, <2>3, <2>6, <2>7
  <1>4. 0 .. n \subseteq T
    <2> HIDE DEF T
    <2> QED
      BY <1>1, <1>2, <1>3, AllUpTo
  <1>5. Distinct(v[k]) /\ ToSet(v[k]) = UNION {ToSet(seqs[i]) : i \in 1 .. k}
    BY <1>4
  <1> QED
    BY <1>5 DEF JoinOf

-------------------------------------------------------------------------------
(* The outputs of the lanes *)

Records == [req_ids : Seq(Requests), sampled : Seq(Requests), logprobs : Seq(Requests)]

\* Outputs with rows for requests of R, each request in one of them at most; wishes are
\* the requests that ask for logprobs.
OutputsFor(outs, R, wishes) ==
    /\ outs \in Seq(Records)
    /\ \A i \in 1 .. Len(outs) :
          /\ outs[i].sampled = outs[i].req_ids
          /\ outs[i].logprobs = IF ToSet(outs[i].req_ids) \cap wishes = {} THEN <<>>
                                ELSE outs[i].req_ids
          /\ Distinct(outs[i].req_ids)
          /\ ToSet(outs[i].req_ids) \subseteq R
    /\ \A i, j \in 1 .. Len(outs) :
          i # j => ToSet(outs[i].req_ids) \cap ToSet(outs[j].req_ids) = {}

\* What one lane returns for its batch.
LEMMA OneOutput ==
    ASSUME NEW batch \in Seq(Requests), Distinct(batch), NEW R, ToSet(batch) \subseteq R
    PROVE  /\ OutputsFor(<<LaneOutput(batch)>>, R, asks)
           /\ LaneOutput(batch) \in Records /\ LaneOutput(batch).req_ids = batch
  <1> DEFINE o == LaneOutput(batch)
  <1>1. /\ o.req_ids = batch /\ o.sampled = batch
        /\ o.logprobs = IF ToSet(batch) \cap asks = {} THEN <<>> ELSE batch
    BY DEF LaneOutput
  <1>2. o \in Records
    BY DEF LaneOutput, Records
  <1> HIDE DEF o
  <1>3. <<o>> \in Seq(Records) /\ Len(<<o>>) = 1 /\ <<o>>[1] = o /\ \A i \in 1 .. 1 : i = 1
    BY <1>2
  <1>4. OutputsFor(<<o>>, R, asks)
    BY <1>1, <1>3 DEF OutputsFor
  <1> QED
    BY <1>1, <1>2, <1>4 DEF o

\* Outputs for two disjoint sets of requests, one behind the other.
LEMMA MoreOutputs ==
    ASSUME NEW s, NEW t, NEW R, NEW Q, NEW w, OutputsFor(s, R, w), OutputsFor(t, Q, w),
           R \cap Q = {}
    PROVE  OutputsFor(s \o t, R \cup Q, w)
  <1> DEFINE n == Len(s)
             m == Len(t)
             all == s \o t
  <1>1. s \in Seq(Records) /\ t \in Seq(Records)
    BY DEF OutputsFor
  <1>2. n \in Nat /\ m \in Nat
    BY <1>1
  <1>3. /\ all \in Seq(Records) /\ Len(all) = n + m
        /\ \A i \in 1 .. n + m : all[i] = IF i <= n THEN s[i] ELSE t[i - n]
    BY <1>1, ConcatProperties
  <1> DEFINE Fine(o, S) ==
               /\ o.sampled = o.req_ids
               /\ o.logprobs = IF ToSet(o.req_ids) \cap w = {} THEN <<>> ELSE o.req_ids
               /\ Distinct(o.req_ids)
               /\ ToSet(o.req_ids) \subseteq S
  <1>4. /\ \A i \in 1 .. n : Fine(s[i], R)
        /\ \A i, j \in 1 .. n : i # j => ToSet(s[i].req_ids) \cap ToSet(s[j].req_ids) = {}
    BY DEF OutputsFor
  <1>5. /\ \A i \in 1 .. m : Fine(t[i], Q)
        /\ \A i, j \in 1 .. m : i # j => ToSet(t[i].req_ids) \cap ToSet(t[j].req_ids) = {}
    BY DEF OutputsFor
  <1> HIDE DEF n, m, all
  <1>6. \A i \in 1 .. n + m : \/ i \in 1 .. n /\ all[i] = s[i]
                              \/ i - n \in 1 .. m /\ all[i] = t[i - n]
    BY <1>2, <1>3
  <1>7. \A i \in 1 .. n + m : Fine(all[i], R \cup Q)
    <2> TAKE i \in 1 .. n + m
    <2>1. CASE i \in 1 .. n /\ all[i] = s[i]
      BY <1>4, <2>1
    <2>2. CASE i - n \in 1 .. m /\ all[i] = t[i - n]
      BY <1>5, <2>2
    <2> QED
      BY <1>6, <2>1, <2>2
  <1>8. ASSUME NEW i \in 1 .. n + m, NEW j \in 1 .. n + m, i # j
        PROVE  ToSet(all[i].req_ids) \cap ToSet(all[j].req_ids) = {}
    <2> HIDE DEF Fine
    <2>1. CASE i \in 1 .. n /\ all[i] = s[i] /\ j \in 1 .. n /\ all[j] = s[j]
      BY <1>4, <1>8, <2>1
    <2>2. CASE i - n \in 1 .. m /\ all[i] = t[i - n] /\ j - n \in 1 .. m /\ all[j] = t[j - n]
      <3>1. i - n # j - n
        BY <1>2, <1>8
      <3> QED
        BY <1>5, <2>2, <3>1
    <2>3. CASE i \in 1 .. n /\ all[i] = s[i] /\ j - n \in 1 .. m /\ all[j] = t[j - n]
      BY <1>4, <1>5, <2>3 DEF Fine
    <2>4. CASE i - n \in 1 .. m /\ all[i] = t[i - n] /\ j \in 1 .. n /\ all[j] = s[j]
      BY <1>4, <1>5, <2>4 DEF Fine
    <2> QED
      BY <1>6, <2>1, <2>2, <2>3, <2>4
  <1>9. OutputsFor(all, R \cup Q, w)
    BY <1>3, <1>7, <1>8 DEF OutputsFor
  <1> QED
    BY <1>9 DEF all

\* The first outputs of several.
LEMMA FirstOutputs ==
    ASSUME NEW s, NEW R, NEW w, OutputsFor(s, R, w), NEW k \in 0 .. Len(s)
    PROVE  OutputsFor(SubSeq(s, 1, k), R, w)
  <1> DEFINE n == Len(s)
             part == SubSeq(s, 1, k)
  <1>1. s \in Seq(Records) /\ n \in Nat /\ k \in 0 .. n
    BY DEF OutputsFor
  <1>2. part \in Seq(Records) /\ Len(part) = k /\ \A i \in 1 .. k : part[i] = s[i] /\ i \in 1 .. n
    BY <1>1
  <1> HIDE DEF part, n
  <1>3. OutputsFor(part, R, w)
    BY <1>2 DEF OutputsFor, n
  <1> QED
    BY <1>3 DEF part

RowOf(x, outs) == \E i \in 1 .. Len(outs) : x \in ToSet(outs[i].req_ids)

HaveRows(items) == \A i \in 1 .. Len(items) : items[i].req_ids # <<>>

\* An output without logprobs comes before one that has them: among the first k of those
\* that have rows, and among all.
Missed(items, k) ==
    \E i, j \in 1 .. k : i < j /\ items[i].logprobs = <<>> /\ items[j].logprobs # <<>>

Gap(outs) ==
    \E i, j \in 1 .. Len(outs) : i < j /\ outs[i].req_ids # <<>> /\ outs[i].logprobs = <<>>
                                       /\ outs[j].logprobs # <<>>

\* The outputs that have rows have all of them.
LEMMA WithRowsFacts ==
    ASSUME NEW outs, NEW R, NEW w, OutputsFor(outs, R, w), NEW items, items = WithRows(outs)
    PROVE  /\ OutputsFor(items, R, w)
           /\ HaveRows(items)
           /\ \A x : RowOf(x, items) <=> RowOf(x, outs)
           /\ Missed(items, Len(items)) <=> Gap(outs)
  <1> DEFINE n == Len(outs)
             m == Len(items)
             S == {o \in ToSet(outs) : o.req_ids # <<>>}
  <1>1. outs \in Seq(Records)
    BY DEF OutputsFor
  <1>2. items = Those(outs, S)
    BY DEF WithRows
  <1>3. \A i \in 1 .. n : outs[i] \in S <=> outs[i].req_ids # <<>>
    BY <1>1, InSet
  <1> HIDE DEF S
  <1>4. items \in Seq(Records) /\ \E e : Picks(items, outs, n, S, e)
    BY <1>1, <1>2, ThosePicks
  <1>5. PICK e : Picks(items, outs, n, S, e)
    BY <1>4
  <1>6. n \in Nat /\ m \in Nat
    BY <1>1, <1>4
  <1> HIDE DEF n, m
  <1>7. /\ e \in [1 .. m -> 1 .. n]
        /\ \A i, j \in 1 .. m : i < j => e[i] < e[j]
        /\ \A i \in 1 .. m : items[i] = outs[e[i]] /\ items[i] \in S
        /\ \A k \in 1 .. n : outs[k] \in S => \E i \in 1 .. m : e[i] = k
    BY <1>5 DEF Picks, m
  <1>8. \A i \in 1 .. m : e[i] \in 1 .. n /\ items[i] = outs[e[i]] /\ outs[e[i]].req_ids # <<>>
    BY <1>3, <1>7
  <1>9. \A i, j \in 1 .. m : i # j => e[i] # e[j]
    <2> SUFFICES ASSUME NEW i \in 1 .. m, NEW j \in 1 .. m, i # j, e[i] = e[j] PROVE FALSE
      OBVIOUS
    <2>1. i < j \/ j < i
      BY <1>6
    <2>2. e[i] < e[j] \/ e[j] < e[i]
      BY <1>7, <2>1
    <2>3. e[i] \in Nat
      BY <1>6, <1>8
    <2> QED
      BY <2>2, <2>3
  <1>10. OutputsFor(items, R, w)
    <2>1. \A i \in 1 .. n :
             /\ outs[i].sampled = outs[i].req_ids
             /\ outs[i].logprobs = IF ToSet(outs[i].req_ids) \cap w = {} THEN <<>>
                                   ELSE outs[i].req_ids
             /\ Distinct(outs[i].req_ids)
             /\ ToSet(outs[i].req_ids) \subseteq R
      BY DEF OutputsFor, n
    <2>2. \A i, j \in 1 .. n : i # j => ToSet(outs[i].req_ids) \cap ToSet(outs[j].req_ids) = {}
      BY DEF OutputsFor, n
    <2>3. \A i, j \in 1 .. m : i # j => ToSet(items[i].req_ids) \cap ToSet(items[j].req_ids) = {}
      <3> SUFFICES ASSUME NEW i \in 1 .. m, NEW j \in 1 .. m, i # j
                   PROVE  ToSet(items[i].req_ids) \cap ToSet(items[j].req_ids) = {}
        OBVIOUS
      <3>1. e[i] \in 1 .. n /\ e[j] \in 1 .. n /\ items[i] = outs[e[i]] /\ items[j] = outs[e[j]]
        BY <1>8
      <3>2. e[i] # e[j]
        BY <1>9
      <3>3. ToSet(outs[e[i]].req_ids) \cap ToSet(outs[e[j]].req_ids) = {}
        BY <2>2, <3>1, <3>2
      <3> QED
        BY <3>1, <3>3
    <2>4. \A i \in 1 .. m :
             /\ items[i].sampled = items[i].req_ids
             /\ items[i].logprobs = IF ToSet(items[i].req_ids) \cap w = {} THEN <<>>
                                   ELSE items[i].req_ids
             /\ Distinct(items[i].req_ids)
             /\ ToSet(items[i].req_ids) \subseteq R
      BY <1>8, <2>1
    <2> QED
      BY <1>4, <2>3, <2>4 DEF OutputsFor, m
  <1>11. ASSUME NEW k \in 1 .. n, outs[k].req_ids # <<>>
         PROVE  \E i \in 1 .. m : e[i] = k /\ items[i] = outs[k]
    BY <1>3, <1>7, <1>11
  <1>12. \A x : (\E i \in 1 .. m : x \in ToSet(items[i].req_ids))
               <=> \E i \in 1 .. n : x \in ToSet(outs[i].req_ids)
    <2>1. ASSUME NEW i \in 1 .. m
          PROVE  \E k \in 1 .. n : ToSet(items[i].req_ids) = ToSet(outs[k].req_ids)
      BY <1>8
    <2>2. ASSUME NEW k \in 1 .. n, NEW x \in ToSet(outs[k].req_ids)
          PROVE  \E i \in 1 .. m : x \in ToSet(items[i].req_ids)
      <3>1. outs[k].req_ids # <<>>
        <4>1. ToSet(<<>>) = {}
          BY DEF ToSet
        <4> QED
          BY <2>2, <4>1
      <3> QED
        BY <1>11, <3>1
    <2> QED
      BY <2>1, <2>2
  <1>13. ASSUME NEW i \in 1 .. m, NEW j \in 1 .. m,
                i < j, items[i].logprobs = <<>>, items[j].logprobs # <<>>
         PROVE  \E k, l \in 1 .. n : k < l /\ outs[k].req_ids # <<>> /\ outs[k].logprobs = <<>>
                                           /\ outs[l].logprobs # <<>>
    <2>1. e[i] < e[j]
      BY <1>7, <1>13
    <2> QED
      BY <1>8, <1>13, <2>1
  <1>14. ASSUME NEW k \in 1 .. n, NEW l \in 1 .. n, k < l, outs[k].req_ids # <<>>,
                outs[k].logprobs = <<>>, outs[l].logprobs # <<>>
         PROVE  \E i, j \in 1 .. m : i < j /\ items[i].logprobs = <<>> /\ items[j].logprobs # <<>>
    <2>1. outs[l].req_ids # <<>>
      <3>1. outs[l].logprobs = IF ToSet(outs[l].req_ids) \cap w = {} THEN <<>> ELSE outs[l].req_ids
        BY DEF OutputsFor, n
      <3> QED
        BY <1>14, <3>1
    <2>2. PICK i \in 1 .. m : e[i] = k /\ items[i] = outs[k]
      BY <1>11, <1>14
    <2>3. PICK j \in 1 .. m : e[j] = l /\ items[j] = outs[l]
      BY <1>11, <2>1
    <2>4. i < j
      <3>1. j < i => e[j] < e[i]
        BY <1>7
      <3> QED
        BY <1>6, <1>14, <2>2, <2>3, <3>1
    <2> QED
      BY <1>14, <2>2, <2>3, <2>4
  <1> QED
    BY <1>8, <1>10, <1>12, <1>13, <1>14 DEF n, m, HaveRows, RowOf, Missed, Gap

-------------------------------------------------------------------------------
(* The rows of the merged output *)

\* The rows of the outputs, and those of their logprobs, after each output.
LEMMA RowSteps ==
    ASSUME NEW items, NEW R, NEW w, OutputsFor(items, R, w)
    PROVE  \E v, u :
              /\ v \in [0 .. Len(items) -> Seq(Requests)]
              /\ u \in [0 .. Len(items) -> Seq(Requests)]
              /\ v[0] = <<>> /\ u[0] = <<>>
              /\ \A k \in 1 .. Len(items) : /\ v[k] = v[k - 1] \o items[k].req_ids
                                            /\ u[k] = u[k - 1] \o items[k].logprobs
              /\ v[Len(items)] = FlattenSeq([i \in DOMAIN items |-> items[i].req_ids])
              /\ v[Len(items)] = FlattenSeq([i \in DOMAIN items |-> items[i].sampled])
              /\ u[Len(items)] = MergeLogprobs(items)
              /\ \A k \in 0 .. Len(items) :
                    /\ Distinct(v[k]) /\ Distinct(u[k])
                    /\ \A x : x \in ToSet(v[k]) <=> \E i \in 1 .. k : x \in ToSet(items[i].req_ids)
  <1> DEFINE n == Len(items)
             rows == [i \in DOMAIN items |-> items[i].req_ids]
             samples == [i \in DOMAIN items |-> items[i].sampled]
             logs == [i \in DOMAIN items |-> items[i].logprobs]
  <1>1. items \in Seq(Records) /\ n \in Nat /\ DOMAIN items = 1 .. n
    BY DEF OutputsFor
  <1>2. \A i \in 1 .. n : /\ items[i].req_ids \in Seq(Requests) /\ items[i].logprobs \in Seq(Requests)
                          /\ items[i].sampled = items[i].req_ids
                          /\ items[i].logprobs = <<>> \/ items[i].logprobs = items[i].req_ids
                          /\ Distinct(items[i].req_ids)
    <2>1. \A i \in 1 .. n : items[i] \in Records
      BY <1>1
    <2> QED
      BY <2>1 DEF OutputsFor, Records
  <1>3. \A i, j \in 1 .. n : i # j => ToSet(items[i].req_ids) \cap ToSet(items[j].req_ids) = {}
    BY DEF OutputsFor
  <1>4. Distinct(<<>>) /\ ToSet(<<>>) = {}
    BY DEF Distinct, ToSet
  <1>5. rows = samples
    BY <1>1, <1>2
  <1> HIDE DEF n
  <1>6. rows \in Seq(Seq(Requests)) /\ Len(rows) = n /\ \A i \in 1 .. n : rows[i] = items[i].req_ids
    <2>1. rows \in [1 .. n -> Seq(Requests)]
      BY <1>1, <1>2
    <2>2. \A i \in 1 .. n : rows[i] = items[i].req_ids
      BY <1>1
    <2> HIDE DEF rows
    <2> QED
      BY <1>1, <2>1, <2>2
  <1>7. logs \in Seq(Seq(Requests)) /\ Len(logs) = n /\ \A i \in 1 .. n : logs[i] = items[i].logprobs
    <2>1. logs \in [1 .. n -> Seq(Requests)]
      BY <1>1, <1>2
    <2>2. \A i \in 1 .. n : logs[i] = items[i].logprobs
      BY <1>1
    <2> HIDE DEF logs
    <2> QED
      BY <1>1, <2>1, <2>2
  <1>8. FlattenSeq(logs) = MergeLogprobs(items)
    BY DEF MergeLogprobs
  <1> HIDE DEF rows, logs
  <1>9. PICK v : /\ v \in [0 .. n -> Seq(Requests)]
                 /\ v[0] = <<>> /\ v[n] = FlattenSeq(rows)
                 /\ \A k \in 1 .. n : v[k] = v[k - 1] \o rows[k]
    <2>1. rows \in Seq(Seq(Requests)) /\ Len(rows) = n
      BY <1>6
    <2>2. \E v : /\ v \in [0 .. Len(rows) -> Seq(Requests)]
                 /\ v[0] = <<>> /\ v[Len(rows)] = FlattenSeq(rows)
                 /\ \A k \in 1 .. Len(rows) : v[k] = v[k - 1] \o rows[k]
      BY <2>1, FlattenSteps
    <2> QED
      BY <2>1, <2>2
  <1>10. PICK u : /\ u \in [0 .. n -> Seq(Requests)]
                  /\ u[0] = <<>> /\ u[n] = FlattenSeq(logs)
                  /\ \A k \in 1 .. n : u[k] = u[k - 1] \o logs[k]
    <2>1. logs \in Seq(Seq(Requests)) /\ Len(logs) = n
      BY <1>7
    <2>2. \E u : /\ u \in [0 .. Len(logs) -> Seq(Requests)]
                 /\ u[0] = <<>> /\ u[Len(logs)] = FlattenSeq(logs)
                 /\ \A k \in 1 .. Len(logs) : u[k] = u[k - 1] \o logs[k]
      BY <2>1, FlattenSteps
    <2> QED
      BY <2>1, <2>2
  <1>11. ASSUME NEW k \in 0 .. n
         PROVE  /\ Distinct(v[k])
                /\ \A x : x \in ToSet(v[k]) <=> \E i \in 1 .. k : x \in ToSet(items[i].req_ids)
    <2>1. \A i \in 1 .. n : Distinct(rows[i])
      BY <1>2, <1>6
    <2>2. \A i, j \in 1 .. n : i # j => ToSet(rows[i]) \cap ToSet(rows[j]) = {}
      BY <1>3, <1>6
    <2>3. \A i \in 1 .. n : rows[i] \in Seq(Requests)
      BY <1>1, <1>2, <1>6
    <2>4. JoinedSteps(v, rows, n, Requests)
      BY <1>9, <2>1, <2>2, <2>3 DEF JoinedSteps
    <2>5. JoinOf(v[k], rows, k)
      BY <1>1, <2>4, FlattenFacts
    <2>6. \A i \in 1 .. k : rows[i] = items[i].req_ids
      <3>1. \A i \in 1 .. k : i \in 1 .. n
        BY <1>1
      <3>2. \A i \in 1 .. n : rows[i] = items[i].req_ids
        BY <1>6
      <3> QED
        BY <3>1, <3>2
    <2> QED
      BY <2>5, <2>6 DEF JoinOf
  <1>12. ASSUME NEW k \in 0 .. n
         PROVE  Distinct(u[k])
    <2>1. \A i \in 1 .. n : Distinct(logs[i])
      BY <1>2, <1>4, <1>7
    <2>2. \A i, j \in 1 .. n : i # j => ToSet(logs[i]) \cap ToSet(logs[j]) = {}
      <3> SUFFICES ASSUME NEW i \in 1 .. n, NEW j \in 1 .. n, i # j
                   PROVE  ToSet(logs[i]) \cap ToSet(logs[j]) = {}
        OBVIOUS
      <3>1. ASSUME NEW l \in 1 .. n PROVE ToSet(logs[l]) \subseteq ToSet(items[l].req_ids)
        <4>1. logs[l] = items[l].logprobs
          BY <1>7
        <4>2. logs[l] = <<>> \/ logs[l] = items[l].req_ids
          BY <1>2, <4>1
        <4> QED
          BY <1>4, <4>2
      <3>2. ToSet(logs[i]) \subseteq ToSet(items[i].req_ids) /\ ToSet(logs[j]) \subseteq ToSet(items[j].req_ids)
        BY <3>1
      <3>3. ToSet(items[i].req_ids) \cap ToSet(items[j].req_ids) = {}
        BY <1>3
      <3> QED
        BY <3>2, <3>3
    <2>3. \A i \in 1 .. n : logs[i] \in Seq(Requests)
      BY <1>1, <1>2, <1>7
    <2>4. JoinedSteps(u, logs, n, Requests)
      BY <1>10, <2>1, <2>2, <2>3 DEF JoinedSteps
    <2>5. JoinOf(u[k], logs, k)
      BY <1>1, <2>4, FlattenFacts
    <2> QED
      BY <2>5 DEF JoinOf
  <1>13. \A k \in 1 .. n : /\ v[k] = v[k - 1] \o items[k].req_ids
                           /\ u[k] = u[k - 1] \o items[k].logprobs
    BY <1>6, <1>7, <1>9, <1>10
  <1>14. v[n] = FlattenSeq(samples)
    BY <1>5, <1>9
  <1> HIDE DEF samples
  <1>15. WITNESS v, u
  <1> QED
    BY <1>8, <1>9, <1>10, <1>11, <1>12, <1>13, <1>14 DEF n, rows, samples

\* Appended entries leave the others where they are.
LEMMA Appended ==
    ASSUME NEW s \in Seq(Requests), NEW t \in Seq(Requests)
    PROVE  /\ Len(s \o t) = Len(s) + Len(t)
           /\ \A p \in 1 .. Len(s) : p \in 1 .. Len(s \o t) /\ (s \o t)[p] = s[p]
           /\ \A p \in 1 .. Len(t) : Len(s) + p \in 1 .. Len(s \o t) /\ (s \o t)[Len(s) + p] = t[p]
           /\ \A p \in 1 .. Len(s \o t) : p \in 1 .. Len(s) \/ \E q \in 1 .. Len(t) : p = Len(s) + q
  <1> DEFINE n == Len(s)
             m == Len(t)
             all == s \o t
  <1>1. n \in Nat /\ m \in Nat
    OBVIOUS
  <1>2. Len(all) = n + m /\ \A p \in 1 .. n + m : all[p] = IF p <= n THEN s[p] ELSE t[p - n]
    BY ConcatProperties
  <1> HIDE DEF n, m, all
  <1>3. \A p \in 1 .. n : p \in 1 .. n + m /\ all[p] = s[p]
    BY <1>1, <1>2
  <1>4. ASSUME NEW p \in 1 .. m
        PROVE  n + p \in 1 .. n + m /\ all[n + p] = t[p]
    <2>1. n + p \in 1 .. n + m /\ ~(n + p <= n) /\ (n + p) - n = p
      BY <1>1
    <2> QED
      BY <1>2, <2>1
  <1>5. ASSUME NEW p \in 1 .. n + m
        PROVE  p \in 1 .. n \/ \E q \in 1 .. m : p = n + q
    <2>1. CASE p <= n
      BY <1>1, <2>1
    <2>2. CASE ~(p <= n)
      <3>1. p - n \in 1 .. m /\ p = n + (p - n)
        BY <1>1, <2>2
      <3> QED
        BY <3>1
    <2> QED
      BY <2>1, <2>2
  <1> QED
    BY <1>2, <1>3, <1>4, <1>5 DEF n, m, all

\* The rows that ask for logprobs have their own, by place.
OwnRows(v, u, w) ==
    \A p \in 1 .. Len(v) : v[p] \in w => p \in 1 .. Len(u) /\ u[p] = v[p]

\* One of them has its own further to the front.
LateRow(v, u, w) ==
    \E p \in 1 .. Len(v), q \in 1 .. Len(u) : q < p /\ v[p] \in w /\ u[q] = v[p]

\* The logprobs are behind as soon as an output without any has been merged.
RowsUpTo(items, v, u, w, k) ==
    /\ Len(u) <= Len(v)
    /\ (\E i \in 1 .. k : items[i].logprobs = <<>>) => Len(u) < Len(v)
    /\ (\A i \in 1 .. k : items[i].logprobs # <<>>) => u = v
    /\ ~Missed(items, k) => OwnRows(v, u, w)
    /\ Missed(items, k) => LateRow(v, u, w)

\* One more output.
LEMMA RowsNext ==
    ASSUME NEW items, NEW w, NEW k \in Nat, NEW v \in Seq(Requests), NEW u \in Seq(Requests),
           RowsUpTo(items, v, u, w, k),
           items[k + 1].req_ids \in Seq(Requests), items[k + 1].req_ids # <<>>,
           items[k + 1].logprobs = IF ToSet(items[k + 1].req_ids) \cap w = {} THEN <<>>
                                   ELSE items[k + 1].req_ids
    PROVE  RowsUpTo(items, v \o items[k + 1].req_ids, u \o items[k + 1].logprobs, w, k + 1)
  <1> DEFINE m == k + 1
             r == items[m].req_ids
             l == items[m].logprobs
             v2 == v \o r
             u2 == u \o l
             n == Len(v)
  <1>1. /\ r \in Seq(Requests) /\ r # <<>>
        /\ l = IF ToSet(r) \cap w = {} THEN <<>> ELSE r
    OBVIOUS
  <1>2. m \in Nat /\ \A i \in 1 .. m : i \in 1 .. k \/ i = m
    OBVIOUS
  <1>3. \A i \in 1 .. k : i \in 1 .. m /\ i < m
    OBVIOUS
  <1>4. m \in 1 .. m
    OBVIOUS
  <1> HIDE DEF m, r
  <1>5. Len(r) \in Nat /\ Len(r) # 0 /\ Len(v) \in Nat /\ Len(u) \in Nat
    BY <1>1
  <1>6. /\ Len(v2) = Len(v) + Len(r)
        /\ \A p \in 1 .. Len(v) : p \in 1 .. Len(v2) /\ v2[p] = v[p]
        /\ \A p \in 1 .. Len(r) : Len(v) + p \in 1 .. Len(v2) /\ v2[Len(v) + p] = r[p]
        /\ \A p \in 1 .. Len(v2) : p \in 1 .. Len(v) \/ \E q \in 1 .. Len(r) : p = Len(v) + q
    BY <1>1, Appended
  <1>7. \A x : x \in ToSet(r) <=> \E p \in 1 .. Len(r) : r[p] = x
    BY <1>1, InSet
  <1>8. /\ Len(u) <= Len(v)
        /\ (\E i \in 1 .. k : items[i].logprobs = <<>>) => Len(u) < Len(v)
        /\ (\A i \in 1 .. k : items[i].logprobs # <<>>) => u = v
        /\ ~Missed(items, k) => OwnRows(v, u, w)
        /\ Missed(items, k) => LateRow(v, u, w)
    BY DEF RowsUpTo
  <1>9. Missed(items, k) => Missed(items, m)
    BY <1>3 DEF Missed
  <1>10. CASE l = <<>>
    <2>1. u2 = u
      BY <1>10
    <2>2. \A x \in ToSet(r) : x \notin w
      BY <1>1, <1>10
    <2>3. Missed(items, m) => Missed(items, k)
      <3> SUFFICES ASSUME NEW i \in 1 .. m, NEW j \in 1 .. m, i < j,
                          items[i].logprobs = <<>>, items[j].logprobs # <<>>
                   PROVE  Missed(items, k)
        BY DEF Missed
      <3>1. j # m
        BY <1>10 DEF l
      <3>2. j \in 1 .. k /\ i \in 1 .. k
        BY <1>2, <3>1 DEF m
      <3> QED
        BY <3>2 DEF Missed
    <2> HIDE DEF v2, u2, l
    <2>4. Len(u2) < Len(v2)
      BY <1>5, <1>6, <1>8, <2>1
    <2>5. ~(\A i \in 1 .. m : items[i].logprobs # <<>>)
      BY <1>4, <1>10 DEF l
    <2>6. OwnRows(v, u, w) => OwnRows(v2, u2, w)
      <3> SUFFICES ASSUME OwnRows(v, u, w), NEW p \in 1 .. Len(v2), v2[p] \in w
                   PROVE  p \in 1 .. Len(u2) /\ u2[p] = v2[p]
        BY DEF OwnRows
      <3>1. CASE p \in 1 .. Len(v)
        BY <1>6, <2>1, <3>1 DEF OwnRows
      <3>2. CASE \E q \in 1 .. Len(r) : p = Len(v) + q
        <4>1. v2[p] \in ToSet(r)
          BY <1>6, <1>7, <3>2
        <4> QED
          BY <2>2, <4>1
      <3> QED
        BY <1>6, <3>1, <3>2
    <2>7. LateRow(v, u, w) => LateRow(v2, u2, w)
      BY <1>6, <2>1 DEF LateRow
    <2>8. Len(u2) <= Len(v2)
      BY <1>5, <2>1, <2>4, <1>6
    <2>9. RowsUpTo(items, v2, u2, w, m)
      BY <1>8, <1>9, <2>3, <2>4, <2>5, <2>6, <2>7, <2>8 DEF RowsUpTo
    <2> QED
      BY <2>9 DEF v2, u2, l, m, r
  <1>11. CASE l # <<>>
    <2>1. l = r
      BY <1>1, <1>11
    <2>2. PICK s \in 1 .. Len(r) : r[s] \in w
      BY <1>1, <1>7, <1>11
    <2>3. /\ Len(u2) = Len(u) + Len(r)
          /\ \A p \in 1 .. Len(r) : Len(u) + p \in 1 .. Len(u2) /\ u2[Len(u) + p] = r[p]
      <3>1. u2 = u \o r
        BY <2>1
      <3> HIDE DEF u2
      <3>2. /\ Len(u \o r) = Len(u) + Len(r)
            /\ \A p \in 1 .. Len(r) : Len(u) + p \in 1 .. Len(u \o r) /\ (u \o r)[Len(u) + p] = r[p]
        BY <1>1, Appended
      <3> QED
        BY <3>1, <3>2
    <2>4. u = v => u2 = v2
      BY <2>1
    <2>5. Missed(items, m) <=> \E i \in 1 .. k : items[i].logprobs = <<>>
      <3>1. ASSUME NEW i \in 1 .. k, items[i].logprobs = <<>>
            PROVE  Missed(items, m)
        BY <1>3, <1>4, <1>11, <3>1 DEF Missed, l
      <3>2. ASSUME NEW i \in 1 .. m, NEW j \in 1 .. m, i < j, items[i].logprobs = <<>>
            PROVE  i \in 1 .. k
        BY <1>2, <3>2 DEF m
      <3> QED
        BY <3>1, <3>2 DEF Missed
    <2> HIDE DEF v2, u2, l
    <2>6. Len(u2) <= Len(v2)
      BY <1>5, <1>6, <1>8, <2>3
    <2>7. (\E i \in 1 .. m : items[i].logprobs = <<>>) => \E i \in 1 .. k : items[i].logprobs = <<>>
      BY <1>2, <1>11 DEF l
    <2>8. (\E i \in 1 .. k : items[i].logprobs = <<>>) => Len(u2) < Len(v2)
      BY <1>5, <1>6, <1>8, <2>3
    <2>9. (\A i \in 1 .. m : items[i].logprobs # <<>>) => u2 = v2
      BY <1>3, <1>8, <2>4
    <2>10. ~Missed(items, m) => OwnRows(v2, u2, w)
      BY <1>8, <2>4, <2>5 DEF OwnRows
    <2>11. (\E i \in 1 .. k : items[i].logprobs = <<>>) => LateRow(v2, u2, w)
      <3> SUFFICES ASSUME Len(u) < Len(v) PROVE LateRow(v2, u2, w)
        BY <1>8
      <3>1. /\ Len(v) + s \in 1 .. Len(v2) /\ v2[Len(v) + s] = r[s]
            /\ Len(u) + s \in 1 .. Len(u2) /\ u2[Len(u) + s] = r[s]
        BY <1>6, <2>3
      <3>2. Len(u) + s < Len(v) + s
        BY <1>5
      <3> QED
        BY <2>2, <3>1, <3>2 DEF LateRow
    <2>12. RowsUpTo(items, v2, u2, w, m)
      BY <2>5, <2>6, <2>7, <2>8, <2>9, <2>10, <2>11 DEF RowsUpTo
    <2> QED
      BY <2>12 DEF v2, u2, l, m, r
  <1> QED
    BY <1>10, <1>11

\* The rows of all outputs.
LEMMA RowsOfAll ==
    ASSUME NEW items, NEW R, NEW w, OutputsFor(items, R, w),
           HaveRows(items),
           NEW ids, ids = FlattenSeq([i \in DOMAIN items |-> items[i].req_ids]),
           NEW samples, samples = FlattenSeq([i \in DOMAIN items |-> items[i].sampled]),
           NEW logs, logs = MergeLogprobs(items)
    PROVE  /\ ids \in Seq(Requests) /\ Distinct(ids) /\ samples = ids
           /\ \A x : x \in ToSet(ids) <=> RowOf(x, items)
           /\ logs \in Seq(Requests)
           /\ OwnRows(ids, logs, w) <=> ~Missed(items, Len(items))
  <1> DEFINE n == Len(items)
  <1>1. items \in Seq(Records) /\ n \in Nat
    BY DEF OutputsFor
  <1>2. \A i \in 1 .. n : /\ items[i].req_ids \in Seq(Requests)
                          /\ items[i].req_ids # <<>>
                          /\ items[i].logprobs = IF ToSet(items[i].req_ids) \cap w = {} THEN <<>>
                                                 ELSE items[i].req_ids
    <2>1. \A i \in 1 .. n : items[i] \in Records
      BY <1>1
    <2> QED
      BY <2>1 DEF OutputsFor, Records, HaveRows
  <1>3. PICK v, u :
           /\ v \in [0 .. n -> Seq(Requests)]
           /\ u \in [0 .. n -> Seq(Requests)]
           /\ v[0] = <<>> /\ u[0] = <<>>
           /\ \A k \in 1 .. n : /\ v[k] = v[k - 1] \o items[k].req_ids
                                /\ u[k] = u[k - 1] \o items[k].logprobs
           /\ v[n] = FlattenSeq([i \in DOMAIN items |-> items[i].req_ids])
           /\ v[n] = FlattenSeq([i \in DOMAIN items |-> items[i].sampled])
           /\ u[n] = MergeLogprobs(items)
           /\ \A k \in 0 .. n :
                 /\ Distinct(v[k]) /\ Distinct(u[k])
                 /\ \A x : x \in ToSet(v[k]) <=> \E i \in 1 .. k : x \in ToSet(items[i].req_ids)
    BY RowSteps, Zenon
  <1> HIDE DEF n
  <1> DEFINE T == {k \in 0 .. n : RowsUpTo(items, v[k], u[k], w, k)}
  <1>4. 0 \in T
    <2>1. ~Missed(items, 0)
      BY DEF Missed
    <2>2. Len(<<>>) = 0 /\ OwnRows(<<>>, <<>>, w)
      BY DEF OwnRows
    <2>3. RowsUpTo(items, v[0], u[0], w, 0)
      BY <1>3, <2>1, <2>2 DEF RowsUpTo
    <2> QED
      BY <1>1, <2>3
  <1>5. ASSUME NEW k \in 0 .. n, k \in T, k < n
        PROVE  k + 1 \in T
    <2>1. k \in Nat /\ k + 1 \in 1 .. n /\ k + 1 \in 0 .. n /\ (k + 1) - 1 = k
      BY <1>1, <1>5
    <2>2. RowsUpTo(items, v[k], u[k], w, k) /\ v[k] \in Seq(Requests) /\ u[k] \in Seq(Requests)
      BY <1>3, <1>5
    <2>3. /\ items[k + 1].req_ids \in Seq(Requests) /\ items[k + 1].req_ids # <<>>
          /\ items[k + 1].logprobs = IF ToSet(items[k + 1].req_ids) \cap w = {} THEN <<>>
                                     ELSE items[k + 1].req_ids
      BY <1>2, <2>1
    <2>4. RowsUpTo(items, v[k] \o items[k + 1].req_ids, u[k] \o items[k + 1].logprobs, w, k + 1)
      BY <2>1, <2>2, <2>3, RowsNext
    <2>5. v[k + 1] = v[k] \o items[k + 1].req_ids /\ u[k + 1] = u[k] \o items[k + 1].logprobs
      BY <1>3, <2>1
    <2> QED
      BY <2>1, <2>4, <2>5
  <1>6. 0 .. n \subseteq T
    <2> HIDE DEF T
    <2> QED
      BY <1>1, <1>4, <1>5, AllUpTo
  <1>7. n \in 0 .. n
    BY <1>1
  <1>8. /\ RowsUpTo(items, ids, logs, w, n)
        /\ ids \in Seq(Requests) /\ logs \in Seq(Requests)
        /\ Distinct(ids) /\ Distinct(logs) /\ samples = ids
        /\ \A x : x \in ToSet(ids) <=> \E i \in 1 .. n : x \in ToSet(items[i].req_ids)
    <2>1. RowsUpTo(items, v[n], u[n], w, n)
      BY <1>6, <1>7
    <2>2. v[n] \in Seq(Requests) /\ u[n] \in Seq(Requests)
      BY <1>3, <1>7
    <2>3. Distinct(v[n]) /\ Distinct(u[n])
          /\ \A x : x \in ToSet(v[n]) <=> \E i \in 1 .. n : x \in ToSet(items[i].req_ids)
      BY <1>3, <1>7
    <2> QED
      BY <1>3, <2>1, <2>2, <2>3
  <1>9. LateRow(ids, logs, w) => ~OwnRows(ids, logs, w)
    <2> SUFFICES ASSUME NEW p \in 1 .. Len(ids), NEW q \in 1 .. Len(logs),
                        q < p, ids[p] \in w, logs[q] = ids[p], OwnRows(ids, logs, w)
                 PROVE  FALSE
      BY DEF LateRow
    <2>1. p \in 1 .. Len(logs) /\ logs[p] = ids[p]
      BY DEF OwnRows
    <2>2. p = q
      BY <1>8, <2>1 DEF Distinct
    <2> QED
      BY <2>2
  <1> QED
    BY <1>8, <1>9 DEF RowsUpTo, RowOf, n

-------------------------------------------------------------------------------
(* The merged output *)

\* What is merged: the decode lane's rows, then the prefill lane's and the held requests'.
RowsMerged ==
    \E decode \in Records, prefills \in Seq(Records) :
       /\ outputs = <<decode>> \o prefills
       /\ merged = MergeOutputs(decode, prefills)
       /\ OutputsFor(outputs, Requests, asks)
       /\ ToSet(decode.req_ids) = DecodeView.tokens
       /\ \A i \in 1 .. Len(prefills) :
             ToSet(prefills[i].req_ids) \subseteq Inflight \cup PrefillView.tokens

\* A batch has a row for each request of the lane.
LEMMA BatchIs ==
    ASSUME NEW S \in SUBSET Requests, NEW batch \in SetToSeqs(S)
    PROVE  batch \in Seq(Requests) /\ Distinct(batch) /\ ToSet(batch) = S
  <1> DEFINE n == Cardinality(S)
  <1>1. IsFiniteSet(S) /\ n \in Nat
    BY InflightAssumption, FS_Subset, FS_CardinalityType
  <1>2. batch \in [1 .. n -> S] /\ \A i, j \in 1 .. n : i # j => batch[i] # batch[j]
    BY DEF SetToSeqs
  <1>3. IsFiniteSet(1 .. n) /\ Cardinality(1 .. n) = n
    BY <1>1, FS_Interval
  <1>4. batch \in Injection(1 .. n, S)
    BY <1>2 DEF Injection, IsInjective
  <1>5. batch \in Surjection(1 .. n, S)
    BY <1>1, <1>3, <1>4, FS_Injection
  <1>6. batch \in Seq(Requests) /\ Len(batch) = n
    <2>1. batch \in [1 .. n -> Requests]
      BY <1>2
    <2> HIDE DEF n
    <2> QED
      BY <1>1, <2>1
  <1>7. Distinct(batch)
    BY <1>2, <1>6 DEF Distinct
  <1>8. ASSUME NEW x
        PROVE  x \in ToSet(batch) <=> x \in S
    <2>1. x \in ToSet(batch) <=> \E i \in 1 .. n : batch[i] = x
      BY <1>6, InSet
    <2> QED
      BY <1>2, <1>5, <2>1 DEF Surjection
  <1> QED
    BY <1>6, <1>7, <1>8

\* The rows of earlier steps are the held requests'.
LEMMA EarlierAre ==
    ASSUME running \in Seq(Requests), Distinct(running), NEW earlier \in EarlierOutputs
    PROVE  OutputsFor(earlier, Inflight, asks)
  <1> DEFINE held == Those(running, Inflight)
             each == [i \in DOMAIN held |-> LaneOutput(<<held[i]>>)]
             n == Len(held)
  <1>1. held \in Seq(Requests) /\ Distinct(held) /\ ToSet(held) \subseteq Inflight
    <2>1. held \in Seq(Requests) /\ Distinct(held) /\ ToSet(held) = ToSet(running) \cap Inflight
      BY ThoseFacts
    <2> QED
      BY <2>1
  <1>2. earlier = <<LaneOutput(held)>> \/ earlier = each
    BY DEF EarlierOutputs
  <1> HIDE DEF held
  <1>3. OutputsFor(<<LaneOutput(held)>>, Inflight, asks)
    BY <1>1, OneOutput
  <1>4. n \in Nat /\ DOMAIN held = 1 .. n /\ \A i \in 1 .. n : held[i] \in Requests
    BY <1>1
  <1>5. \A i \in 1 .. n : held[i] \in Inflight
    BY <1>1, InSet
  <1>6. \A i, j \in 1 .. n : i # j => held[i] # held[j]
    BY <1>1 DEF Distinct
  <1> HIDE DEF n
  <1>7. ASSUME NEW i \in 1 .. n
        PROVE  /\ each[i] \in Records
               /\ each[i].req_ids = <<held[i]>> /\ each[i].sampled = each[i].req_ids
               /\ each[i].logprobs = IF ToSet(each[i].req_ids) \cap asks = {} THEN <<>>
                                     ELSE each[i].req_ids
               /\ Distinct(each[i].req_ids)
               /\ ToSet(each[i].req_ids) = {held[i]}
    <2>1. each[i] = LaneOutput(<<held[i]>>)
      BY <1>4
    <2>2. <<held[i]>> \in Seq(Requests) /\ Distinct(<<held[i]>>) /\ ToSet(<<held[i]>>) = {held[i]}
      BY <1>4 DEF Distinct, ToSet
    <2>3. LaneOutput(<<held[i]>>) \in Records
      BY <2>2, OneOutput
    <2> DEFINE b == <<held[i]>>
    <2>4. /\ each[i] = LaneOutput(b) /\ Distinct(b) /\ ToSet(b) = {held[i]} /\ LaneOutput(b) \in Records
      BY <2>1, <2>2, <2>3
    <2> HIDE DEF b, each
    <2>5. /\ LaneOutput(b).req_ids = b /\ LaneOutput(b).sampled = b
          /\ LaneOutput(b).logprobs = IF ToSet(b) \cap asks = {} THEN <<>> ELSE b
      BY DEF LaneOutput
    <2>6. /\ each[i] \in Records
          /\ each[i].req_ids = b /\ each[i].sampled = each[i].req_ids
          /\ each[i].logprobs = IF ToSet(each[i].req_ids) \cap asks = {} THEN <<>>
                                ELSE each[i].req_ids
          /\ Distinct(each[i].req_ids)
          /\ ToSet(each[i].req_ids) = {held[i]}
      BY <2>4, <2>5
    <2> QED
      BY <2>6 DEF b
  <1>8. each \in Seq(Records) /\ Len(each) = n
    <2>1. each \in [1 .. n -> Records]
      BY <1>4, <1>7
    <2> HIDE DEF each
    <2> QED
      BY <1>4, <2>1
  <1>9. OutputsFor(each, Inflight, asks)
    <2> HIDE DEF each
    <2>1. \A i, j \in 1 .. n : i # j => ToSet(each[i].req_ids) \cap ToSet(each[j].req_ids) = {}
      <3>1. \A i \in 1 .. n : ToSet(each[i].req_ids) = {held[i]}
        BY <1>7
      <3> QED
        BY <1>6, <3>1
    <2>2. \A i \in 1 .. n : ToSet(each[i].req_ids) \subseteq Inflight
      BY <1>5, <1>7
    <2> QED
      BY <1>7, <1>8, <2>1, <2>2 DEF OutputsFor
  <1> QED
    BY <1>2, <1>3, <1>9

\* _merge_outputs makes what the invariant says of merged rows.
LEMMA RowsMergedByMerge == ListInv /\ HandedOver /\ Merge => HandedOver' /\ RowsMerged'
  <1> SUFFICES ASSUME ListInv, HandedOver, Merge PROVE HandedOver' /\ RowsMerged'
    OBVIOUS
  <1>1. running \in Seq(Requests) /\ Distinct(running)
    BY DEF ListInv, Merge
  <1>2. step' = step /\ asks' = asks /\ scheduled' = scheduled /\ before' = before
    BY DEF Merge
  <1>3. HandedOver'
    BY <1>2 DEF HandedOver, OriginalStep
  <1>4. /\ scheduled \in Seq(Requests) /\ Distinct(scheduled)
        /\ ToSet(scheduled) \cap Inflight = {}
    BY DEF HandedOver
  <1>5. PICK offload \in SUBSET ToSet(scheduled) :
           /\ ViewOf(PrefillView, scheduled, offload)
           /\ ViewOf(DecodeView, scheduled, ToSet(scheduled) \ offload)
    BY LanesGet
  <1> DEFINE P == PrefillView.tokens
             D == DecodeView.tokens
  <1>6. P = ToSet(scheduled) \cap offload /\ D = ToSet(scheduled) \cap (ToSet(scheduled) \ offload)
    BY <1>5 DEF ViewOf
  <1>7. \A x \in ToSet(scheduled) : x \in Requests
    BY <1>4, InSet
  <1>8. P \subseteq Requests /\ D \subseteq Requests /\ Inflight \subseteq Requests
    BY <1>6, <1>7, InflightAssumption
  <1>9. D \cap (Inflight \cup P) = {} /\ Inflight \cap P = {}
    BY <1>4, <1>6
  <1>10. PICK decodes \in SetToSeqs(D), batch \in SetToSeqs(P), earlier \in EarlierOutputs :
            LET pending == earlier \o (IF batch = <<>> THEN <<>> ELSE <<LaneOutput(batch)>>)
            IN  \E ready \in 0 .. Len(pending) :
                  /\ outputs' = <<LaneOutput(decodes)>> \o SubSeq(pending, 1, ready)
                  /\ merged' = MergeOutputs(LaneOutput(decodes), SubSeq(pending, 1, ready))
    BY DEF Merge
  <1> DEFINE last == IF batch = <<>> THEN <<>> ELSE <<LaneOutput(batch)>>
             pending == earlier \o last
             decode == LaneOutput(decodes)
  <1>11. PICK ready \in 0 .. Len(pending) :
            /\ outputs' = <<decode>> \o SubSeq(pending, 1, ready)
            /\ merged' = MergeOutputs(decode, SubSeq(pending, 1, ready))
    BY <1>10
  <1> HIDE DEF P, D
  <1>12. /\ decodes \in Seq(Requests) /\ Distinct(decodes) /\ ToSet(decodes) = D
         /\ batch \in Seq(Requests) /\ Distinct(batch) /\ ToSet(batch) = P
    BY <1>8, BatchIs
  <1>13. OutputsFor(last, P, asks)
    <2>1. CASE batch = <<>>
      BY <2>1 DEF OutputsFor
    <2>2. CASE batch # <<>>
      BY <1>12, <2>2, OneOutput
    <2> QED
      BY <2>1, <2>2
  <1>14. OutputsFor(earlier, Inflight, asks)
    BY <1>1, EarlierAre
  <1> HIDE DEF last
  <1>15. OutputsFor(pending, Inflight \cup P, asks)
    BY <1>9, <1>13, <1>14, MoreOutputs
  <1> HIDE DEF pending
  <1> DEFINE prefills == SubSeq(pending, 1, ready)
  <1>16. OutputsFor(prefills, Inflight \cup P, asks)
    BY <1>11, <1>15, FirstOutputs
  <1>17. OutputsFor(<<decode>>, D, asks) /\ decode \in Records /\ decode.req_ids = decodes
    BY <1>12, OneOutput
  <1>18. outputs' = <<decode>> \o prefills /\ merged' = MergeOutputs(decode, prefills)
    BY <1>11
  <1> HIDE DEF decode, prefills
  <1>19. OutputsFor(<<decode>> \o prefills, D \cup (Inflight \cup P), asks)
    BY <1>9, <1>16, <1>17, MoreOutputs
  <1>20. OutputsFor(outputs', Requests, asks)
    BY <1>8, <1>18, <1>19 DEF OutputsFor
  <1>21. /\ prefills \in Seq(Records)
         /\ \A i \in 1 .. Len(prefills) : ToSet(prefills[i].req_ids) \subseteq Inflight \cup P
    BY <1>16 DEF OutputsFor
  <1>22. ToSet(decode.req_ids) = D
    BY <1>12, <1>17
  <1>23. DecodeView'.tokens = D /\ PrefillView'.tokens = P
    BY <1>2 DEF DecodeView, PrefillView, D, P
  <1>24. RowsMerged'
    <2>1. \E d \in Records, p \in Seq(Records) :
             /\ outputs' = <<d>> \o p
             /\ merged' = MergeOutputs(d, p)
             /\ OutputsFor(outputs', Requests, asks')
             /\ ToSet(d.req_ids) = DecodeView'.tokens
             /\ \A i \in 1 .. Len(p) : ToSet(p[i].req_ids) \subseteq Inflight \cup PrefillView'.tokens
      BY <1>2, <1>17, <1>18, <1>20, <1>21, <1>22, <1>23
    <2> QED
      BY <2>1 DEF RowsMerged
  <1> QED
    BY <1>3, <1>24

\* What the merged output says of the step.
LEMMA MergedFacts ==
    ASSUME RowsMerged
    PROVE  /\ merged.req_ids \in Seq(Requests) /\ Distinct(merged.req_ids)
           /\ merged.sampled = merged.req_ids
           /\ ToSet(merged.req_ids) = DecodeView.tokens \cup merged.finished
           /\ merged.finished \subseteq Inflight \cup PrefillView.tokens
           /\ merged.logprobs \in Seq(Requests)
           /\ OwnRows(merged.req_ids, merged.logprobs, asks)
              <=> ~Gap(outputs)
           /\ outputs \in Seq(Records)
  <1>1. PICK decode \in Records, prefills \in Seq(Records) :
           /\ outputs = <<decode>> \o prefills
           /\ merged = MergeOutputs(decode, prefills)
           /\ OutputsFor(outputs, Requests, asks)
           /\ ToSet(decode.req_ids) = DecodeView.tokens
           /\ \A i \in 1 .. Len(prefills) :
                 ToSet(prefills[i].req_ids) \subseteq Inflight \cup PrefillView.tokens
    BY DEF RowsMerged
  <1> DEFINE items == WithRows(outputs)
             n == Len(prefills)
  <1>2. /\ merged.req_ids = FlattenSeq([i \in DOMAIN items |-> items[i].req_ids])
        /\ merged.sampled = FlattenSeq([i \in DOMAIN items |-> items[i].sampled])
        /\ merged.logprobs = MergeLogprobs(items)
        /\ merged.finished = UNION {ToSet(prefills[i].req_ids) : i \in DOMAIN prefills}
    BY <1>1, Zenon DEF MergeOutputs
  <1>3. /\ OutputsFor(items, Requests, asks)
        /\ HaveRows(items)
        /\ \A x : RowOf(x, items) <=> RowOf(x, outputs)
        /\ Missed(items, Len(items)) <=> Gap(outputs)
    <2>1. items = WithRows(outputs)
      OBVIOUS
    <2> HIDE DEF items
    <2>2. OutputsFor(items, Requests, asks)
      BY <1>1, <2>1, WithRowsFacts
    <2>3. /\ HaveRows(items)
          /\ \A x : RowOf(x, items) <=> RowOf(x, outputs)
          /\ Missed(items, Len(items)) <=> Gap(outputs)
      BY <1>1, <2>1, WithRowsFacts
    <2> QED
      BY <2>2, <2>3
  <1> HIDE DEF items
  <1>4. /\ merged.req_ids \in Seq(Requests) /\ Distinct(merged.req_ids)
        /\ merged.sampled = merged.req_ids
        /\ \A x : x \in ToSet(merged.req_ids) <=> RowOf(x, items)
        /\ merged.logprobs \in Seq(Requests)
        /\ OwnRows(merged.req_ids, merged.logprobs, asks) <=> ~Missed(items, Len(items))
    BY <1>2, <1>3, RowsOfAll
  <1>5. n \in Nat /\ DOMAIN prefills = 1 .. n
    OBVIOUS
  <1>6. /\ outputs \in Seq(Records) /\ Len(outputs) = 1 + n
        /\ \A i \in 1 .. 1 + n : outputs[i] = IF i <= 1 THEN decode ELSE prefills[i - 1]
    <2>1. <<decode>> \in Seq(Records) /\ Len(<<decode>>) = 1 /\ <<decode>>[1] = decode
      OBVIOUS
    <2> QED
      BY <1>1, <2>1, ConcatProperties
  <1> HIDE DEF n
  <1>7. merged.finished = UNION {ToSet(prefills[i].req_ids) : i \in 1 .. n}
    BY <1>2, <1>5
  <1>8. \A i \in 1 .. 1 + n : \/ outputs[i] = decode
                              \/ i - 1 \in 1 .. n /\ outputs[i] = prefills[i - 1]
    BY <1>5, <1>6
  <1>9. \A i \in 1 .. n : i + 1 \in 1 .. 1 + n /\ outputs[i + 1] = prefills[i]
    <2> TAKE i \in 1 .. n
    <2>1. i + 1 \in 1 .. 1 + n /\ ~(i + 1 <= 1) /\ (i + 1) - 1 = i
      BY <1>5
    <2> QED
      BY <1>6, <2>1
  <1>10. 1 \in 1 .. 1 + n /\ outputs[1] = decode
    BY <1>5, <1>6
  <1>11. ASSUME NEW x
         PROVE  (\E i \in 1 .. 1 + n : x \in ToSet(outputs[i].req_ids))
                <=> x \in ToSet(decode.req_ids) \/ \E i \in 1 .. n : x \in ToSet(prefills[i].req_ids)
    BY <1>8, <1>9, <1>10
  <1>12. ToSet(merged.req_ids) = DecodeView.tokens \cup merged.finished
    <2>1. ASSUME NEW x
          PROVE  x \in ToSet(merged.req_ids) <=> x \in DecodeView.tokens \/ x \in merged.finished
      <3>1. x \in ToSet(merged.req_ids) <=> \E i \in 1 .. 1 + n : x \in ToSet(outputs[i].req_ids)
        BY <1>3, <1>4, <1>6 DEF RowOf
      <3>2. x \in merged.finished <=> \E i \in 1 .. n : x \in ToSet(prefills[i].req_ids)
        BY <1>7
      <3>3. x \in ToSet(decode.req_ids) <=> x \in DecodeView.tokens
        BY <1>1
      <3> QED
        BY <1>11, <3>1, <3>2, <3>3
    <2> QED
      BY <2>1
  <1>13. merged.finished \subseteq Inflight \cup PrefillView.tokens
    BY <1>1, <1>7 DEF n
  <1> QED
    BY <1>3, <1>4, <1>6, <1>12, <1>13

\* From it each request finds its own row.
LEMMA RowsOwn ==
    ASSUME RowsMerged, phase = "merged"
    PROVE  RowsAreOwn
  <1> DEFINE ids == merged.req_ids
             logs == merged.logprobs
  <1>1. /\ ids \in Seq(Requests) /\ Distinct(ids) /\ merged.sampled = ids
        /\ logs \in Seq(Requests) /\ outputs \in Seq(Records)
    BY MergedFacts
  <1>2. OwnRows(ids, logs, asks) <=> ~Gap(outputs)
    BY MergedFacts
  <1>3. DOMAIN ids = 1 .. Len(ids) /\ DOMAIN logs = 1 .. Len(logs) /\ DOMAIN outputs = 1 .. Len(outputs)
    BY <1>1
  <1>4. Cardinality(ToSet(ids)) = Len(ids)
    BY <1>1, DistinctCardinality
  <1>5. OwnRows(ids, logs, asks) <=> \A i \in DOMAIN ids : ids[i] \in asks =>
                                        i \in DOMAIN logs /\ logs[i] = ids[i]
    BY <1>3, Zenon DEF OwnRows
  <1>6. Gap(outputs) <=> \E i, j \in DOMAIN outputs :
                   i < j /\ outputs[i].req_ids # <<>> /\ outputs[i].logprobs = <<>>
                         /\ outputs[j].logprobs # <<>>
    BY <1>3, Zenon DEF Gap
  <1> QED
    BY <1>1, <1>2, <1>4, <1>5, <1>6, Zenon DEF RowsAreOwn

\* A part of lists without new_token_ids has none, and one of lists with them has them.
LEMMA PartTokens ==
    ASSUME NEW X, NEW ids \in Seq(X), Distinct(ids), NEW S, NEW cached, CachedFor(cached, ids)
    PROVE  /\ cached.new_token_ids = <<>> => Part(cached, S).new_token_ids = <<>>
           /\ cached.new_token_ids = ids => Part(cached, S).new_token_ids = Those(ids, S)
  <1> DEFINE places == Those([i \in DOMAIN ids |-> i], {i \in DOMAIN ids : ids[i] \in S})
  <1>1. [k \in DOMAIN places |-> ids[places[k]]] = Those(ids, S)
    BY ByPlaces
  <1>2. cached.req_ids = ids /\ cached.new_token_ids \in {<<>>, ids}
    BY DEF CachedFor
  <1>3. Part(cached, S) = Entries(cached, places)
    BY <1>2 DEF Part
  <1>4. ids = <<>> => Those(ids, S) = <<>>
    <2>1. /\ Those(ids, S) \in Seq(X) /\ Distinct(Those(ids, S))
          /\ ToSet(Those(ids, S)) = ToSet(ids) \cap S
      BY ThoseFacts
    <2>2. ASSUME ids = <<>>
          PROVE  Those(ids, S) = <<>>
      <3>1. ToSet(Those(ids, S)) = {}
        BY <2>1, <2>2 DEF ToSet
      <3>2. Len(Those(ids, S)) = 0
        BY <2>1, <3>1, DistinctCardinality, FS_EmptySet
      <3> QED
        BY <2>1, <3>2
    <2> QED
      BY <2>2
  <1> HIDE DEF places
  <1> QED
    BY <1>1, <1>2, <1>3, <1>4 DEF Entries

\* _move_prefill_output_back fits the step to the merged output.
LEMMA RowsMeetByMoveBack ==
    ASSUME ListInv, HandedOver, RowsMerged, MoveBack
    PROVE  RowsMeetSchedule'
  <1> DEFINE all == scheduled
             B == ToSet(before)
             new == Those(all, Requests \ B)
             known == Those(all, B)
             S == ToSet(all)
             F == merged.finished
  <1>1. PICK offload \in SUBSET S, async \in BOOLEAN :
           step = Moved(OriginalStep(all, async), offload)
    BY DEF HandedOver
  <1>2. all \in Seq(Requests) /\ Distinct(all) /\ S \cap Inflight = {}
    BY DEF HandedOver
  <1> DEFINE cached == [req_ids |-> known, computed |-> known,
                        new_token_ids |-> IF async THEN <<>> ELSE known]
             part == Part(cached, offload)
  <1>3. step' = [step EXCEPT !.new = @ \o step.prefill_new,
                             !.cached = Joined(@, step.prefill_cached),
                             !.tokens = @ \cup step.prefill_tokens]
    BY DEF MoveBack, MovedBack
  <1>4. step = [new |-> new, cached |-> cached, tokens |-> S \ offload,
                prefill_new |-> Those(new, offload), prefill_cached |-> part,
                prefill_tokens |-> offload]
    <2>1. S \cap offload = offload
      OBVIOUS
    <2> QED
      BY <1>1, <2>1 DEF Moved, OriginalStep, NoStep
  <1>5. known \in Seq(Requests) /\ Distinct(known)
    BY <1>2, ThoseFacts
  <1>6. CachedFor(cached, known)
    BY DEF CachedFor
  <1>7. /\ cached.new_token_ids = (IF async THEN <<>> ELSE known)
        /\ cached.req_ids = known /\ cached.computed = known
    OBVIOUS
  <1> HIDE DEF known, cached, new
  <1>8. CachedFor(part, Those(known, offload))
    BY <1>5, <1>6, PartIs
  <1>9. IF async THEN part.new_token_ids = <<>> ELSE part.new_token_ids = Those(known, offload)
    BY <1>5, <1>6, <1>7, PartTokens
  <1> HIDE DEF part
  <1>10. /\ step'.cached = Joined(cached, part) /\ step'.tokens = S /\ step'.prefill_tokens = offload
         /\ step.prefill_tokens = offload
    BY <1>3, <1>4
  <1>11. Aligned(step'.cached)
    <2>1. <<>> \o <<>> = <<>>
      OBVIOUS
    <2>2. part.req_ids = Those(known, offload) /\ part.computed = Those(known, offload)
      BY <1>8 DEF CachedFor
    <2>3. /\ step'.cached.req_ids = known \o Those(known, offload)
          /\ step'.cached.computed = known \o Those(known, offload)
          /\ step'.cached.new_token_ids = cached.new_token_ids \o part.new_token_ids
      <3>1. /\ Joined(cached, part).req_ids = cached.req_ids \o part.req_ids
            /\ Joined(cached, part).computed = cached.computed \o part.computed
            /\ Joined(cached, part).new_token_ids = cached.new_token_ids \o part.new_token_ids
        BY DEF Joined
      <3> QED
        BY <1>7, <1>10, <2>2, <3>1
    <2>4. step'.cached.new_token_ids \in {<<>>, known \o Those(known, offload)}
      BY <1>7, <1>9, <2>1, <2>3
    <2> QED
      BY <2>3, <2>4 DEF Aligned
  <1>12. /\ ToSet(merged.req_ids) = DecodeView.tokens \cup F
         /\ F \subseteq Inflight \cup PrefillView.tokens
    BY MergedFacts
  <1>13. PrefillView.tokens = offload /\ DecodeView.tokens = S \ offload
    BY <1>4 DEF PrefillView, DecodeView
  <1>14. merged' = merged /\ scheduled' = scheduled /\ phase' = "back"
    BY DEF MoveBack
  <1> DEFINE rows == ToSet(merged.req_ids)
  <1>15. rows = (S \ offload) \cup F /\ F \subseteq Inflight \cup offload
    BY <1>12, <1>13
  <1> HIDE DEF rows, S, F
  <1>16. /\ S \ rows = offload \ F
         /\ rows \ S = F \cap Inflight
         /\ S \ offload = rows \ F
    BY <1>1, <1>2, <1>15
  <1>17. /\ step'.tokens = S
         /\ step'.tokens \ rows = step'.prefill_tokens \ F
         /\ rows \ step'.tokens = F \cap Inflight
         /\ step'.tokens \ step'.prefill_tokens = rows \ F
    BY <1>10, <1>16
  <1> QED
    BY <1>11, <1>14, <1>17 DEF RowsMeetSchedule, S, F, rows

-------------------------------------------------------------------------------
(* What a step keeps *)

StepInv ==
    /\ phase \in {"moved", "merged"} => HandedOver
    /\ phase = "merged" => RowsMerged
    /\ RowsMeetSchedule

\* The records are as claimed in every phase.
LEMMA StepInvInvariant == StepSpec => [](ListInv /\ StepInv)
  <1>1. StepInit => StepInv
    BY DEF StepInit, Init, StepInv, RowsMeetSchedule
  <1>2. ASSUME ListInv, StepInv, [StepNext]_<<vars, stepVars>>
        PROVE  StepInv'
    <2>1. CASE Move
      <3>1. HandedOver' /\ phase' = "moved"
        BY <1>2, <2>1, HandedOverByMove DEF Move
      <3> QED
        BY <3>1 DEF StepInv, RowsMeetSchedule
    <2>2. CASE Merge
      <3>1. HandedOver' /\ RowsMerged' /\ phase' = "merged"
        BY <1>2, <2>2, RowsMergedByMerge DEF Merge, StepInv
      <3> QED
        BY <3>1 DEF StepInv, RowsMeetSchedule
    <2>3. CASE MoveBack
      <3>1. RowsMeetSchedule' /\ phase' = "back"
        BY <1>2, <2>3, RowsMeetByMoveBack DEF MoveBack, StepInv
      <3> QED
        BY <3>1 DEF StepInv
    <2>4. CASE Next /\ UNCHANGED stepVars
      <3>1. phase' \in {"schedule", "restore", "done"}
        BY <2>4 DEF Next, Hold, OriginalSchedule, Restore
      <3> QED
        BY <3>1 DEF StepInv, RowsMeetSchedule
    <2>5. CASE UNCHANGED <<vars, stepVars>>
      <3>1. /\ phase' = phase /\ before' = before /\ scheduled' = scheduled /\ step' = step
            /\ asks' = asks /\ outputs' = outputs /\ merged' = merged
        BY <2>5 DEF vars, stepVars
      <3>2. HandedOver => HandedOver'
        BY <3>1 DEF HandedOver, OriginalStep
      <3>3. RowsMerged => RowsMerged'
        BY <3>1 DEF RowsMerged, DecodeView, PrefillView
      <3>4. RowsMeetSchedule => RowsMeetSchedule'
        BY <3>1 DEF RowsMeetSchedule
      <3> QED
        BY <1>2, <3>1, <3>2, <3>3, <3>4 DEF StepInv
    <2> QED
      BY <1>2, <2>1, <2>2, <2>3, <2>4, <2>5 DEF StepNext
  <1>3. []ListInv /\ StepSpec => []StepInv
    BY <1>1, <1>2, PTL DEF StepSpec
  <1> QED
    BY <1>3, ListInvInvariant, PTL

\* Between them the lanes get every request of the step, each in one lane, in the order of
\* the step, each with its own tokens and its own entry of every list.  Code:
\* scheduler.py:48-153 cuts the prefill lane's part and model_runner_v1.py:115-184 the
\* decode lane's.
THEOREM LanesPartitionTheStep == StepSpec => []LanesPartitionStep
  <1>1. ASSUME ListInv, HandedOver
        PROVE  /\ \A view \in {DecodeView, PrefillView} :
                     /\ ToSet(Listed(view)) = view.tokens
                     /\ Aligned(view.cached)
                     /\ view.cached.req_ids = Those(scheduled, ToSet(view.cached.req_ids))
               /\ Len(Listed(DecodeView)) + Len(Listed(PrefillView)) = Len(scheduled)
               /\ DecodeView.tokens \cup PrefillView.tokens = ToSet(scheduled)
    <2>1. scheduled \in Seq(Requests) /\ Distinct(scheduled)
      BY <1>1 DEF HandedOver
    <2>2. PICK offload \in SUBSET ToSet(scheduled) :
             /\ ViewOf(PrefillView, scheduled, offload)
             /\ ViewOf(DecodeView, scheduled, ToSet(scheduled) \ offload)
      BY <1>1, LanesGet
    <2> DEFINE all == ToSet(scheduled)
               P == all \cap offload
               D == all \cap (all \ offload)
    <2>3. /\ ToSet(Listed(PrefillView)) = PrefillView.tokens
          /\ Aligned(PrefillView.cached)
          /\ PrefillView.cached.req_ids = Those(scheduled, ToSet(PrefillView.cached.req_ids))
          /\ Len(Listed(PrefillView)) = Cardinality(P)
          /\ Len(Listed(PrefillView)) \in Nat
      BY <2>1, <2>2, ViewFacts
    <2>4. /\ ToSet(Listed(DecodeView)) = DecodeView.tokens
          /\ Aligned(DecodeView.cached)
          /\ DecodeView.cached.req_ids = Those(scheduled, ToSet(DecodeView.cached.req_ids))
          /\ Len(Listed(DecodeView)) = Cardinality(D)
          /\ Len(Listed(DecodeView)) \in Nat
      BY <2>1, <2>2, ViewFacts
    <2>5. PrefillView.tokens = P /\ DecodeView.tokens = D
      BY <2>2 DEF ViewOf
    <2>6. IsFiniteSet(all) /\ Cardinality(all) = Len(scheduled)
      <3>1. \A x \in all : x \in Requests
        BY <2>1, InSet
      <3>2. IsFiniteSet(all)
        BY <3>1, InflightAssumption, FS_Subset
      <3> QED
        BY <2>1, <3>2, DistinctCardinality
    <2>7. Cardinality(D) + Cardinality(P) = Len(scheduled)
      <3>1. D \cup P = all /\ D \cap P = {}
        OBVIOUS
      <3>2. IsFiniteSet(D) /\ IsFiniteSet(P)
        BY <2>6, FS_Subset
      <3> HIDE DEF D, P
      <3>3. Cardinality(D \cup P) = Cardinality(D) + Cardinality(P) - Cardinality(D \cap P)
        BY <3>2, FS_Union
      <3>4. Cardinality(D) \in Nat /\ Cardinality(P) \in Nat /\ Cardinality({}) = 0
        BY <3>2, FS_CardinalityType, FS_EmptySet
      <3>5. Cardinality(D \cup P) = Cardinality(all) /\ Cardinality(D \cap P) = Cardinality({})
        BY <3>1, Zenon
      <3> QED
        BY <2>6, <3>3, <3>4, <3>5
    <2>8. D \cup P = all
      OBVIOUS
    <2> HIDE DEF all, D, P
    <2>9. Len(Listed(DecodeView)) + Len(Listed(PrefillView)) = Len(scheduled)
      BY <2>3, <2>4, <2>7
    <2>10. DecodeView.tokens \cup PrefillView.tokens = ToSet(scheduled)
      BY <2>5, <2>8 DEF all
    <2> QED
      BY <2>3, <2>4, <2>9, <2>10
  <1>2. ListInv /\ StepInv => LanesPartitionStep
    BY <1>1 DEF StepInv, LanesPartitionStep
  <1> QED
    BY <1>2, StepInvInvariant, PTL

\* When the engine reads the output, the requests of the step without a row in it are those
\* still in the prefill lane, the rows of no request of the step are the held ones', and
\* those reported as finished are the ones whose hold must end.  Code: scheduler.py:359-404
\* moves back into the step what meets the output that model_runner_v1.py:194-244 merged.
THEOREM RowsMeetTheSchedule == StepSpec => []RowsMeetSchedule
  <1>1. ListInv /\ StepInv => RowsMeetSchedule
    BY DEF StepInv
  <1> QED
    BY <1>1, StepInvInvariant, PTL

\* The row of a request, by req_id_to_index, is its own; for logprobs exactly when no
\* output without logprobs was merged before one that has them.  Code: _merge_logprobs,
\* model_runner_v1.py:115-146, and _merge_outputs, 194-244.
THEOREM RowsAreTheirOwn == StepSpec => []RowsAreOwn
  <1>1. ListInv /\ StepInv => RowsAreOwn
    BY RowsOwn DEF StepInv, RowsAreOwn
  <1> QED
    BY <1>1, StepInvInvariant, PTL

===============================================================================
