----------------------- MODULE LoadBalanceProxy_proofs -----------------------
(***************************************************************************)
(* Proofs about LoadBalanceProxy, for any set of requests, any numbers of  *)
(* servers and any number of attempts: the tokens counted for a decoder    *)
(* are those of its requests that have not ended, the KV load counted      *)
(* for a prefiller is that of its requests that have not released theirs,  *)
(* until one of them fails after its first chunk, and each heap has one    *)
(* entry per server, with the counts of the server.                        *)
(*                                                                         *)
(* The argument: the flag of a stream says how often its KV load has been  *)
(* taken back, and a sum over a set of requests changes by the score of    *)
(* the request that comes or goes. In a heap an item moves along the way   *)
(* from a position to the root, past entries that shift by one place: no   *)
(* entry is lost and none is doubled.                                      *)
(***************************************************************************)
EXTENDS LoadBalanceProxy, FiniteSetTheorems, WellFoundedInduction, TLAPS

-------------------------------------------------------------------------------
(* Sums: a sum over a finite set is that without an element, and the element. *)

\* A set of subsets of a finite set has a member that contains no other one.
LEMMA MinimalSubset ==
    ASSUME NEW S, IsFiniteSet(S), NEW B \in SUBSET SUBSET S, B # {}
    PROVE  \E T \in B : \A U \in SUBSET T : U # T => U \notin B
  <1>1. FiniteSubsetsOf(S) = SUBSET S
    BY FS_FiniteSubsetsOfFinite
  <1>2. IsWellFoundedOn(StrictSubsetOrdering(S), SUBSET S)
    BY <1>1, FS_StrictSubsetOrderingWellFounded
  <1>3. PICK T \in B : \A U \in B : ~(<<U, T>> \in StrictSubsetOrdering(S))
    BY <1>2, WFMin, Zenon
  <1>4. ASSUME NEW U \in SUBSET T, U # T
        PROVE  U \notin B
    BY <1>3, <1>4 DEF StrictSubsetOrdering
  <1> QED
    BY <1>4

\* f maps every subset of S to its sum, as the fold of the community modules does.
IsIter(f, score, S) ==
    f = [s \in SUBSET S |->
            IF s = {} THEN 0 ELSE LET x == CHOOSE x \in s : TRUE IN score[x] + f[s \ {x}]]

\* The element the fold takes out first.
First(s) == CHOOSE x \in s : TRUE

\* The fold is 0 at the empty set and adds the score of one element at any other.
LEMMA IterValue ==
    ASSUME NEW f, NEW score, NEW S, IsIter(f, score, S)
    PROVE  /\ DOMAIN f = SUBSET S
           /\ f[{}] = 0
           /\ \A s \in SUBSET S : s # {} => f[s] = score[First(s)] + f[s \ {First(s)}]
  BY Zenon DEF IsIter, First

\* The second of them for one set.
LEMMA IterStep ==
    ASSUME NEW f, NEW score, NEW S, IsIter(f, score, S), NEW s \in SUBSET S, s # {}
    PROVE  f[s] = score[First(s)] + f[s \ {First(s)}]
  <1>1. \A t \in SUBSET S : t # {} => f[t] = score[First(t)] + f[t \ {First(t)}]
    BY Zenon DEF IsIter, First
  <1> QED
    BY <1>1, Zenon

\* The sum of the model is that fold.
LEMMA ScoreSumIter ==
    ASSUME NEW score, NEW S
    PROVE  ScoreSum(score, S) = (CHOOSE f : IsIter(f, score, S))[S]
  BY DEF ScoreSum, FoldFunctionOnSet, MapThenFoldSet, IsIter

\* A function with these two values is the fold.
LEMMA IterIs ==
    ASSUME NEW f, NEW score, NEW S, DOMAIN f = SUBSET S, f[{}] = 0,
           f = [s \in SUBSET S |-> f[s]],
           \A s \in SUBSET S : s # {} => f[s] = score[First(s)] + f[s \ {First(s)}]
    PROVE  IsIter(f, score, S)
  <1> DEFINE g == [s \in SUBSET S |-> IF s = {} THEN 0
                     ELSE LET x == CHOOSE x \in s : TRUE IN score[x] + f[s \ {x}]]
  <1>1. ASSUME NEW s \in SUBSET S
        PROVE  f[s] = g[s]
    <2>1. CASE s = {}
      BY <2>1
    <2>2. CASE s # {}
      BY <2>2 DEF First
    <2> QED
      BY <2>1, <2>2
  <1>2. f = g
    <2> HIDE DEF g
    <2>1. DOMAIN g = SUBSET S /\ g = [s \in SUBSET S |-> g[s]]
      BY DEF g
    <2> QED
      BY <1>1, <2>1
  <1> QED
    BY <1>2 DEF IsIter

\* The element taken out first is in the set.
LEMMA FirstIn ==
    ASSUME NEW s, s # {}
    PROVE  First(s) \in s
  BY DEF First

\* There is one function like that.
LEMMA IterUnique ==
    ASSUME NEW S, IsFiniteSet(S), NEW score, NEW f, NEW g,
           IsIter(f, score, S), IsIter(g, score, S), NEW s \in SUBSET S
    PROVE  f[s] = g[s]
  <1> DEFINE B == {t \in SUBSET S : f[t] # g[t]}
  <1>1. SUFFICES ASSUME B # {} PROVE FALSE
    OBVIOUS
  <1>2. B \in SUBSET SUBSET S
    OBVIOUS
  <1>3. PICK t \in B : \A u \in SUBSET t : u # t => u \notin B
    <2> HIDE DEF B
    <2> QED
      BY <1>1, <1>2, MinimalSubset
  <1>4. t # {}
    BY IterValue
  <1>5. First(t) \in t
    BY <1>4, FirstIn
  <1>6. f[t \ {First(t)}] = g[t \ {First(t)}]
    BY <1>3, <1>5
  <1> HIDE DEF B
  <1>7. t \in SUBSET S
    BY <1>2, <1>3
  <1>8. f[t] = score[First(t)] + f[t \ {First(t)}]
    BY <1>4, <1>7, IterStep
  <1>9. g[t] = score[First(t)] + g[t \ {First(t)}]
    BY <1>4, <1>7, IterStep
  <1>10. f[t] # g[t]
    BY <1>3 DEF B
  <1> QED
    BY <1>6, <1>8, <1>9, <1>10

\* What it says of a part of S it says of the part alone.
LEMMA IterRestrict ==
    ASSUME NEW S, NEW score, NEW f, IsIter(f, score, S), NEW T \in SUBSET S
    PROVE  IsIter([s \in SUBSET T |-> f[s]], score, T)
  <1> DEFINE g == [s \in SUBSET T |-> f[s]]
  <1>1. DOMAIN g = SUBSET T /\ g = [s \in SUBSET T |-> g[s]]
    OBVIOUS
  <1>2. g[{}] = 0
    BY IterValue
  <1>3. ASSUME NEW s \in SUBSET T, s # {}
        PROVE  g[s] = score[First(s)] + g[s \ {First(s)}]
    <2>1. f[s] = score[First(s)] + f[s \ {First(s)}]
      <3>1. s \in SUBSET S
        OBVIOUS
      <3> QED
        BY <1>3, <3>1, IterStep
    <2> QED
      BY <2>1
  <1> HIDE DEF g
  <1> QED
    BY <1>1, <1>2, <1>3, IterIs DEF g

\* There is one at all.
LEMMA IterExists ==
    ASSUME NEW S, IsFiniteSet(S), NEW score
    PROVE  \E f : IsIter(f, score, S)
  <1> DEFINE B == {T \in SUBSET S : ~ \E f : IsIter(f, score, T)}
  <1>1. SUFFICES ASSUME B # {} PROVE FALSE
    OBVIOUS
  <1>2. B \in SUBSET SUBSET S
    OBVIOUS
  <1>3. PICK T \in B : \A U \in SUBSET T : U # T => U \notin B
    <2> HIDE DEF B
    <2> QED
      BY <1>1, <1>2, MinimalSubset
  <1> DEFINE iter(U) == CHOOSE f : IsIter(f, score, U)
             sum(U)  == iter(U)[U]
             h == [s \in SUBSET T |->
                     IF s = {} THEN 0 ELSE score[First(s)] + sum(s \ {First(s)})]
  <1>4. ASSUME NEW U \in SUBSET T, U # T
        PROVE  IsIter(iter(U), score, U)
    <2>1. \E f : IsIter(f, score, U)
      BY <1>3, <1>4
    <2> QED
      BY <2>1
  <1>5. ASSUME NEW U \in SUBSET T, U # T
        PROVE  h[U] = sum(U)
    <2>1. CASE U = {}
      BY <1>4, <1>5, <2>1, IterValue
    <2>2. CASE U # {}
      <3> DEFINE V == U \ {First(U)}
      <3>1. First(U) \in U /\ V \in SUBSET U /\ V \in SUBSET T /\ V # T /\ IsFiniteSet(V)
        BY <1>2, <1>3, <2>2, FirstIn, FS_Subset
      <3>2. sum(U) = score[First(U)] + iter(U)[V]
        <4> HIDE DEF iter
        <4>1. U \in SUBSET U
          OBVIOUS
        <4> QED
          BY <1>4, <1>5, <2>2, <4>1, IterStep
      <3>3. iter(U)[V] = sum(V)
        <4>1. IsIter([s \in SUBSET V |-> iter(U)[s]], score, V)
          <5> HIDE DEF iter, V
          <5> QED
            BY <1>4, <1>5, <3>1, IterRestrict
        <4>2. IsIter(iter(V), score, V)
          <5> HIDE DEF iter, V
          <5> QED
            BY <1>4, <3>1
        <4> DEFINE k == [s \in SUBSET V |-> iter(U)[s]]
        <4>3. k[V] = iter(V)[V]
          <5> HIDE DEF iter, V, k
          <5>1. IsIter(k, score, V)
            BY <4>1 DEF k
          <5> QED
            BY <3>1, <4>2, <5>1, IterUnique
        <4> HIDE DEF iter, V
        <4> QED
          BY <4>3
      <3> HIDE DEF iter, V, sum
      <3> QED
        BY <2>2, <3>1, <3>2, <3>3 DEF V
    <2> QED
      BY <2>1, <2>2
  <1>6. IsIter(h, score, T)
    <2>1. DOMAIN h = SUBSET T /\ h = [s \in SUBSET T |-> h[s]] /\ h[{}] = 0
      OBVIOUS
    <2>2. ASSUME NEW s \in SUBSET T, s # {}
          PROVE  h[s] = score[First(s)] + h[s \ {First(s)}]
      <3>1. First(s) \in s /\ s \ {First(s)} # T /\ s \ {First(s)} \in SUBSET T
        BY <2>2, FirstIn
      <3>2. h[s \ {First(s)}] = sum(s \ {First(s)})
        <4> HIDE DEF h, sum
        <4> QED
          BY <1>5, <3>1
      <3>3. h[s] = score[First(s)] + sum(s \ {First(s)})
        BY <2>2
      <3> QED
        BY <3>2, <3>3
    <2> HIDE DEF h
    <2> QED
      BY <2>1, <2>2, IterIs
  <1> QED
    BY <1>3, <1>6

\* The sum over no request.
LEMMA SumOfNone ==
    ASSUME NEW score
    PROVE  ScoreSum(score, {}) = 0
  <1> DEFINE f == CHOOSE f : IsIter(f, score, {})
  <1>1. IsIter(f, score, {})
    BY IterExists, FS_EmptySet
  <1>2. ScoreSum(score, {}) = f[{}]
    BY ScoreSumIter
  <1> HIDE DEF f
  <1> QED
    BY <1>1, <1>2, IterValue

\* A sum is that without the first element, and the first element.
LEMMA SumWithoutFirst ==
    ASSUME NEW S, IsFiniteSet(S), S # {}, NEW score
    PROVE  ScoreSum(score, S) = score[First(S)] + ScoreSum(score, S \ {First(S)})
  <1> DEFINE T == S \ {First(S)}
             f == CHOOSE f : IsIter(f, score, S)
             g == CHOOSE g : IsIter(g, score, T)
             k == [s \in SUBSET T |-> f[s]]
  <1>1. T \in SUBSET S /\ IsFiniteSet(T)
    BY FS_Subset
  <1>2. IsIter(f, score, S)
    BY IterExists
  <1>3. IsIter(g, score, T)
    <2> HIDE DEF T
    <2> QED
      BY <1>1, IterExists
  <1>4. ScoreSum(score, S) = f[S] /\ ScoreSum(score, T) = g[T]
    BY ScoreSumIter
  <1>5. f[S] = score[First(S)] + f[T]
    <2> HIDE DEF f
    <2>1. S \in SUBSET S
      OBVIOUS
    <2> QED
      BY <1>2, <2>1, IterStep
  <1>6. f[T] = g[T]
    <2> HIDE DEF f, g, T
    <2>1. IsIter(k, score, T)
      BY <1>1, <1>2, IterRestrict
    <2>2. k[T] = f[T]
      OBVIOUS
    <2> HIDE DEF k
    <2> QED
      BY <1>1, <1>3, <2>1, <2>2, IterUnique
  <1> HIDE DEF f, g
  <1> QED
    BY <1>4, <1>5, <1>6

\* Sums of natural numbers are natural numbers.
LEMMA SumIsNat ==
    ASSUME NEW D, NEW score \in [D -> Nat], NEW S \in SUBSET D, IsFiniteSet(S)
    PROVE  ScoreSum(score, S) \in Nat
  <1> DEFINE B == {T \in SUBSET S : ScoreSum(score, T) \notin Nat}
  <1>1. SUFFICES ASSUME B # {} PROVE FALSE
    OBVIOUS
  <1>2. B \in SUBSET SUBSET S
    OBVIOUS
  <1>3. PICK T \in B : \A U \in SUBSET T : U # T => U \notin B
    <2> HIDE DEF B
    <2> QED
      BY <1>1, <1>2, MinimalSubset
  <1>4. T # {}
    <2> SUFFICES ASSUME T = {} PROVE FALSE
      OBVIOUS
    <2>1. ScoreSum(score, T) = 0
      BY SumOfNone
    <2> QED
      BY <1>3, <2>1
  <1>5. First(T) \in T /\ IsFiniteSet(T) /\ T \in SUBSET S
    BY <1>4, FirstIn, FS_Subset
  <1>6. ScoreSum(score, T \ {First(T)}) \in Nat
    BY <1>3, <1>5
  <1>7. ScoreSum(score, T) = score[First(T)] + ScoreSum(score, T \ {First(T)})
    BY <1>4, <1>5, SumWithoutFirst
  <1>8. score[First(T)] \in Nat
    BY <1>5
  <1> QED
    BY <1>3, <1>6, <1>7, <1>8

\* Any element may be taken out first.
LEMMA SumWithout ==
    ASSUME NEW D, NEW score \in [D -> Nat], NEW S \in SUBSET D, IsFiniteSet(S), NEW z \in S
    PROVE  ScoreSum(score, S) = score[z] + ScoreSum(score, S \ {z})
  <1> DEFINE Splits(T, x) == ScoreSum(score, T) = score[x] + ScoreSum(score, T \ {x})
             B == {T \in SUBSET S : \E x \in T : ~Splits(T, x)}
  <1>1. SUFFICES ASSUME B # {} PROVE FALSE
    OBVIOUS
  <1>2. B \in SUBSET SUBSET S
    OBVIOUS
  <1>3. PICK T \in B : \A U \in SUBSET T : U # T => U \notin B
    <2> HIDE DEF B
    <2> QED
      BY <1>1, <1>2, MinimalSubset
  <1>4. PICK x \in T : ~Splits(T, x)
    OBVIOUS
  <1> DEFINE y == First(T)
  <1>5. T \in SUBSET S /\ y \in T /\ IsFiniteSet(T)
    BY <1>4, FirstIn, FS_Subset
  <1>6. ScoreSum(score, T) = score[y] + ScoreSum(score, T \ {y})
    BY <1>4, <1>5, SumWithoutFirst
  <1>7. y # x
    BY <1>4, <1>6
  <1> HIDE DEF y
  <1>8. \A U \in SUBSET T, e \in T : U # T /\ e \in U => Splits(U, e)
    BY <1>3, <1>5
  <1> DEFINE both == T \ {x, y}
  <1>9. ScoreSum(score, T \ {y}) = score[x] + ScoreSum(score, both)
    <2>1. (T \ {y}) \ {x} = both
      OBVIOUS
    <2>2. Splits(T \ {y}, x)
      BY <1>5, <1>7, <1>8
    <2> QED
      BY <2>1, <2>2
  <1>10. ScoreSum(score, T \ {x}) = score[y] + ScoreSum(score, both)
    <2>1. (T \ {x}) \ {y} = both
      OBVIOUS
    <2>2. Splits(T \ {x}, y)
      BY <1>5, <1>7, <1>8
    <2> QED
      BY <2>1, <2>2
  <1>11. ScoreSum(score, both) \in Nat
    <2>1. both \in SUBSET D /\ IsFiniteSet(both)
      BY <1>5, FS_Subset
    <2> HIDE DEF both
    <2> QED
      BY <2>1, SumIsNat
  <1>12. score[x] \in Nat /\ score[y] \in Nat
    BY <1>4, <1>5
  <1> HIDE DEF both
  <1> QED
    BY <1>4, <1>6, <1>9, <1>10, <1>11, <1>12

\* What a sum gains when a request comes, and loses when it goes.
LEMMA SumChanges ==
    ASSUME NEW score \in [Requests -> Nat \ {0}], NEW S \in SUBSET Requests, IsFiniteSet(S),
           NEW r \in Requests
    PROVE  /\ ScoreSum(score, S) \in Nat /\ score[r] \in Nat \ {0}
           /\ r \notin S => ScoreSum(score, S \cup {r}) = ScoreSum(score, S) + score[r]
           /\ r \in S => /\ ScoreSum(score, S \ {r}) = ScoreSum(score, S) - score[r]
                         /\ ScoreSum(score, S) >= score[r]
  <1>1. score \in [Requests -> Nat] /\ score[r] \in Nat \ {0}
    OBVIOUS
  <1>2. ScoreSum(score, S) \in Nat
    BY <1>1, SumIsNat
  <1>3. ASSUME r \notin S
        PROVE  ScoreSum(score, S \cup {r}) = ScoreSum(score, S) + score[r]
    <2>1. IsFiniteSet(S \cup {r}) /\ (S \cup {r}) \ {r} = S
      BY <1>3, FS_AddElement
    <2>2. ScoreSum(score, S \cup {r}) = score[r] + ScoreSum(score, (S \cup {r}) \ {r})
      BY <1>1, <2>1, SumWithout
    <2> QED
      BY <1>1, <1>2, <2>1, <2>2
  <1>4. ASSUME r \in S
        PROVE  /\ ScoreSum(score, S \ {r}) = ScoreSum(score, S) - score[r]
               /\ ScoreSum(score, S) >= score[r]
    <2>1. ScoreSum(score, S) = score[r] + ScoreSum(score, S \ {r})
      BY <1>1, <1>4, SumWithout
    <2>2. IsFiniteSet(S \ {r}) /\ S \ {r} \in SUBSET Requests
      BY FS_RemoveElement
    <2>3. ScoreSum(score, S \ {r}) \in Nat
      BY <1>1, <2>2, SumIsNat
    <2> QED
      BY <1>1, <1>2, <2>1, <2>3
  <1> QED
    BY <1>1, <1>2, <1>3, <1>4

-------------------------------------------------------------------------------
(* Functions on positions that follow from earlier positions *)

\* What holds of a position when it holds of all before it holds of all.
LEMMA FromBelow ==
    ASSUME NEW n \in Nat, NEW T, \A k \in 0 .. n : (\A j \in 0 .. n : j < k => j \in T) => k \in T
    PROVE  0 .. n \subseteq T
  <1> DEFINE B == {k \in 0 .. n : k \notin T}
  <1>1. SUFFICES ASSUME B # {} PROVE FALSE
    OBVIOUS
  <1>2. B \subseteq Nat
    OBVIOUS
  <1>3. PICK k \in B : \A j \in B : ~(<<j, k>> \in OpToRel(<, Nat))
    <2> HIDE DEF B
    <2> QED
      BY <1>1, <1>2, NatLessThanWellFounded, WFMin, Zenon
  <1>4. \A j \in B : ~(j < k)
    BY <1>2, <1>3 DEF OpToRel
  <1>5. \A j \in 0 .. n : j < k => j \in T
    BY <1>4
  <1> QED
    BY <1>5

\* The functions f on 0 .. m with f[0] = base where f[k] follows from the value at an
\* earlier position.
Follows(f, m, S, base, below, step) ==
    /\ f \in [0 .. m -> S]
    /\ f[0] = base
    /\ \A k \in 1 .. m : f[k] = step[k][f[below[k]]]

\* There is one.
LEMMA Recursion ==
    ASSUME NEW n \in Nat, NEW S, NEW base \in S, NEW below \in [1 .. n -> 0 .. n],
           \A k \in 1 .. n : below[k] < k, NEW step \in [1 .. n -> [S -> S]]
    PROVE  \E f : Follows(f, n, S, base, below, step)
  <1> DEFINE T == {m \in 0 .. n : \E f : Follows(f, m, S, base, below, step)}
  <1>1. 0 \in T
    <2> DEFINE f == [i \in 0 .. 0 |-> base]
    <2>1. Follows(f, 0, S, base, below, step)
      BY DEF Follows
    <2> HIDE DEF f
    <2> QED
      BY <2>1
  <1>2. ASSUME NEW m \in 1 .. n, m - 1 \in T
        PROVE  m \in T
    <2>1. PICK f : Follows(f, m - 1, S, base, below, step)
      BY <1>2
    <2>2. /\ f \in [0 .. m - 1 -> S] /\ f[0] = base
          /\ \A k \in 1 .. m - 1 : f[k] = step[k][f[below[k]]]
      BY <2>1 DEF Follows
    <2>3. /\ m \in 0 .. n /\ \A i \in 0 .. m : i = m \/ i \in 0 .. m - 1
          /\ \A i \in 1 .. m : i = m \/ i \in 1 .. m - 1
          /\ \A i \in 0 .. m - 1 : i # m /\ i \in 0 .. m
          /\ 0 # m /\ 0 \in 0 .. m
      OBVIOUS
    <2>4. below[m] \in 0 .. m - 1
      OBVIOUS
    <2>5. step[m][f[below[m]]] \in S
      <3>1. f[below[m]] \in S
        BY <2>2, <2>4
      <3>2. step[m] \in [S -> S]
        OBVIOUS
      <3> QED
        BY <3>1, <3>2
    <2> DEFINE g == [i \in 0 .. m |-> IF i = m THEN step[m][f[below[m]]] ELSE f[i]]
    <2>6. g \in [0 .. m -> S]
      BY <2>2, <2>3, <2>5
    <2>7. g[0] = base
      BY <2>2, <2>3
    <2>8. \A i \in 0 .. m - 1 : g[i] = f[i]
      BY <2>3
    <2>9. g[m] = step[m][f[below[m]]]
      BY <2>3
    <2> HIDE DEF g
    <2>10. ASSUME NEW k \in 1 .. m
           PROVE  g[k] = step[k][g[below[k]]]
      <3>1. CASE k = m
        BY <2>4, <2>8, <2>9, <3>1
      <3>2. CASE k \in 1 .. m - 1
        <4>1. below[k] \in 0 .. m - 1 /\ k \in 0 .. m - 1
          BY <3>2
        <4>2. g[k] = f[k] /\ g[below[k]] = f[below[k]]
          BY <2>8, <4>1
        <4> QED
          BY <2>2, <3>2, <4>2
      <3> QED
        BY <2>3, <3>1, <3>2
    <2>11. Follows(g, m, S, base, below, step)
      BY <2>6, <2>7, <2>10 DEF Follows
    <2> QED
      BY <2>3, <2>11
  <1>3. 0 .. n \subseteq T
    <2> HIDE DEF T
    <2>1. ASSUME NEW k \in 0 .. n, \A j \in 0 .. n : j < k => j \in T
          PROVE  k \in T
      <3>1. CASE k = 0
        BY <1>1, <3>1
      <3>2. CASE k # 0
        <4>1. k \in 1 .. n /\ k - 1 \in 0 .. n /\ k - 1 < k
          BY <3>2
        <4> QED
          BY <1>2, <2>1, <4>1
      <3> QED
        BY <3>1, <3>2
    <2> QED
      BY <2>1, FromBelow
  <1>4. n \in T
    <2> HIDE DEF T
    <2>1. n \in 0 .. n
      OBVIOUS
    <2> QED
      BY <1>3, <2>1
  <1> QED
    BY <1>4

-------------------------------------------------------------------------------
(* The way from a position up to the first one *)

\* The parent of a position is half of it.
LEMMA ParentIs ==
    ASSUME NEW i \in Nat \ {0}
    PROVE  /\ Parent(i) \in Nat /\ Parent(i) < i
           /\ i = 2 * Parent(i) \/ i = 2 * Parent(i) + 1
           /\ i > 1 <=> Parent(i) # 0
  BY DEF Parent

\* The function that AncestorsOrSelf takes.
IsUp(f, pos) == f = [i \in 0 .. pos |-> IF i = 0 THEN {} ELSE {i} \cup f[Parent(i)]]

\* The way from a position to the root exists.
LEMMA UpExists ==
    ASSUME NEW pos \in Nat
    PROVE  \E f : IsUp(f, pos)
  <1> DEFINE S == SUBSET Nat
             below == [k \in 1 .. pos |-> Parent(k)]
             step == [k \in 1 .. pos |-> [s \in S |-> {k} \cup s]]
  <1>1. \A k \in 1 .. pos : k \in Nat \ {0} /\ Parent(k) \in 0 .. pos /\ Parent(k) < k
    BY ParentIs
  <1>2. below \in [1 .. pos -> 0 .. pos] /\ \A k \in 1 .. pos : below[k] < k /\ below[k] = Parent(k)
    BY <1>1
  <1>3. step \in [1 .. pos -> [S -> S]]
    OBVIOUS
  <1>4. \A k \in 1 .. pos : \A s \in S : step[k][s] = {k} \cup s
    OBVIOUS
  <1>5. {} \in S
    OBVIOUS
  <1> HIDE DEF S, below, step
  <1>6. PICK f : Follows(f, pos, S, {}, below, step)
    BY <1>2, <1>3, <1>5, Recursion
  <1>7. /\ f \in [0 .. pos -> S] /\ f[0] = {}
        /\ \A k \in 1 .. pos : f[k] = {k} \cup f[Parent(k)]
    <2>1. /\ f \in [0 .. pos -> S] /\ f[0] = {}
          /\ \A k \in 1 .. pos : f[k] = step[k][f[below[k]]]
      BY <1>6 DEF Follows
    <2>2. ASSUME NEW k \in 1 .. pos
          PROVE  f[k] = {k} \cup f[Parent(k)]
      <3>1. f[below[k]] \in S /\ below[k] = Parent(k)
        BY <1>2, <2>1
      <3> QED
        BY <1>4, <2>1, <3>1
    <2> QED
      BY <2>1, <2>2
  <1>8. \A i \in 0 .. pos : f[i] = IF i = 0 THEN {} ELSE {i} \cup f[Parent(i)]
    <2> TAKE i \in 0 .. pos
    <2>1. i = 0 \/ i \in 1 .. pos
      OBVIOUS
    <2> QED
      BY <1>7, <2>1
  <1>9. f = [i \in 0 .. pos |-> f[i]]
    BY <1>7
  <1>10. IsUp(f, pos)
    BY <1>8, <1>9, Zenon DEF IsUp
  <1> QED
    BY <1>10

\* And they agree.
LEMMA UpUnique ==
    ASSUME NEW p \in Nat, NEW q \in Nat, p <= q, NEW f, NEW g, IsUp(f, p), IsUp(g, q)
    PROVE  f[p] = g[p]
  <1> DEFINE T == {i \in 0 .. p : f[i] = g[i]}
  <1>1. ASSUME NEW k \in 0 .. p, \A j \in 0 .. p : j < k => j \in T
        PROVE  k \in T
    <2>1. /\ f[k] = IF k = 0 THEN {} ELSE {k} \cup f[Parent(k)]
          /\ g[k] = IF k = 0 THEN {} ELSE {k} \cup g[Parent(k)]
      <3>1. k \in 0 .. q
        OBVIOUS
      <3> QED
        BY <3>1, Zenon DEF IsUp
    <2>2. CASE k = 0
      BY <2>1, <2>2
    <2>3. CASE k # 0
      <3>1. Parent(k) \in 0 .. p /\ Parent(k) < k
        BY <2>3, ParentIs
      <3>2. f[Parent(k)] = g[Parent(k)]
        BY <1>1, <3>1
      <3> QED
        BY <2>1, <2>3, <3>2
    <2> QED
      BY <2>2, <2>3
  <1> HIDE DEF T
  <1>2. 0 .. p \subseteq T
    BY <1>1, FromBelow
  <1>3. p \in 0 .. p
    OBVIOUS
  <1> QED
    BY <1>2, <1>3 DEF T

\* The recursion.
LEMMA AncestorsAre ==
    /\ AncestorsOrSelf(0) = {}
    /\ \A pos \in Nat \ {0} : AncestorsOrSelf(pos) = {pos} \cup AncestorsOrSelf(Parent(pos))
  <1> DEFINE up(pos) == CHOOSE f : IsUp(f, pos)
  <1>1. \A pos \in Nat : AncestorsOrSelf(pos) = up(pos)[pos]
    BY Zenon DEF AncestorsOrSelf, IsUp
  <1>2. ASSUME NEW pos \in Nat
        PROVE  IsUp(up(pos), pos)
    BY UpExists, Zenon
  <1> HIDE DEF up
  <1>3. AncestorsOrSelf(0) = {}
    <2>1. IsUp(up(0), 0)
      BY <1>2
    <2>2. up(0)[0] = {}
      BY <2>1 DEF IsUp
    <2> QED
      BY <1>1, <2>2
  <1>4. ASSUME NEW pos \in Nat \ {0}
        PROVE  AncestorsOrSelf(pos) = {pos} \cup AncestorsOrSelf(Parent(pos))
    <2>1. Parent(pos) \in Nat /\ Parent(pos) <= pos
      BY ParentIs
    <2>2. IsUp(up(pos), pos) /\ IsUp(up(Parent(pos)), Parent(pos))
      BY <1>2, <2>1
    <2>3. up(pos)[pos] = {pos} \cup up(pos)[Parent(pos)]
      <3>1. pos \in 0 .. pos /\ pos # 0
        OBVIOUS
      <3> QED
        BY <2>2, <3>1, Zenon DEF IsUp
    <2>4. up(Parent(pos))[Parent(pos)] = up(pos)[Parent(pos)]
      BY <2>1, <2>2, UpUnique
    <2> QED
      BY <1>1, <2>1, <2>3, <2>4
  <1> QED
    BY <1>3, <1>4

\* From 1 to pos, each position but the last with the next one below it.
LEMMA AncestorsFacts ==
    ASSUME NEW pos \in Nat \ {0}
    PROVE  /\ AncestorsOrSelf(pos) \subseteq 1 .. pos
           /\ pos \in AncestorsOrSelf(pos) /\ 1 \in AncestorsOrSelf(pos)
           /\ \A j \in AncestorsOrSelf(pos) : j > 1 => Parent(j) \in AncestorsOrSelf(pos)
           /\ \A j \in AncestorsOrSelf(pos) :
                 j # pos => \E i \in AncestorsOrSelf(pos) : i > j /\ Parent(i) = j
  <1> DEFINE Way(p) ==
               /\ AncestorsOrSelf(p) \subseteq 1 .. p
               /\ p # 0 => p \in AncestorsOrSelf(p) /\ 1 \in AncestorsOrSelf(p)
               /\ \A j \in AncestorsOrSelf(p) : j > 1 => Parent(j) \in AncestorsOrSelf(p)
               /\ \A j \in AncestorsOrSelf(p) :
                    j # p => \E i \in AncestorsOrSelf(p) : i > j /\ Parent(i) = j
             T == {p \in 0 .. pos : Way(p)}
  <1>1. Way(0)
    BY AncestorsAre
  <1>2. ASSUME NEW p \in 1 .. pos, Way(Parent(p))
        PROVE  Way(p)
    <2> DEFINE u == Parent(p)
               A == AncestorsOrSelf(u)
               B == AncestorsOrSelf(p)
    <2>1. B = {p} \cup A /\ u \in Nat /\ u < p /\ (p > 1 <=> u # 0) /\ p \in Nat
      BY AncestorsAre, ParentIs
    <2>2. /\ A \subseteq 1 .. u
          /\ u # 0 => u \in A /\ 1 \in A
          /\ \A j \in A : j > 1 => Parent(j) \in A
          /\ \A j \in A : j # u => \E i \in A : i > j /\ Parent(i) = j
      BY <1>2
    <2> HIDE DEF A, B
    <2>3. B \subseteq 1 .. p
      BY <2>1, <2>2
    <2>4. p \in B /\ 1 \in B
      BY <2>1, <2>2
    <2>5. ASSUME NEW j \in B, j > 1
          PROVE  Parent(j) \in B
      <3>1. CASE j = p
        BY <2>1, <2>2, <2>5, <3>1
      <3>2. CASE j \in A
        BY <2>1, <2>2, <2>5, <3>2
      <3> QED
        BY <2>1, <3>1, <3>2
    <2>6. ASSUME NEW j \in B, j # p
          PROVE  \E i \in B : i > j /\ Parent(i) = j
      <3>1. j \in A
        BY <2>1, <2>6
      <3>2. CASE j = u
        BY <2>1, <3>2
      <3>3. CASE j # u
        BY <2>1, <2>2, <3>1, <3>3
      <3> QED
        BY <3>2, <3>3
    <2> QED
      BY <2>3, <2>4, <2>5, <2>6 DEF B
  <1>3. 0 .. pos \subseteq T
    <2>1. ASSUME NEW k \in 0 .. pos, \A j \in 0 .. pos : j < k => j \in T
          PROVE  k \in T
      <3>1. CASE k = 0
        BY <1>1, <3>1
      <3>2. CASE k # 0
        <4>1. k \in 1 .. pos /\ Parent(k) \in 0 .. pos /\ Parent(k) < k
          BY <3>2, ParentIs
        <4>2. Parent(k) \in T
          BY <2>1, <4>1
        <4>3. Way(Parent(k))
          BY <4>2
        <4> HIDE DEF Way
        <4>4. Way(k)
          BY <1>2, <4>1, <4>3
        <4> QED
          BY <4>4
      <3> QED
        BY <3>1, <3>2
    <2> HIDE DEF T
    <2> QED
      BY <2>1, FromBelow
  <1>4. pos \in T
    <2> HIDE DEF T
    <2>1. pos \in 0 .. pos
      OBVIOUS
    <2> QED
      BY <1>3, <2>1
  <1>5. Way(pos) /\ pos # 0
    <2> HIDE DEF Way
    <2> QED
      BY <1>4
  <1> QED
    BY <1>5

-------------------------------------------------------------------------------
(* Moving entries along that way *)

\* The function that SiftDown takes.
IsPlace(f, heap, pos) ==
    f = [i \in 1 .. pos |->
            IF i > 1 /\ Less(heap[pos], heap[Parent(i)]) THEN f[Parent(i)] ELSE i]

\* The item ends somewhere on its way.
LEMMA PlaceExists ==
    ASSUME NEW heap, NEW pos \in Nat \ {0}
    PROVE  \E f : IsPlace(f, heap, pos) /\ f[pos] \in AncestorsOrSelf(pos)
  <1> DEFINE up(i) == i > 1 /\ Less(heap[pos], heap[Parent(i)])
             below == [k \in 1 .. pos |-> Parent(k)]
             step == [k \in 1 .. pos |-> [s \in Nat |-> IF up(k) THEN s ELSE k]]
  <1>1. \A k \in 1 .. pos : /\ k \in Nat \ {0} /\ Parent(k) \in 0 .. pos /\ Parent(k) < k
                            /\ (k > 1 => Parent(k) \in 1 .. pos)
    BY ParentIs
  <1>2. below \in [1 .. pos -> 0 .. pos] /\ \A k \in 1 .. pos : below[k] < k /\ below[k] = Parent(k)
    BY <1>1
  <1>3. step \in [1 .. pos -> [Nat -> Nat]]
    OBVIOUS
  <1>4. \A k \in 1 .. pos : \A s \in Nat : step[k][s] = IF up(k) THEN s ELSE k
    OBVIOUS
  <1>5. \A k \in 1 .. pos : up(k) => k > 1
    OBVIOUS
  <1> HIDE DEF below, step, up
  <1>6. PICK f : Follows(f, pos, Nat, 0, below, step)
    BY <1>2, <1>3, Recursion
  <1>7. /\ f \in [0 .. pos -> Nat] /\ f[0] = 0
        /\ \A k \in 1 .. pos : f[k] = IF up(k) THEN f[Parent(k)] ELSE k
    <2>1. /\ f \in [0 .. pos -> Nat] /\ f[0] = 0
          /\ \A k \in 1 .. pos : f[k] = step[k][f[below[k]]]
      BY <1>6 DEF Follows
    <2>2. ASSUME NEW k \in 1 .. pos
          PROVE  f[k] = IF up(k) THEN f[Parent(k)] ELSE k
      <3>1. f[below[k]] \in Nat /\ below[k] = Parent(k)
        BY <1>2, <2>1
      <3> QED
        BY <1>4, <2>1, <3>1
    <2> QED
      BY <2>1, <2>2
  <1> DEFINE g == [i \in 1 .. pos |-> f[i]]
  <1>8. \A i \in 1 .. pos : g[i] = IF up(i) THEN g[Parent(i)] ELSE i
    <2> TAKE i \in 1 .. pos
    <2>1. g[i] = f[i]
      OBVIOUS
    <2>2. CASE up(i)
      <3>1. Parent(i) \in 1 .. pos
        BY <1>1, <1>5, <2>2
      <3>2. g[Parent(i)] = f[Parent(i)]
        BY <3>1
      <3> QED
        BY <1>7, <2>1, <2>2, <3>2
    <2>3. CASE ~up(i)
      BY <1>7, <2>1, <2>3
    <2> QED
      BY <2>2, <2>3
  <1>9. g = [i \in 1 .. pos |-> g[i]]
    OBVIOUS
  <1> HIDE DEF g
  <1>10. IsPlace(g, heap, pos)
    BY <1>8, <1>9, Zenon DEF IsPlace, up
  <1> DEFINE T == {k \in 0 .. pos : k = 0 \/ g[k] \in AncestorsOrSelf(k)}
  <1>11. ASSUME NEW k \in 0 .. pos, \A j \in 0 .. pos : j < k => j \in T
         PROVE  k \in T
    <2>1. CASE k # 0 /\ up(k)
      <3>1. k \in 1 .. pos /\ Parent(k) \in 1 .. pos /\ Parent(k) < k /\ k \in Nat \ {0}
        BY <1>1, <1>5, <2>1
      <3>2. Parent(k) \in T
        BY <1>11, <3>1
      <3>3. g[Parent(k)] \in AncestorsOrSelf(Parent(k))
        BY <3>1, <3>2
      <3>4. g[k] = g[Parent(k)]
        BY <1>8, <2>1, <3>1
      <3>5. AncestorsOrSelf(Parent(k)) \subseteq AncestorsOrSelf(k)
        BY <3>1, AncestorsAre
      <3> QED
        BY <3>3, <3>4, <3>5
    <2>2. CASE k # 0 /\ ~up(k)
      <3>1. k \in 1 .. pos /\ k \in Nat \ {0}
        BY <2>2
      <3>2. g[k] = k
        BY <1>8, <2>2, <3>1
      <3>3. k \in AncestorsOrSelf(k)
        BY <3>1, AncestorsFacts
      <3> QED
        BY <3>2, <3>3
    <2>3. CASE k = 0
      BY <2>3
    <2> QED
      BY <2>1, <2>2, <2>3
  <1>12. 0 .. pos \subseteq T
    <2> HIDE DEF T
    <2> QED
      BY <1>11, FromBelow
  <1>13. g[pos] \in AncestorsOrSelf(pos)
    <2>1. pos \in 0 .. pos /\ pos # 0
      OBVIOUS
    <2> QED
      BY <1>12, <2>1
  <1> QED
    BY <1>10, <1>13

\* There is one such function only, on the positions that matter.
LEMMA PlaceUnique ==
    ASSUME NEW heap, NEW pos \in Nat \ {0}, NEW f, NEW g, IsPlace(f, heap, pos), IsPlace(g, heap, pos)
    PROVE  f[pos] = g[pos]
  <1> DEFINE T == {i \in 0 .. pos : i = 0 \/ f[i] = g[i]}
             up(i) == i > 1 /\ Less(heap[pos], heap[Parent(i)])
  <1>1. /\ \A k \in 1 .. pos : f[k] = IF up(k) THEN f[Parent(k)] ELSE k
        /\ \A k \in 1 .. pos : g[k] = IF up(k) THEN g[Parent(k)] ELSE k
    BY Zenon DEF IsPlace
  <1>2. \A k \in 1 .. pos : up(k) => k > 1
    OBVIOUS
  <1> HIDE DEF up
  <1>3. ASSUME NEW k \in 0 .. pos, \A j \in 0 .. pos : j < k => j \in T
        PROVE  k \in T
    <2>1. CASE k # 0 /\ up(k)
      <3>1. k \in 1 .. pos /\ Parent(k) \in 0 .. pos /\ Parent(k) < k /\ Parent(k) # 0
        BY <1>2, <2>1, ParentIs
      <3>2. f[Parent(k)] = g[Parent(k)]
        BY <1>3, <3>1
      <3> QED
        BY <1>1, <2>1, <3>1, <3>2
    <2>2. CASE k # 0 /\ ~up(k)
      BY <1>1, <2>2
    <2>3. CASE k = 0
      BY <2>3
    <2> QED
      BY <2>1, <2>2, <2>3
  <1>4. 0 .. pos \subseteq T
    <2> HIDE DEF T
    <2> QED
      BY <1>3, FromBelow
  <1>5. pos \in 0 .. pos /\ pos # 0
    OBVIOUS
  <1> QED
    BY <1>4, <1>5

\* What SiftDown does: the entries between the place and pos move one down.
LEMMA SiftDownIs ==
    ASSUME NEW heap, NEW pos \in Nat \ {0}
    PROVE  \E p \in AncestorsOrSelf(pos) :
              SiftDown(heap, pos) =
                [i \in DOMAIN heap |->
                    IF i = p THEN heap[pos]
                    ELSE IF i \in AncestorsOrSelf(pos) /\ i > p THEN heap[Parent(i)] ELSE heap[i]]
  <1> DEFINE place == CHOOSE f : IsPlace(f, heap, pos)
             p == place[pos]
  <1>1. IsPlace(place, heap, pos)
    BY PlaceExists, Zenon
  <1>2. PICK f : IsPlace(f, heap, pos) /\ f[pos] \in AncestorsOrSelf(pos)
    BY PlaceExists
  <1>3. p \in AncestorsOrSelf(pos)
    <2> HIDE DEF place
    <2> QED
      BY <1>1, <1>2, PlaceUnique
  <1>4. SiftDown(heap, pos) =
                [i \in DOMAIN heap |->
                    IF i = p THEN heap[pos]
                    ELSE IF i \in {j \in AncestorsOrSelf(pos) : j > p} THEN heap[Parent(i)] ELSE heap[i]]
    BY Zenon DEF SiftDown, IsPlace
  <1> HIDE DEF p, place
  <1>5. \A i : i \in {j \in AncestorsOrSelf(pos) : j > p} <=> i \in AncestorsOrSelf(pos) /\ i > p
    OBVIOUS
  <1>6. SiftDown(heap, pos) =
                [i \in DOMAIN heap |->
                    IF i = p THEN heap[pos]
                    ELSE IF i \in AncestorsOrSelf(pos) /\ i > p THEN heap[Parent(i)] ELSE heap[i]]
    BY <1>4, <1>5
  <1> QED
    BY <1>3, <1>6

\* What is in the range of a function.
LEMMA InRange ==
    ASSUME NEW f, NEW x
    PROVE  x \in Range(f) <=> \E i \in DOMAIN f : f[i] = x
  BY DEF Range

\* So a heap keeps its entries.
LEMMA SiftDownKeeps ==
    ASSUME NEW E, NEW heap \in Seq(E), NEW pos \in 1 .. Len(heap)
    PROVE  /\ SiftDown(heap, pos) \in Seq(E)
           /\ Len(SiftDown(heap, pos)) = Len(heap)
           /\ Range(SiftDown(heap, pos)) = Range(heap)
  <1> DEFINE n == Len(heap)
             A == AncestorsOrSelf(pos)
             new == SiftDown(heap, pos)
  <1>1. n \in Nat /\ DOMAIN heap = 1 .. n /\ heap \in [1 .. n -> E] /\ pos \in Nat \ {0}
    OBVIOUS
  <1>2. PICK p \in A : new = [i \in DOMAIN heap |->
                                 IF i = p THEN heap[pos]
                                 ELSE IF i \in A /\ i > p THEN heap[Parent(i)] ELSE heap[i]]
    BY <1>1, SiftDownIs
  <1>3. /\ A \subseteq 1 .. pos /\ pos \in A
        /\ \A j \in A : j > 1 => Parent(j) \in A
        /\ \A j \in A : j # pos => \E i \in A : i > j /\ Parent(i) = j
    BY <1>1, AncestorsFacts
  <1> HIDE DEF n, A, new
  <1>4. A \subseteq 1 .. n /\ \A i \in A : i > p => i > 1 /\ Parent(i) \in A
    BY <1>1, <1>3 DEF n
  <1>5. /\ DOMAIN new = 1 .. n
        /\ new[p] = heap[pos]
        /\ \A i \in A : i > p => new[i] = heap[Parent(i)]
        /\ \A i \in 1 .. n : i # p /\ ~(i \in A /\ i > p) => new[i] = heap[i]
    BY <1>1, <1>2, <1>4
  <1>6. ASSUME NEW i \in 1 .. n
        PROVE  \E j \in 1 .. n : new[i] = heap[j]
    <2>1. CASE i = p
      BY <1>5, <2>1 DEF n
    <2>2. CASE i \in A /\ i > p
      BY <1>4, <1>5, <2>2
    <2>3. CASE i # p /\ ~(i \in A /\ i > p)
      BY <1>5, <2>3
    <2> QED
      BY <2>1, <2>2, <2>3
  <1>7. ASSUME NEW j \in 1 .. n
        PROVE  \E i \in 1 .. n : new[i] = heap[j]
    <2>1. CASE j = pos
      BY <1>4, <1>5, <2>1
    <2>2. CASE j # pos /\ j \in A /\ (j = p \/ j > p)
      <3>1. PICK i \in A : i > j /\ Parent(i) = j
        BY <1>3, <2>2
      <3>2. i \in 1 .. n /\ i > p
        BY <1>4, <2>2, <3>1
      <3> QED
        BY <1>5, <3>1, <3>2
    <2>3. CASE ~(j \in A /\ (j = p \/ j > p))
      BY <1>5, <2>3
    <2> QED
      BY <2>1, <2>2, <2>3
  <1>8. new \in [1 .. n -> E]
    <2>1. \A i \in 1 .. n : new[i] \in E
      BY <1>1, <1>6
    <2>2. new = [i \in 1 .. n |-> new[i]]
      BY <1>2, <1>1
    <2> QED
      BY <2>1, <2>2
  <1>9. new \in Seq(E) /\ Len(new) = n
    BY <1>1, <1>8
  <1>10. Range(new) = Range(heap)
    <2>1. DOMAIN new = 1 .. n /\ DOMAIN heap = 1 .. n
      BY <1>1, <1>5
    <2>2. \A x : x \in Range(new) <=> \E i \in 1 .. n : new[i] = x
      BY <2>1, InRange
    <2>3. \A x : x \in Range(heap) <=> \E i \in 1 .. n : heap[i] = x
      BY <2>1, InRange
    <2> QED
      BY <1>6, <1>7, <2>2, <2>3
  <1> QED
    BY <1>9, <1>10 DEF n, new

\* The smaller child of a position is a child of it.
LEMMA SmallerChildIs ==
    ASSUME NEW heap, NEW n \in Nat, DOMAIN heap = 1 .. n, NEW pos \in Nat \ {0}, 2 * pos \in 1 .. n
    PROVE  /\ SmallerChild(heap, pos) \in 1 .. n /\ SmallerChild(heap, pos) > pos
           /\ Parent(SmallerChild(heap, pos)) = pos
  <1>1. Parent(2 * pos) = pos /\ Parent(2 * pos + 1) = pos
    BY DEF Parent
  <1>2. \/ SmallerChild(heap, pos) = 2 * pos
        \/ SmallerChild(heap, pos) = 2 * pos + 1 /\ 2 * pos + 1 \in 1 .. n
    BY DEF SmallerChild
  <1> QED
    BY <1>1, <1>2

\* On the way to l each position is the smaller child of the one above.
SmallerWay(heap, l) ==
    \A j \in AncestorsOrSelf(l) : j > 1 => SmallerChild(heap, Parent(j)) = j

\* The function that SiftUp takes.
IsLeaf(f, heap, n) ==
    f = [k \in 0 .. n |->
            IF k = 0 THEN 1
            ELSE IF 2 * f[k - 1] \in DOMAIN heap THEN SmallerChild(heap, f[k - 1]) ELSE f[k - 1]]

\* The way down the smaller children ends at a leaf.
LEMMA LeafExists ==
    ASSUME NEW heap, NEW n \in Nat \ {0}, DOMAIN heap = 1 .. n
    PROVE  \E f : IsLeaf(f, heap, n)
  <1> DEFINE next(s) == IF 2 * s \in DOMAIN heap THEN SmallerChild(heap, s) ELSE s
             S == 1 .. n
             below == [k \in 1 .. n |-> k - 1]
             step == [k \in 1 .. n |-> [s \in S |-> next(s)]]
  <1>1. \A s \in S : next(s) \in S
    BY SmallerChildIs
  <1>2. below \in [1 .. n -> 0 .. n] /\ \A k \in 1 .. n : below[k] < k /\ below[k] = k - 1
    OBVIOUS
  <1> HIDE DEF next
  <1>3. step \in [1 .. n -> [S -> S]]
    BY <1>1
  <1>4. \A k \in 1 .. n : \A s \in S : step[k][s] = next(s)
    OBVIOUS
  <1>5. 1 \in S
    OBVIOUS
  <1> HIDE DEF S, below, step
  <1>6. PICK f : Follows(f, n, S, 1, below, step)
    BY <1>2, <1>3, <1>5, Recursion
  <1>7. /\ f \in [0 .. n -> S] /\ f[0] = 1
        /\ \A k \in 1 .. n : f[k] = step[k][f[below[k]]]
    BY <1>6 DEF Follows
  <1>8. \A k \in 0 .. n : f[k] = IF k = 0 THEN 1 ELSE next(f[k - 1])
    <2> TAKE k \in 0 .. n
    <2>1. CASE k = 0
      BY <1>7, <2>1
    <2>2. CASE k # 0
      <3>1. k \in 1 .. n /\ k - 1 \in 0 .. n
        BY <2>2
      <3>2. f[k - 1] \in S /\ below[k] = k - 1
        BY <1>2, <1>7, <3>1
      <3>3. f[k] = step[k][f[k - 1]]
        BY <1>7, <3>1, <3>2
      <3>4. step[k][f[k - 1]] = next(f[k - 1])
        BY <1>4, <3>1, <3>2
      <3> QED
        BY <2>2, <3>3, <3>4
    <2> QED
      BY <2>1, <2>2
  <1>9. f = [k \in 0 .. n |-> f[k]]
    BY <1>7
  <1>10. IsLeaf(f, heap, n)
    BY <1>8, <1>9, Zenon DEF IsLeaf, next
  <1> QED
    BY <1>10

\* Such a function stays in the heap and goes to smaller children.
LEMMA LeafFacts ==
    ASSUME NEW heap, NEW n \in Nat \ {0}, DOMAIN heap = 1 .. n, NEW f, IsLeaf(f, heap, n)
    PROVE  f[n] \in 1 .. n /\ SmallerWay(heap, f[n])
  <1> DEFINE T == {k \in 0 .. n : f[k] \in 1 .. n /\ SmallerWay(heap, f[k])}
  <1>1. /\ f[0] = 1
        /\ \A k \in 1 .. n : f[k] = IF 2 * f[k - 1] \in 1 .. n
                                     THEN SmallerChild(heap, f[k - 1]) ELSE f[k - 1]
    <2>1. \A k \in 0 .. n : f[k] = IF k = 0 THEN 1
                                    ELSE IF 2 * f[k - 1] \in DOMAIN heap
                                    THEN SmallerChild(heap, f[k - 1]) ELSE f[k - 1]
      BY Zenon DEF IsLeaf
    <2>2. 0 \in 0 .. n /\ \A k \in 1 .. n : k \in 0 .. n /\ k # 0
      OBVIOUS
    <2>3. f[0] = 1
      BY <2>1, <2>2
    <2>4. ASSUME NEW k \in 1 .. n
          PROVE  f[k] = IF 2 * f[k - 1] \in 1 .. n THEN SmallerChild(heap, f[k - 1]) ELSE f[k - 1]
      BY <2>1, <2>2, Zenon
    <2> QED
      BY <2>3, <2>4
  <1>2. 0 \in T
    <2>1. AncestorsOrSelf(1) \subseteq 1 .. 1
      BY AncestorsFacts
    <2> QED
      BY <1>1, <2>1 DEF SmallerWay
  <1>3. ASSUME NEW k \in 1 .. n, k - 1 \in T
        PROVE  k \in T
    <2> DEFINE l == f[k - 1]
    <2>1. l \in 1 .. n /\ SmallerWay(heap, l) /\ k \in 0 .. n
      BY <1>3
    <2>2. f[k] = IF 2 * l \in 1 .. n THEN SmallerChild(heap, l) ELSE l
      BY <1>1
    <2> HIDE DEF l
    <2>3. CASE 2 * l \in 1 .. n
      <3> DEFINE c == SmallerChild(heap, l)
      <3>1. c \in 1 .. n /\ c > l /\ Parent(c) = l /\ f[k] = c
        BY <2>1, <2>2, <2>3, SmallerChildIs
      <3>2. c = SmallerChild(heap, Parent(c))
        BY <3>1
      <3> HIDE DEF c
      <3>3. AncestorsOrSelf(c) = {c} \cup AncestorsOrSelf(l)
        BY <3>1, AncestorsAre
      <3>4. SmallerWay(heap, c)
        BY <2>1, <3>2, <3>3 DEF SmallerWay
      <3> QED
        BY <2>1, <3>1, <3>4
    <2>4. CASE ~(2 * l \in 1 .. n)
      BY <2>1, <2>2, <2>4
    <2> QED
      BY <2>3, <2>4
  <1>4. 0 .. n \subseteq T
    <2> HIDE DEF T
    <2>1. ASSUME NEW k \in 0 .. n, \A j \in 0 .. n : j < k => j \in T
          PROVE  k \in T
      <3>1. CASE k = 0
        BY <1>2, <3>1
      <3>2. CASE k # 0
        <4>1. k \in 1 .. n /\ k - 1 \in 0 .. n /\ k - 1 < k
          BY <3>2
        <4> QED
          BY <1>3, <2>1, <4>1
      <3> QED
        BY <3>1, <3>2
    <2> QED
      BY <2>1, FromBelow
  <1>5. n \in T
    <2> HIDE DEF T
    <2>1. n \in 0 .. n
      OBVIOUS
    <2> QED
      BY <1>4, <2>1
  <1> QED
    BY <1>5

\* The entries on the way to l move one up, the first one to l.
Shifted(heap, l) ==
    [i \in DOMAIN heap |->
        IF i = l THEN heap[1]
        ELSE IF i \in AncestorsOrSelf(l) THEN heap[SmallerChild(heap, i)] ELSE heap[i]]

\* heapq._siftup: the entries on the way to a leaf move up, and the root's goes from
\* there.
LEMMA SiftUpIs ==
    ASSUME NEW E, NEW heap \in Seq(E), heap # <<>>
    PROVE  \E l \in 1 .. Len(heap) : SmallerWay(heap, l) /\ SiftUp(heap) = SiftDown(Shifted(heap, l), l)
  <1> DEFINE n == Len(heap)
             leaf == CHOOSE f : IsLeaf(f, heap, n)
             l == leaf[n]
  <1>1. n \in Nat \ {0} /\ DOMAIN heap = 1 .. n
    OBVIOUS
  <1>2. \E f : IsLeaf(f, heap, n)
    <2> HIDE DEF n
    <2> QED
      BY <1>1, LeafExists
  <1>3. IsLeaf(leaf, heap, n)
    BY <1>2, Zenon
  <1>4. l \in 1 .. n /\ SmallerWay(heap, l)
    <2> HIDE DEF n, leaf
    <2> QED
      BY <1>1, <1>3, LeafFacts
  <1>5. SiftUp(heap) = SiftDown(Shifted(heap, l), l)
    BY Zenon DEF SiftUp, IsLeaf, Shifted
  <1> HIDE DEF l, leaf
  <1> QED
    BY <1>4, <1>5

\* heapq._siftup keeps the entries of a heap.
LEMMA SiftUpKeeps ==
    ASSUME NEW E, NEW heap \in Seq(E), heap # <<>>
    PROVE  /\ SiftUp(heap) \in Seq(E)
           /\ Len(SiftUp(heap)) = Len(heap)
           /\ Range(SiftUp(heap)) = Range(heap)
  <1> DEFINE n == Len(heap)
  <1>1. n \in Nat \ {0} /\ DOMAIN heap = 1 .. n /\ heap \in [1 .. n -> E]
    OBVIOUS
  <1>2. PICK l \in 1 .. n : SmallerWay(heap, l) /\ SiftUp(heap) = SiftDown(Shifted(heap, l), l)
    BY SiftUpIs
  <1> HIDE DEF n
  <1> DEFINE A == AncestorsOrSelf(l)
             new == Shifted(heap, l)
  <1>3. /\ A \subseteq 1 .. l /\ l \in A /\ 1 \in A
        /\ \A j \in A : j > 1 => Parent(j) \in A
        /\ \A j \in A : j # l => \E i \in A : i > j /\ Parent(i) = j
    BY <1>1, <1>2, AncestorsFacts
  <1>4. \A j \in A : j > 1 => SmallerChild(heap, Parent(j)) = j
    BY <1>2 DEF SmallerWay
  <1>5. new = [i \in 1 .. n |-> IF i = l THEN heap[1]
                                ELSE IF i \in A THEN heap[SmallerChild(heap, i)] ELSE heap[i]]
    BY <1>1 DEF Shifted
  <1> HIDE DEF A, new
  <1>6. /\ DOMAIN new = 1 .. n
        /\ new[l] = heap[1]
        /\ \A i \in 1 .. n : i \in A /\ i # l => new[i] = heap[SmallerChild(heap, i)]
        /\ \A i \in 1 .. n : i \notin A => new[i] = heap[i]
    BY <1>3, <1>5
  <1>7. A \subseteq 1 .. n
    BY <1>1, <1>3
  <1>8. ASSUME NEW i \in 1 .. n
        PROVE  \E j \in 1 .. n : new[i] = heap[j]
    <2>1. CASE i = l
      BY <1>3, <1>6, <1>7, <2>1
    <2>2. CASE i \in A /\ i # l
      <3>1. PICK j \in A : j > i /\ Parent(j) = i
        BY <1>3, <2>2
      <3>2. j \in 1 .. n /\ j > 1
        BY <1>1, <1>7, <3>1
      <3>3. SmallerChild(heap, i) = j
        BY <1>4, <3>1, <3>2
      <3> QED
        BY <1>6, <2>2, <3>2, <3>3
    <2>3. CASE i \notin A
      BY <1>6, <2>3
    <2> QED
      BY <2>1, <2>2, <2>3
  <1>9. ASSUME NEW j \in 1 .. n
        PROVE  \E i \in 1 .. n : new[i] = heap[j]
    <2>1. CASE j = 1
      BY <1>6, <2>1
    <2>2. CASE j \in A /\ j # 1
      <3>1. j > 1 /\ j \in Nat \ {0}
        BY <1>1, <2>2
      <3>2. Parent(j) \in A /\ Parent(j) < j /\ SmallerChild(heap, Parent(j)) = j
        BY <1>3, <1>4, <2>2, <3>1, ParentIs
      <3>3. Parent(j) # l /\ Parent(j) \in 1 .. n
        <4>1. j \in 1 .. l /\ Parent(j) \in 1 .. l /\ Parent(j) \in 1 .. n
          BY <1>3, <1>7, <2>2, <3>2
        <4> QED
          BY <1>1, <3>2, <4>1
      <3> QED
        BY <1>6, <3>2, <3>3
    <2>3. CASE j \notin A
      BY <1>6, <2>3
    <2> QED
      BY <2>1, <2>2, <2>3
  <1>10. new \in [1 .. n -> E]
    <2>1. \A i \in 1 .. n : new[i] \in E
      BY <1>1, <1>8
    <2>2. new = [i \in 1 .. n |-> new[i]]
      BY <1>5
    <2> QED
      BY <2>1, <2>2
  <1>11. new \in Seq(E) /\ Len(new) = n
    BY <1>1, <1>10
  <1>12. Range(new) = Range(heap)
    <2>0. DOMAIN new = 1 .. n /\ DOMAIN heap = 1 .. n
      BY <1>1, <1>6
    <2>1. \A x : x \in Range(new) <=> \E i \in 1 .. n : new[i] = x
      BY <2>0, InRange
    <2>2. \A x : x \in Range(heap) <=> \E i \in 1 .. n : heap[i] = x
      BY <2>0, InRange
    <2> QED
      BY <1>8, <1>9, <2>1, <2>2
  <1>13. SiftUp(heap) = SiftDown(new, l) /\ l \in 1 .. Len(new)
    BY <1>2, <1>11 DEF new
  <1>14. /\ SiftUp(heap) \in Seq(E) /\ Len(SiftUp(heap)) = Len(new)
         /\ Range(SiftUp(heap)) = Range(new)
    BY <1>11, <1>13, SiftDownKeeps
  <1> QED
    BY <1>11, <1>12, <1>14 DEF n

-------------------------------------------------------------------------------
(* The operations of the queue on lists without doubles *)

Once(list) == \A i, j \in 1 .. Len(list) : list[i] = list[j] => i = j

\* A list has each entry once exactly when it has as many entries as its range.
LEMMA OnceCardinality ==
    ASSUME NEW E, NEW list \in Seq(E)
    PROVE  /\ IsFiniteSet(Range(list))
           /\ Once(list) <=> Cardinality(Range(list)) = Len(list)
  <1> DEFINE n == Len(list)
             R == Range(list)
  <1>1. n \in Nat /\ DOMAIN list = 1 .. n
    OBVIOUS
  <1>2. IsFiniteSet(1 .. n) /\ Cardinality(1 .. n) = n
    BY <1>1, FS_Interval
  <1>3. list \in Surjection(1 .. n, R)
    <2>1. \A x : x \in R <=> \E i \in 1 .. n : list[i] = x
      BY <1>1, InRange
    <2>2. list = [i \in 1 .. n |-> list[i]]
      BY <1>1
    <2> HIDE DEF n, R
    <2>3. \A i \in 1 .. n : list[i] \in R
      BY <2>1
    <2>4. list \in [1 .. n -> R]
      BY <2>2, <2>3
    <2> QED
      BY <2>1, <2>4 DEF Surjection
  <1>4. IsFiniteSet(R)
    BY <1>2, <1>3, FS_Surjection
  <1>5. ASSUME Once(list)
        PROVE  Cardinality(R) = n
    <2>1. list \in Bijection(1 .. n, R)
      BY <1>3, <1>5 DEF Bijection, Injection, IsInjective, Surjection, Once
    <2> QED
      BY <1>2, <2>1, FS_Bijection DEF ExistsBijection
  <1>6. ASSUME Cardinality(R) = n
        PROVE  Once(list)
    <2>1. list \in Injection(1 .. n, R)
      BY <1>2, <1>3, <1>4, <1>6, FS_SurjSameCardinalityImpliesInj
    <2> QED
      BY <2>1 DEF Injection, IsInjective, Once
  <1> QED
    BY <1>4, <1>5, <1>6

\* A list with the same entries and as long has none twice either.
LEMMA OnceKept ==
    ASSUME NEW E, NEW list \in Seq(E), NEW other \in Seq(E), Once(list),
           Len(other) = Len(list), Range(other) = Range(list)
    PROVE  Once(other)
  BY OnceCardinality

\* An entry that is new is there once.
LEMMA AppendOnce ==
    ASSUME NEW E, NEW list \in Seq(E), Once(list), NEW e \in E, e \notin Range(list)
    PROVE  /\ Append(list, e) \in Seq(E) /\ Once(Append(list, e))
           /\ Len(Append(list, e)) = Len(list) + 1
           /\ Range(Append(list, e)) = Range(list) \cup {e}
  <1> DEFINE n == Len(list)
             new == Append(list, e)
  <1>1. /\ n \in Nat /\ DOMAIN list = 1 .. n
        /\ new \in Seq(E) /\ Len(new) = n + 1 /\ DOMAIN new = 1 .. n + 1
        /\ \A i \in 1 .. n : new[i] = list[i]
        /\ new[n + 1] = e
    OBVIOUS
  <1> HIDE DEF n, new
  <1>2. \A i \in 1 .. n + 1 : i \in 1 .. n \/ i = n + 1
    BY <1>1
  <1>3. \A i \in 1 .. n : i \in 1 .. n + 1 /\ list[i] # e
    <2>1. \A i \in 1 .. n : list[i] \in Range(list)
      BY <1>1, InRange
    <2> QED
      BY <1>1, <2>1
  <1>4. \A i, j \in 1 .. n : list[i] = list[j] => i = j
    BY DEF Once, n
  <1>5. Once(new)
    <2>1. ASSUME NEW i \in 1 .. n + 1, NEW j \in 1 .. n + 1, new[i] = new[j]
          PROVE  i = j
      BY <1>1, <1>2, <1>3, <1>4, <2>1
    <2> QED
      BY <1>1, <2>1 DEF Once
  <1>6. Range(new) = Range(list) \cup {e}
    <2>1. \A x : x \in Range(new) <=> \E i \in 1 .. n + 1 : new[i] = x
      <3>1. DOMAIN new = 1 .. n + 1
        BY <1>1
      <3> QED
        BY <3>1, InRange
    <2>2. \A x : x \in Range(list) <=> \E i \in 1 .. n : list[i] = x
      <3>1. DOMAIN list = 1 .. n
        BY <1>1
      <3> QED
        BY <3>1, InRange
    <2>3. n + 1 \in 1 .. n + 1
      BY <1>1
    <2>4. \A x : x \in Range(new) => x \in Range(list) \/ x = e
      BY <1>1, <1>2, <2>1, <2>2
    <2>5. \A x : x \in Range(list) => x \in Range(new)
      BY <1>1, <1>3, <2>1, <2>2
    <2>6. e \in Range(new)
      BY <1>1, <2>1, <2>3
    <2> QED
      BY <2>4, <2>5, <2>6
  <1> QED
    BY <1>1, <1>5, <1>6 DEF n, new

\* heappush() adds the entry.
LEMMA HeapPushAdds ==
    ASSUME NEW E, NEW heap \in Seq(E), Once(heap), NEW e \in E, e \notin Range(heap)
    PROVE  /\ HeapPush(heap, e) \in Seq(E) /\ Once(HeapPush(heap, e))
           /\ Range(HeapPush(heap, e)) = Range(heap) \cup {e}
  <1> DEFINE more == Append(heap, e)
             new == SiftDown(more, Len(heap) + 1)
  <1>1. /\ more \in Seq(E) /\ Once(more) /\ Len(more) = Len(heap) + 1
        /\ Range(more) = Range(heap) \cup {e}
    BY AppendOnce
  <1>2. Len(heap) \in Nat
    OBVIOUS
  <1> HIDE DEF more
  <1>3. Len(heap) + 1 \in 1 .. Len(more)
    BY <1>1, <1>2
  <1>4. new \in Seq(E) /\ Len(new) = Len(more) /\ Range(new) = Range(more)
    BY <1>1, <1>3, SiftDownKeeps
  <1>5. HeapPush(heap, e) = new
    BY DEF HeapPush, more
  <1> HIDE DEF new
  <1>6. Once(new)
    BY <1>1, <1>4, OnceKept
  <1> QED
    BY <1>1, <1>4, <1>5, <1>6

\* heappop() takes the first entry out.
LEMMA HeapPopTakes ==
    ASSUME NEW E, NEW heap \in Seq(E), Once(heap), heap # <<>>
    PROVE  /\ HeapPop(heap) \in Seq(E) /\ Once(HeapPop(heap))
           /\ Range(HeapPop(heap)) = Range(heap) \ {heap[1]}
  <1> DEFINE n == Len(heap)
             rest == SubSeq(heap, 1, n - 1)
             new == [rest EXCEPT ![1] = heap[n]]
  <1>1. n \in Nat \ {0} /\ DOMAIN heap = 1 .. n /\ \A i \in 1 .. n : heap[i] \in E
    OBVIOUS
  <1>2. \A i, j \in 1 .. n : heap[i] = heap[j] => i = j
    BY DEF Once
  <1>3. \A x : x \in Range(heap) <=> \E i \in 1 .. n : heap[i] = x
    BY <1>1, InRange
  <1>4. rest \in Seq(E) /\ Len(rest) = n - 1 /\ \A i \in 1 .. n - 1 : rest[i] = heap[i]
    BY <1>1
  <1>5. HeapPop(heap) = IF rest = <<>> THEN rest ELSE SiftUp(new)
    BY DEF HeapPop
  <1>6. CASE n = 1
    <2>1. rest = <<>>
      BY <1>4, <1>6
    <2>2. Range(heap) = {heap[1]}
      BY <1>1, <1>3, <1>6
    <2>3. <<>> \in Seq(E) /\ Once(<<>>) /\ Range(<<>>) = {}
      BY DEF Once, Range
    <2> QED
      BY <1>5, <2>1, <2>2, <2>3
  <1>7. CASE n # 1
    <2> HIDE DEF n, rest
    <2>1. n - 1 \in Nat \ {0} /\ DOMAIN rest = 1 .. n - 1 /\ rest \in [1 .. n - 1 -> E] /\ rest # <<>>
      BY <1>1, <1>4, <1>7
    <2>2. /\ new \in [1 .. n - 1 -> E] /\ new[1] = heap[n]
          /\ \A i \in 2 .. n - 1 : new[i] = heap[i]
      BY <1>1, <1>4, <2>1
    <2> HIDE DEF new
    <2>3. new \in Seq(E) /\ Len(new) = n - 1 /\ DOMAIN new = 1 .. n - 1 /\ new # <<>>
      BY <2>1, <2>2
    <2>4. \A i \in 1 .. n - 1 : i = 1 \/ i \in 2 .. n - 1
      OBVIOUS
    <2>5. \A i \in 2 .. n - 1 : i \in 1 .. n /\ i # n /\ i # 1
      BY <1>1
    <2>6. 1 \in 1 .. n /\ n \in 1 .. n /\ n # 1 /\ 1 \in 1 .. n - 1
      BY <1>1, <1>7, <2>1
    <2>7. Once(new)
      <3>1. ASSUME NEW i \in 1 .. n - 1, NEW j \in 1 .. n - 1, new[i] = new[j]
            PROVE  i = j
        BY <1>2, <2>2, <2>4, <2>5, <2>6, <3>1
      <3> QED
        BY <2>3, <3>1 DEF Once
    <2>8. Range(new) = Range(heap) \ {heap[1]}
      <3>1. \A x : x \in Range(new) <=> \E i \in 1 .. n - 1 : new[i] = x
        <4>1. DOMAIN new = 1 .. n - 1
          BY <2>3
        <4> QED
          BY <4>1, InRange
      <3>2. ASSUME NEW i \in 1 .. n - 1
            PROVE  new[i] \in Range(heap) /\ new[i] # heap[1]
        <4>1. PICK k \in 1 .. n : k # 1 /\ new[i] = heap[k]
          BY <2>2, <2>4, <2>5, <2>6
        <4> QED
          BY <1>2, <1>3, <2>6, <4>1
      <3>3. ASSUME NEW k \in 1 .. n, k # 1
            PROVE  heap[k] \in Range(new)
        <4>1. k = n \/ k \in 2 .. n - 1
          BY <1>1, <3>3
        <4>2. \A i \in 2 .. n - 1 : i \in 1 .. n - 1
          OBVIOUS
        <4> QED
          BY <2>2, <2>6, <3>1, <4>1, <4>2
      <3>4. \A x : x \in Range(new) => x \in Range(heap) \ {heap[1]}
        BY <3>1, <3>2
      <3>5. \A x : x \in Range(heap) \ {heap[1]} => x \in Range(new)
        BY <1>3, <3>3
      <3> QED
        BY <3>4, <3>5
    <2>9. SiftUp(new) \in Seq(E) /\ Len(SiftUp(new)) = Len(new) /\ Range(SiftUp(new)) = Range(new)
      BY <2>3, SiftUpKeeps
    <2>10. Once(SiftUp(new))
      BY <2>3, <2>7, <2>9, OnceKept
    <2> QED
      BY <1>5, <2>1, <2>8, <2>9, <2>10
  <1> QED
    BY <1>6, <1>7

\* The function that Without takes.
IsKept(f, heap, server) ==
    f = [i \in 0 .. Len(heap) |->
            IF i = 0 THEN <<>>
            ELSE IF heap[i].server = server THEN f[i - 1] ELSE Append(f[i - 1], heap[i])]

\* The filter of _update_priority has a value at every length.
LEMMA KeptExists ==
    ASSUME NEW E, NEW heap \in Seq(E), NEW server
    PROVE  \E f : IsKept(f, heap, server)
  <1> DEFINE n == Len(heap)
             next(k, s) == IF heap[k].server = server THEN s ELSE Append(s, heap[k])
             S == Seq(E)
             below == [k \in 1 .. n |-> k - 1]
             step == [k \in 1 .. n |-> [s \in S |-> next(k, s)]]
  <1>1. n \in Nat /\ \A k \in 1 .. n : heap[k] \in E
    OBVIOUS
  <1>2. \A k \in 1 .. n : \A s \in S : next(k, s) \in S
    BY <1>1
  <1> HIDE DEF n, next
  <1>3. below \in [1 .. n -> 0 .. n] /\ \A k \in 1 .. n : below[k] < k /\ below[k] = k - 1
    BY <1>1
  <1>4. step \in [1 .. n -> [S -> S]]
    BY <1>2
  <1>5. \A k \in 1 .. n : \A s \in S : step[k][s] = next(k, s)
    OBVIOUS
  <1>6. <<>> \in S
    OBVIOUS
  <1> HIDE DEF S, below, step
  <1>7. PICK f : Follows(f, n, S, <<>>, below, step)
    BY <1>1, <1>3, <1>4, <1>6, Recursion
  <1>8. /\ f \in [0 .. n -> S] /\ f[0] = <<>>
        /\ \A k \in 1 .. n : f[k] = step[k][f[below[k]]]
    BY <1>7 DEF Follows
  <1>9. \A k \in 0 .. n : f[k] = IF k = 0 THEN <<>> ELSE next(k, f[k - 1])
    <2> TAKE k \in 0 .. n
    <2>1. CASE k = 0
      BY <1>8, <2>1
    <2>2. CASE k # 0
      <3>1. k \in 1 .. n /\ k - 1 \in 0 .. n
        BY <1>1, <2>2
      <3>2. f[k - 1] \in S /\ below[k] = k - 1
        BY <1>3, <1>8, <3>1
      <3>3. f[k] = step[k][f[k - 1]]
        BY <1>8, <3>1, <3>2
      <3>4. step[k][f[k - 1]] = next(k, f[k - 1])
        BY <1>5, <3>1, <3>2
      <3> QED
        BY <2>2, <3>3, <3>4
    <2> QED
      BY <2>1, <2>2
  <1>10. f = [k \in 0 .. n |-> f[k]]
    BY <1>8
  <1>11. IsKept(f, heap, server)
    BY <1>9, <1>10, Zenon DEF IsKept, next, n
  <1> QED
    BY <1>11

\* The entries of the other servers.
LEMMA WithoutKeeps ==
    ASSUME NEW E, NEW heap \in Seq(E), Once(heap), NEW server
    PROVE  /\ Without(heap, server) \in Seq(E) /\ Once(Without(heap, server))
           /\ Range(Without(heap, server)) = {x \in Range(heap) : x.server # server}
  <1> DEFINE n == Len(heap)
             f == CHOOSE f : IsKept(f, heap, server)
  <1>1. n \in Nat /\ DOMAIN heap = 1 .. n /\ \A k \in 1 .. n : heap[k] \in E
    OBVIOUS
  <1>2. \A i, j \in 1 .. n : heap[i] = heap[j] => i = j
    BY DEF Once
  <1>3. IsKept(f, heap, server)
    BY KeptExists, Zenon
  <1>4. Without(heap, server) = f[n]
    BY Zenon DEF Without, IsKept
  <1> HIDE DEF f
  <1>5. \A k \in 0 .. n : f[k] = IF k = 0 THEN <<>>
                                 ELSE IF heap[k].server = server THEN f[k - 1]
                                 ELSE Append(f[k - 1], heap[k])
    BY <1>3, Zenon DEF IsKept
  <1> HIDE DEF n
  <1> DEFINE From(x, k) == x.server # server /\ \E i \in 1 .. k : heap[i] = x
             T == {k \in 0 .. n : /\ f[k] \in Seq(E) /\ Once(f[k])
                                  /\ \A x : x \in Range(f[k]) <=> From(x, k)}
  <1>6. 0 \in T
    <2>1. f[0] = <<>> /\ 0 \in 0 .. n
      BY <1>1, <1>5
    <2>2. <<>> \in Seq(E) /\ Once(<<>>) /\ Range(<<>>) = {}
      BY DEF Once, Range
    <2>3. \A x : ~From(x, 0)
      OBVIOUS
    <2> HIDE DEF From
    <2> QED
      BY <2>1, <2>2, <2>3
  <1>7. ASSUME NEW k \in 1 .. n, k - 1 \in T
        PROVE  k \in T
    <2> DEFINE old == f[k - 1]
    <2>1. /\ old \in Seq(E) /\ Once(old)
          /\ \A x : x \in Range(old) <=> From(x, k - 1)
      BY <1>7
    <2>2. k \in 0 .. n /\ f[k] = IF heap[k].server = server THEN old ELSE Append(old, heap[k])
      BY <1>1, <1>5
    <2> HIDE DEF old
    <2>3. \A i \in 1 .. k : i = k \/ i \in 1 .. k - 1
      BY <1>1
    <2>4. k \in 1 .. k /\ \A i \in 1 .. k - 1 : i \in 1 .. k /\ i \in 1 .. n /\ i # k
      BY <1>1
    <2>5. CASE heap[k].server = server
      <3>1. \A x : From(x, k) <=> From(x, k - 1)
        BY <2>3, <2>4, <2>5
      <3> QED
        BY <2>1, <2>2, <2>5, <3>1
    <2>6. CASE heap[k].server # server
      <3>1. heap[k] \in E /\ heap[k] \notin Range(old)
        BY <1>1, <1>2, <2>1, <2>4
      <3>2. /\ Append(old, heap[k]) \in Seq(E) /\ Once(Append(old, heap[k]))
            /\ Range(Append(old, heap[k])) = Range(old) \cup {heap[k]}
        BY <2>1, <3>1, AppendOnce
      <3>3. \A x : From(x, k) <=> From(x, k - 1) \/ x = heap[k]
        BY <2>3, <2>4, <2>6
      <3> QED
        BY <2>1, <2>2, <2>6, <3>2, <3>3
    <2> QED
      BY <2>5, <2>6
  <1>8. 0 .. n \subseteq T
    <2> HIDE DEF T
    <2>1. ASSUME NEW k \in 0 .. n, \A j \in 0 .. n : j < k => j \in T
          PROVE  k \in T
      <3>1. CASE k = 0
        BY <1>6, <3>1
      <3>2. CASE k # 0
        <4>1. k \in 1 .. n /\ k - 1 \in 0 .. n /\ k - 1 < k
          BY <1>1, <3>2
        <4> QED
          BY <1>7, <2>1, <4>1
      <3> QED
        BY <3>1, <3>2
    <2> QED
      BY <1>1, <2>1, FromBelow
  <1>9. n \in T
    <2> HIDE DEF T
    <2>1. n \in 0 .. n
      BY <1>1
    <2> QED
      BY <1>8, <2>1
  <1>10. /\ f[n] \in Seq(E) /\ Once(f[n])
         /\ \A x : x \in Range(f[n]) <=> From(x, n)
    BY <1>9
  <1>11. \A x : x \in Range(heap) <=> \E i \in 1 .. n : heap[i] = x
    BY <1>1, InRange
  <1>12. Range(f[n]) = {x \in Range(heap) : x.server # server}
    BY <1>10, <1>11
  <1> QED
    BY <1>4, <1>10, <1>12 DEF n

-------------------------------------------------------------------------------
(* A heap that mirrors the priorities *)

Entries == [priority : Int, server : Nat]

Mirrors(heap, priority) ==
    /\ heap \in Seq(Entries) /\ Once(heap)
    /\ Range(heap) = {Entry(priority[s], s) : s \in DOMAIN priority}

\* This is what the property says.
LEMMA MirrorsIs ==
    ASSUME NEW n \in Nat, NEW priority, DOMAIN priority = 1 .. n, NEW heap, Mirrors(heap, priority)
    PROVE  HeapMirrors(heap, priority)
  <1> DEFINE D == 1 .. n
             R == Range(heap)
             e == [s \in D |-> Entry(priority[s], s)]
  <1>1. IsFiniteSet(D) /\ Cardinality(D) = n
    BY FS_Interval
  <1>2. e \in Bijection(D, R)
    <2>1. R = {Entry(priority[s], s) : s \in D}
      BY DEF Mirrors
    <2>2. \A s \in D : e[s] = Entry(priority[s], s) /\ e[s].server = s /\ e[s] \in R
      BY <2>1 DEF Entry
    <2>3. e \in [D -> R]
      BY <2>2
    <2>4. \A x \in R : \E s \in D : e[s] = x
      BY <2>1, <2>2
    <2> HIDE DEF e, R
    <2>5. \A s, t \in D : e[s] = e[t] => s = t
      BY <2>2
    <2> QED
      BY <2>3, <2>4, <2>5 DEF Bijection, Injection, IsInjective, Surjection
  <1>3. Cardinality(R) = n
    <2> HIDE DEF e, R
    <2> QED
      BY <1>1, <1>2, FS_Bijection DEF ExistsBijection
  <1>4. Cardinality(R) = Len(heap)
    BY OnceCardinality DEF Mirrors
  <1>5. {heap[i] : i \in DOMAIN heap} = R
    BY DEF Range
  <1> QED
    BY <1>1, <1>3, <1>4, <1>5 DEF HeapMirrors, Mirrors

\* The entry of one server is replaced or, when it is missing, added.
LEMMA UpdateOthers ==
    ASSUME NEW n \in Nat, NEW priority \in [1 .. n -> Int], NEW s \in 1 .. n, NEW p \in Int,
           NEW heap \in Seq(Entries), Once(heap),
           {x \in Range(heap) : x.server # s} = {Entry(priority[t], t) : t \in (1 .. n) \ {s}}
    PROVE  Mirrors(UpdatePriority(heap, s, p), [priority EXCEPT ![s] = p])
  <1> DEFINE less == Without(heap, s)
             e == Entry(p, s)
             new == [priority EXCEPT ![s] = p]
             others == {Entry(priority[t], t) : t \in (1 .. n) \ {s}}
  <1>1. less \in Seq(Entries) /\ Once(less) /\ Range(less) = others
    <2>1. /\ less \in Seq(Entries)
          /\ Once(less)
          /\ Range(less) = {x \in Range(heap) : x.server # s}
      <3> HIDE DEF e, new, others
      <3> QED
        BY WithoutKeeps, SMTT(30)
    <2> QED
      BY <2>1, Zenon
  <1>2. e \in Entries /\ e.server = s
    BY DEF Entry, Entries
  <1>3. e \notin others
    <2>1. \A x \in others : x.server # s
      BY DEF Entry
    <2> QED
      BY <1>2, <2>1
  <1>4. others \cup {e} = {Entry(new[t], t) : t \in 1 .. n}
    <2>1. \A t \in (1 .. n) \ {s} : new[t] = priority[t]
      OBVIOUS
    <2>2. new[s] = p
      OBVIOUS
    <2> HIDE DEF new
    <2> QED
      BY <2>1, <2>2
  <1>5. DOMAIN new = 1 .. n
    OBVIOUS
  <1>6. UpdatePriority(heap, s, p) = HeapPush(less, e)
    BY DEF UpdatePriority
  <1> HIDE DEF less, e, new, others
  <1>7. /\ HeapPush(less, e) \in Seq(Entries) /\ Once(HeapPush(less, e))
        /\ Range(HeapPush(less, e)) = Range(less) \cup {e}
    BY <1>1, <1>2, <1>3, HeapPushAdds
  <1>8. Mirrors(UpdatePriority(heap, s, p), new)
    BY <1>1, <1>4, <1>5, <1>6, <1>7 DEF Mirrors
  <1> QED
    BY <1>8 DEF new

\* A new priority of a server reaches its heap.
LEMMA UpdateMirrors ==
    ASSUME NEW n \in Nat, NEW priority \in [1 .. n -> Int], NEW s \in 1 .. n, NEW p \in Int,
           NEW heap, Mirrors(heap, priority)
    PROVE  Mirrors(UpdatePriority(heap, s, p), [priority EXCEPT ![s] = p])
  <1>1. heap \in Seq(Entries) /\ Once(heap) /\ Range(heap) = {Entry(priority[t], t) : t \in 1 .. n}
    BY DEF Mirrors
  <1>2. \A t : Entry(priority[t], t).server = t
    BY DEF Entry
  <1>3. {x \in Range(heap) : x.server # s} = {Entry(priority[t], t) : t \in (1 .. n) \ {s}}
    BY <1>1, <1>2
  <1> QED
    BY <1>1, <1>3, UpdateOthers

\* The server that is chosen is one, and the others keep their entries when it is popped.
LEMMA PopMirrors ==
    ASSUME NEW n \in Nat \ {0}, NEW priority \in [1 .. n -> Int], NEW p \in Int,
           NEW heap, Mirrors(heap, priority)
    PROVE  /\ Chosen(heap) \in 1 .. n
           /\ Mirrors(UpdatePriority(HeapPop(heap), Chosen(heap), p),
                      [priority EXCEPT ![Chosen(heap)] = p])
  <1>1. heap \in Seq(Entries) /\ Once(heap) /\ Range(heap) = {Entry(priority[t], t) : t \in 1 .. n}
    BY DEF Mirrors
  <1>2. \A t : Entry(priority[t], t).server = t
    BY DEF Entry
  <1>3. heap # <<>>
    <2>1. 1 \in 1 .. n
      OBVIOUS
    <2>2. Range(heap) # {}
      BY <1>1, <2>1
    <2>3. Range(<<>>) = {}
      BY DEF Range
    <2> QED
      BY <2>2, <2>3
  <1>4. heap[1] \in Range(heap)
    <2>1. 1 \in DOMAIN heap
      BY <1>1, <1>3
    <2> QED
      BY <2>1, InRange
  <1>5. PICK s \in 1 .. n : heap[1] = Entry(priority[s], s)
    BY <1>1, <1>4
  <1>6. Chosen(heap) = s
    BY <1>2, <1>5 DEF Chosen
  <1> DEFINE rest == HeapPop(heap)
  <1>7. rest \in Seq(Entries) /\ Once(rest) /\ Range(rest) = Range(heap) \ {heap[1]}
    BY <1>1, <1>3, HeapPopTakes
  <1> HIDE DEF rest
  <1>8. {x \in Range(rest) : x.server # s} = {Entry(priority[t], t) : t \in (1 .. n) \ {s}}
    <2>1. ASSUME NEW x \in Range(rest), x.server # s
          PROVE  x \in {Entry(priority[t], t) : t \in (1 .. n) \ {s}}
      <3>1. PICK t \in 1 .. n : x = Entry(priority[t], t)
        BY <1>1, <1>7
      <3>2. t # s
        BY <1>2, <2>1, <3>1
      <3> QED
        BY <3>1, <3>2
    <2>2. ASSUME NEW t \in (1 .. n) \ {s}
          PROVE  Entry(priority[t], t) \in Range(rest) /\ Entry(priority[t], t).server # s
      <3>1. Entry(priority[t], t) \in Range(heap)
        BY <1>1
      <3>2. Entry(priority[t], t).server = t /\ heap[1].server = s
        BY <1>2, <1>5
      <3>3. Entry(priority[t], t) # heap[1]
        BY <3>2
      <3> QED
        BY <1>7, <3>1, <3>2, <3>3
    <2> QED
      BY <2>1, <2>2
  <1>9. Mirrors(UpdatePriority(rest, s, p), [priority EXCEPT ![s] = p])
    BY <1>7, <1>8, UpdateOthers
  <1> QED
    BY <1>6, <1>9 DEF rest

\* At first every server is in its heap with priority 0.
LEMMA InitialMirrors ==
    ASSUME NEW n \in Nat
    PROVE  Mirrors(InitialHeap(n), [s \in 1 .. n |-> 0])
  <1> DEFINE heap == InitialHeap(n)
             zero == [s \in 1 .. n |-> 0]
  <1>1. heap = [i \in 1 .. n |-> Entry(0, i)]
    BY DEF InitialHeap
  <1>2. \A i \in 1 .. n : Entry(0, i) \in Entries /\ Entry(0, i).server = i
    BY DEF Entry, Entries
  <1>3. heap \in [1 .. n -> Entries] /\ DOMAIN heap = 1 .. n /\ \A i \in 1 .. n : heap[i] = Entry(0, i)
    BY <1>1, <1>2
  <1>4. DOMAIN zero = 1 .. n /\ \A i \in 1 .. n : zero[i] = 0
    OBVIOUS
  <1> HIDE DEF heap, zero
  <1>5. heap \in Seq(Entries) /\ Len(heap) = n
    BY <1>3
  <1>6. Once(heap)
    BY <1>2, <1>3, <1>5 DEF Once
  <1>7. Range(heap) = {Entry(zero[s], s) : s \in DOMAIN zero}
    BY <1>3, <1>4 DEF Range
  <1>8. Mirrors(heap, zero)
    BY <1>5, <1>6, <1>7 DEF Mirrors
  <1> QED
    BY <1>8 DEF heap, zero

-------------------------------------------------------------------------------
(* The invariant *)

\* What the properties count: the requests a decoder works for, the requests a
\* prefiller was given, and those of them whose KV load is still counted.
Counted(d)    == {r \in Dispatched : instance[r].decoder = d /\ stage[r] # "ended"}
Given(p)      == {r \in Dispatched : instance[r].prefiller = p}
Unreleased(p) == {r \in Given(p) : kv_released[r] = 0}

\* TypeOK, with the tokens of a decoder an integer until they are known to be a sum.
TypeInv ==
    /\ prefill_tokens \in [Prefillers -> Nat]
    /\ active_kv_cache \in [Prefillers -> Int]
    /\ aborted_requests \in [Prefillers -> SUBSET Requests]
    /\ active_tokens \in [Decoders -> Int]
    /\ stage \in [Requests -> Stages]
    /\ instance \in [Requests -> [prefiller : Prefillers, decoder : Decoders]]
    /\ attempt \in [Requests -> 0 .. MaxRetries]
    /\ first_chunk_sent \in [Requests -> BOOLEAN] /\ released_kv \in [Requests -> BOOLEAN]
    /\ kv_released \in [Requests -> 0 .. 2]
    /\ resent \subseteq Requests

\* There have been finitely many requests so far.
FiniteInv == IsFiniteSet(Dispatched)

\* The flag of a stream that goes on says how often its KV load was taken back,
\* and nothing of it was before the decoder is asked.
StreamInv(r) ==
    /\ stage[r] \in {"new", "dispatched", "prefill"} =>
          released_kv[r] = FALSE /\ kv_released[r] = 0
    /\ stage[r] \in {"decode", "streaming"} =>
          /\ attempt[r] \in 1 .. MaxRetries
          /\ kv_released[r] = IF released_kv[r] THEN 1 ELSE 0

IInv ==
    /\ TypeInv /\ FiniteInv
    /\ \A r \in Requests : StreamInv(r)
    /\ DecoderTokensExact
    /\ KvExactUntilReleasedTwice

\* The property with the names used below.
LEMMA DecoderExact ==
    DecoderTokensExact <=>
        \A d \in Decoders : active_tokens[d] = ScoreSum(DecodeScore, Counted(d))
  BY DEF DecoderTokensExact, Counted

\* The property with the names used below.
LEMMA KvExact ==
    KvExactUntilReleasedTwice <=>
        \A p \in Prefillers :
            (\A r \in Given(p) : kv_released[r] <= 1) =>
                active_kv_cache[p] = ScoreSum(PrefillScore, Unreleased(p))
  BY DEF KvExactUntilReleasedTwice, Given, Unreleased

\* The requests that are counted are finitely many.
LEMMA CountedFinite ==
    ASSUME FiniteInv, NEW i
    PROVE  /\ Counted(i) \in SUBSET Requests /\ IsFiniteSet(Counted(i))
           /\ Unreleased(i) \in SUBSET Requests /\ IsFiniteSet(Unreleased(i))
  <1>1. Counted(i) \in SUBSET Dispatched /\ Unreleased(i) \in SUBSET Dispatched
    BY DEF Counted, Unreleased, Given
  <1> QED
    BY <1>1, FS_Subset DEF FiniteInv, Dispatched

-------------------------------------------------------------------------------
(* The counts of a decoder *)

\* A request of its goes on, and its tokens with it.
LEMMA DecoderKept ==
    ASSUME IInv, NEW r \in Requests, NEW next \in Stages, MovesTo(r, next),
           stage[r] \notin {"new", "ended"}, next \notin {"new", "ended"},
           UNCHANGED <<active_tokens, instance>>
    PROVE  DecoderTokensExact'
  <1>1. ASSUME NEW d \in Decoders
        PROVE  Counted(d)' = Counted(d)
    BY DEF Counted, Dispatched, MovesTo, IInv, TypeInv
  <1> QED
    BY <1>1, DecoderExact DEF IInv, DecoderTokensExact, Counted

\* A request ends and gives its tokens back.
LEMMA DecoderReleased ==
    ASSUME IInv, NEW r \in Requests, stage[r] \notin {"new", "ended"},
           MovesTo(r, "ended"), ReleaseDecoder(instance[r].decoder, r), UNCHANGED instance
    PROVE  DecoderTokensExact' /\ active_tokens' \in [Decoders -> Int]
  <1>0. PICK own \in Decoders : own = instance[r].decoder
    BY DEF IInv, TypeInv
  <1>1. stage' = [stage EXCEPT ![r] = "ended"] /\ DOMAIN stage = Requests
    BY DEF IInv, TypeInv, MovesTo
  <1>2. /\ active_tokens \in [Decoders -> Int] /\ DecodeScore[r] \in Nat
        /\ active_tokens' = [active_tokens EXCEPT ![own] = @ - DecodeScore[r]]
    BY <1>0, PoolAssumption DEF IInv, TypeInv, ReleaseDecoder
  <1>3. r \in Counted(own) /\ Counted(own)' = Counted(own) \ {r}
    BY <1>0, <1>1 DEF Counted, Dispatched
  <1>4. \A d \in Decoders \ {own} : Counted(d)' = Counted(d)
    BY <1>0, <1>1 DEF Counted, Dispatched
  <1>5. ASSUME NEW d \in Decoders
        PROVE  active_tokens'[d] = ScoreSum(DecodeScore, Counted(d)')
    <2>1. active_tokens[d] = ScoreSum(DecodeScore, Counted(d))
      BY DecoderExact DEF IInv
    <2>2. CASE d = own
      <3>1. ScoreSum(DecodeScore, Counted(d) \ {r}) = ScoreSum(DecodeScore, Counted(d)) - DecodeScore[r]
        BY <1>3, <2>2, SumChanges, CountedFinite, PoolAssumption DEF IInv
      <3> QED
        BY <1>1, <1>2, <1>3, <2>1, <2>2, <3>1
    <2>3. CASE d # own
      BY <1>1, <1>2, <1>4, <2>1, <2>3
    <2> QED
      BY <2>2, <2>3
  <1>6. active_tokens' \in [Decoders -> Int]
    BY <1>1, <1>2
  <1> QED
    BY <1>5, <1>6 DEF DecoderTokensExact, Counted

\* A request is given to a decoder.
LEMMA DecoderGiven ==
    ASSUME IInv, NEW r \in Requests, NEW d \in Decoders, NEW p \in Prefillers,
           stage[r] = "new", MovesTo(r, "dispatched"), SelectDecoder(d, r),
           instance' = [instance EXCEPT ![r] = [prefiller |-> p, decoder |-> d]]
    PROVE  DecoderTokensExact' /\ active_tokens' \in [Decoders -> Int]
  <1>1. stage' = [stage EXCEPT ![r] = "dispatched"] /\ DOMAIN stage = Requests /\ DOMAIN instance = Requests
    BY DEF IInv, TypeInv, MovesTo
  <1>2. /\ active_tokens \in [Decoders -> Int] /\ DecodeScore[r] \in Nat
        /\ active_tokens' = [active_tokens EXCEPT ![d] = @ + DecodeScore[r]]
    BY PoolAssumption DEF IInv, TypeInv, SelectDecoder
  <1>3. r \notin Counted(d) /\ Counted(d)' = Counted(d) \cup {r}
    BY <1>1 DEF Counted, Dispatched
  <1>4. \A e \in Decoders \ {d} : Counted(e)' = Counted(e)
    BY <1>1 DEF Counted, Dispatched
  <1>5. ASSUME NEW e \in Decoders
        PROVE  active_tokens'[e] = ScoreSum(DecodeScore, Counted(e)')
    <2>1. active_tokens[e] = ScoreSum(DecodeScore, Counted(e))
      BY DecoderExact DEF IInv
    <2>2. CASE e = d
      <3>1. ScoreSum(DecodeScore, Counted(d) \cup {r}) = ScoreSum(DecodeScore, Counted(d)) + DecodeScore[r]
        BY <1>3, SumChanges, CountedFinite, PoolAssumption DEF IInv
      <3> QED
        BY <1>2, <1>3, <2>1, <2>2, <3>1
    <2>3. CASE e # d
      BY <1>2, <1>4, <2>1, <2>3
    <2> QED
      BY <2>2, <2>3
  <1>6. active_tokens' \in [Decoders -> Int]
    BY <1>2
  <1> QED
    BY <1>5, <1>6 DEF DecoderTokensExact, Counted

-------------------------------------------------------------------------------
(* The KV load of a prefiller *)

\* No KV load is given or taken back.
LEMMA KvKept ==
    ASSUME IInv, Dispatched' = Dispatched, UNCHANGED <<active_kv_cache, instance, kv_released>>
    PROVE  KvExactUntilReleasedTwice'
  <1>1. ASSUME NEW p \in Prefillers
        PROVE  Given(p)' = Given(p) /\ Unreleased(p)' = Unreleased(p)
    BY DEF Given, Unreleased
  <1> QED
    BY <1>1, KvExact DEF IInv, KvExactUntilReleasedTwice, Given, Unreleased

\* A request takes its KV load back once or twice.  After the second time nothing
\* is said of its prefiller any more.
LEMMA KvTakenBack ==
    ASSUME IInv, NEW r \in Requests, NEW n \in {1, 2}, r \in Dispatched, ReleaseKv(r, n),
           kv_released[r] + n <= 2, Dispatched' = Dispatched, UNCHANGED instance
    PROVE  /\ KvExactUntilReleasedTwice'
           /\ active_kv_cache' \in [Prefillers -> Int]
           /\ kv_released' \in [Requests -> 0 .. 2]
           /\ UNCHANGED prefill_tokens
  <1>0. PICK own \in Prefillers : own = instance[r].prefiller
    BY DEF IInv, TypeInv
  <1> DEFINE score == PrefillScore[r]
             once == KvAfterRelease(active_kv_cache[own], score)
             kv   == IF n = 1 THEN once ELSE KvAfterRelease(once, score)
  <1>1. r \in Given(own) /\ score \in Nat \ {0} /\ active_kv_cache[own] \in Int
    BY <1>0, ProxyAssumption DEF IInv, TypeInv, Given
  <1>2. once \in Int /\ kv \in Int
    <2> HIDE DEF score
    <2> QED
      BY <1>1 DEF KvAfterRelease
  <1>3. /\ active_kv_cache' = [active_kv_cache EXCEPT ![own] = kv]
        /\ kv_released' = [kv_released EXCEPT ![r] = @ + n]
        /\ UNCHANGED prefill_tokens
    BY <1>0 DEF ReleaseKv
  <1>4. /\ active_kv_cache \in [Prefillers -> Int]
        /\ kv_released \in [Requests -> 0 .. 2] /\ kv_released[r] \in 0 .. 2
    BY DEF IInv, TypeInv
  <1> HIDE DEF kv, once
  <1>5. active_kv_cache' \in [Prefillers -> Int] /\ kv_released' \in [Requests -> 0 .. 2]
    BY <1>1, <1>2, <1>3, <1>4
  <1>6. \A p \in Prefillers : Given(p)' = Given(p)
    BY DEF Given
  <1>7. ASSUME NEW p \in Prefillers, \A q \in Given(p)' : kv_released'[q] <= 1
        PROVE  active_kv_cache'[p] = ScoreSum(PrefillScore, Unreleased(p)')
    <2>1. \A q \in Given(p) : q \in Requests /\ kv_released'[q] <= 1
      BY <1>6, <1>7 DEF Given, Dispatched
    <2>2. \A q \in Given(p) : kv_released[q] <= 1
      BY <1>3, <1>4, <2>1
    <2>3. active_kv_cache[p] = ScoreSum(PrefillScore, Unreleased(p))
      BY <2>2, KvExact DEF IInv
    <2>4. CASE p = own
      <3>1. kv_released[r] = 0 /\ n = 1
        BY <1>1, <1>3, <1>4, <2>1, <2>4
      <3>2. r \in Unreleased(own) /\ Unreleased(own)' = Unreleased(own) \ {r}
        BY <1>1, <1>3, <1>4, <1>6, <3>1 DEF Unreleased, Given, Dispatched
      <3>3. /\ ScoreSum(PrefillScore, Unreleased(own) \ {r}) = ScoreSum(PrefillScore, Unreleased(own)) - score
            /\ ScoreSum(PrefillScore, Unreleased(own)) >= score
        BY <3>2, SumChanges, CountedFinite, ProxyAssumption DEF IInv
      <3> HIDE DEF score
      <3>4. kv = active_kv_cache[own] - score
        BY <1>1, <2>3, <2>4, <3>1, <3>3 DEF kv, once, KvAfterRelease
      <3> QED
        BY <1>1, <1>3, <1>4, <2>3, <2>4, <3>2, <3>3, <3>4
    <2>5. CASE p # own
      <3>1. r \notin Given(p)
        BY <1>0, <2>5 DEF Given
      <3>2. Unreleased(p)' = Unreleased(p)
        BY <1>3, <1>4, <1>6, <3>1 DEF Unreleased, Given, Dispatched
      <3> QED
        BY <1>1, <1>3, <1>4, <2>3, <2>5, <3>2
    <2> QED
      BY <2>4, <2>5
  <1> QED
    BY <1>3, <1>5, <1>7 DEF KvExactUntilReleasedTwice, Given, Unreleased

\* A request is given to a prefiller.
LEMMA KvGiven ==
    ASSUME IInv, NEW r \in Requests, NEW d \in Decoders, NEW p \in Prefillers,
           stage[r] = "new", MovesTo(r, "dispatched"),
           SelectAndReleasePrefiller(p, PrefillScore[r]),
           instance' = [instance EXCEPT ![r] = [prefiller |-> p, decoder |-> d]],
           UNCHANGED kv_released
    PROVE  /\ KvExactUntilReleasedTwice'
           /\ active_kv_cache' \in [Prefillers -> Int]
           /\ UNCHANGED prefill_tokens
  <1>1. /\ stage' = [stage EXCEPT ![r] = "dispatched"]
        /\ DOMAIN stage = Requests /\ DOMAIN instance = Requests
    BY DEF IInv, TypeInv, MovesTo
  <1>2. /\ active_kv_cache \in [Prefillers -> Int] /\ PrefillScore[r] \in Nat
        /\ active_kv_cache' = [active_kv_cache EXCEPT ![p] = @ + PrefillScore[r]]
        /\ UNCHANGED prefill_tokens
    BY ProxyAssumption DEF IInv, TypeInv, SelectAndReleasePrefiller
  <1>3. kv_released[r] = 0
    BY DEF IInv, StreamInv
  <1>4. r \notin Given(p) /\ Given(p)' = Given(p) \cup {r}
    BY <1>1 DEF Given, Dispatched
  <1>5. \A q \in Prefillers \ {p} : Given(q)' = Given(q)
    BY <1>1 DEF Given, Dispatched
  <1>6. r \notin Unreleased(p) /\ Unreleased(p)' = Unreleased(p) \cup {r}
    BY <1>3, <1>4 DEF Unreleased
  <1>7. ASSUME NEW q \in Prefillers, \A s \in Given(q)' : kv_released'[s] <= 1
        PROVE  active_kv_cache'[q] = ScoreSum(PrefillScore, Unreleased(q)')
    <2>1. \A s \in Given(q) : kv_released[s] <= 1
      BY <1>4, <1>5, <1>7
    <2>2. active_kv_cache[q] = ScoreSum(PrefillScore, Unreleased(q))
      BY <2>1, KvExact DEF IInv
    <2>3. CASE q = p
      <3>1. ScoreSum(PrefillScore, Unreleased(p) \cup {r}) =
                ScoreSum(PrefillScore, Unreleased(p)) + PrefillScore[r]
        BY <1>6, SumChanges, CountedFinite, ProxyAssumption DEF IInv
      <3> QED
        BY <1>2, <1>6, <2>2, <2>3, <3>1
    <2>4. CASE q # p
      <3>1. Unreleased(q)' = Unreleased(q)
        BY <1>5, <2>4 DEF Unreleased
      <3> QED
        BY <1>2, <2>2, <2>4, <3>1
    <2> QED
      BY <2>3, <2>4
  <1> QED
    BY <1>2, <1>7 DEF KvExactUntilReleasedTwice, Given, Unreleased

-------------------------------------------------------------------------------
(* The steps *)

\* No proxy has counted anything before the first request.
LEMMA InitIInv == Init => IInv
  <1> SUFFICES ASSUME Init PROVE IInv
    OBVIOUS
  <1>1. Dispatched = {}
    BY DEF Init, Dispatched
  <1>2. FiniteInv
    BY <1>1, FS_EmptySet DEF FiniteInv
  <1>3. TypeInv
    BY PoolAssumption, ProxyAssumption
    DEF Init, PoolInit, TypeInv, Stages, Prefillers, Decoders
  <1>4. \A r \in Requests : StreamInv(r)
    BY DEF Init, StreamInv
  <1>5. \A i : Counted(i) = {} /\ Unreleased(i) = {}
    BY <1>1 DEF Counted, Unreleased, Given
  <1>6. DecoderTokensExact
    BY <1>5, SumOfNone, DecoderExact DEF Init, PoolInit
  <1>7. KvExactUntilReleasedTwice
    BY <1>5, SumOfNone, KvExact DEF Init
  <1> QED
    BY <1>2, <1>3, <1>4, <1>6, <1>7 DEF IInv

\* A request that was dispatched before goes to another stage.
LEMMA StageStep ==
    ASSUME IInv, NEW r \in Requests, NEW next \in Stages \ {"new"}, stage[r] # "new",
           MovesTo(r, next)
    PROVE  /\ r \in Dispatched /\ Dispatched' = Dispatched /\ FiniteInv'
           /\ stage' \in [Requests -> Stages] /\ stage'[r] = next
           /\ \A q \in Requests \ {r} : stage'[q] = stage[q]
  BY DEF IInv, TypeInv, FiniteInv, MovesTo, Dispatched

\* Nothing changes for a stream that does not step.
LEMMA OtherStreams ==
    ASSUME IInv, NEW q \in Requests, stage'[q] = stage[q], attempt'[q] = attempt[q],
           released_kv'[q] = released_kv[q], kv_released'[q] = kv_released[q]
    PROVE  StreamInv(q)'
  BY DEF IInv, StreamInv

\* _handle_completions: a prefiller and a decoder are chosen.
LEMMA DispatchIInv ==
    ASSUME IInv, NEW r \in Requests, Dispatch(r)
    PROVE  IInv'
  <1>1. PICK p \in Prefillers, d \in Decoders :
            /\ SelectAndReleasePrefiller(p, PrefillScore[r])
            /\ SelectDecoder(d, r)
            /\ instance' = [instance EXCEPT ![r] = [prefiller |-> p, decoder |-> d]]
    BY DEF Dispatch
  <1>2. /\ stage[r] = "new" /\ MovesTo(r, "dispatched")
        /\ UNCHANGED <<aborted_requests, attempt, first_chunk_sent, released_kv, kv_released, resent>>
    BY DEF Dispatch, streamVars
  <1>3. DecoderTokensExact' /\ active_tokens' \in [Decoders -> Int]
    BY <1>1, <1>2, DecoderGiven
  <1>4. /\ KvExactUntilReleasedTwice' /\ active_kv_cache' \in [Prefillers -> Int]
        /\ UNCHANGED prefill_tokens
    BY <1>1, <1>2, KvGiven
  <1>5. stage' = [stage EXCEPT ![r] = "dispatched"] /\ Dispatched' = Dispatched \cup {r}
    BY <1>2 DEF IInv, TypeInv, MovesTo, Dispatched
  <1>6. FiniteInv'
    BY <1>5, FS_AddElement DEF IInv, FiniteInv
  <1>7. TypeInv'
    BY <1>1, <1>2, <1>3, <1>4, <1>5 DEF IInv, TypeInv, Stages
  <1>8. \A q \in Requests : StreamInv(q)'
    <2>1. StreamInv(r)'
      BY <1>2, <1>5 DEF IInv, TypeInv, StreamInv
    <2>2. \A q \in Requests \ {r} : StreamInv(q)'
      BY <1>2, <1>5, OtherStreams DEF IInv, TypeInv
    <2> QED
      BY <2>1, <2>2
  <1> QED
    BY <1>3, <1>4, <1>6, <1>7, <1>8 DEF IInv

\* A step that only moves a stream on: its counts stay.
LEMMA MovesOnIInv ==
    ASSUME IInv, NEW r \in Requests, NEW next \in Stages \ {"new", "ended"},
           stage[r] \notin {"new", "ended"}, MovesTo(r, next),
           UNCHANGED <<prefillVars, decodeVars, instance, kv_released, released_kv>>,
           aborted_requests' \in [Prefillers -> SUBSET Requests],
           attempt' \in [Requests -> 0 .. MaxRetries],
           \A q \in Requests \ {r} : attempt'[q] = attempt[q],
           first_chunk_sent' \in [Requests -> BOOLEAN],
           resent' \subseteq Requests,
           StreamInv(r)'
    PROVE  IInv'
  <1>1. UNCHANGED <<prefill_tokens, active_kv_cache, active_tokens>>
    BY DEF prefillVars, decodeVars
  <1>2. /\ Dispatched' = Dispatched /\ FiniteInv' /\ stage' \in [Requests -> Stages]
        /\ \A q \in Requests \ {r} : stage'[q] = stage[q]
    BY StageStep
  <1>3. DecoderTokensExact'
    BY <1>1, DecoderKept
  <1>4. KvExactUntilReleasedTwice'
    BY <1>1, <1>2, KvKept
  <1>5. TypeInv'
    BY <1>1, <1>2 DEF IInv, TypeInv
  <1>6. \A q \in Requests \ {r} : StreamInv(q)'
    BY <1>2, OtherStreams
  <1> QED
    BY <1>2, <1>3, <1>4, <1>5, <1>6 DEF IInv

\* The exception handler of a stream.
LEMMA FailsIInv ==
    ASSUME IInv, NEW r \in Requests, NEW n \in {1, 2}, stage[r] \notin {"new", "ended"},
           Fails(r, n), kv_released[r] + n <= 2, UNCHANGED attempt,
           first_chunk_sent' \in [Requests -> BOOLEAN],
           released_kv' \in [Requests -> BOOLEAN],
           \A q \in Requests \ {r} : released_kv'[q] = released_kv[q]
    PROVE  IInv'
  <1>1. /\ ReleaseKv(r, n) /\ ReleaseDecoder(instance[r].decoder, r) /\ MovesTo(r, "ended")
        /\ UNCHANGED <<instance, resent>>
        /\ aborted_requests' = [aborted_requests EXCEPT ![instance[r].prefiller] = @ \cup {r}]
    BY DEF Fails
  <1>2. /\ r \in Dispatched /\ Dispatched' = Dispatched /\ FiniteInv'
        /\ stage' \in [Requests -> Stages] /\ stage'[r] = "ended"
        /\ \A q \in Requests \ {r} : stage'[q] = stage[q]
    BY <1>1, StageStep DEF Stages
  <1>3. DecoderTokensExact' /\ active_tokens' \in [Decoders -> Int]
    BY <1>1, DecoderReleased
  <1>4. /\ KvExactUntilReleasedTwice' /\ active_kv_cache' \in [Prefillers -> Int]
        /\ kv_released' \in [Requests -> 0 .. 2] /\ UNCHANGED prefill_tokens
    BY <1>1, <1>2, KvTakenBack
  <1>5. TypeInv'
    BY <1>1, <1>2, <1>3, <1>4 DEF IInv, TypeInv
  <1>6. \A q \in Requests \ {r} : kv_released'[q] = kv_released[q]
    BY <1>1 DEF IInv, TypeInv, ReleaseKv
  <1>7. \A q \in Requests : StreamInv(q)'
    <2>1. StreamInv(r)'
      BY <1>2 DEF StreamInv
    <2>2. \A q \in Requests \ {r} : StreamInv(q)'
      BY <1>2, <1>6, OtherStreams
    <2> QED
      BY <2>1, <2>2
  <1> QED
    BY <1>2, <1>3, <1>4, <1>5, <1>7 DEF IInv

\* The end of a stream.
LEMMA EndsIInv ==
    ASSUME IInv, NEW r \in Requests, stage[r] \notin {"new", "ended"}, Ends(r),
           UNCHANGED <<prefillVars, aborted_requests, streamVars, instance, kv_released, resent>>
    PROVE  IInv'
  <1>1. /\ UNCHANGED <<prefill_tokens, active_kv_cache, attempt, first_chunk_sent, released_kv>>
        /\ MovesTo(r, "ended") /\ ReleaseDecoder(instance[r].decoder, r)
    BY DEF prefillVars, streamVars, Ends
  <1>2. /\ Dispatched' = Dispatched /\ FiniteInv'
        /\ stage' \in [Requests -> Stages] /\ stage'[r] = "ended"
        /\ \A q \in Requests \ {r} : stage'[q] = stage[q]
    BY <1>1, StageStep DEF Stages
  <1>3. DecoderTokensExact' /\ active_tokens' \in [Decoders -> Int]
    BY <1>1, DecoderReleased
  <1>4. KvExactUntilReleasedTwice'
    BY <1>1, <1>2, KvKept
  <1>5. TypeInv'
    BY <1>1, <1>2, <1>3 DEF IInv, TypeInv
  <1>6. \A q \in Requests : StreamInv(q)'
    <2>1. StreamInv(r)'
      BY <1>2 DEF StreamInv
    <2>2. \A q \in Requests \ {r} : StreamInv(q)'
      BY <1>1, <1>2, OtherStreams
    <2> QED
      BY <2>1, <2>2
  <1> QED
    BY <1>2, <1>3, <1>4, <1>5, <1>6 DEF IInv

\* The prefiller is asked, with the ids of aborted requests.
LEMMA AskPrefillerIInv ==
    ASSUME IInv, NEW r \in Requests, AskPrefiller(r)
    PROVE  IInv'
  <1>1. /\ stage[r] = "dispatched" /\ MovesTo(r, "prefill")
        /\ UNCHANGED <<prefillVars, decodeVars, instance, kv_released, released_kv,
                       attempt, first_chunk_sent, resent>>
    BY DEF AskPrefiller, streamVars
  <1>2. aborted_requests' \in [Prefillers -> SUBSET Requests]
    BY DEF AskPrefiller, IInv, TypeInv
  <1>3. StreamInv(r)'
    <2>1. stage'[r] = "prefill"
      BY <1>1, StageStep DEF Stages
    <2> QED
      BY <1>1, <2>1 DEF IInv, StreamInv
  <1> QED
    BY <1>1, <1>2, <1>3, MovesOnIInv DEF Stages, IInv, TypeInv

\* The prefiller answers, and the decoder is asked.
LEMMA PrefillerAnswersIInv ==
    ASSUME IInv, NEW r \in Requests, PrefillerAnswers(r)
    PROVE  IInv'
  <1>1. /\ stage[r] = "prefill" /\ MovesTo(r, "decode")
        /\ attempt' = [attempt EXCEPT ![r] = 1]
        /\ UNCHANGED <<prefillVars, decodeVars, instance, kv_released, released_kv,
                       aborted_requests, first_chunk_sent, resent>>
    BY DEF PrefillerAnswers
  <1>2. /\ attempt' \in [Requests -> 0 .. MaxRetries] /\ attempt'[r] \in 1 .. MaxRetries
        /\ \A q \in Requests \ {r} : attempt'[q] = attempt[q]
    BY <1>1, ProxyAssumption DEF IInv, TypeInv
  <1>3. StreamInv(r)'
    <2>1. stage'[r] = "decode"
      BY <1>1, StageStep DEF Stages
    <2> QED
      BY <1>1, <1>2, <2>1 DEF IInv, StreamInv
  <1> QED
    BY <1>1, <1>2, <1>3, MovesOnIInv DEF Stages, IInv, TypeInv

\* The prefiller fails: the handler takes the KV load and the tokens back.
LEMMA PrefillerFailsIInv ==
    ASSUME IInv, NEW r \in Requests, PrefillerFails(r)
    PROVE  IInv'
  <1>1. /\ stage[r] = "prefill" /\ Fails(r, 1)
        /\ UNCHANGED <<attempt, first_chunk_sent, released_kv>>
    BY DEF PrefillerFails, streamVars
  <1>2. kv_released[r] + 1 <= 2
    BY <1>1 DEF IInv, StreamInv
  <1> QED
    BY <1>1, <1>2, FailsIInv DEF IInv, TypeInv

\* The decoder's response begins, and first_chunk_sent is reset.
LEMMA DecoderAnswersIInv ==
    ASSUME IInv, NEW r \in Requests, DecoderAnswers(r)
    PROVE  IInv'
  <1>1. /\ stage[r] = "decode" /\ MovesTo(r, "streaming")
        /\ first_chunk_sent' = [first_chunk_sent EXCEPT ![r] = FALSE]
        /\ UNCHANGED <<prefillVars, decodeVars, instance, kv_released, released_kv,
                       aborted_requests, attempt, resent>>
    BY DEF DecoderAnswers
  <1>2. first_chunk_sent' \in [Requests -> BOOLEAN]
    BY <1>1 DEF IInv, TypeInv
  <1>3. StreamInv(r)'
    <2>1. stage'[r] = "streaming"
      BY <1>1, StageStep DEF Stages
    <2> QED
      BY <1>1, <2>1 DEF IInv, StreamInv
  <1> QED
    BY <1>1, <1>2, <1>3, MovesOnIInv DEF Stages, IInv, TypeInv

\* A chunk takes the KV load back unless one has before.
LEMMA ChunkIInv ==
    ASSUME IInv, NEW r \in Requests, Chunk(r)
    PROVE  IInv'
  <1>1. /\ stage[r] = "streaming"
        /\ first_chunk_sent' = [first_chunk_sent EXCEPT ![r] = TRUE]
        /\ released_kv' = [released_kv EXCEPT ![r] = TRUE]
        /\ UNCHANGED <<active_tokens, aborted_requests, attempt, stage, instance, resent>>
    BY DEF Chunk, decodeVars
  <1>2. /\ r \in Dispatched /\ Dispatched' = Dispatched
        /\ attempt[r] \in 1 .. MaxRetries
        /\ kv_released[r] = IF released_kv[r] THEN 1 ELSE 0
    BY <1>1 DEF Dispatched, IInv, StreamInv
  <1>3. /\ KvExactUntilReleasedTwice' /\ active_kv_cache' \in [Prefillers -> Int]
        /\ kv_released' \in [Requests -> 0 .. 2] /\ UNCHANGED prefill_tokens
        /\ kv_released'[r] = 1
        /\ \A q \in Requests \ {r} : kv_released'[q] = kv_released[q]
    <2>1. CASE released_kv[r] = TRUE
      <3>1. UNCHANGED <<prefill_tokens, active_kv_cache, kv_released>>
        BY <2>1 DEF Chunk, prefillVars
      <3> QED
        BY <1>1, <1>2, <2>1, <3>1, KvKept DEF IInv, TypeInv
    <2>2. CASE released_kv[r] = FALSE
      <3>1. ReleaseKv(r, 1) /\ kv_released[r] = 0
        BY <1>2, <2>2 DEF Chunk
      <3>2. kv_released' = [kv_released EXCEPT ![r] = 1]
        BY <3>1 DEF ReleaseKv, IInv, TypeInv
      <3> QED
        BY <1>1, <1>2, <3>1, <3>2, KvTakenBack DEF IInv, TypeInv
    <2> QED
      BY <2>1, <2>2 DEF IInv, TypeInv
  <1>4. DecoderTokensExact'
    <2>1. \A d \in Decoders : Counted(d)' = Counted(d)
      BY <1>1 DEF Counted, Dispatched
    <2> QED
      BY <1>1, <2>1, DecoderExact DEF IInv, DecoderTokensExact, Counted
  <1>5. TypeInv'
    BY <1>1, <1>3 DEF IInv, TypeInv
  <1>6. FiniteInv'
    BY <1>2 DEF IInv, FiniteInv
  <1>7. \A q \in Requests : StreamInv(q)'
    <2>1. StreamInv(r)'
      BY <1>1, <1>2, <1>3 DEF StreamInv, IInv, TypeInv
    <2>2. \A q \in Requests \ {r} : StreamInv(q)'
      BY <1>1, <1>3, OtherStreams DEF IInv, TypeInv
    <2> QED
      BY <2>1, <2>2
  <1> QED
    BY <1>3, <1>4, <1>5, <1>6, <1>7 DEF IInv

\* The handler takes the KV load back again, whether a chunk has before or not.
LEMMA ChunkFailsIInv ==
    ASSUME IInv, NEW r \in Requests, ChunkFails(r)
    PROVE  IInv'
  <1>1. /\ stage[r] = "streaming" /\ UNCHANGED attempt
        /\ first_chunk_sent' = [first_chunk_sent EXCEPT ![r] = TRUE]
        /\ released_kv' = [released_kv EXCEPT ![r] = TRUE]
    BY DEF ChunkFails
  <1>2. kv_released[r] = IF released_kv[r] THEN 1 ELSE 0
    BY <1>1 DEF IInv, StreamInv
  <1>3. PICK n \in {1, 2} : Fails(r, n) /\ kv_released[r] + n <= 2
    <2>1. CASE released_kv[r] = TRUE
      BY <1>2, <2>1 DEF ChunkFails
    <2>2. CASE released_kv[r] = FALSE
      BY <1>2, <2>2 DEF ChunkFails
    <2> QED
      BY <2>1, <2>2 DEF IInv, TypeInv
  <1>4. /\ first_chunk_sent' \in [Requests -> BOOLEAN]
        /\ released_kv' \in [Requests -> BOOLEAN]
        /\ \A q \in Requests \ {r} : released_kv'[q] = released_kv[q]
    BY <1>1 DEF IInv, TypeInv
  <1> QED
    BY <1>1, <1>3, <1>4, FailsIInv

\* The stream ends and gives its tokens back.
LEMMA DecoderIsDoneIInv ==
    ASSUME IInv, NEW r \in Requests, DecoderIsDone(r)
    PROVE  IInv'
  BY EndsIInv DEF DecoderIsDone

\* An attempt fails: there is another one, or the handler has the last word.
LEMMA TriesAgainIInv ==
    ASSUME IInv, NEW r \in Requests, stage[r] \in {"decode", "streaming"}, TriesAgain(r),
           UNCHANGED <<first_chunk_sent, released_kv>>
    PROVE  IInv'
  <1>1. /\ attempt[r] \in 1 .. MaxRetries
        /\ kv_released[r] = IF released_kv[r] THEN 1 ELSE 0
    BY DEF IInv, StreamInv
  <1>2. CASE /\ ~LastAttempt(r)
             /\ attempt' = [attempt EXCEPT ![r] = @ + 1]
             /\ resent' = IF released_kv[r] THEN resent \cup {r} ELSE resent
             /\ MovesTo(r, "decode")
             /\ UNCHANGED <<prefillVars, decodeVars, aborted_requests, instance, kv_released>>
    <2>1. attempt[r] + 1 \in 1 .. MaxRetries
      BY <1>1, <1>2, ProxyAssumption DEF LastAttempt
    <2>2. /\ attempt' \in [Requests -> 0 .. MaxRetries] /\ attempt'[r] \in 1 .. MaxRetries
          /\ \A q \in Requests \ {r} : attempt'[q] = attempt[q]
      BY <1>2, <2>1, ProxyAssumption DEF IInv, TypeInv
    <2>3. StreamInv(r)'
      <3>1. stage'[r] = "decode"
        BY <1>2, StageStep DEF Stages
      <3> QED
        BY <1>1, <1>2, <2>2, <3>1 DEF StreamInv
    <2>4. resent' \subseteq Requests
      BY <1>2 DEF IInv, TypeInv
    <2> QED
      BY <1>2, <2>2, <2>3, <2>4, MovesOnIInv DEF Stages, IInv, TypeInv
  <1>3. CASE LastAttempt(r) /\ Fails(r, 1) /\ UNCHANGED attempt
    <2>1. kv_released[r] + 1 <= 2
      BY <1>1
    <2> QED
      BY <1>3, <2>1, FailsIInv DEF IInv, TypeInv
  <1> QED
    BY <1>2, <1>3 DEF TriesAgain

\* The handler of httpx errors, which retries or gives up.
LEMMA HttpErrorIInv ==
    ASSUME IInv, NEW r \in Requests, HttpError(r)
    PROVE  IInv'
  BY TriesAgainIInv DEF HttpError

\* The handler of other errors, which looks at first_chunk_sent.
LEMMA OtherErrorIInv ==
    ASSUME IInv, NEW r \in Requests, OtherError(r)
    PROVE  IInv'
  <1>1. CASE /\ Ends(r)
             /\ UNCHANGED <<prefillVars, aborted_requests, attempt, instance, kv_released, resent>>
    <2>1. UNCHANGED streamVars
      BY <1>1 DEF OtherError, streamVars
    <2> QED
      BY <1>1, <2>1, EndsIInv DEF OtherError
  <1>2. CASE TriesAgain(r)
    BY <1>2, TriesAgainIInv DEF OtherError
  <1> QED
    BY <1>1, <1>2 DEF OtherError

\* The client goes: the tokens of the request stay counted.
LEMMA ClientDisconnectsIInv ==
    ASSUME IInv, NEW r \in Requests, ClientDisconnects(r)
    PROVE  IInv'
  <1>1. /\ stage[r] \in {"dispatched", "prefill", "decode", "streaming"}
        /\ MovesTo(r, "cancelled")
        /\ UNCHANGED <<prefillVars, decodeVars, aborted_requests, attempt, first_chunk_sent,
                       released_kv, instance, kv_released, resent>>
    BY DEF ClientDisconnects, streamVars
  <1>2. StreamInv(r)'
    <2>1. stage'[r] = "cancelled"
      BY <1>1, StageStep DEF Stages
    <2> QED
      BY <2>1 DEF StreamInv
  <1> QED
    BY <1>1, <1>2, MovesOnIInv DEF Stages, IInv, TypeInv

-------------------------------------------------------------------------------
(* The theorems *)

\* Every stream knows how often it has taken its KV load back, and the counts of
\* the servers follow from the requests.  Code: generate_stream and
\* stream_service_response_with_retry.
THEOREM Invariance == Spec => []IInv
  <1>1. IInv /\ [Next]_vars => IInv'
    <2> SUFFICES ASSUME IInv, [Next]_vars PROVE IInv'
      OBVIOUS
    <2>1. CASE UNCHANGED vars
      <3>1. UNCHANGED <<prefill_tokens, active_kv_cache, active_tokens, attempt,
                        first_chunk_sent, released_kv, aborted_requests, stage, instance,
                        kv_released, resent>>
        BY <2>1 DEF vars, prefillVars, decodeVars, streamVars
      <3> QED
        BY <3>1 DEF IInv, TypeInv, FiniteInv, StreamInv, DecoderTokensExact,
           KvExactUntilReleasedTwice, Dispatched
    <2>2. ASSUME NEW r \in Requests,
                 \/ Dispatch(r) \/ AskPrefiller(r) \/ PrefillerAnswers(r) \/ PrefillerFails(r)
                 \/ DecoderAnswers(r)
                 \/ Chunk(r) \/ ChunkFails(r) \/ DecoderIsDone(r)
                 \/ HttpError(r) \/ OtherError(r) \/ ClientDisconnects(r)
          PROVE  IInv'
      BY <2>2, DispatchIInv, AskPrefillerIInv, PrefillerAnswersIInv, PrefillerFailsIInv,
         DecoderAnswersIInv, ChunkIInv, ChunkFailsIInv, DecoderIsDoneIInv, HttpErrorIInv,
         OtherErrorIInv, ClientDisconnectsIInv
    <2> QED
      BY <2>1, <2>2 DEF Next
  <1> QED
    BY <1>1, InitIInv, PTL DEF Spec

\* The tokens of a decoder are those of its requests: retries, errors and
\* recomputation take them back once.  Code: select_decoder, release_decoder.
THEOREM DecodersCountExactly == Spec => []DecoderTokensExact
  <1>1. IInv => DecoderTokensExact
    BY DEF IInv
  <1> QED
    BY <1>1, Invariance, PTL

\* The KV load of a prefiller is that of its requests until one of them has taken
\* it back twice.  Code: release_prefiller_kv, whose guard does not look at the amount.
THEOREM PrefillersCountExactly == Spec => []KvExactUntilReleasedTwice
  <1>1. IInv => KvExactUntilReleasedTwice
    BY DEF IInv
  <1> QED
    BY <1>1, Invariance, PTL

\* The state has its types; above all, no decoder owes tokens.
THEOREM TypeCorrect == Spec => []TypeOK
  <1>1. IInv => TypeOK
    <2> SUFFICES ASSUME IInv PROVE TypeOK
      OBVIOUS
    <2>1. ASSUME NEW d \in Decoders
          PROVE  active_tokens[d] \in Nat
      <3>1. DecodeScore \in [Requests -> Nat]
        BY PoolAssumption
      <3>2. active_tokens[d] = ScoreSum(DecodeScore, Counted(d))
        BY DecoderExact DEF IInv
      <3> QED
        BY <3>1, <3>2, CountedFinite, SumIsNat DEF IInv
    <2> QED
      BY <2>1 DEF IInv, TypeInv, TypeOK
  <1> QED
    BY <1>1, Invariance, PTL

-------------------------------------------------------------------------------
(* The heaps *)

\* The priorities of the prefillers.
Priorities == [p \in Prefillers |-> PrefillPriority(prefill_tokens[p], active_kv_cache[p])]

HeapInv ==
    /\ Mirrors(decoder_heap, active_tokens)
    /\ Mirrors(prefiller_heap, Priorities)

\* There are servers, and their counts are numbers.
LEMMA PrioritiesAre ==
    ASSUME IInv
    PROVE  /\ NumDecoders \in Nat \ {0} /\ NumPrefillers \in Nat \ {0}
           /\ active_tokens \in [1 .. NumDecoders -> Int]
           /\ Priorities \in [1 .. NumPrefillers -> Int]
  <1>1. NumDecoders \in Nat \ {0} /\ NumPrefillers \in Nat \ {0}
    BY PoolAssumption, ProxyAssumption
  <1>2. active_tokens \in [1 .. NumDecoders -> Int]
    BY DEF IInv, TypeInv, Decoders
  <1>3. ASSUME NEW p \in Prefillers
        PROVE  PrefillPriority(prefill_tokens[p], active_kv_cache[p]) \in Int
    <2>1. prefill_tokens[p] \in Int /\ active_kv_cache[p] \in Int
      BY DEF IInv, TypeInv
    <2> QED
      BY <2>1 DEF PrefillPriority
  <1>4. Priorities \in [Prefillers -> Int]
    BY <1>3 DEF Priorities
  <1> QED
    BY <1>1, <1>2, <1>4 DEF Prefillers

\* The heaps start with every server.
LEMMA InitHeapInv == Init => HeapInv
  <1> SUFFICES ASSUME Init PROVE HeapInv
    OBVIOUS
  <1>1. NumDecoders \in Nat /\ NumPrefillers \in Nat
    BY PoolAssumption, ProxyAssumption
  <1>2. /\ active_tokens = [d \in 1 .. NumDecoders |-> 0] /\ decoder_heap = InitialHeap(NumDecoders)
        /\ prefiller_heap = InitialHeap(NumPrefillers)
    BY DEF Init, PoolInit, Decoders
  <1>3. Priorities = [p \in 1 .. NumPrefillers |-> 0]
    BY DEF Init, Priorities, PrefillPriority, Prefillers
  <1> QED
    BY <1>1, <1>2, <1>3, InitialMirrors DEF HeapInv

\* A release of the decoder changes its count and its entry.
LEMMA DecoderHeapReleased ==
    ASSUME IInv, HeapInv, NEW r \in Requests, ReleaseDecoder(instance[r].decoder, r)
    PROVE  Mirrors(decoder_heap', active_tokens')
  <1>1. PICK d \in 1 .. NumDecoders : d = instance[r].decoder
    BY DEF IInv, TypeInv, Decoders
  <1>2. PICK t \in Int : t = active_tokens[d] - DecodeScore[r]
    <2>1. active_tokens[d] \in Int /\ DecodeScore[r] \in Int
      BY <1>1, PrioritiesAre, PoolAssumption
    <2> QED
      BY <2>1
  <1>3. /\ active_tokens' = [active_tokens EXCEPT ![d] = t]
        /\ decoder_heap' = UpdatePriority(decoder_heap, d, t)
    BY <1>1, <1>2 DEF ReleaseDecoder
  <1>4. Mirrors(UpdatePriority(decoder_heap, d, t), [active_tokens EXCEPT ![d] = t])
    BY PrioritiesAre, UpdateMirrors DEF HeapInv
  <1> QED
    BY <1>3, <1>4

\* The KV load of one prefiller changes.
LEMMA PriorityChanges ==
    ASSUME IInv, NEW p \in Prefillers, NEW kv \in Int,
           active_kv_cache' = [active_kv_cache EXCEPT ![p] = kv], UNCHANGED prefill_tokens
    PROVE  /\ PrefillPriority(prefill_tokens[p], kv) \in Int
           /\ Priorities' = [Priorities EXCEPT ![p] = PrefillPriority(prefill_tokens[p], kv)]
  <1>1. PrefillPriority(prefill_tokens[p], kv) \in Int
    <2>1. prefill_tokens[p] \in Int
      BY DEF IInv, TypeInv
    <2> QED
      BY <2>1 DEF PrefillPriority
  <1>2. active_kv_cache'[p] = kv /\ \A q \in Prefillers \ {p} : active_kv_cache'[q] = active_kv_cache[q]
    BY DEF IInv, TypeInv
  <1>3. Priorities' = [q \in Prefillers |-> PrefillPriority(prefill_tokens[q], active_kv_cache'[q])]
    BY DEF Priorities
  <1>4. PICK a \in Int : a = PrefillPriority(prefill_tokens[p], kv)
    BY <1>1
  <1>5. \A q \in Prefillers : PrefillPriority(prefill_tokens[q], active_kv_cache'[q])
                                  = IF q = p THEN a ELSE Priorities[q]
    <2> TAKE q \in Prefillers
    <2>1. CASE q = p
      BY <1>2, <1>4, <2>1
    <2>2. CASE q # p
      BY <1>2, <2>2 DEF Priorities
    <2> QED
      BY <2>1, <2>2
  <1>6. [Priorities EXCEPT ![p] = a] = [q \in Prefillers |-> IF q = p THEN a ELSE Priorities[q]]
    BY DEF Priorities
  <1>7. Priorities' = [Priorities EXCEPT ![p] = a]
    BY <1>3, <1>5, <1>6
  <1> QED
    BY <1>1, <1>4, <1>7

\* A release of KV load, once or twice, changes it and the entry as often.
LEMMA PrefillerHeapReleased ==
    ASSUME IInv, HeapInv, NEW r \in Requests, NEW n \in {1, 2}, ReleaseKv(r, n)
    PROVE  Mirrors(prefiller_heap', Priorities')
  <1>1. PICK p \in Prefillers : p = instance[r].prefiller
    BY DEF IInv, TypeInv
  <1>2. active_kv_cache[p] \in Int /\ PrefillScore[r] \in Int /\ prefill_tokens[p] \in Int
    BY ProxyAssumption DEF IInv, TypeInv
  <1>3. PICK once \in Int : once = KvAfterRelease(active_kv_cache[p], PrefillScore[r])
    BY <1>2 DEF KvAfterRelease
  <1>4. PICK twice \in Int : twice = KvAfterRelease(once, PrefillScore[r])
    BY <1>2 DEF KvAfterRelease
  <1>5. PICK a \in Int : a = PrefillPriority(prefill_tokens[p], once)
    BY <1>2 DEF PrefillPriority
  <1>6. PICK b \in Int : b = PrefillPriority(prefill_tokens[p], twice)
    BY <1>2 DEF PrefillPriority
  <1>7. /\ active_kv_cache' = [active_kv_cache EXCEPT ![p] = IF n = 1 THEN once ELSE twice]
        /\ prefiller_heap' = IF n = 1 THEN UpdatePriority(prefiller_heap, p, a)
                             ELSE UpdatePriority(UpdatePriority(prefiller_heap, p, a), p, b)
        /\ UNCHANGED prefill_tokens
    BY <1>1, <1>3, <1>4, <1>5, <1>6 DEF ReleaseKv
  <1>8. p \in 1 .. NumPrefillers /\ NumPrefillers \in Nat /\ Priorities \in [1 .. NumPrefillers -> Int]
    BY PrioritiesAre DEF Prefillers
  <1> DEFINE first == [Priorities EXCEPT ![p] = a]
             heap == UpdatePriority(prefiller_heap, p, a)
  <1>9. Mirrors(heap, first)
    BY <1>8, UpdateMirrors DEF HeapInv
  <1>10. first \in [1 .. NumPrefillers -> Int] /\ [first EXCEPT ![p] = b] = [Priorities EXCEPT ![p] = b]
    BY <1>8
  <1> HIDE DEF first, heap
  <1>11. CASE n = 1
    <2>1. Priorities' = first
      BY <1>5, <1>7, <1>11, PriorityChanges DEF first
    <2> QED
      BY <1>7, <1>9, <1>11, <2>1 DEF heap
  <1>12. CASE n = 2
    <2>0. active_kv_cache' = [active_kv_cache EXCEPT ![p] = twice] /\ UNCHANGED prefill_tokens
      BY <1>7, <1>12
    <2>1. Priorities' = [Priorities EXCEPT ![p] = b]
      BY <1>6, <2>0, PriorityChanges
    <2>2. Mirrors(UpdatePriority(heap, p, b), [first EXCEPT ![p] = b])
      BY <1>8, <1>9, <1>10, UpdateMirrors
    <2> QED
      BY <1>7, <1>10, <1>12, <2>1, <2>2 DEF heap
  <1> QED
    BY <1>11, <1>12

\* A request is given to the servers on top of the heaps.
LEMMA DecoderHeapSelected ==
    ASSUME IInv, HeapInv, NEW r \in Requests, NEW d \in Decoders, SelectDecoder(d, r)
    PROVE  Mirrors(decoder_heap', active_tokens')
  <1>1. PICK t \in Int : t = active_tokens[d] + DecodeScore[r]
    <2>1. active_tokens[d] \in Int /\ DecodeScore[r] \in Int
      BY PoolAssumption DEF IInv, TypeInv
    <2> QED
      BY <2>1
  <1>2. /\ d = Chosen(decoder_heap)
        /\ active_tokens' = [active_tokens EXCEPT ![d] = t]
        /\ decoder_heap' = UpdatePriority(HeapPop(decoder_heap), d, t)
    BY <1>1 DEF SelectDecoder
  <1>3. Mirrors(UpdatePriority(HeapPop(decoder_heap), Chosen(decoder_heap), t),
               [active_tokens EXCEPT ![Chosen(decoder_heap)] = t])
    BY PrioritiesAre, PopMirrors DEF HeapInv
  <1> QED
    BY <1>2, <1>3

\* A prefiller that is chosen and released at once ends with its priority in the heap.
LEMMA PrefillerHeapSelected ==
    ASSUME IInv, HeapInv, NEW r \in Requests, NEW p \in Prefillers,
           SelectAndReleasePrefiller(p, PrefillScore[r])
    PROVE  Mirrors(prefiller_heap', Priorities')
  <1>1. active_kv_cache[p] \in Int /\ PrefillScore[r] \in Int /\ prefill_tokens[p] \in Int
    BY ProxyAssumption DEF IInv, TypeInv
  <1>2. PICK kv \in Int : kv = active_kv_cache[p] + PrefillScore[r]
    BY <1>1
  <1>3. PICK a \in Int : a = PrefillPriority(prefill_tokens[p] + PrefillScore[r], kv)
    BY <1>1 DEF PrefillPriority
  <1>4. PICK b \in Int : b = PrefillPriority(prefill_tokens[p], kv)
    BY <1>1 DEF PrefillPriority
  <1>5. /\ p = Chosen(prefiller_heap)
        /\ active_kv_cache' = [active_kv_cache EXCEPT ![p] = kv]
        /\ prefiller_heap' = UpdatePriority(UpdatePriority(HeapPop(prefiller_heap), p, a), p, b)
        /\ UNCHANGED prefill_tokens
    BY <1>2, <1>3, <1>4 DEF SelectAndReleasePrefiller
  <1>6. /\ p \in 1 .. NumPrefillers /\ NumPrefillers \in Nat \ {0}
        /\ Priorities \in [1 .. NumPrefillers -> Int]
    BY PrioritiesAre DEF Prefillers
  <1> DEFINE first == [Priorities EXCEPT ![p] = a]
             heap == UpdatePriority(HeapPop(prefiller_heap), p, a)
  <1>7. Mirrors(heap, first)
    <2>1. Mirrors(UpdatePriority(HeapPop(prefiller_heap), Chosen(prefiller_heap), a),
                 [Priorities EXCEPT ![Chosen(prefiller_heap)] = a])
      BY <1>6, PopMirrors DEF HeapInv
    <2> QED
      BY <1>5, <2>1
  <1>8. first \in [1 .. NumPrefillers -> Int] /\ [first EXCEPT ![p] = b] = [Priorities EXCEPT ![p] = b]
    BY <1>6
  <1> HIDE DEF first, heap
  <1>9. Mirrors(UpdatePriority(heap, p, b), [first EXCEPT ![p] = b])
    BY <1>6, <1>7, <1>8, UpdateMirrors
  <1>10. Priorities' = [Priorities EXCEPT ![p] = b]
    BY <1>2, <1>4, <1>5, PriorityChanges
  <1> QED
    BY <1>5, <1>8, <1>9, <1>10 DEF heap

\* What a step does to the heaps: each stays, as the counts behind it do, or is
\* changed with them.
LEMMA NextHeapInv ==
    ASSUME IInv, HeapInv, [Next]_vars
    PROVE  HeapInv'
  <1>1. UNCHANGED prefillVars => Mirrors(prefiller_heap', Priorities')
    BY DEF prefillVars, Priorities, HeapInv
  <1>2. UNCHANGED decodeVars => Mirrors(decoder_heap', active_tokens')
    BY DEF decodeVars, HeapInv
  <1>3. ASSUME NEW r \in Requests, NEW n \in {1, 2}, Fails(r, n)
        PROVE  Mirrors(prefiller_heap', Priorities') /\ Mirrors(decoder_heap', active_tokens')
    BY <1>3, PrefillerHeapReleased, DecoderHeapReleased DEF Fails
  <1>4. ASSUME NEW r \in Requests, Ends(r)
        PROVE  Mirrors(decoder_heap', active_tokens')
    BY <1>4, DecoderHeapReleased DEF Ends
  <1>5. ASSUME NEW r \in Requests, TriesAgain(r)
        PROVE  Mirrors(prefiller_heap', Priorities') /\ Mirrors(decoder_heap', active_tokens')
    BY <1>1, <1>2, <1>3, <1>5 DEF TriesAgain
  <1>6. Mirrors(prefiller_heap', Priorities') /\ Mirrors(decoder_heap', active_tokens')
    <2>1. CASE UNCHANGED vars
      BY <1>1, <1>2, <2>1 DEF vars
    <2> SUFFICES ASSUME NEW r \in Requests,
                        \/ Dispatch(r) \/ AskPrefiller(r) \/ PrefillerAnswers(r) \/ PrefillerFails(r)
                        \/ DecoderAnswers(r)
                        \/ Chunk(r) \/ ChunkFails(r) \/ DecoderIsDone(r)
                        \/ HttpError(r) \/ OtherError(r) \/ ClientDisconnects(r)
                 PROVE  Mirrors(prefiller_heap', Priorities') /\ Mirrors(decoder_heap', active_tokens')
      BY <2>1 DEF Next
    <2>2. CASE Dispatch(r)
      BY <2>2, PrefillerHeapSelected, DecoderHeapSelected DEF Dispatch
    <2>3. CASE AskPrefiller(r)
      BY <1>1, <1>2, <2>3 DEF AskPrefiller
    <2>4. CASE PrefillerAnswers(r)
      BY <1>1, <1>2, <2>4 DEF PrefillerAnswers
    <2>5. CASE PrefillerFails(r)
      BY <1>3, <2>5 DEF PrefillerFails
    <2>6. CASE DecoderAnswers(r)
      BY <1>1, <1>2, <2>6 DEF DecoderAnswers
    <2>7. CASE Chunk(r)
      BY <1>1, <1>2, <2>7, PrefillerHeapReleased DEF Chunk
    <2>8. CASE ChunkFails(r)
      BY <1>3, <2>8 DEF ChunkFails
    <2>9. CASE DecoderIsDone(r)
      BY <1>1, <1>4, <2>9 DEF DecoderIsDone
    <2>10. CASE HttpError(r)
      BY <1>5, <2>10 DEF HttpError
    <2>11. CASE OtherError(r)
      BY <1>1, <1>4, <1>5, <2>11 DEF OtherError
    <2>12. CASE ClientDisconnects(r)
      BY <1>1, <1>2, <2>12 DEF ClientDisconnects
    <2> QED
      BY <2>2, <2>3, <2>4, <2>5, <2>6, <2>7, <2>8, <2>9, <2>10, <2>11, <2>12
  <1> QED
    BY <1>6 DEF HeapInv

\* The heaps have one entry for each server, with its counts: whatever heapq does to
\* the positions, no change of a count misses the heap.  Code: every change of a
\* count is followed by _update_prefiller_priority or _update_decoder_priority.
THEOREM HeapsMirrorTheCounts == Spec => []HeapsMirrorCounts
  <1>1. IInv /\ HeapInv /\ [Next]_vars => HeapInv'
    BY NextHeapInv
  <1>2. IInv /\ HeapInv => HeapsMirrorCounts
    <2> SUFFICES ASSUME IInv, HeapInv PROVE HeapsMirrorCounts
      OBVIOUS
    <2>1. DOMAIN active_tokens = 1 .. NumDecoders /\ DOMAIN Priorities = 1 .. NumPrefillers
      BY PrioritiesAre
    <2>2. HeapMirrors(decoder_heap, active_tokens)
      BY <2>1, PrioritiesAre, MirrorsIs DEF HeapInv
    <2>3. HeapMirrors(prefiller_heap, Priorities)
      BY <2>1, PrioritiesAre, MirrorsIs DEF HeapInv
    <2> QED
      BY <2>2, <2>3 DEF HeapsMirrorCounts, Priorities
  <1> QED
    BY <1>1, <1>2, InitHeapInv, Invariance, PTL DEF Spec

===============================================================================
