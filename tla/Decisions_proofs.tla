---------------------------- MODULE Decisions_proofs ----------------------------
(***************************************************************************)
(* What a broker decides from data it holds, for any workers and requests: *)
(* the turns of the static broker are even, and the routes of a            *)
(* publication leave no subscriber out.                                    *)
(***************************************************************************)
EXTENDS RoundRobin, Routing, FiniteSetTheorems, SequenceTheorems, WellFoundedInduction, TLAPS

(***************************************************************************)
(* A sorted list is what sorted() promises.  That there is one follows     *)
(* from counting: the rank of an element is the number of those up to it.  *)
(***************************************************************************)
\* seq has every member of S once and nothing else.
Lists(seq, S) ==
  /\ seq \in Seq(S)
  /\ \A x \in S : \E i \in 1..Len(seq) : seq[i] = x
  /\ \A i, j \in 1..Len(seq) : seq[i] = seq[j] => i = j

LEMMA SortedLists ==
  ASSUME NEW S, S \subseteq Int, IsFiniteSet(S)
  PROVE  Lists(Sorted(S), S)
<1> DEFINE n == Cardinality(S)
           UpTo(x) == {y \in S : y <= x}
           rank == [x \in S |-> Cardinality(UpTo(x))]
           Grows(f) == \A i, j \in 1..n : i < j => f[i] < f[j]
<1>1. n \in Nat
  BY FS_CardinalityType
<1>2. ASSUME NEW x \in S
      PROVE  IsFiniteSet(UpTo(x)) /\ rank[x] \in 1..n
  <2>1. UpTo(x) \in SUBSET S
    OBVIOUS
  <2>2. IsFiniteSet(UpTo(x)) /\ Cardinality(UpTo(x)) <= n
    BY <2>1, FS_Subset
  <2>3. Cardinality(UpTo(x)) \in Nat
    BY <2>2, FS_CardinalityType
  <2>4. x \in UpTo(x)
    OBVIOUS
  <2>5. Cardinality(UpTo(x)) # 0
    BY <2>2, <2>4, FS_EmptySet
  <2> HIDE DEF UpTo, n
  <2> QED BY <1>1, <2>2, <2>3, <2>5
<1>3. ASSUME NEW x \in S, NEW z \in S, x < z
      PROVE  rank[x] < rank[z]
  <2>1. UpTo(x) \subseteq UpTo(z) /\ z \in UpTo(z) \ UpTo(x)
    <3>1. x \in Int /\ z \in Int /\ \A y \in S : y \in Int
      OBVIOUS
    <3>2. \A y \in S : y <= x => y <= z
      BY <1>3, <3>1
    <3>3. z <= z /\ ~(z <= x)
      BY <1>3, <3>1
    <3> QED BY <3>2, <3>3
  <2>2. Cardinality(UpTo(x)) <= Cardinality(UpTo(z)) /\ Cardinality(UpTo(x)) # Cardinality(UpTo(z))
    BY <1>2, <2>1, FS_Subset
  <2>3. rank[x] \in Int /\ rank[z] \in Int
    BY <1>1, <1>2
  <2> HIDE DEF UpTo
  <2> QED BY <2>2, <2>3
<1> HIDE DEF rank, UpTo
<1>4. rank \in Injection(S, 1..n)
  <2>1. rank \in [S -> 1..n]
    BY <1>2 DEF rank
  <2>2. \A x, z \in S : rank[x] = rank[z] => x = z
    <3> SUFFICES ASSUME NEW x \in S, NEW z \in S, x # z
                 PROVE  rank[x] # rank[z]
      OBVIOUS
    <3>1. x < z \/ z < x
      OBVIOUS
    <3>2. rank[x] \in 1..n /\ rank[z] \in 1..n
      BY <2>1
    <3> QED BY <1>1, <1>3, <3>1, <3>2
  <2> QED BY <2>1, <2>2 DEF Injection, IsInjective
<1>5. IsFiniteSet(1..n) /\ Cardinality(1..n) = n
  BY <1>1, FS_Interval
<1>6. rank \in Surjection(S, 1..n)
  BY <1>4, <1>5, FS_Injection
<1>7. \E f \in [1..n -> S] : Grows(f)
  <2> DEFINE f == [i \in 1..n |-> CHOOSE x \in S : rank[x] = i]
  <2>1. ASSUME NEW i \in 1..n
        PROVE  f[i] \in S /\ rank[f[i]] = i
    BY <1>6 DEF Surjection
  <2> HIDE DEF f
  <2>2. ASSUME NEW i \in 1..n, NEW j \in 1..n, i < j
        PROVE  f[i] < f[j]
    <3>1. f[i] \in Int /\ f[j] \in Int
      BY <2>1
    <3>2. ~(rank[f[j]] < rank[f[i]]) /\ f[i] # f[j]
      BY <1>1, <2>1, <2>2
    <3> QED BY <1>3, <2>1, <3>1, <3>2
  <2>3. f \in [1..n -> S]
    BY <2>1 DEF f
  <2> QED BY <2>2, <2>3
<1>8. Sorted(S) \in [1..n -> S] /\ Grows(Sorted(S))
  BY <1>7 DEF Sorted
<1> DEFINE seq == Sorted(S)
<1> HIDE DEF seq
<1>9. seq \in [1..n -> S] /\ Grows(seq)
  BY <1>8 DEF seq
<1>10. ASSUME NEW i \in 1..n, NEW j \in 1..n, seq[i] = seq[j]
       PROVE  i = j
  <2>1. seq[i] \in Int /\ seq[j] \in Int
    BY <1>9
  <2>2. ~(i < j) /\ ~(j < i)
    BY <1>9, <1>10, <2>1
  <2> QED BY <1>1, <2>2
<1>11. seq \in Surjection(1..n, S)
  <2>1. seq \in Injection(1..n, S)
    BY <1>9, <1>10 DEF Injection, IsInjective
  <2> QED BY <1>5, <2>1, FS_Injection
<1>12. \A x \in S : \E i \in 1..n : seq[i] = x
  BY <1>11 DEF Surjection
<1>13. seq \in Seq(S) /\ Len(seq) = n
  BY <1>1, <1>9
<1> QED BY <1>10, <1>12, <1>13 DEF Lists, seq

-----------------------------------------------------------------------------
(***************************************************************************)
(* The cycle of a requirement is a queue: who is further ahead has been    *)
(* picked no more often, and nobody two times more than another.  Taking   *)
(* the first to the end keeps that, and nothing need be known of the       *)
(* moment at which the cycle was built.                                    *)
(***************************************************************************)
Count(taken, w) == Cardinality({i \in 1..Len(taken) : taken[i] = w})

FairQueue(queue, taken, S) ==
  /\ Lists(queue, S)
  /\ taken \in Seq(S)
  /\ \A i, j \in 1..Len(queue) : i < j => Count(taken, queue[i]) <= Count(taken, queue[j])
  /\ \A i, j \in 1..Len(queue) : Count(taken, queue[i]) <= Count(taken, queue[j]) + 1

\* With no picks the order of the queue does not matter.
LEMMA NewQueueIsFair ==
  ASSUME NEW S, NEW queue, Lists(queue, S)
  PROVE  FairQueue(queue, <<>>, S)
<1>1. \A w : Count(<<>>, w) = 0
  <2>1. \A w : {i \in 1..Len(<<>>) : <<>>[i] = w} = {}
    OBVIOUS
  <2> QED BY <2>1, FS_EmptySet DEF Count
<1>2. <<>> \in Seq(S)
  OBVIOUS
<1> HIDE DEF Count
<1> QED BY <1>1, <1>2 DEF FairQueue

\* A pick counts for the one that was picked.
LEMMA CountAfterPick ==
  ASSUME NEW S, NEW taken \in Seq(S), NEW h \in S, NEW w
  PROVE  /\ Count(taken, w) \in Nat
         /\ Count(Append(taken, h), w) = IF w = h THEN Count(taken, w) + 1 ELSE Count(taken, w)
<1> DEFINE n == Len(taken)
           old == {i \in 1..n : taken[i] = w}
           new == {i \in 1..(n + 1) : Append(taken, h)[i] = w}
<1>1. n \in Nat /\ Len(Append(taken, h)) = n + 1
  OBVIOUS
<1>2. IsFiniteSet(old) /\ Cardinality(old) \in Nat
  <2>1. IsFiniteSet(1..n) /\ old \in SUBSET (1..n)
    BY <1>1, FS_Interval
  <2>2. IsFiniteSet(old)
    BY <2>1, FS_Subset
  <2> QED BY <2>2, FS_CardinalityType
<1>3. /\ \A i \in 1..n : Append(taken, h)[i] = taken[i]
      /\ Append(taken, h)[n + 1] = h
  OBVIOUS
<1>4. n + 1 \notin old
  BY <1>1
<1>5. new = IF w = h THEN old \cup {n + 1} ELSE old
  BY <1>1, <1>3
<1>6. Cardinality(new) = IF w = h THEN Cardinality(old) + 1 ELSE Cardinality(old)
  BY <1>2, <1>4, <1>5, FS_AddElement
<1>7. Count(taken, w) = Cardinality(old) /\ Count(Append(taken, h), w) = Cardinality(new)
  BY <1>1 DEF Count
<1> HIDE DEF old, new
<1> QED BY <1>2, <1>6, <1>7

\* The first of the queue is taken and goes to the end.
LEMMA TurnIsFair ==
  ASSUME NEW S, NEW queue, NEW taken, FairQueue(queue, taken, S), queue # <<>>
  PROVE  FairQueue(Turn(queue), Append(taken, Head(queue)), S)
<1> DEFINE n == Len(queue)
           h == Head(queue)
           turned == Turn(queue)
           after == Append(taken, h)
           Before(k) == IF k = n THEN 1 ELSE k + 1
<1>1. queue \in Seq(S) /\ taken \in Seq(S)
  BY DEF FairQueue, Lists
<1>2. n \in Nat \ {0} /\ h = queue[1] /\ h \in S
  BY <1>1
<1>3. turned \in Seq(S) /\ Len(turned) = n /\ \A k \in 1..n : turned[k] = queue[Before(k)]
  BY <1>1, <1>2 DEF Turn
<1>4. \A k \in 1..n : Before(k) \in 1..n
  BY <1>2
<1>5. \A i, j \in 1..n : queue[i] = queue[j] => i = j
  BY DEF FairQueue, Lists
<1> HIDE DEF h, turned
<1>6. Lists(turned, S)
  <2>1. \A x \in S : \E k \in 1..n : turned[k] = x
    <3> SUFFICES ASSUME NEW x \in S
                 PROVE  \E k \in 1..n : turned[k] = x
      OBVIOUS
    <3>1. PICK i \in 1..n : queue[i] = x
      BY DEF FairQueue, Lists
    <3>2. \E k \in 1..n : Before(k) = i
      <4>1. CASE i = 1
        BY <1>2, <4>1
      <4>2. CASE i # 1
        <5>1. i - 1 \in 1..n /\ Before(i - 1) = i
          BY <1>2, <4>2
        <5> QED BY <5>1
      <4> QED BY <4>1, <4>2
    <3> QED BY <1>3, <3>1, <3>2
  <2>2. \A i, j \in 1..n : turned[i] = turned[j] => i = j
    <3> SUFFICES ASSUME NEW i \in 1..n, NEW j \in 1..n, turned[i] = turned[j]
                 PROVE  i = j
      OBVIOUS
    <3>1. Before(i) = Before(j)
      BY <1>3, <1>4, <1>5
    <3> QED BY <1>2, <3>1
  <2> QED BY <1>3, <2>1, <2>2 DEF Lists
<1>7. after \in Seq(S)
  BY <1>1, <1>2
<1> DEFINE old(k) == Count(taken, queue[k])
           new(k) == Count(after, turned[k])
<1>8. \A k \in 1..n : old(k) \in Nat
  BY <1>1, <1>2, CountAfterPick
<1>9. \A i, j \in 1..n : /\ i < j => old(i) <= old(j)
                         /\ old(i) <= old(j) + 1
  BY DEF FairQueue
<1>10. \A k \in 1..n : new(k) = IF k = n THEN old(1) + 1 ELSE old(k + 1)
  <2> SUFFICES ASSUME NEW k \in 1..n
               PROVE  new(k) = IF k = n THEN old(1) + 1 ELSE old(k + 1)
    OBVIOUS
  <2>1. turned[k] = queue[Before(k)] /\ Before(k) \in 1..n
    BY <1>3, <1>4
  <2>2. queue[Before(k)] = h <=> k = n
    BY <1>2, <1>5, <2>1
  <2>3. new(k) = IF turned[k] = h THEN Count(taken, turned[k]) + 1 ELSE Count(taken, turned[k])
    BY <1>1, <1>2, CountAfterPick
  <2> QED BY <1>2, <2>1, <2>2, <2>3
<1> HIDE DEF old, new, after
<1>11. \A i, j \in 1..n : i < j => new(i) <= new(j)
  <2> SUFFICES ASSUME NEW i \in 1..n, NEW j \in 1..n, i < j
               PROVE  new(i) <= new(j)
    OBVIOUS
  <2>1. new(i) = old(i + 1) /\ i + 1 \in 1..n
    BY <1>2, <1>10
  <2>2. CASE j = n
    <3>1. new(j) = old(1) + 1 /\ 1 \in 1..n
      BY <1>2, <1>10, <2>2
    <3> QED BY <1>9, <2>1, <3>1
  <2>3. CASE j # n
    <3>1. new(j) = old(j + 1) /\ j + 1 \in 1..n /\ i + 1 < j + 1
      BY <1>2, <1>10, <2>3
    <3> QED BY <1>9, <2>1, <3>1
  <2> QED BY <2>2, <2>3
<1>12. \A i, j \in 1..n : new(i) <= new(j) + 1
  <2> SUFFICES ASSUME NEW i \in 1..n, NEW j \in 1..n
               PROVE  new(i) <= new(j) + 1
    OBVIOUS
  <2>1. 1 \in 1..n /\ \A k \in 1..n : k # n => k + 1 \in 1..n /\ 1 < k + 1
    BY <1>2
  <2>2. ASSUME NEW k \in 1..n
        PROVE  old(1) <= new(k) /\ new(k) <= old(1) + 1
    <3>1. CASE k = n
      <4>1. new(k) = old(1) + 1 /\ old(1) \in Nat
        BY <1>8, <1>10, <2>1, <3>1
      <4> QED BY <4>1
    <3>2. CASE k # n
      <4>1. new(k) = old(k + 1) /\ k + 1 \in 1..n /\ 1 < k + 1
        BY <1>10, <2>1, <3>2
      <4>2. old(1) <= old(k + 1) /\ old(k + 1) <= old(1) + 1
        BY <1>9, <2>1, <4>1
      <4> QED BY <4>1, <4>2
    <3> QED BY <3>1, <3>2
  <2>3. new(i) \in Nat /\ new(j) \in Nat /\ old(1) \in Nat
    BY <1>8, <1>10, <2>1
  <2> QED BY <2>2, <2>3
<1> QED BY <1>3, <1>6, <1>7, <1>11, <1>12 DEF FairQueue, new, after, turned, h

-----------------------------------------------------------------------------
RotorInv ==
  /\ registered \subseteq Units
  /\ IsFiniteSet(registered)
  /\ DOMAIN picks = Requests
  /\ \A r \in Requests : FairQueue(Cycle(r), picks[r], Eligible(registered, r))

\* Those eligible among finitely many workers are listed.
LEMMA EligibleIsListed ==
  ASSUME NEW workers, workers \subseteq Units, IsFiniteSet(workers), NEW r
  PROVE  Lists(EligibleWorkers(workers, r), Eligible(workers, r))
<1>1. Eligible(workers, r) \in SUBSET workers
  BY DEF Eligible
<1>2. IsFiniteSet(Eligible(workers, r)) /\ Eligible(workers, r) \subseteq Int
  BY <1>1, FS_Subset, UnitsAssumption
<1> QED BY <1>2, SortedLists DEF EligibleWorkers

LEMMA RotorInitial == RotorInit => RotorInv
<1> SUFFICES ASSUME RotorInit
             PROVE  RotorInv
  OBVIOUS
<1>1. registered = {} /\ IsFiniteSet(registered) /\ picks = [r \in Requests |-> <<>>]
  BY FS_EmptySet DEF RotorInit
<1>2. ASSUME NEW r \in Requests
      PROVE  FairQueue(Cycle(r), picks[r], Eligible(registered, r))
  <2>1. Cycle(r) = EligibleWorkers(registered, r)
    BY DEF RotorInit, Cycle
  <2>2. Lists(Cycle(r), Eligible(registered, r))
    BY <1>1, <2>1, EligibleIsListed
  <2> QED BY <1>1, <2>2, NewQueueIsFair
<1> QED BY <1>1, <1>2 DEF RotorInv

\* Changes of the registry start every queue anew.
LEMMA ChangeStep ==
  ASSUME RotorInv, NEW workers, workers \subseteq Units, IsFiniteSet(workers),
         ChangeWorkers(workers)
  PROVE  RotorInv'
<1>1. registered' = workers /\ picks' = [r \in Requests |-> <<>>]
  BY DEF ChangeWorkers
<1>2. ASSUME NEW r \in Requests
      PROVE  FairQueue(Cycle(r), picks[r], Eligible(registered, r))'
  <2>1. picks'[r] = <<>>
    BY <1>1
  <2>2. Cycle(r)' = EligibleWorkers(workers, r)
    BY DEF ChangeWorkers, RebuildCycle, Cycle
  <2>3. Lists(EligibleWorkers(workers, r), Eligible(workers, r))
    BY EligibleIsListed
  <2>4. FairQueue(EligibleWorkers(workers, r), <<>>, Eligible(workers, r))
    BY <2>3, NewQueueIsFair
  <2>5. Eligible(registered, r)' = Eligible(workers, r)
    BY <1>1 DEF Eligible
  <2> QED BY <2>1, <2>2, <2>4, <2>5 DEF FairQueue
<1> QED BY <1>1, <1>2 DEF RotorInv

\* A pick turns one queue.
LEMMA PickStep ==
  ASSUME RotorInv, NEW r \in Requests, PickWorker(r)
  PROVE  RotorInv'
<1>1. registered' = registered /\ DOMAIN picks' = Requests
  BY DEF PickWorker, RotorInv
<1>2. ASSUME NEW q \in Requests
      PROVE  FairQueue(Cycle(q), picks[q], Eligible(registered, q))'
  <2>1. FairQueue(Cycle(q), picks[q], Eligible(registered, q))
    BY DEF RotorInv
  <2>2. Eligible(registered, q)' = Eligible(registered, q)
    BY <1>1 DEF Eligible
  <2>3. CASE q = r
    <3>1. Cycle(q)' = Turn(Cycle(q)) /\ picks'[q] = Append(picks[q], Head(Cycle(q)))
      BY <2>3 DEF PickWorker, Cycle, RotorInv
    <3>2. Cycle(q) # <<>>
      BY <2>3 DEF PickWorker
    <3>3. FairQueue(Turn(Cycle(q)), Append(picks[q], Head(Cycle(q))), Eligible(registered, q))
      BY <2>1, <3>2, TurnIsFair
    <3> QED BY <2>2, <3>1, <3>3 DEF FairQueue
  <2>4. CASE q # r
    <3>1. Cycle(q)' = Cycle(q) /\ picks'[q] = picks[q]
      BY <1>1, <2>4 DEF PickWorker, Cycle, RotorInv, EligibleWorkers, Eligible
    <3> QED BY <2>1, <2>2, <3>1 DEF FairQueue
  <2> QED BY <2>3, <2>4
<1> QED BY <1>1, <1>2 DEF RotorInv

LEMMA RotorStep ==
  ASSUME RotorInv, [RotorNext]_rotorVars
  PROVE  RotorInv'
<1>1. ASSUME NEW w \in Units, ChangeWorkers(registered \cup {w})
      PROVE  RotorInv'
  <2>1. registered \cup {w} \subseteq Units /\ IsFiniteSet(registered \cup {w})
    BY FS_AddElement DEF RotorInv
  <2> QED BY <1>1, <2>1, ChangeStep
<1>2. ASSUME NEW w \in Units, ChangeWorkers(registered \ {w})
      PROVE  RotorInv'
  <2>1. registered \ {w} \subseteq Units /\ IsFiniteSet(registered \ {w})
    BY FS_RemoveElement DEF RotorInv
  <2> QED BY <1>2, <2>1, ChangeStep
<1>3. CASE UNCHANGED rotorVars
  <2>1. \A r \in Requests : Cycle(r)' = Cycle(r) /\ Eligible(registered, r)' = Eligible(registered, r)
    BY <1>3 DEF rotorVars, Cycle, EligibleWorkers, Eligible
  <2> QED BY <1>3, <2>1 DEF rotorVars, RotorInv, FairQueue
<1> QED BY <1>1, <1>2, <1>3, PickStep DEF RotorNext

\* A fair queue bounds the picks of any two of its members.
LEMMA FairMeansEven ==
  ASSUME RotorInv
  PROVE  RoundRobinIsEven
<1> SUFFICES ASSUME NEW r \in Requests
             PROVE  /\ \A i \in DOMAIN picks[r] : picks[r][i] \in Eligible(registered, r)
                    /\ \A v, w \in Eligible(registered, r) : Times(r, v) <= Times(r, w) + 1
  BY DEF RoundRobinIsEven
<1>1. FairQueue(Cycle(r), picks[r], Eligible(registered, r))
  BY DEF RotorInv
<1>2. picks[r] \in Seq(Eligible(registered, r))
  BY <1>1 DEF FairQueue
<1>3. DOMAIN picks[r] = 1..Len(picks[r])
  BY <1>2
<1>4. \A v : Times(r, v) = Count(picks[r], v)
  BY <1>3 DEF Times, Count
<1>5. ASSUME NEW v \in Eligible(registered, r), NEW w \in Eligible(registered, r)
      PROVE  Count(picks[r], v) <= Count(picks[r], w) + 1
  <2>1. PICK i, j \in 1..Len(Cycle(r)) : Cycle(r)[i] = v /\ Cycle(r)[j] = w
    BY <1>1 DEF FairQueue, Lists
  <2>2. Count(picks[r], Cycle(r)[i]) <= Count(picks[r], Cycle(r)[j]) + 1
    BY <1>1 DEF FairQueue
  <2> QED BY <2>1, <2>2
<1>6. \A i \in DOMAIN picks[r] : picks[r][i] \in Eligible(registered, r)
  BY <1>2
<1> QED BY <1>4, <1>5, <1>6

\* For any workers, slices and requirements, and any number of changes of the
\* registry: every eligible worker has its turn before one is picked twice, and
\* nobody else is picked.  (_pick_worker, _rebuild_cycle)
THEOREM RoundRobinIsEvenHolds == RotorSpec => []RoundRobinIsEven
<1>1. RotorInit => RotorInv
  BY RotorInitial
<1>2. RotorInv /\ [RotorNext]_rotorVars => RotorInv'
  BY RotorStep
<1>3. RotorInv => RoundRobinIsEven
  BY FairMeansEven
<1> QED BY <1>1, <1>2, <1>3, PTL DEF RotorSpec

-----------------------------------------------------------------------------
\* Some numbers have a least one.
LEMMA LeastPlace ==
  ASSUME NEW P, P \subseteq Nat, P # {}
  PROVE  \E i \in P : \A j \in P : i <= j
<1>1. \E i \in P : \A j \in P : <<j, i>> \notin OpToRel(<, Nat)
  BY NatLessThanWellFounded, WFMin
<1>2. PICK i \in P : \A j \in P : ~(j < i)
  BY <1>1 DEF OpToRel
<1> QED BY <1>2

\* Numbers up to n have a smallest and a largest.
LEMMA Extremes ==
  ASSUME NEW n \in Nat, NEW S, S \subseteq 0..n, S # {}
  PROVE  /\ Largest(S) \in S /\ \A x \in S : x <= Largest(S)
         /\ Smallest(S) \in S /\ \A x \in S : Smallest(S) <= x
<1>1. \A x \in S : x \in 0..n
  OBVIOUS
<1>2. \E x \in S : \A y \in S : x <= y
  <2>1. S \subseteq Nat
    BY <1>1
  <2> QED BY <2>1, LeastPlace
<1>3. \E x \in S : \A y \in S : y <= x
  <2> DEFINE P == {n - x : x \in S}
  <2>1. \A k \in P : k \in Nat
    BY <1>1
  <2>2. P \subseteq Nat /\ P # {}
    BY <2>1
  <2>3. PICK k \in P : \A j \in P : k <= j
    BY <2>2, LeastPlace
  <2>4. PICK x \in S : k = n - x
    OBVIOUS
  <2>5. ASSUME NEW y \in S
        PROVE  y <= x
    <3>1. n - y \in P
      OBVIOUS
    <3>2. n - x <= n - y
      BY <2>3, <2>4, <3>1
    <3>3. x \in Int /\ y \in Int
      BY <1>1
    <3> QED BY <3>2, <3>3
  <2> QED BY <2>5
<1> QED BY <1>2, <1>3 DEF Largest, Smallest

(***************************************************************************)
(* Routing.  A centre lies among the directions, a radius reaches every    *)
(* member of its cluster, and twice the radius of a group reaches them by  *)
(* way of the centres of its clusters: the root of a cosine distance is a  *)
(* metric, so two distances on a way never fall short of half the whole.   *)
(***************************************************************************)
\* The distance of opposite directions.
Longest == CosineDistances[13]

LEMMA LongestIsANumber == Longest \in Nat
  BY DEF Longest, CosineDistances

\* No distance is longer, and the way does not matter.
LEMMA Distances ==
  ASSUME NEW a \in Directions, NEW b \in Directions
  PROVE  Distance(a, b) \in 0..Longest /\ Distance(a, b) = Distance(b, a)
<1>1. Gap(a, b) \in 0..12 /\ Gap(a, b) = Gap(b, a)
  BY DEF Gap, Directions
<1>2. \A i \in 0..12 : CosineDistances[i + 1] \in 0..Longest
  BY DEF CosineDistances, Longest
<1> QED BY <1>1, <1>2 DEF Distance

\* A wider gap is no shorter.
LEMMA WiderIsLonger ==
  ASSUME NEW x \in 0..12, NEW y \in 0..12, x <= y
  PROVE  CosineDistances[x + 1] <= CosineDistances[y + 1]
<1>1. \A i \in 0..11 : CosineDistances[i + 1] <= CosineDistances[i + 2]
  BY DEF CosineDistances
<1>2. \A i \in 0..12 : CosineDistances[i + 1] \in Int
  BY DEF CosineDistances
<1> QED BY <1>1, <1>2

\* Two gaps in a row are at least half as long as both at once.
LEMMA HalfTheWay ==
  ASSUME NEW a \in Directions, NEW b \in Directions, NEW c \in Directions
  PROVE  Distance(a, c) <= 2 * (Distance(a, b) + Distance(b, c))
<1> DEFINE T(n) == CosineDistances[n + 1]
<1>1. /\ Gap(a, b) \in 0..12 /\ Gap(b, c) \in 0..12 /\ Gap(a, c) \in 0..12
      /\ Gap(a, c) <= Gap(a, b) + Gap(b, c)
  BY DEF Gap, Directions
<1>2. \A x, y \in 0..12 : x + y <= 12 => T(x + y) <= 2 * (T(x) + T(y))
  BY DEF CosineDistances
<1>3. \A x, y \in 0..12 : x + y >= 12 => T(12) <= 2 * (T(x) + T(y))
  BY DEF CosineDistances
<1>4. \A x \in 0..12 : T(x) \in Int
  BY DEF CosineDistances
<1>5. CASE Gap(a, b) + Gap(b, c) <= 12
  <2>1. T(Gap(a, c)) <= T(Gap(a, b) + Gap(b, c))
    BY <1>1, <1>5, WiderIsLonger
  <2>2. T(Gap(a, b) + Gap(b, c)) <= 2 * (T(Gap(a, b)) + T(Gap(b, c)))
    BY <1>1, <1>2, <1>5
  <2>3. Gap(a, b) + Gap(b, c) \in 0..12
    BY <1>1, <1>5
  <2> HIDE DEF T
  <2> QED BY <1>1, <1>4, <2>1, <2>2, <2>3 DEF Distance, T
<1>6. CASE Gap(a, b) + Gap(b, c) >= 12
  <2>1. T(Gap(a, c)) <= T(12)
    BY <1>1, WiderIsLonger
  <2>2. T(12) <= 2 * (T(Gap(a, b)) + T(Gap(b, c)))
    BY <1>1, <1>3, <1>6
  <2> HIDE DEF T
  <2> QED BY <1>1, <1>4, <2>1, <2>2 DEF Distance, T
<1> QED BY <1>1, <1>5, <1>6

LEMMA MiddleIsADirection ==
  ASSUME NEW S, S \subseteq Directions, S # {}
  PROVE  Middle(S) \in Directions
<1>1. Largest(S) \in 0..12 /\ Smallest(S) \in 0..12
  <2>1. S \subseteq 0..12 /\ 12 \in Nat
    BY DEF Directions
  <2> QED BY <2>1, Extremes
<1> QED BY <1>1 DEF Middle, Directions

\* The radius of a cluster reaches its members.
LEMMA ClusterIsCovered ==
  ASSUME NEW S, S \subseteq Directions, S # {}
  PROVE  /\ Summarised(S).centroid = Middle(S) /\ Middle(S) \in Directions
         /\ Summarised(S).radius \in 0..Longest
         /\ \A m \in S : Distance(Middle(S), m) <= Summarised(S).radius
<1> DEFINE D == {Distance(Middle(S), m) : m \in S}
<1>1. Middle(S) \in Directions
  BY MiddleIsADirection
<1>2. \A m \in S : Distance(Middle(S), m) \in 0..Longest
  <2>1. \A m \in S : m \in Directions
    OBVIOUS
  <2> QED BY <1>1, <2>1, Distances
<1>3. D \subseteq 0..Longest /\ D # {} /\ \A m \in S : Distance(Middle(S), m) \in D
  BY <1>2 DEF Directions
<1>4. Summarised(S) = [centroid |-> Middle(S), radius |-> Largest(D)]
  BY DEF Summarised
<1> HIDE DEF D
<1>5. Largest(D) \in D /\ \A x \in D : x <= Largest(D)
  <2> QED BY <1>3, LongestIsANumber, Extremes
<1>6. /\ Summarised(S).centroid = Middle(S)
      /\ Summarised(S).radius = Largest(D)
  BY <1>4
<1>7. Largest(D) \in 0..Longest
  BY <1>3, <1>5, LongestIsANumber
<1> QED BY <1>1, <1>3, <1>5, <1>6, <1>7

\* Twice that of a group reaches the members of its clusters.
LEMMA GroupIsCovered ==
  ASSUME NEW g, \A k \in g : k # {} /\ k \subseteq Directions, NEW c \in g, NEW m \in c
  PROVE  LET super == SuperCluster({Summarised(k) : k \in g})
         IN  /\ Distance(m, super.centroid) \in Nat /\ super.radius \in Nat
             /\ Distance(m, super.centroid) <= 2 * super.radius
<1> DEFINE clusters == {Summarised(k) : k \in g}
           centre == Middle({k.centroid : k \in clusters})
           D == {k.radius + Distance(centre, k.centroid) : k \in clusters}
<1>1. \A k \in g : /\ Summarised(k).centroid = Middle(k) /\ Middle(k) \in Directions
                     /\ Summarised(k).radius \in 0..Longest
                     /\ \A e \in k : Distance(Middle(k), e) <= Summarised(k).radius
  BY ClusterIsCovered
<1>2. centre = Middle({Middle(k) : k \in g})
  <2>1. {k.centroid : k \in clusters} = {Middle(k) : k \in g}
    BY <1>1
  <2> QED BY <2>1
<1>3. centre \in Directions
  <2>1. {Middle(k) : k \in g} \subseteq Directions /\ {Middle(k) : k \in g} # {}
    BY <1>1
  <2> QED BY <1>2, <2>1, MiddleIsADirection
<1> HIDE DEF centre
<1>4. /\ D \subseteq 0..(Longest + Longest)
      /\ Summarised(c).radius + Distance(centre, Middle(c)) \in D
  <2>1. ASSUME NEW k \in g
        PROVE  /\ Summarised(k).centroid = Middle(k)
               /\ Summarised(k).radius + Distance(centre, Middle(k)) \in 0..(Longest + Longest)
    <3>1. Middle(k) \in Directions /\ Summarised(k).radius \in 0..Longest
      BY <1>1
    <3>2. Distance(centre, Middle(k)) \in 0..Longest
      BY <1>3, <3>1, Distances
    <3>3. Summarised(k).centroid = Middle(k)
      BY <1>1
    <3> QED BY <3>1, <3>2, <3>3, LongestIsANumber
  <2>2. D = {Summarised(k).radius + Distance(centre, Middle(k)) : k \in g}
    BY <2>1
  <2> HIDE DEF D
  <2> QED BY <2>1, <2>2
<1>5. SuperCluster(clusters) = [centroid |-> centre, radius |-> Largest(D)]
  BY DEF SuperCluster, SuperRadius, centre
<1> HIDE DEF D, clusters
<1>6. Largest(D) \in D /\ Summarised(c).radius + Distance(centre, Middle(c)) <= Largest(D)
  <2>1. Longest + Longest \in Nat /\ D # {}
    BY <1>4, LongestIsANumber
  <2> QED BY <1>4, <2>1, Extremes
<1>7. Distance(m, centre) <= 2 * (Distance(m, Middle(c)) + Distance(Middle(c), centre))
  <2>1. m \in Directions /\ Middle(c) \in Directions
    BY <1>1
  <2> QED BY <1>3, <2>1, HalfTheWay
<1>8. /\ Distance(m, centre) \in 0..Longest /\ Distance(Middle(c), m) \in 0..Longest
      /\ Distance(centre, Middle(c)) \in 0..Longest
      /\ Distance(m, Middle(c)) = Distance(Middle(c), m)
      /\ Distance(Middle(c), centre) = Distance(centre, Middle(c))
  <2>1. m \in Directions /\ Middle(c) \in Directions
    BY <1>1
  <2> QED BY <1>3, <2>1, Distances
<1>9. /\ Distance(m, centre) \in Nat /\ Largest(D) \in Nat
      /\ Distance(m, centre) <= 2 * Largest(D)
  <2>1. Summarised(c).radius \in 0..Longest /\ Distance(Middle(c), m) <= Summarised(c).radius
    BY <1>1
  <2>2. Largest(D) \in 0..(Longest + Longest)
    BY <1>4, <1>6
  <2> QED BY <1>6, <1>7, <1>8, <2>1, <2>2, LongestIsANumber
<1>10. /\ SuperCluster(clusters).centroid = centre
       /\ SuperCluster(clusters).radius = Largest(D)
  BY <1>5
<1> QED BY <1>9, <1>10 DEF clusters

\* The summaries domains make.
Made == [d \in DOMAIN query.clusters |-> IF d \in query.compressed THEN CompressSummary(d)
                                          ELSE CreateSummary(d)]

\* A domain has made its summary or not begun.
RoutingInv ==
  /\ query \in Cases
  /\ DOMAIN summary = DOMAIN query.clusters
  /\ \A d \in DOMAIN summary :
       summary[d] # {} => summary[d] = Made[d]
  /\ SubscribersAreReachable

\* A domain that subscribed to the publication is among the candidates.
LEMMA SubscriberIsCandidate ==
  ASSUME RoutingInv, NEW d \in DOMAIN summary \ {query.at}, summary[d] # {},
         query.publication \in Subscriptions(d), d \in query.compressed => IsNarrow(d)
  PROVE  \E distance : <<d, distance>> \in FederationCandidates
<1>1. /\ query.threshold \in Nat \ {0}
      /\ \A c \in query.clusters[d] : c # {} /\ c \subseteq Directions
      /\ d \in query.compressed => query.clusters[d] = UNION query.groups[d]
  BY CasesAssumption DEF RoutingInv
<1>2. PICK c \in query.clusters[d] : query.publication \in c
  BY DEF Subscriptions
<1>3. \E k \in summary[d] : Distance(query.publication, k.centroid) < k.radius + query.threshold
  <2>1. CASE d \in query.compressed
    <3>1. summary[d] = {SuperCluster({Summarised(b) : b \in g}) : g \in query.groups[d]}
      BY <2>1 DEF RoutingInv, Made, CompressSummary
    <3>2. PICK g \in query.groups[d] : c \in g
      BY <1>1, <1>2, <2>1
    <3>3. \A b \in g : b # {} /\ b \subseteq Directions
      BY <1>1, <2>1
    <3> DEFINE super == SuperCluster({Summarised(b) : b \in g})
    <3>4. /\ Distance(query.publication, super.centroid) \in Nat /\ super.radius \in Nat
          /\ Distance(query.publication, super.centroid) <= 2 * super.radius
      BY <1>2, <3>2, <3>3, GroupIsCovered
    <3>5. super \in summary[d]
      BY <3>1
    <3>6. super.radius < query.threshold
      BY <2>1, <3>5 DEF IsNarrow
    <3> HIDE DEF super
    <3>7. Distance(query.publication, super.centroid) < super.radius + query.threshold
      BY <1>1, <3>4, <3>6
    <3> QED BY <3>5, <3>7
  <2>2. CASE d \notin query.compressed
    <3>1. Summarised(c) \in summary[d]
      BY <1>2, <2>2 DEF RoutingInv, Made, CreateSummary
    <3>2. /\ Summarised(c).centroid = Middle(c) /\ Middle(c) \in Directions
          /\ Summarised(c).radius \in 0..Longest
          /\ Distance(Middle(c), query.publication) <= Summarised(c).radius
      BY <1>1, <1>2, ClusterIsCovered
    <3>3. /\ Distance(query.publication, Middle(c)) = Distance(Middle(c), query.publication)
          /\ Distance(query.publication, Middle(c)) \in 0..Longest
      <4>1. query.publication \in Directions
        BY <1>1, <1>2
      <4> QED BY <3>2, <4>1, Distances
    <3>4. Distance(query.publication, Middle(c)) < Summarised(c).radius + query.threshold
      BY <1>1, <3>2, <3>3, LongestIsANumber
    <3> QED BY <3>1, <3>2, <3>4
  <2> QED BY <2>1, <2>2
<1> QED BY <1>3 DEF FederationCandidates

LEMMA RoutingStep ==
  ASSUME RoutingInv, [RoutingNext]_routingVars
  PROVE  RoutingInv'
<1>1. ASSUME NEW d \in DOMAIN summary, Summarise(d)
      PROVE  RoutingInv'
  <2>1. /\ query' = query /\ route' = route /\ DOMAIN summary' = DOMAIN summary
        /\ \A e \in DOMAIN summary : e # d => summary'[e] = summary[e]
        /\ summary'[d] = Made[d]
    BY <1>1 DEF Summarise, RoutingInv, Made
  <2>2. Made' = Made
    BY <2>1 DEF Made, CompressSummary, CreateSummary
  <2>3. SubscribersAreReachable'
    BY <2>1 DEF RoutingInv, SubscribersAreReachable, Permitted, Subscriptions, IsNarrow
  <2> QED BY <2>1, <2>2, <2>3 DEF RoutingInv
<1>2. ASSUME FederatedRoute
      PROVE  RoutingInv'
  <2>1. query' = query /\ summary' = summary
    BY <1>2 DEF FederatedRoute
  <2>2. SubscribersAreReachable'
    <3> SUFFICES ASSUME NEW d \in DOMAIN summary \ {query.at}, Permitted(d),
                        query.publication \in Subscriptions(d),
                        d \in query.compressed => IsNarrow(d)
                 PROVE  route'.matched
      BY <2>1 DEF SubscribersAreReachable, Permitted, Subscriptions, IsNarrow
    <3>1. PICK distance : <<d, distance>> \in FederationCandidates
      BY <1>2, SubscriberIsCandidate DEF FederatedRoute
    <3>2. <<d, distance>> \in GovernanceFilter(FederationCandidates)
      BY <3>1 DEF GovernanceFilter, Permitted
    <3>3. CASE RouteLocally /\ route' = [NoMatch EXCEPT !.matched = TRUE]
      BY <3>3 DEF NoMatch
    <3>4. CASE \E c \in GovernanceFilter(FederationCandidates) :
                 route' = [matched |-> TRUE, domain |-> c[1], forwarded |-> TRUE]
      BY <3>4
    <3> QED BY <1>2, <3>2, <3>3, <3>4 DEF FederatedRoute
  <2>3. Made' = Made
    BY <2>1 DEF Made, CompressSummary, CreateSummary
  <2> QED BY <2>1, <2>2, <2>3 DEF RoutingInv
<1>3. CASE UNCHANGED routingVars
  <2>1. query' = query /\ summary' = summary /\ route' = route
    BY <1>3 DEF routingVars
  <2>2. SubscribersAreReachable'
    BY <2>1 DEF RoutingInv, SubscribersAreReachable, Permitted, Subscriptions, IsNarrow
  <2>3. Made' = Made
    BY <2>1 DEF Made, CompressSummary, CreateSummary
  <2> QED BY <2>1, <2>2, <2>3 DEF RoutingInv
<1> QED BY <1>1, <1>2, <1>3 DEF RoutingNext

\* Whatever is subscribed to and published, and however clusters are grouped, a
\* publication that a permitted domain subscribed to is matched, if that domain
\* sent its summary as it was or with radii below the threshold.
\* (federated_route, compress_summary)
THEOREM SubscribersAreReachableHolds == RoutingSpec => []SubscribersAreReachable
<1>1. RoutingInit => RoutingInv
  BY DEF RoutingInit, RoutingInv, SubscribersAreReachable
<1>2. RoutingInv /\ [RoutingNext]_routingVars => RoutingInv'
  BY RoutingStep
<1>3. RoutingInv => SubscribersAreReachable
  BY DEF RoutingInv
<1> QED BY <1>1, <1>2, <1>3, PTL DEF RoutingSpec
=============================================================================
