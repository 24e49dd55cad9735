------------------------------ MODULE Dag_proofs ------------------------------
(***************************************************************************)
(* That a pipeline graph is sound however it was built, and with it what   *)
(* the solver relies on: the sort places every stage once and every edge   *)
(* forwards, and a tree is connected.                                      *)
(*                                                                         *)
(* The first part is about numbers, sequences and recursive functions in   *)
(* general.                                                                *)
(***************************************************************************)
EXTENDS Dag, FiniteSetTheorems, WellFoundedInduction, SequenceTheorems, TLAPS

\* Some numbers have a least one.
LEMMA LeastPlace ==
  ASSUME NEW P, P \subseteq Nat, P # {}
  PROVE  \E i \in P : \A j \in P : i <= j
<1>1. \E i \in P : \A j \in P : <<j, i>> \notin OpToRel(<, Nat)
  BY NatLessThanWellFounded, WFMin
<1>2. PICK i \in P : \A j \in P : ~(j < i)
  BY <1>1 DEF OpToRel
<1> QED BY <1>2

\* Numbers up to n have a least and a greatest.
LEMMA LastPlace ==
  ASSUME NEW n \in Nat, NEW P, P \subseteq 0..n, P # {}
  PROVE  \E i \in P : \A j \in P : j <= i
<1>1. \A i \in P : i \in 0..n
  OBVIOUS
<1> DEFINE Q == {n - i : i \in P}
<1>2. \A k \in Q : k \in Nat
  BY <1>1
<1>3. Q \subseteq Nat /\ Q # {}
  BY <1>2
<1>4. PICK k \in Q : \A j \in Q : k <= j
  BY <1>3, LeastPlace
<1>5. PICK i \in P : k = n - i
  OBVIOUS
<1>6. ASSUME NEW j \in P
      PROVE  j <= i
  <2>1. n - j \in Q
    OBVIOUS
  <2>2. n - i <= n - j
    BY <1>4, <1>5, <2>1
  <2>3. i \in Int /\ j \in Int
    BY <1>1
  <2> QED BY <2>2, <2>3
<1> QED BY <1>6

\* An induction is an argument about the first number that fails.
LEMMA Induction ==
  ASSUME NEW n \in Nat, NEW S, 0 \in S, \A i \in 1..n : i - 1 \in S => i \in S
  PROVE  \A i \in 0..n : i \in S
<1> DEFINE Bad == (0..n) \ S
<1> SUFFICES ASSUME Bad # {}
             PROVE  FALSE
  OBVIOUS
<1>1. Bad \subseteq Nat
  OBVIOUS
<1> HIDE DEF Bad
<1>2. PICK k \in Bad : \A m \in Bad : k <= m
  BY <1>1, LeastPlace
<1>3. k \in 1..n /\ k - 1 \in 0..n /\ ~(k <= k - 1)
  BY DEF Bad
<1>4. k - 1 \in S
  BY <1>2, <1>3 DEF Bad
<1> QED BY <1>3, <1>4 DEF Bad

\* n steps within X lead somewhere.
Walks(f, n, start, step) == f[0] = start /\ \A i \in 1..n : f[i] = step[i][f[i - 1]]

LEMMA Recursion ==
  ASSUME NEW n \in Nat, NEW X, NEW start \in X, NEW step \in [1..n -> [X -> X]]
  PROVE  \E f \in [0..n -> X] : Walks(f, n, start, step)
<1> DEFINE Follows(f, k) == \A i \in 0..k : f[i] = IF i = 0 THEN start ELSE step[i][f[i - 1]]
           S == {k \in 0..n : \E f \in [0..k -> X] : Follows(f, k)}
<1>1. 0 \in S
  <2> DEFINE f == [i \in 0..0 |-> start]
  <2>1. f \in [0..0 -> X] /\ Follows(f, 0)
    OBVIOUS
  <2>2. \E g \in [0..0 -> X] : Follows(g, 0)
    BY <2>1
  <2> QED BY <2>2
<1>2. ASSUME NEW k \in 1..n, k - 1 \in S
      PROVE  k \in S
  <2>1. PICK f \in [0..(k - 1) -> X] : Follows(f, k - 1)
    BY <1>2
  <2> DEFINE g == [i \in 0..k |-> IF i = k THEN step[k][f[k - 1]] ELSE f[i]]
  <2>2. f[k - 1] \in X /\ step[k] \in [X -> X]
    OBVIOUS
  <2>3. g \in [0..k -> X]
    BY <2>2
  <2>4. g[k] = step[k][f[k - 1]] /\ \A i \in 0..(k - 1) : g[i] = f[i]
    OBVIOUS
  <2> HIDE DEF g
  <2>5. ASSUME NEW i \in 0..k
        PROVE  g[i] = IF i = 0 THEN start ELSE step[i][g[i - 1]]
    <3>1. CASE i = k
      <4>1. g[i - 1] = f[k - 1]
        BY <2>4, <3>1
      <4> QED BY <2>4, <3>1, <4>1
    <3>2. CASE i # k
      <4>1. i \in 0..(k - 1) /\ (i # 0 => i - 1 \in 0..(k - 1))
        BY <3>2
      <4>2. f[i] = IF i = 0 THEN start ELSE step[i][f[i - 1]]
        BY <2>1, <4>1
      <4> QED BY <2>4, <4>1, <4>2
    <3> QED BY <3>1, <3>2
  <2> QED BY <2>3, <2>5
<1> HIDE DEF S
<1>3. \A k \in 0..n : k \in S
  BY <1>1, <1>2, Induction
<1>4. PICK f \in [0..n -> X] : Follows(f, n)
  BY <1>3 DEF S
<1>5. Walks(f, n, start, step)
  BY <1>4 DEF Walks
<1> QED BY <1>5

LEMMA FirstNumbers ==
  ASSUME NEW n \in Nat
  PROVE  IsFiniteSet(1..n) /\ Cardinality(1..n) = n
BY FS_Interval

\* The elements at some places are each taken once.
LEMMA PlacesAreFinite ==
  ASSUME NEW n \in Nat, NEW P, P \subseteq 1..n
  PROVE  IsFiniteSet(P) /\ Cardinality(P) \in Nat
<1>1. IsFiniteSet(1..n)
  BY FirstNumbers
<1> QED BY <1>1, FS_Subset, FS_CardinalityType

Numbers(place, seq, P) ==
  /\ place \in Bijection(1..Cardinality(P), P)
  /\ Part(seq, P) = [k \in 1..Cardinality(P) |-> seq[place[k]]]

LEMMA PartFacts ==
  ASSUME NEW n \in Nat, NEW seq, NEW P, P \subseteq 1..n
  PROVE  \E place : Numbers(place, seq, P)
<1> DEFINE c == Cardinality(P)
           UpTo(i) == {j \in P : j <= i}
           rank == [i \in P |-> Cardinality(UpTo(i))]
           place == [k \in 1..c |-> CHOOSE i \in P : Cardinality(UpTo(i)) = k]
<1>1. IsFiniteSet(P) /\ c \in Nat
  BY PlacesAreFinite
<1>2. \A i \in P : i \in 1..n
  OBVIOUS
<1>3. ASSUME NEW i \in P
      PROVE  IsFiniteSet(UpTo(i)) /\ Cardinality(UpTo(i)) \in 1..c
  <2>1. UpTo(i) \in SUBSET P /\ i \in UpTo(i)
    BY <1>2
  <2> HIDE DEF UpTo
  <2>2. /\ IsFiniteSet(UpTo(i)) /\ Cardinality(UpTo(i)) <= c
        /\ Cardinality(UpTo(i)) \in Nat /\ Cardinality(UpTo(i)) # 0
    BY <1>1, <2>1, FS_Subset, FS_CardinalityType, FS_EmptySet
  <2> QED BY <1>1, <2>2
<1>4. ASSUME NEW i \in P, NEW j \in P, i < j
      PROVE  Cardinality(UpTo(i)) # Cardinality(UpTo(j))
  <2>1. \A x \in P : x <= i => x <= j
    BY <1>2, <1>4
  <2>2. ~(j <= i) /\ j <= j
    BY <1>2, <1>4
  <2>3. UpTo(i) \in SUBSET UpTo(j) /\ j \in UpTo(j) /\ j \notin UpTo(i)
    BY <2>1, <2>2
  <2> HIDE DEF UpTo
  <2> QED BY <1>3, <2>3, FS_Subset
<1>5. ASSUME NEW i \in P, NEW j \in P, Cardinality(UpTo(i)) = Cardinality(UpTo(j))
      PROVE  i = j
  <2>1. i < j \/ j < i \/ i = j
    BY <1>2
  <2> QED BY <1>4, <1>5, <2>1
<1>6. \A k \in 1..c : \E i \in P : Cardinality(UpTo(i)) = k
  <2>1. rank \in Injection(P, 1..c)
    BY <1>3, <1>5 DEF Injection, IsInjective
  <2>2. IsFiniteSet(1..c) /\ Cardinality(1..c) = c
    BY <1>1, FirstNumbers
  <2>3. rank \in Surjection(P, 1..c)
    BY <2>1, <2>2, FS_Injection
  <2> QED BY <2>3 DEF Surjection
<1> HIDE DEF UpTo, c
<1>7. \A k \in 1..c : place[k] \in P /\ Cardinality(UpTo(place[k])) = k
  BY <1>6
<1>8. Part(seq, P) = [k \in 1..c |-> seq[place[k]]]
  BY DEF Part, UpTo, c
<1> HIDE DEF place
<1>9. \A k, l \in 1..c : place[k] = place[l] => k = l
  BY <1>7
<1>10. \A i \in P : \E k \in 1..c : place[k] = i
  <2> TAKE i \in P
  <2> DEFINE k == Cardinality(UpTo(i))
  <2>1. k \in 1..c
    BY <1>3
  <2>2. place[k] = i
    BY <1>5, <1>7, <2>1
  <2> QED BY <2>1, <2>2
<1>11. place \in [1..c -> P]
  BY <1>7 DEF place
<1>12. place \in Bijection(1..c, P)
  BY <1>9, <1>10, <1>11 DEF Bijection, Injection, Surjection, IsInjective
<1>13. Numbers(place, seq, P)
  BY <1>8, <1>12 DEF Numbers, c
<1> QED BY <1>13

-----------------------------------------------------------------------------
(***************************************************************************)
(* Stages and edges of a graph.                                            *)
(***************************************************************************)
LEMMA StageFacts ==
  ASSUME NEW d, WellBuilt(d)
  PROVE  /\ Len(d.stages) \in Nat /\ DOMAIN d.stages = 1..Len(d.stages)
         /\ \A i \in 1..Len(d.stages) : d.stages[i] \in Ids(d)
         /\ \A i, j \in 1..Len(d.stages) : d.stages[i] = d.stages[j] => i = j
         /\ \A s \in Ids(d) : \E i \in 1..Len(d.stages) : d.stages[i] = s
         /\ IsFiniteSet(Ids(d)) /\ Cardinality(Ids(d)) = Len(d.stages)
<1> DEFINE n == Len(d.stages)
<1>1. d.stages \in Seq(Ids(d)) /\ IsInjective(d.stages)
  BY DEF WellBuilt
<1>2. n \in Nat /\ DOMAIN d.stages = 1..n /\ d.stages \in [1..n -> Ids(d)]
  BY <1>1
<1>3. \A s \in Ids(d) : \E i \in 1..n : d.stages[i] = s
  BY <1>2 DEF Ids, ToSet
<1>4. \A i, j \in 1..n : d.stages[i] = d.stages[j] => i = j
  BY <1>1, <1>2 DEF IsInjective
<1> HIDE DEF n
<1>5. d.stages \in Bijection(1..n, Ids(d))
  BY <1>2, <1>3, <1>4 DEF Bijection, Injection, Surjection, IsInjective
<1>6. IsFiniteSet(1..n) /\ Cardinality(1..n) = n
  BY <1>2, FirstNumbers
<1>7. IsFiniteSet(Ids(d)) /\ Cardinality(Ids(d)) = n
  BY <1>5, <1>6, FS_Bijection DEF ExistsBijection
<1> QED BY <1>2, <1>3, <1>4, <1>7 DEF n

LEMMA EdgeFacts ==
  ASSUME NEW d, WellBuilt(d)
  PROVE  /\ Len(d.edges) \in Nat /\ DOMAIN d.edges = 1..Len(d.edges)
         /\ \A i \in 1..Len(d.edges) :
              /\ d.edges[i] \in ToSet(d.edges)
              /\ d.edges[i].source \in Ids(d) /\ d.edges[i].target \in Ids(d)
         /\ \A e \in ToSet(d.edges) : \E i \in 1..Len(d.edges) : d.edges[i] = e
         /\ \A s : Out(d, s) \subseteq 1..Len(d.edges) /\ In(d, s) \subseteq 1..Len(d.edges)
<1>1. d.edges \in Seq(ToSet(d.edges))
  BY DEF WellBuilt
<1>2. Len(d.edges) \in Nat /\ DOMAIN d.edges = 1..Len(d.edges)
  BY <1>1
<1>3. ToSet(d.edges) = {d.edges[i] : i \in 1..Len(d.edges)}
  BY <1>2 DEF ToSet
<1>4. \A i \in 1..Len(d.edges) : d.edges[i] \in ToSet(d.edges)
  BY <1>3
<1>5. \A i \in 1..Len(d.edges) : d.edges[i].source \in Ids(d) /\ d.edges[i].target \in Ids(d)
  BY <1>4 DEF WellBuilt
<1>6. \A s : Out(d, s) \subseteq 1..Len(d.edges) /\ In(d, s) \subseteq 1..Len(d.edges)
  BY <1>2 DEF Out, In
<1> QED BY <1>2, <1>3, <1>4, <1>5, <1>6

\* Successors and predecessors are the other ends of the edges.
LEMMA Neighbours ==
  ASSUME NEW d, WellBuilt(d), NEW s
  PROVE  /\ ToSet(Successors(d, s)) = {d.edges[i].target : i \in Out(d, s)}
         /\ Len(Successors(d, s)) = Cardinality(Out(d, s))
         /\ Successors(d, s) = <<>> <=> Out(d, s) = {}
         /\ ToSet(Predecessors(d, s)) = {d.edges[i].source : i \in In(d, s)}
         /\ Predecessors(d, s) = <<>> <=> In(d, s) = {}
<1> DEFINE n == Len(d.edges)
<1>1. n \in Nat /\ Out(d, s) \subseteq 1..n /\ In(d, s) \subseteq 1..n
  BY EdgeFacts
<1>2. IsFiniteSet(Out(d, s)) /\ Cardinality(Out(d, s)) \in Nat
  BY <1>1, PlacesAreFinite
<1>3. IsFiniteSet(In(d, s)) /\ Cardinality(In(d, s)) \in Nat
  BY <1>1, PlacesAreFinite
<1> HIDE DEF n
<1>4. PICK out : Numbers(out, d.edges, Out(d, s))
  BY <1>1, PartFacts
<1>5. PICK in : Numbers(in, d.edges, In(d, s))
  BY <1>1, PartFacts
<1> DEFINE m == Cardinality(Out(d, s))
           l == Cardinality(In(d, s))
<1>6. Successors(d, s) = [k \in 1..m |-> d.edges[out[k]].target]
  BY <1>4 DEF Successors, Numbers
<1>7. Predecessors(d, s) = [k \in 1..l |-> d.edges[in[k]].source]
  BY <1>5 DEF Predecessors, Numbers
<1>8. \A i \in Out(d, s) : \E k \in 1..m : out[k] = i
  BY <1>4 DEF Numbers, Bijection, Surjection
<1>9. \A i \in In(d, s) : \E k \in 1..l : in[k] = i
  BY <1>5 DEF Numbers, Bijection, Surjection
<1>10. out \in [1..m -> Out(d, s)] /\ in \in [1..l -> In(d, s)]
  BY <1>4, <1>5 DEF Numbers, Bijection, Surjection
<1>11. /\ m \in Nat /\ (m = 0 <=> Out(d, s) = {})
       /\ l \in Nat /\ (l = 0 <=> In(d, s) = {})
  BY <1>2, <1>3, FS_EmptySet
<1> HIDE DEF m, l
<1>12. ToSet(Successors(d, s)) = {d.edges[i].target : i \in Out(d, s)}
  BY <1>6, <1>8, <1>10 DEF ToSet
<1>13. ToSet(Predecessors(d, s)) = {d.edges[i].source : i \in In(d, s)}
  BY <1>7, <1>9, <1>10 DEF ToSet
<1>14. Len(Successors(d, s)) = m /\ (Successors(d, s) = <<>> <=> m = 0)
  BY <1>6, <1>11
<1>15. Predecessors(d, s) = <<>> <=> l = 0
  BY <1>7, <1>11
<1> QED BY <1>11, <1>12, <1>13, <1>14, <1>15 DEF m

-----------------------------------------------------------------------------
(***************************************************************************)
(* The search.  Each round that visits nothing new is the last one, and    *)
(* there are no more stages than rounds.                                   *)
(***************************************************************************)
IsClosed(d, S) ==
  \A i \in 1..Len(d.edges) : d.edges[i].source \in S => d.edges[i].target \in S

LEMMA VisitedIsClosed ==
  ASSUME NEW d, WellBuilt(d), NEW from \in Ids(d)
  PROVE  from \in Visited(d, from) /\ IsClosed(d, Visited(d, from))
<1> DEFINE n == Len(d.stages)
           Next1(B) == B \cup {d.edges[i].target :
                               i \in {j \in DOMAIN d.edges : d.edges[j].source \in B}}
           IsSearch(g) == g = [r \in 0..n |-> IF r = 0 THEN {from} ELSE Next1(g[r - 1])]
           seen == CHOOSE g : IsSearch(g)
<1>1. /\ n \in Nat /\ IsFiniteSet(Ids(d)) /\ Cardinality(Ids(d)) = n
      /\ DOMAIN d.edges = 1..Len(d.edges)
      /\ \A i \in 1..Len(d.edges) : d.edges[i].source \in Ids(d) /\ d.edges[i].target \in Ids(d)
  BY StageFacts, EdgeFacts
<1>2. Visited(d, from) = seen[n]
  BY DEF Visited
<1>3. \A B \in SUBSET Ids(d) : Next1(B) \in SUBSET Ids(d)
  BY <1>1
<1>4. \A B : B \subseteq Next1(B) /\ (Next1(B) = B => IsClosed(d, B))
  BY <1>1 DEF IsClosed
<1> HIDE DEF Next1, n
<1>5. IsSearch(seen)
  <2> DEFINE X == SUBSET Ids(d)
             step == [r \in 1..n |-> [B \in X |-> Next1(B)]]
  <2>1. step \in [1..n -> [X -> X]] /\ {from} \in X
    BY <1>3
  <2>2. \A r \in 1..n, B \in X : step[r][B] = Next1(B)
    OBVIOUS
  <2> HIDE DEF step, X
  <2>3. PICK f \in [0..n -> X] : Walks(f, n, {from}, step)
    BY <1>1, <2>1, Recursion
  <2>4. ASSUME NEW r \in 0..n
        PROVE  f[r] = IF r = 0 THEN {from} ELSE Next1(f[r - 1])
    <3>1. r # 0 => r \in 1..n /\ r - 1 \in 0..n
      BY <1>1
    <3> QED BY <2>2, <2>3, <3>1 DEF Walks
  <2>5. IsSearch(f)
    BY <2>4
  <2> QED BY <2>5
<1> HIDE DEF seen
<1>6. seen[0] = {from} /\ \A r \in 1..n : seen[r] = Next1(seen[r - 1])
  <2>1. \A r \in 0..n : seen[r] = IF r = 0 THEN {from} ELSE Next1(seen[r - 1])
    BY <1>5
  <2>2. 0 \in 0..n /\ \A r \in 1..n : r \in 0..n /\ r # 0
    BY <1>1
  <2> QED BY <2>1, <2>2
<1>7. \A r \in 0..n : seen[r] \in SUBSET Ids(d) /\ from \in seen[r]
  <2> DEFINE S == {r \in 0..n : seen[r] \in SUBSET Ids(d) /\ from \in seen[r]}
  <2>1. 0 \in S
    BY <1>1, <1>6
  <2>2. ASSUME NEW r \in 1..n, r - 1 \in S
        PROVE  r \in S
    BY <1>3, <1>4, <1>6, <2>2
  <2> HIDE DEF S
  <2>3. \A r \in 0..n : r \in S
    BY <1>1, <2>1, <2>2, Induction
  <2> QED BY <2>3 DEF S
<1>8. \A r \in 0..n : IsFiniteSet(seen[r]) /\ Cardinality(seen[r]) \in Nat
  BY <1>1, <1>7, FS_Subset, FS_CardinalityType
<1>9. \A r \in 0..n : IsClosed(d, seen[r]) \/ r < Cardinality(seen[r])
  <2> DEFINE S == {r \in 0..n : IsClosed(d, seen[r]) \/ r < Cardinality(seen[r])}
  <2>1. 0 \in S
    <3>1. 0 \in 0..n /\ 0 < 1
      BY <1>1
    <3>2. Cardinality(seen[0]) = 1
      BY <1>6, FS_Singleton
    <3> QED BY <3>1, <3>2
  <2>2. ASSUME NEW r \in 1..n, r - 1 \in S
        PROVE  r \in S
    <3>1. CASE seen[r] = seen[r - 1]
      <4>1. IsClosed(d, seen[r])
        BY <1>4, <1>6, <3>1
      <4> QED BY <1>1, <4>1
    <3>2. CASE seen[r] # seen[r - 1]
      <4>1. r \in 0..n /\ r - 1 \in 0..n
        BY <1>1
      <4>2. seen[r - 1] \in SUBSET seen[r]
        BY <1>4, <1>6
      <4>3. /\ Cardinality(seen[r - 1]) <= Cardinality(seen[r])
            /\ Cardinality(seen[r]) # Cardinality(seen[r - 1])
        BY <1>8, <3>2, <4>1, <4>2, FS_Subset
      <4>4. ~IsClosed(d, seen[r - 1])
        <5>1. ASSUME IsClosed(d, seen[r - 1])
              PROVE  Next1(seen[r - 1]) = seen[r - 1]
          BY <1>1, <5>1 DEF IsClosed, Next1
        <5> QED BY <1>6, <3>2, <5>1
      <4>5. r - 1 < Cardinality(seen[r - 1])
        BY <2>2, <4>4
      <4>6. Cardinality(seen[r]) \in Nat /\ Cardinality(seen[r - 1]) \in Nat
        BY <1>8, <4>1
      <4>7. r < Cardinality(seen[r])
        BY <1>1, <4>3, <4>5, <4>6
      <4> QED BY <4>1, <4>7
    <3> QED BY <3>1, <3>2
  <2> HIDE DEF S
  <2>3. \A r \in 0..n : r \in S
    BY <1>1, <2>1, <2>2, Induction
  <2> QED BY <2>3 DEF S
<1>10. n \in 0..n /\ ~(n < Cardinality(seen[n]))
  <2>1. n \in 0..n
    BY <1>1
  <2>2. Cardinality(seen[n]) <= n /\ Cardinality(seen[n]) \in Nat
    BY <1>1, <1>7, <1>8, <2>1, FS_Subset
  <2> QED BY <1>1, <2>1, <2>2
<1> QED BY <1>2, <1>7, <1>9, <1>10

\* The initial graph is well built, and so is one with another stage.
LEMMA EmptyIsWellBuilt == WellBuilt(EmptyDag)
<1>1. EmptyDag.stages = <<>> /\ EmptyDag.edges = <<>>
  BY DEF EmptyDag
<1>2. Ids(EmptyDag) = {} /\ ToSet(EmptyDag.edges) = {}
  BY <1>1 DEF Ids, ToSet
<1>3. EmptyDag.stages \in Seq(Ids(EmptyDag)) /\ EmptyDag.edges \in Seq(ToSet(EmptyDag.edges))
  BY <1>1
<1>4. IsInjective(EmptyDag.stages)
  BY <1>1 DEF IsInjective
<1>5. Acyclic(EmptyDag)
  <2>1. \A S \in SUBSET {} : S = {}
    OBVIOUS
  <2>2. SUBSET Ids(EmptyDag) = SUBSET {}
    BY <1>2
  <2> QED BY <2>1, <2>2 DEF Acyclic
<1> QED BY <1>2, <1>3, <1>4, <1>5 DEF WellBuilt

LEMMA StageIsAdded ==
  ASSUME WellBuilt(dag), NEW s, AddStage(s)
  PROVE  WellBuilt(dag')
<1> DEFINE n == Len(dag.stages)
           m == Len(dag.edges)
<1>1. /\ dag'.stages = Append(dag.stages, s.id) /\ dag'.edges = dag.edges /\ s.id \notin Ids(dag)
  BY DEF AddStage, Add
<1>2. /\ n \in Nat /\ DOMAIN dag.stages = 1..n /\ dag.stages \in Seq(Ids(dag))
      /\ \A i \in 1..n : dag.stages[i] \in Ids(dag)
      /\ \A i, j \in 1..n : dag.stages[i] = dag.stages[j] => i = j
      /\ \A t \in Ids(dag) : \E i \in 1..n : dag.stages[i] = t
  BY StageFacts DEF WellBuilt
<1>3. /\ DOMAIN dag'.stages = 1..(n + 1) /\ dag'.stages[n + 1] = s.id
      /\ \A i \in 1..n : dag'.stages[i] = dag.stages[i]
  BY <1>1, <1>2
<1>4. Ids(dag') = Ids(dag) \cup {s.id}
  <2>1. Ids(dag') = {dag'.stages[i] : i \in 1..(n + 1)}
    BY <1>3 DEF Ids, ToSet
  <2>2. \A i \in 1..(n + 1) : i = n + 1 \/ i \in 1..n
    BY <1>2
  <2>3. n + 1 \in 1..(n + 1) /\ \A i \in 1..n : i \in 1..(n + 1)
    BY <1>2
  <2>4. \A i \in 1..(n + 1) : dag'.stages[i] \in Ids(dag) \cup {s.id}
    BY <1>2, <1>3, <2>2
  <2>5. s.id \in Ids(dag')
    BY <1>3, <2>1, <2>3
  <2>6. ASSUME NEW t \in Ids(dag)
        PROVE  t \in Ids(dag')
    <3>1. PICK i \in 1..n : dag.stages[i] = t
      BY <1>2
    <3> QED BY <1>3, <2>1, <2>3, <3>1
  <2> QED BY <2>1, <2>4, <2>5, <2>6
<1>5. dag'.stages \in Seq(Ids(dag'))
  <2>1. dag.stages \in Seq(Ids(dag')) /\ s.id \in Ids(dag')
    BY <1>2, <1>4, SeqMonotonic
  <2> QED BY <1>1, <2>1
<1>6. IsInjective(dag'.stages)
  <2> SUFFICES ASSUME NEW i \in 1..(n + 1), NEW j \in 1..(n + 1), dag'.stages[i] = dag'.stages[j]
               PROVE  i = j
    BY <1>3 DEF IsInjective
  <2>1. (i = n + 1 \/ i \in 1..n) /\ (j = n + 1 \/ j \in 1..n)
    BY <1>2
  <2> QED BY <1>1, <1>2, <1>3, <2>1
<1>7. \A t : In(dag', t) = In(dag, t)
  BY <1>1 DEF In
<1>8. \A i \in 1..m : dag.edges[i].source \in Ids(dag) /\ dag.edges[i].target \in Ids(dag)
  BY EdgeFacts
<1>9. \A t : In(dag, t) \subseteq 1..m /\ \A i \in In(dag, t) : dag.edges[i].target = t
  BY EdgeFacts DEF In
<1>10. Acyclic(dag')
  <2> SUFFICES ASSUME NEW S \in (SUBSET Ids(dag')) \ {{}}
               PROVE  \E t \in S : \A i \in In(dag, t) : dag.edges[i].source \notin S
    BY <1>1, <1>7 DEF Acyclic
  <2>1. CASE s.id \in S
    <3>1. In(dag, s.id) = {}
      BY <1>1, <1>8, <1>9
    <3> QED BY <2>1, <3>1
  <2>2. CASE s.id \notin S
    <3>1. S \in (SUBSET Ids(dag)) \ {{}}
      BY <1>4, <2>2
    <3> QED BY <3>1 DEF WellBuilt, Acyclic
  <2> QED BY <2>1, <2>2
<1> QED BY <1>1, <1>4, <1>5, <1>6, <1>10 DEF WellBuilt

\* An edge that is added closes no cycle: what its target leads to would be a
\* group without its source that the rest of the cycle cannot leave.
LEMMA EdgeIsAdded ==
  ASSUME WellBuilt(dag), NEW u \in Ids(dag), NEW v \in Ids(dag), NEW b, AddEdge(u, v, b)
  PROVE  WellBuilt(dag')
<1> DEFINE m == Len(dag.edges)
           edge == [source |-> u, target |-> v, bound |-> b]
           V == Visited(dag, v)
<1>1. dag'.stages = dag.stages /\ dag'.edges = Append(dag.edges, edge) /\ u \notin V
  BY DEF AddEdge, Connect, CanReach
<1>2. /\ m \in Nat /\ DOMAIN dag.edges = 1..m /\ dag.edges \in Seq(ToSet(dag.edges))
      /\ \A i \in 1..m : dag.edges[i].source \in Ids(dag) /\ dag.edges[i].target \in Ids(dag)
  BY EdgeFacts DEF WellBuilt
<1>3. /\ DOMAIN dag'.edges = 1..(m + 1) /\ dag'.edges[m + 1] = edge
      /\ \A i \in 1..m : dag'.edges[i] = dag.edges[i]
  BY <1>1, <1>2
<1>4. \A i \in 1..(m + 1) : i = m + 1 \/ i \in 1..m
  BY <1>2
<1>5. m + 1 \in 1..(m + 1) /\ \A i \in 1..m : i \in 1..(m + 1)
  BY <1>2
<1>6. ToSet(dag'.edges) = ToSet(dag.edges) \cup {edge}
  <2>1. ToSet(dag'.edges) = {dag'.edges[i] : i \in 1..(m + 1)}
    BY <1>3 DEF ToSet
  <2>2. ToSet(dag.edges) = {dag.edges[i] : i \in 1..m}
    BY <1>2 DEF ToSet
  <2> HIDE DEF edge
  <2> QED BY <1>3, <1>4, <1>5, <2>1, <2>2
<1>7. dag'.edges \in Seq(ToSet(dag'.edges))
  <2>1. dag.edges \in Seq(ToSet(dag'.edges)) /\ edge \in ToSet(dag'.edges)
    BY <1>2, <1>6, SeqMonotonic
  <2> QED BY <1>1, <2>1
<1>8. Ids(dag') = Ids(dag)
  BY <1>1 DEF Ids
<1>9. edge.source = u /\ edge.target = v
  OBVIOUS
<1>10. \A e \in ToSet(dag'.edges) : e.source \in Ids(dag) /\ e.target \in Ids(dag)
  BY <1>6, <1>9 DEF WellBuilt
<1> HIDE DEF edge, V
<1>11. v \in V /\ \A i \in 1..m : dag.edges[i].source \in V => dag.edges[i].target \in V
  BY VisitedIsClosed DEF IsClosed, V
<1>12. /\ \A t : In(dag, t) = {i \in 1..m : dag.edges[i].target = t}
       /\ \A t : In(dag', t) = {i \in 1..(m + 1) : dag'.edges[i].target = t}
  BY <1>2, <1>3 DEF In
<1>13. Acyclic(dag')
  <2> SUFFICES ASSUME NEW S \in (SUBSET Ids(dag)) \ {{}},
                      ~\E t \in S : \A i \in In(dag', t) : dag'.edges[i].source \notin S
               PROVE  FALSE
    BY <1>8 DEF Acyclic
  <2>0. \A t \in S : \E i \in 1..(m + 1) : dag'.edges[i].target = t /\ dag'.edges[i].source \in S
    BY <1>12
  <2>1. PICK t \in S : \A i \in 1..m : dag.edges[i].target = t => dag.edges[i].source \notin S
    <3>1. \E t \in S : \A i \in In(dag, t) : dag.edges[i].source \notin S
      BY DEF WellBuilt, Acyclic
    <3> QED BY <1>12, <3>1
  <2>2. t = v /\ u \in S
    BY <1>3, <1>4, <1>9, <2>0, <2>1
  <2> DEFINE R == S \ V
  <2>3. R \in (SUBSET Ids(dag)) \ {{}}
    BY <1>1, <2>2
  <2>4. PICK r \in R : \A i \in 1..m : dag.edges[i].target = r => dag.edges[i].source \notin R
    <3>1. \E r \in R : \A i \in In(dag, r) : dag.edges[i].source \notin R
      BY <2>3 DEF WellBuilt, Acyclic
    <3> QED BY <1>12, <3>1
  <2>5. r \in S /\ r \notin V /\ r # v
    BY <1>11, <2>4
  <2>6. PICK i \in 1..(m + 1) : dag'.edges[i].target = r /\ dag'.edges[i].source \in S
    BY <2>0, <2>5
  <2>7. i \in 1..m /\ dag.edges[i].target = r /\ dag.edges[i].source \in S
    BY <1>3, <1>4, <1>9, <2>5, <2>6
  <2>8. dag.edges[i].source \in V
    BY <2>4, <2>7
  <2> QED BY <1>11, <2>5, <2>7, <2>8
<1> QED BY <1>1, <1>7, <1>8, <1>10, <1>13 DEF WellBuilt

LEMMA BuilderStep ==
  ASSUME WellBuilt(dag), [Next]_dag
  PROVE  WellBuilt(dag')
<1>1. CASE UNCHANGED dag
  BY <1>1
<1>2. CASE \E s \in NewStages : AddStage(s)
  BY <1>2, StageIsAdded
<1>3. CASE \E u, v \in Ids(dag), b \in NewBounds : AddEdge(u, v, b)
  BY <1>3, EdgeIsAdded
<1> QED BY <1>1, <1>2, <1>3 DEF Next

-----------------------------------------------------------------------------
(***************************************************************************)
(* The sort.  After a number of rounds, a stage has been queued exactly    *)
(* when all that leads to it has left the queue; and what leads to it was  *)
(* queued before it.                                                       *)
(***************************************************************************)
Popped(queued, round) == {queued[i] : i \in {j \in 1..Len(queued) : j <= round}}

Ready(d, t, popped) == \A k \in In(d, t) : d.edges[k].source \in popped

KahnInv(d, queued, round) ==
  /\ queued \in Seq(Ids(d))
  /\ \A i, j \in 1..Len(queued) : queued[i] = queued[j] => i = j
  /\ \A t \in Ids(d) : t \in ToSet(queued) <=> Ready(d, t, Popped(queued, round))
  /\ \A j \in 1..Len(queued) : \A k \in In(d, queued[j]) :
       \E i \in 1..Len(queued) : i < j /\ queued[i] = d.edges[k].source

LEMMA ReleasedAreStages ==
  ASSUME NEW d, WellBuilt(d), NEW queued, NEW place
  PROVE  Released(d, queued, place) \in Seq(Ids(d))
<1> DEFINE m == Len(d.edges)
           popped == {queued[i] : i \in 1..(place - 1)}
           P == {i \in Out(d, queued[place]) : LeavesNone(d, i, popped)}
<1>1. m \in Nat /\ P \subseteq 1..m
  BY EdgeFacts
<1>2. \A i \in 1..m : d.edges[i].target \in Ids(d)
  BY EdgeFacts
<1> HIDE DEF P, m
<1>3. PICK at : Numbers(at, d.edges, P)
  BY <1>1, PartFacts
<1>4. Cardinality(P) \in Nat
  BY <1>1, PlacesAreFinite
<1>5. Released(d, queued, place) = [k \in 1..Cardinality(P) |-> d.edges[at[k]].target]
  BY <1>3 DEF Released, P, Numbers
<1>6. \A k \in 1..Cardinality(P) : d.edges[at[k]].target \in Ids(d)
  BY <1>1, <1>2, <1>3 DEF Numbers, Bijection, Surjection
<1> QED BY <1>4, <1>5, <1>6

\* A stage releases those that wait for it and otherwise only for stages that
\* have left the queue, each once.
LEMMA ReleasedFacts ==
  ASSUME NEW d, WellBuilt(d), NEW queued \in Seq(Ids(d)), NEW place \in 1..Len(queued),
         \A i, j \in 1..Len(queued) : queued[i] = queued[j] => i = j
  PROVE  /\ Released(d, queued, place) \in Seq(Ids(d))
         /\ \A i, j \in 1..Len(Released(d, queued, place)) :
              Released(d, queued, place)[i] = Released(d, queued, place)[j] => i = j
         /\ \A t \in Ids(d) : t \in ToSet(Released(d, queued, place)) <=>
              /\ \E k \in In(d, t) : d.edges[k].source = queued[place]
              /\ Ready(d, t, {queued[i] : i \in 1..(place - 1)} \cup {queued[place]})
<1> DEFINE m == Len(d.edges)
           popped == {queued[i] : i \in 1..(place - 1)}
           s == queued[place]
           P == {i \in Out(d, s) : LeavesNone(d, i, popped)}
           c == Cardinality(P)
           R == Released(d, queued, place)
<1>1. /\ m \in Nat /\ DOMAIN d.edges = 1..m
      /\ \A i \in 1..m : d.edges[i].source \in Ids(d) /\ d.edges[i].target \in Ids(d)
  BY EdgeFacts
<1>2. /\ \A t : Out(d, t) = {i \in 1..m : d.edges[i].source = t}
      /\ \A t : In(d, t) = {i \in 1..m : d.edges[i].target = t}
  BY <1>1 DEF Out, In
<1>3. Len(queued) \in Nat /\ place \in Nat /\ s \notin popped
  <2>1. Len(queued) \in Nat
    OBVIOUS
  <2>2. \A i \in 1..(place - 1) : i \in 1..Len(queued) /\ i # place
    BY <2>1
  <2> QED BY <2>1, <2>2
<1>4. m \in Nat /\ P \subseteq 1..m
  BY <1>1, <1>2
<1> HIDE DEF m, P
<1>5. PICK at : Numbers(at, d.edges, P)
  BY <1>4, PartFacts
<1>6. c \in Nat
  BY <1>4, PlacesAreFinite
<1>7. R = [k \in 1..c |-> d.edges[at[k]].target]
  BY <1>5 DEF Released, P, Numbers
<1>8. /\ at \in [1..c -> P]
      /\ \A k, l \in 1..c : at[k] = at[l] => k = l
      /\ \A i \in P : \E k \in 1..c : at[k] = i
  BY <1>5 DEF Numbers, Bijection, Injection, Surjection, IsInjective
<1>9. \A i \in P : /\ i \in 1..m /\ d.edges[i].source = s
                   /\ LeavesNone(d, i, popped)
  BY <1>2 DEF P
<1>10. \A i \in 1..m : d.edges[i].source = s /\ LeavesNone(d, i, popped) => i \in P
  BY <1>2 DEF P
<1> HIDE DEF c, R, s, popped
<1>11. R \in Seq(Ids(d)) /\ Len(R) = c /\ DOMAIN R = 1..c
  <2>1. \A k \in 1..c : d.edges[at[k]].target \in Ids(d)
    BY <1>1, <1>8, <1>9
  <2> QED BY <1>6, <1>7, <2>1
<1>12. ASSUME NEW i \in P, NEW j \in P, d.edges[i].target = d.edges[j].target
       PROVE  j <= i
  <2>1. j \in In(d, d.edges[i].target) /\ d.edges[j].source = s
    BY <1>2, <1>9, <1>12
  <2> QED BY <1>3, <1>9, <2>1 DEF LeavesNone
<1>13. ASSUME NEW k \in 1..c, NEW l \in 1..c, R[k] = R[l]
       PROVE  k = l
  <2>1. /\ at[k] \in P /\ at[l] \in P
        /\ d.edges[at[k]].target = d.edges[at[l]].target
    BY <1>7, <1>8, <1>13
  <2>2. at[k] <= at[l] /\ at[l] <= at[k]
    BY <1>12, <2>1
  <2>3. at[k] \in Int /\ at[l] \in Int
    BY <1>1, <1>9, <2>1
  <2> QED BY <1>8, <2>2, <2>3
<1>14. ASSUME NEW t \in Ids(d)
       PROVE  t \in ToSet(R) <=> \E i \in P : d.edges[i].target = t
  BY <1>7, <1>8, <1>11 DEF ToSet
<1>15. ASSUME NEW i \in P
       PROVE  LET t == d.edges[i].target
              IN  /\ \E k \in In(d, t) : d.edges[k].source = s
                  /\ Ready(d, t, popped \cup {s})
  <2>1. i \in In(d, d.edges[i].target) /\ d.edges[i].source = s
    BY <1>2, <1>9
  <2> QED BY <1>9, <2>1 DEF LeavesNone, Ready
<1>16. ASSUME NEW t \in Ids(d), NEW k \in In(d, t), d.edges[k].source = s,
              Ready(d, t, popped \cup {s})
       PROVE  \E i \in P : d.edges[i].target = t
  <2> DEFINE K == {i \in In(d, t) : d.edges[i].source = s}
  <2>1. K \subseteq 0..m /\ K # {}
    BY <1>1, <1>2, <1>16
  <2>2. PICK i \in K : \A j \in K : j <= i
    BY <1>1, <2>1, LastPlace
  <2>3. i \in 1..m /\ d.edges[i].source = s /\ d.edges[i].target = t
    BY <1>2
  <2>4. LeavesNone(d, i, popped)
    BY <1>16, <2>2, <2>3 DEF LeavesNone, Ready
  <2> QED BY <1>10, <2>3, <2>4
<1>17. \A t \in Ids(d) : t \in ToSet(R) <=>
         /\ \E k \in In(d, t) : d.edges[k].source = s
         /\ Ready(d, t, popped \cup {s})
  <2> TAKE t \in Ids(d)
  <2>1. ASSUME t \in ToSet(R)
        PROVE  (\E k \in In(d, t) : d.edges[k].source = s) /\ Ready(d, t, popped \cup {s})
    <3>1. PICK i \in P : d.edges[i].target = t
      BY <1>14, <2>1
    <3> QED BY <1>15, <3>1
  <2>2. ASSUME NEW k \in In(d, t), d.edges[k].source = s, Ready(d, t, popped \cup {s})
        PROVE  t \in ToSet(R)
    BY <1>14, <1>16, <2>2
  <2> QED BY <2>1, <2>2
<1> QED BY <1>11, <1>13, <1>17 DEF R, s, popped

Round(d, queued, round) ==
  IF round > Len(queued) THEN queued ELSE queued \o Released(d, queued, round)

LEMMA KahnStep ==
  ASSUME NEW d, WellBuilt(d), NEW round \in Nat \ {0}, NEW queued, KahnInv(d, queued, round - 1)
  PROVE  KahnInv(d, Round(d, queued, round), round)
<1> DEFINE l == Len(queued)
           popped == Popped(queued, round - 1)
<1>1. /\ queued \in Seq(Ids(d)) /\ l \in Nat /\ DOMAIN queued = 1..l
      /\ \A i, j \in 1..l : queued[i] = queued[j] => i = j
      /\ \A t \in Ids(d) : t \in ToSet(queued) <=> Ready(d, t, popped)
      /\ \A j \in 1..l : \A k \in In(d, queued[j]) :
           \E i \in 1..l : i < j /\ queued[i] = d.edges[k].source
  BY DEF KahnInv
<1>2. CASE round > l
  <2>1. \A j \in 1..l : j <= round <=> j <= round - 1
    BY <1>1, <1>2
  <2>2. Popped(queued, round) = popped
    BY <2>1 DEF Popped
  <2>3. Round(d, queued, round) = queued
    BY <1>2 DEF Round
  <2> QED BY <1>1, <2>2, <2>3 DEF KahnInv
<1>3. CASE ~(round > l)
  <2> DEFINE s == queued[round]
             R == Released(d, queued, round)
             L == queued \o R
             m == l + Len(R)
  <2>1. round \in 1..l
    BY <1>1, <1>3
  <2>2. {queued[i] : i \in 1..(round - 1)} = popped
    <3>1. {j \in 1..l : j <= round - 1} = 1..(round - 1)
      BY <1>1, <2>1
    <3> QED BY <3>1 DEF Popped
  <2>3. /\ R \in Seq(Ids(d))
        /\ \A i, j \in 1..Len(R) : R[i] = R[j] => i = j
        /\ \A t \in Ids(d) : t \in ToSet(R) <=>
             /\ \E k \in In(d, t) : d.edges[k].source = s
             /\ Ready(d, t, {queued[i] : i \in 1..(round - 1)} \cup {s})
    BY <1>1, <2>1, ReleasedFacts
  <2>4. \A t \in Ids(d) : t \in ToSet(R) <=>
          (\E k \in In(d, t) : d.edges[k].source = s) /\ Ready(d, t, popped \cup {s})
    BY <2>2, <2>3
  <2>5. s \in Ids(d) /\ s \notin popped
    <3>1. \A i \in 1..l : i <= round - 1 => i # round
      BY <1>1, <2>1
    <3> QED BY <1>1, <2>1, <3>1 DEF Popped
  <2> HIDE DEF R
  <2>6. /\ Len(R) \in Nat /\ DOMAIN R = 1..Len(R)
        /\ ToSet(R) = {R[i] : i \in 1..Len(R)}
        /\ ToSet(queued) = {queued[i] : i \in 1..l}
    BY <1>1, <2>3 DEF ToSet
  <2>7. /\ L \in Seq(Ids(d)) /\ Len(L) = m /\ DOMAIN L = 1..m
        /\ \A i \in 1..l : L[i] = queued[i]
        /\ \A i \in 1..m : i \notin 1..l => i - l \in 1..Len(R) /\ L[i] = R[i - l]
    BY <1>1, <2>3, <2>6
  <2>8. /\ m \in Nat
        /\ \A i \in 1..Len(R) : i + l \in 1..m /\ i + l \notin 1..l /\ (i + l) - l = i
        /\ \A i \in 1..l : i \in 1..m
    BY <1>1, <2>6
  <2> HIDE DEF L, s
  <2>9. ToSet(L) = ToSet(queued) \cup ToSet(R)
    <3>1. ToSet(L) = {L[i] : i \in 1..m}
      BY <2>7 DEF ToSet
    <3>2. \A i \in 1..m : L[i] \in ToSet(queued) \cup ToSet(R)
      BY <2>6, <2>7
    <3>3. \A i \in 1..l : queued[i] \in ToSet(L)
      BY <2>7, <2>8, <3>1
    <3>4. \A i \in 1..Len(R) : R[i] \in ToSet(L)
      <4> TAKE i \in 1..Len(R)
      <4>1. L[i + l] = R[i]
        BY <2>7, <2>8
      <4> QED BY <2>8, <3>1, <4>1
    <3> QED BY <2>6, <3>1, <3>2, <3>3, <3>4
  <2>10. \A t \in Ids(d) : t \in ToSet(R) => t \notin ToSet(queued)
    BY <1>1, <2>4, <2>5 DEF Ready
  <2>11. ASSUME NEW i \in 1..m, NEW j \in 1..m, L[i] = L[j]
         PROVE  i = j
    <3>1. \A k \in 1..l : L[k] \in Ids(d) /\ L[k] \in ToSet(queued)
      BY <1>1, <2>6, <2>7
    <3>2. \A k \in 1..m : k \notin 1..l => L[k] \in Ids(d) /\ L[k] \in ToSet(R)
      <4> TAKE k \in 1..m
      <4> HAVE k \notin 1..l
      <4>1. k - l \in 1..Len(R) /\ L[k] = R[k - l]
        BY <2>7
      <4>2. R[k - l] \in ToSet(R) /\ R[k - l] \in Ids(d)
        BY <2>3, <2>6, <4>1
      <4> QED BY <4>1, <4>2
    <3>3. CASE i \in 1..l /\ j \in 1..l
      BY <1>1, <2>7, <2>11, <3>3
    <3>4. CASE i \notin 1..l /\ j \notin 1..l
      <4>1. i - l = j - l
        BY <2>3, <2>7, <2>11, <3>4
      <4> QED BY <1>1, <2>8, <4>1
    <3>5. CASE i \in 1..l /\ j \notin 1..l
      BY <2>10, <2>11, <3>1, <3>2, <3>5
    <3>6. CASE i \notin 1..l /\ j \in 1..l
      BY <2>10, <2>11, <3>1, <3>2, <3>6
    <3> QED BY <3>3, <3>4, <3>5, <3>6
  <2>12. Popped(L, round) = popped \cup {s}
    <3>1. {j \in 1..m : j <= round} = {j \in 1..l : j <= round - 1} \cup {round}
      BY <1>1, <2>1, <2>6
    <3>2. L[round] = s
      BY <2>1, <2>7 DEF s
    <3>3. \A j \in {i \in 1..l : i <= round - 1} : L[j] = queued[j]
      BY <2>7
    <3>4. Popped(L, round) = {L[i] : i \in {j \in 1..m : j <= round}}
      BY <2>7 DEF Popped
    <3>5. popped = {queued[i] : i \in {j \in 1..l : j <= round - 1}}
      BY DEF Popped
    <3> HIDE DEF l, m, popped
    <3> QED BY <3>1, <3>2, <3>3, <3>4, <3>5
  <2>13. \A t \in Ids(d) : t \in ToSet(L) <=> Ready(d, t, popped \cup {s})
    BY <1>1, <2>4, <2>9 DEF Ready
  <2>14. ASSUME NEW j \in 1..m, NEW k \in In(d, L[j])
         PROVE  \E i \in 1..m : i < j /\ L[i] = d.edges[k].source
    <3>1. CASE j \in 1..l
      <4>1. PICK i \in 1..l : i < j /\ queued[i] = d.edges[k].source
        BY <1>1, <2>7, <2>14, <3>1
      <4> QED BY <2>7, <2>8, <4>1
    <3>2. CASE j \notin 1..l
      <4>1. L[j] \in ToSet(R) /\ L[j] \in Ids(d)
        BY <2>3, <2>6, <2>7, <3>2
      <4>2. d.edges[k].source \in popped \cup {s}
        BY <2>4, <2>14, <4>1 DEF Ready
      <4>3. PICK i \in 1..l : i <= round /\ queued[i] = d.edges[k].source
        <5>1. \A i \in 1..l : i <= round - 1 => i <= round
          BY <1>1
        <5>2. round \in 1..l /\ round <= round /\ queued[round] = s
          BY <2>1 DEF s
        <5> QED BY <4>2, <5>1, <5>2 DEF Popped
      <4>4. i < j
        BY <1>1, <2>1, <2>8, <3>2, <4>3
      <4> QED BY <2>7, <2>8, <4>3, <4>4
    <3> QED BY <3>1, <3>2
  <2>15. Round(d, queued, round) = L
    BY <1>3 DEF Round, R, L
  <2>16. KahnInv(d, L, round)
    <3>1. \A t \in Ids(d) : t \in ToSet(L) <=> Ready(d, t, Popped(L, round))
      BY <2>12, <2>13
    <3>2. L \in Seq(Ids(d)) /\ Len(L) = m
      BY <2>7
    <3>3. \A i, j \in 1..Len(L) : L[i] = L[j] => i = j
      BY <2>11, <3>2
    <3>4. \A j \in 1..Len(L) : \A k \in In(d, L[j]) :
            \E i \in 1..Len(L) : i < j /\ L[i] = d.edges[k].source
      BY <2>14, <3>2
    <3> QED BY <3>1, <3>2, <3>3, <3>4 DEF KahnInv
  <2> QED BY <2>15, <2>16
<1> QED BY <1>2, <1>3

LEMMA SourcesAreQueued ==
  ASSUME NEW d, WellBuilt(d)
  PROVE  KahnInv(d, Sources(d), 0)
<1> DEFINE n == Len(d.stages)
           P == {i \in DOMAIN d.stages : Predecessors(d, d.stages[i]) = <<>>}
           c == Cardinality(P)
           L == Sources(d)
<1>1. /\ n \in Nat /\ DOMAIN d.stages = 1..n
      /\ \A i \in 1..n : d.stages[i] \in Ids(d)
      /\ \A i, j \in 1..n : d.stages[i] = d.stages[j] => i = j
      /\ \A s \in Ids(d) : \E i \in 1..n : d.stages[i] = s
  BY StageFacts
<1>2. P \subseteq 1..n /\ \A i \in 1..n : i \in P <=> In(d, d.stages[i]) = {}
  BY <1>1, Neighbours
<1>3. n \in Nat /\ P \subseteq 1..n
  BY <1>1, <1>2
<1> HIDE DEF n, P
<1>4. PICK at : Numbers(at, d.stages, P)
  BY <1>3, PartFacts
<1>5. c \in Nat
  BY <1>3, PlacesAreFinite
<1>6. L = Part(d.stages, P)
  BY DEF Sources, P
<1>7. /\ at \in [1..c -> P]
      /\ \A k, l \in 1..c : at[k] = at[l] => k = l
      /\ \A i \in P : \E k \in 1..c : at[k] = i
  BY <1>4 DEF Numbers, Bijection, Injection, Surjection, IsInjective
<1>8. DOMAIN L = 1..c /\ \A k \in 1..c : L[k] = d.stages[at[k]]
  BY <1>4, <1>6 DEF Numbers
<1>9. L = [k \in 1..c |-> d.stages[at[k]]]
  BY <1>4, <1>6 DEF Numbers
<1> HIDE DEF c, L
<1>10. L \in Seq(Ids(d)) /\ Len(L) = c /\ ToSet(L) = {L[k] : k \in 1..c}
  <2>1. \A k \in 1..c : d.stages[at[k]] \in Ids(d)
    BY <1>1, <1>2, <1>7
  <2> QED BY <1>5, <1>8, <1>9, <2>1 DEF ToSet
<1>11. \A k, l \in 1..c : L[k] = L[l] => k = l
  <2>1. \A k \in 1..c : at[k] \in 1..n
    BY <1>2, <1>7
  <2> QED BY <1>1, <1>7, <1>8, <2>1
<1>12. \A k \in 1..c : In(d, L[k]) = {}
  BY <1>2, <1>7, <1>8
<1>13. Popped(L, 0) = {}
  <2>1. \A j \in 1..c : ~(j <= 0)
    BY <1>5
  <2> QED BY <1>10, <2>1 DEF Popped
<1>14. ASSUME NEW t \in Ids(d)
       PROVE  t \in ToSet(L) <=> In(d, t) = {}
  <2>1. ASSUME In(d, t) = {}
        PROVE  t \in ToSet(L)
    <3>1. PICK i \in 1..n : d.stages[i] = t
      BY <1>1
    <3>2. i \in P
      BY <1>2, <2>1, <3>1
    <3> QED BY <1>7, <1>8, <1>10, <3>1, <3>2
  <2> QED BY <1>10, <1>12, <2>1
<1>15. \A t \in Ids(d) : t \in ToSet(L) <=> Ready(d, t, Popped(L, 0))
  BY <1>13, <1>14 DEF Ready
<1> QED BY <1>10, <1>11, <1>12, <1>15 DEF KahnInv, L

\* The sort returns every stage once, and what leads to a stage before it.
LEMMA SortFacts ==
  ASSUME NEW d, WellBuilt(d)
  PROVE  LET order == TopologicalSort(d)
         IN  /\ order \in Seq(Ids(d)) /\ Len(order) = Len(d.stages)
             /\ \A i, j \in 1..Len(d.stages) : order[i] = order[j] => i = j
             /\ ToSet(order) = Ids(d)
             /\ \A s \in Ids(d) : \E i \in 1..Len(d.stages) : order[i] = s
             /\ \A j \in 1..Len(d.stages) : \A k \in In(d, order[j]) :
                  \E i \in 1..Len(d.stages) : i < j /\ order[i] = d.edges[k].source
<1> DEFINE n == Len(d.stages)
           IsSort(g) == g = [r \in 0..n |-> IF r = 0 THEN Sources(d) ELSE Round(d, g[r - 1], r)]
           queued == CHOOSE g : IsSort(g)
           order == TopologicalSort(d)
           X == {L \in Seq(Ids(d)) : \A i, j \in 1..Len(L) : L[i] = L[j] => i = j}
<1>1. n \in Nat /\ IsFiniteSet(Ids(d)) /\ Cardinality(Ids(d)) = n
  BY StageFacts
<1>2. order = queued[n]
  BY DEF TopologicalSort, Round
<1> HIDE DEF n
<1>3. \A r \in 1..n, L \in Seq(Ids(d)) : Round(d, L, r) \in Seq(Ids(d))
  BY ReleasedAreStages DEF Round
<1>4. KahnInv(d, Sources(d), 0) /\ Sources(d) \in Seq(Ids(d))
  BY SourcesAreQueued DEF KahnInv
<1>5. IsSort(queued)
  <2> DEFINE Lists == Seq(Ids(d))
             step == [r \in 1..n |-> [L \in Lists |-> Round(d, L, r)]]
  <2>1. step \in [1..n -> [Lists -> Lists]] /\ Sources(d) \in Lists
    BY <1>3, <1>4
  <2>2. \A r \in 1..n, L \in Lists : step[r][L] = Round(d, L, r)
    OBVIOUS
  <2> HIDE DEF step, Lists
  <2>3. PICK f \in [0..n -> Lists] : Walks(f, n, Sources(d), step)
    BY <1>1, <2>1, Recursion
  <2>4. ASSUME NEW r \in 0..n
        PROVE  f[r] = IF r = 0 THEN Sources(d) ELSE Round(d, f[r - 1], r)
    <3>1. r # 0 => r \in 1..n /\ r - 1 \in 0..n
      BY <1>1
    <3> QED BY <2>2, <2>3, <3>1 DEF Walks
  <2>5. IsSort(f)
    BY <2>4
  <2> QED BY <2>5
<1> HIDE DEF queued, order
<1>6. \A r \in 0..n : queued[r] = IF r = 0 THEN Sources(d) ELSE Round(d, queued[r - 1], r)
  BY <1>5
<1>7. \A r \in 0..n : KahnInv(d, queued[r], r)
  <2> DEFINE S == {r \in 0..n : KahnInv(d, queued[r], r)}
  <2>1. 0 \in S
    BY <1>1, <1>4, <1>6
  <2>2. ASSUME NEW r \in 1..n, r - 1 \in S
        PROVE  r \in S
    <3>1. r \in Nat \ {0} /\ r \in 0..n /\ r # 0
      BY <1>1
    <3>2. queued[r] = Round(d, queued[r - 1], r)
      BY <1>6, <3>1
    <3> QED BY <2>2, <3>1, <3>2, KahnStep
  <2> HIDE DEF S
  <2>3. \A r \in 0..n : r \in S
    BY <1>1, <2>1, <2>2, Induction
  <2> QED BY <2>3 DEF S
<1>8. KahnInv(d, order, n)
  <2>1. n \in 0..n
    BY <1>1
  <2> QED BY <1>2, <1>7, <2>1
<1>9. /\ order \in Seq(Ids(d)) /\ Len(order) \in Nat /\ DOMAIN order = 1..Len(order)
      /\ \A i, j \in 1..Len(order) : order[i] = order[j] => i = j
      /\ \A t \in Ids(d) : t \in ToSet(order) <=> Ready(d, t, Popped(order, n))
      /\ \A j \in 1..Len(order) : \A k \in In(d, order[j]) :
           \E i \in 1..Len(order) : i < j /\ order[i] = d.edges[k].source
      /\ ToSet(order) = {order[i] : i \in 1..Len(order)} /\ ToSet(order) \subseteq Ids(d)
  BY <1>8 DEF KahnInv, ToSet
<1>10. Cardinality(ToSet(order)) = Len(order) /\ Len(order) <= n
  <2>1. order \in Bijection(1..Len(order), ToSet(order))
    BY <1>9 DEF Bijection, Injection, Surjection, IsInjective
  <2>2. IsFiniteSet(1..Len(order)) /\ Cardinality(1..Len(order)) = Len(order)
    BY <1>9, FirstNumbers
  <2>3. Cardinality(ToSet(order)) = Len(order)
    BY <2>1, <2>2, FS_Bijection DEF ExistsBijection
  <2>4. ToSet(order) \in SUBSET Ids(d)
    BY <1>9
  <2>5. Cardinality(ToSet(order)) <= Cardinality(Ids(d))
    BY <1>1, <2>4, FS_Subset
  <2> QED BY <1>1, <2>3, <2>5
<1>11. Popped(order, n) = ToSet(order)
  <2>1. \A j \in 1..Len(order) : j <= n
    BY <1>1, <1>9, <1>10
  <2>2. {j \in 1..Len(order) : j <= n} = 1..Len(order)
    BY <2>1
  <2> QED BY <1>9, <2>2 DEF Popped
<1>12. ToSet(order) = Ids(d)
  <2> DEFINE S == Ids(d) \ ToSet(order)
  <2> SUFFICES ASSUME S # {}
               PROVE  FALSE
    BY <1>9
  <2>1. S \in (SUBSET Ids(d)) \ {{}}
    OBVIOUS
  <2>2. PICK s \in S : \A i \in In(d, s) : d.edges[i].source \notin S
    BY <2>1 DEF WellBuilt, Acyclic
  <2>3. \A i \in In(d, s) : d.edges[i].source \in Ids(d)
    BY EdgeFacts
  <2>4. Ready(d, s, ToSet(order))
    BY <2>2, <2>3 DEF Ready
  <2> QED BY <1>9, <1>11, <2>4
<1>13. Len(order) = n
  BY <1>1, <1>10, <1>12
<1>14. \A s \in Ids(d) : \E i \in 1..n : order[i] = s
  BY <1>9, <1>12, <1>13
<1>15. /\ order \in Seq(Ids(d))
       /\ \A i, j \in 1..n : order[i] = order[j] => i = j
       /\ \A j \in 1..n : \A k \in In(d, order[j]) :
            \E i \in 1..n : i < j /\ order[i] = d.edges[k].source
  BY <1>9, <1>13
<1> USE DEF n, order
<1> QED BY <1>12, <1>13, <1>14, <1>15

-----------------------------------------------------------------------------
(***************************************************************************)
(* The graph is sound.                                                     *)
(***************************************************************************)

\* Every edge of a graph leads forwards in the sort.
LEMMA EdgesLeadForwards ==
  ASSUME NEW d, WellBuilt(d), NEW k \in 1..Len(d.edges)
  PROVE  \E i, j \in 1..Len(d.stages) : 
            /\ i < j
            /\ TopologicalSort(d)[i] = d.edges[k].source
            /\ TopologicalSort(d)[j] = d.edges[k].target
<1>1. d.edges[k].target \in Ids(d) /\ k \in In(d, d.edges[k].target)
  BY EdgeFacts DEF In
<1> DEFINE order == TopologicalSort(d)
<1>2. /\ \A s \in Ids(d) : \E i \in 1..Len(d.stages) : order[i] = s
      /\ \A j \in 1..Len(d.stages) : \A l \in In(d, order[j]) :
           \E i \in 1..Len(d.stages) : i < j /\ order[i] = d.edges[l].source
  BY SortFacts
<1> HIDE DEF order
<1>3. PICK j \in 1..Len(d.stages) : order[j] = d.edges[k].target
  BY <1>1, <1>2
<1>4. \E i \in 1..Len(d.stages) : i < j /\ order[i] = d.edges[k].source
  BY <1>1, <1>2, <1>3
<1> QED BY <1>3, <1>4 DEF order

LEMMA SortIsTopological ==
  ASSUME WellBuilt(dag)
  PROVE  OrderIsTopological
<1> DEFINE order == TopologicalSort(dag)
           n == Len(dag.stages)
<1>1. /\ order \in Seq(Ids(dag)) /\ Len(order) = n /\ ToSet(order) = Ids(dag)
      /\ \A i, j \in 1..n : order[i] = order[j] => i = j
  BY SortFacts
<1>2. DOMAIN order = 1..n
  BY <1>1
<1> HIDE DEF order, n
<1>3. \A i \in 1..n : Position(order, order[i]) = i
  BY <1>1, <1>2 DEF Position
<1>4. ASSUME NEW e \in ToSet(dag.edges)
      PROVE  Position(order, e.source) < Position(order, e.target)
  <2>1. PICK k \in 1..Len(dag.edges) : dag.edges[k] = e
    BY EdgeFacts
  <2>2. PICK i \in 1..n, j \in 1..n : i < j /\ order[i] = e.source /\ order[j] = e.target
    BY <2>1, EdgesLeadForwards DEF order, n
  <2> QED BY <1>3, <2>2
<1> QED BY <1>1, <1>4 DEF OrderIsTopological, order, n

\* In a tree no two edges leave a stage.
LEMMA OneEdgeLeaves ==
  ASSUME NEW d, WellBuilt(d), IsTree(d), NEW s \in Ids(d), NEW i \in Out(d, s), NEW j \in Out(d, s)
  PROVE  i = j
<1>1. Len(Successors(d, s)) <= 1 /\ Len(Successors(d, s)) = Cardinality(Out(d, s))
  BY Neighbours DEF IsTree
<1>2. IsFiniteSet(Out(d, s)) /\ {i, j} \in SUBSET Out(d, s)
  BY EdgeFacts, PlacesAreFinite
<1>3. Cardinality({i, j}) <= 1 /\ Cardinality({i, j}) \in Nat /\ IsFiniteSet({i, j})
  <2>1. IsFiniteSet({i, j}) /\ Cardinality({i, j}) <= Cardinality(Out(d, s))
    BY <1>2, FS_Subset
  <2>2. Cardinality({i, j}) \in Nat /\ Cardinality(Out(d, s)) \in Nat
    BY <1>2, <2>1, FS_CardinalityType
  <2> QED BY <1>1, <2>1, <2>2
<1>4. ASSUME i # j
      PROVE  Cardinality({i, j}) = 2
  <2>1. Cardinality({i}) = 1 /\ IsFiniteSet({i})
    BY FS_Singleton
  <2>2. {i, j} = {i} \cup {j} /\ j \notin {i}
    BY <1>4
  <2>3. Cardinality({i} \cup {j}) = 1 + 1
    BY <2>1, <2>2, FS_AddElement
  <2> QED BY <2>2, <2>3
<1> QED BY <1>3, <1>4

\* A tree: one edge from every stage but the root, and any group of those
\* stages is left by the edge of the stage that comes last in the sort.
LEMMA TreeLeads ==
  ASSUME NEW d, WellBuilt(d), IsTree(d)
  PROVE  /\ Len(d.edges) = Len(d.stages) - 1
         /\ \E sink \in Ids(d) : \A S \in (SUBSET (Ids(d) \ {sink})) \ {{}} :
              \E e \in ToSet(d.edges) : e.source \in S /\ e.target \notin S
<1> DEFINE n == Len(d.stages)
           m == Len(d.edges)
           order == TopologicalSort(d)
           source == [i \in 1..m |-> d.edges[i].source]
<1>1. /\ n \in Nat /\ IsFiniteSet(Ids(d)) /\ Cardinality(Ids(d)) = n
  BY StageFacts
<1>2. /\ m \in Nat
      /\ \A i \in 1..m : /\ d.edges[i] \in ToSet(d.edges)
                         /\ d.edges[i].source \in Ids(d) /\ d.edges[i].target \in Ids(d)
      /\ \A s : Out(d, s) = {i \in 1..m : d.edges[i].source = s}
  BY EdgeFacts DEF Out
<1>3. PICK root \in Ids(d) : Sinks(d) = {root}
  BY DEF IsTree
<1>4. \A s \in Ids(d) : s = root <=> Out(d, s) = {}
  BY <1>3, Neighbours DEF Sinks
<1>5. \A s \in Ids(d) : \A i, j \in Out(d, s) : i = j
  BY OneEdgeLeaves
<1>6. m = n - 1
  <2> DEFINE Others == Ids(d) \ {root}
  <2>1. IsFiniteSet(Others) /\ Cardinality(Others) = n - 1
    BY <1>1, FS_RemoveElement
  <2>2. \A i \in 1..m : source[i] \in Others
    BY <1>2, <1>4
  <2>3. ASSUME NEW i \in 1..m, NEW j \in 1..m, source[i] = source[j]
        PROVE  i = j
    <3>1. i \in Out(d, source[i]) /\ j \in Out(d, source[i]) /\ source[i] \in Ids(d)
      BY <1>2, <2>3
    <3> QED BY <1>5, <3>1
  <2>4. \A s \in Others : \E i \in 1..m : source[i] = s
    BY <1>2, <1>4
  <2> HIDE DEF m, n, Others
  <2>5. source \in [1..m -> Others]
    BY <2>2
  <2> HIDE DEF source
  <2>6. source \in Bijection(1..m, Others)
    BY <2>3, <2>4, <2>5 DEF Bijection, Injection, Surjection, IsInjective
  <2>7. IsFiniteSet(1..m) /\ Cardinality(1..m) = m
    BY <1>2, FirstNumbers
  <2>8. Cardinality(Others) = m
    BY <2>6, <2>7, FS_Bijection DEF ExistsBijection
  <2> QED BY <2>1, <2>8
<1>7. ASSUME NEW S \in (SUBSET (Ids(d) \ {root})) \ {{}}
      PROVE  \E e \in ToSet(d.edges) : e.source \in S /\ e.target \notin S
  <2> HIDE DEF m, n
  <2> DEFINE places == {j \in 1..n : order[j] \in S}
  <2>1. /\ \A i, j \in 1..n : order[i] = order[j] => i = j
        /\ \A s \in Ids(d) : \E i \in 1..n : order[i] = s
    BY SortFacts DEF n
  <2> HIDE DEF order
  <2>2. places \subseteq 0..n /\ places # {}
    BY <1>1, <2>1
  <2>3. PICK last \in places : \A j \in places : j <= last
    BY <1>1, <2>2, LastPlace
  <2>4. PICK k \in 1..m : d.edges[k].source = order[last]
    BY <1>2, <1>4
  <2>5. PICK i \in 1..n, j \in 1..n :
          i < j /\ order[i] = d.edges[k].source /\ order[j] = d.edges[k].target
    BY EdgesLeadForwards DEF order, n, m
  <2>6. i = last
    BY <2>1, <2>4, <2>5
  <2>7. d.edges[k].target \notin S
    BY <1>1, <2>3, <2>5, <2>6
  <2> QED BY <1>2, <2>3, <2>4, <2>7
<1> QED BY <1>6, <1>7

NoneStays(d, root) ==
  \A S \in (SUBSET (Ids(d) \ {root})) \ {{}} :
    \E e \in ToSet(d.edges) : e.source \in S /\ e.target \notin S

\* One edge leaves each single stage but one, and there are no more edges.
LEMMA LeadingIsTree ==
  ASSUME NEW d, WellBuilt(d), Len(d.edges) = Len(d.stages) - 1, NEW root \in Ids(d),
         NoneStays(d, root)
  PROVE  IsTree(d)
<1> DEFINE n == Len(d.stages)
           m == Len(d.edges)
           Others == Ids(d) \ {root}
           edge == [s \in Others |-> CHOOSE i \in 1..m : d.edges[i].source = s]
<1>1. /\ n \in Nat /\ IsFiniteSet(Ids(d)) /\ Cardinality(Ids(d)) = n
  BY StageFacts
<1>2. /\ m \in Nat
      /\ \A i \in 1..m : d.edges[i].source \in Ids(d)
      /\ \A e \in ToSet(d.edges) : \E i \in 1..m : d.edges[i] = e
      /\ \A s : Out(d, s) = {i \in 1..m : d.edges[i].source = s}
  BY EdgeFacts DEF Out
<1>3. IsFiniteSet(Others) /\ Cardinality(Others) = m
  BY <1>1, FS_RemoveElement
<1>4. \A s \in Others : \E i \in 1..m : d.edges[i].source = s
  <2> TAKE s \in Others
  <2>1. {s} \in (SUBSET (Ids(d) \ {root})) \ {{}}
    OBVIOUS
  <2>2. PICK e \in ToSet(d.edges) : e.source \in {s}
    BY <2>1 DEF NoneStays
  <2> QED BY <1>2, <2>2
<1> HIDE DEF m
<1>5. \A s \in Others : edge[s] \in 1..m /\ d.edges[edge[s]].source = s
  BY <1>4
<1>6. edge \in [Others -> 1..m]
  BY <1>5
<1> HIDE DEF edge, Others
<1>7. edge \in Injection(Others, 1..m)
  BY <1>5, <1>6 DEF Injection, IsInjective
<1>8. IsFiniteSet(1..m) /\ Cardinality(1..m) = m
  <2>1. m \in Nat
    BY <1>2
  <2> QED BY <2>1, FirstNumbers
<1>9. edge \in Surjection(Others, 1..m)
  BY <1>3, <1>7, <1>8, FS_Injection
<1>10. \A i \in 1..m : \E s \in Others : edge[s] = i
  BY <1>9 DEF Surjection
<1>11. Out(d, root) = {}
  BY <1>2, <1>5, <1>10 DEF Others
<1>12. \A s \in Others : Out(d, s) = {edge[s]}
  BY <1>2, <1>5, <1>10
<1>13. \A s \in Ids(d) : Len(Successors(d, s)) <= 1
  <2> TAKE s \in Ids(d)
  <2>1. Len(Successors(d, s)) = Cardinality(Out(d, s))
    BY Neighbours
  <2>2. CASE s = root
    <3>1. Cardinality(Out(d, s)) = 0
      BY <1>11, <2>2, FS_EmptySet
    <3> QED BY <2>1, <3>1
  <2>3. CASE s # root
    <3>1. Out(d, s) = {edge[s]}
      BY <1>12, <2>3 DEF Others
    <3>2. Cardinality(Out(d, s)) = 1
      BY <3>1, FS_Singleton
    <3> QED BY <2>1, <3>2
  <2> QED BY <2>2, <2>3
<1>14. Sinks(d) = {root}
  <2>1. \A s \in Ids(d) : Successors(d, s) = <<>> <=> Out(d, s) = {}
    BY Neighbours
  <2>2. \A s \in Ids(d) : Out(d, s) = {} <=> s = root
    BY <1>11, <1>12 DEF Others
  <2> QED BY <2>1, <2>2 DEF Sinks
<1> QED BY <1>13, <1>14 DEF IsTree

LEMMA GraphIsSound ==
  ASSUME WellBuilt(dag)
  PROVE  PipelineGraphIsSound
<1>1. OrderIsTopological
  BY SortIsTopological
<1>2. IsTree(dag) =>
        /\ Len(dag.edges) = Len(dag.stages) - 1
        /\ \E sink \in Ids(dag) : \A S \in (SUBSET (Ids(dag) \ {sink})) \ {{}} :
             \E e \in ToSet(dag.edges) : e.source \in S /\ e.target \notin S
  BY TreeLeads
<1>3. ASSUME Len(dag.edges) = Len(dag.stages) - 1,
             NEW root \in Ids(dag),
             \A S \in (SUBSET (Ids(dag) \ {root})) \ {{}} :
               \E e \in ToSet(dag.edges) : e.source \in S /\ e.target \notin S
      PROVE  IsTree(dag)
  BY <1>3, LeadingIsTree DEF NoneStays
<1>4. TreeIsConnected
  BY <1>2, <1>3 DEF TreeIsConnected
<1> QED BY <1>1, <1>4 DEF PipelineGraphIsSound

\* A graph the builder made is well built.
THEOREM GraphsAreWellBuilt == Spec => []WellBuilt(dag)
<1>1. Init => WellBuilt(dag)
  BY EmptyIsWellBuilt DEF Init
<1>2. WellBuilt(dag) /\ [Next]_dag => WellBuilt(dag)'
  BY BuilderStep
<1> QED BY <1>1, <1>2, PTL DEF Spec

\* Whatever stages and edges a builder adds and in whatever order, the sort
\* never runs dry and places every edge forwards, and is_tree holds of exactly
\* the connected graphs.  (PipelineDAG.add_edge, topological_sort, is_tree)
THEOREM PipelineGraphsAreSound == Spec => []PipelineGraphIsSound
<1>1. Spec => []WellBuilt(dag)
  BY GraphsAreWellBuilt
<1>2. WellBuilt(dag) => PipelineGraphIsSound
  BY GraphIsSound
<1> QED BY <1>1, <1>2, PTL

=============================================================================
