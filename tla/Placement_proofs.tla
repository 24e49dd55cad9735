---------------------------- MODULE Placement_proofs ----------------------------
(***************************************************************************)
(* Where stages are placed, for any workers, pipelines and prices: the     *)
(* loops that place a stage at a time keep within what a node has left and *)
(* what a pipeline can pay; and every strategy but the market puts a stage *)
(* where it may be.                                                        *)
(***************************************************************************)
EXTENDS Placement, Dag_proofs

(***************************************************************************)
(* Sums.                                                                   *)
(***************************************************************************)
\* The partial sums of the first n terms of f.
IsSum(sum, f, n) == sum = [i \in 0..n |-> IF i = 0 THEN 0 ELSE sum[i - 1] + f[i]]

LEMMA SumsExist ==
  ASSUME NEW n \in Nat, NEW f, \A i \in 1..n : f[i] \in Int
  PROVE  \A k \in 0..n : \E sum \in [0..k -> Int] : IsSum(sum, f, k)
<1> DEFINE S == {k \in 0..n : \E sum \in [0..k -> Int] : IsSum(sum, f, k)}
<1>1. 0 \in S
  <2> DEFINE sum == [i \in 0..0 |-> 0]
  <2>1. sum \in [0..0 -> Int]
    OBVIOUS
  <2>2. sum = [i \in 0..0 |-> IF i = 0 THEN 0 ELSE sum[i - 1] + f[i]]
    OBVIOUS
  <2>3. \E g \in [0..0 -> Int] : IsSum(g, f, 0)
    BY <2>1, <2>2 DEF IsSum
  <2> QED BY <2>3
<1>2. ASSUME NEW k \in 1..n, k - 1 \in S
      PROVE  k \in S
  <2>1. PICK sum \in [0..(k - 1) -> Int] : IsSum(sum, f, k - 1)
    BY <1>2
  <2> DEFINE more == [i \in 0..k |-> IF i = k THEN sum[k - 1] + f[k] ELSE sum[i]]
  <2>2. more \in [0..k -> Int]
    OBVIOUS
  <2>3. ASSUME NEW i \in 0..k
        PROVE  more[i] = IF i = 0 THEN 0 ELSE more[i - 1] + f[i]
    <3>1. CASE i = k
      <4>1. k # 0 /\ k - 1 \in 0..k /\ k - 1 # k
        OBVIOUS
      <4>2. more[k] = sum[k - 1] + f[k] /\ more[k - 1] = sum[k - 1]
        BY <4>1
      <4> HIDE DEF more
      <4> QED BY <3>1, <4>1, <4>2
    <3>2. CASE i # k
      <4>1. i \in 0..(k - 1)
        BY <3>2
      <4>2. sum[i] = IF i = 0 THEN 0 ELSE sum[i - 1] + f[i]
        BY <2>1, <4>1 DEF IsSum
      <4>3. more[i] = sum[i] /\ (i # 0 => more[i - 1] = sum[i - 1])
        BY <3>2, <4>1
      <4> HIDE DEF more
      <4> QED BY <4>2, <4>3
    <3> QED BY <3>1, <3>2
  <2>4. IsSum(more, f, k)
    BY <2>2, <2>3 DEF IsSum
  <2> QED BY <2>2, <2>4
<1> HIDE DEF S
<1>3. \A k \in 0..n : k \in S
  BY <1>1, <1>2, Induction
<1> QED BY <1>3 DEF S

\* However many terms are summed, the first sums are the same.
LEMMA SumsAgree ==
  ASSUME NEW k \in Nat, NEW j \in 0..k, NEW f, NEW a, NEW b, IsSum(a, f, j), IsSum(b, f, k)
  PROVE  \A i \in 0..j : a[i] = b[i]
<1> DEFINE S == {i \in 0..j : a[i] = b[i]}
<1>1. /\ \A i \in 0..j : a[i] = IF i = 0 THEN 0 ELSE a[i - 1] + f[i]
      /\ \A i \in 0..k : b[i] = IF i = 0 THEN 0 ELSE b[i - 1] + f[i]
  BY DEF IsSum
<1>2. 0 \in S
  BY <1>1
<1>3. ASSUME NEW i \in 1..j, i - 1 \in S
      PROVE  i \in S
  <2>1. i \in 0..j /\ i \in 0..k /\ i # 0 /\ a[i - 1] = b[i - 1]
    BY <1>3
  <2> QED BY <1>1, <2>1
<1> HIDE DEF S
<1>4. \A i \in 0..j : i \in S
  BY <1>2, <1>3, Induction
<1> QED BY <1>4 DEF S

LEMMA TotalStep ==
  ASSUME NEW n \in Nat, NEW f, \A i \in 1..n : f[i] \in Int
  PROVE  /\ Total(f, 0) = 0
         /\ \A k \in 1..n : Total(f, k) = Total(f, k - 1) + f[k]
         /\ \A k \in 0..n : Total(f, k) \in Int
<1> DEFINE sum(k) == CHOOSE g : IsSum(g, f, k)
<1>1. \A k \in 0..n : IsSum(sum(k), f, k)
  BY SumsExist
<1>2. \A k : Total(f, k) = sum(k)[k]
  BY DEF Total, IsSum
<1> HIDE DEF sum
<1>3. ASSUME NEW k \in 0..n
      PROVE  Total(f, k) \in Int
  <2>1. PICK g \in [0..k -> Int] : IsSum(g, f, k)
    BY SumsExist
  <2>2. k \in Nat /\ k \in 0..k
    OBVIOUS
  <2>3. sum(k)[k] = g[k]
    BY <1>1, <2>1, <2>2, SumsAgree
  <2> QED BY <1>2, <2>2, <2>3
<1>4. ASSUME NEW k \in 1..n
      PROVE  Total(f, k) = Total(f, k - 1) + f[k]
  <2>1. k \in Nat /\ k \in 0..n /\ k \in 0..k /\ k # 0 /\ k - 1 \in 0..n /\ k - 1 \in 0..k
        /\ k - 1 \in 0..(k - 1)
    OBVIOUS
  <2>2. sum(k)[k] = sum(k)[k - 1] + f[k]
    BY <1>1, <2>1 DEF IsSum
  <2>3. sum(k - 1)[k - 1] = sum(k)[k - 1]
    BY <1>1, <2>1, SumsAgree
  <2> QED BY <1>2, <2>2, <2>3
<1>5. Total(f, 0) = 0
  <2>1. 0 \in 0..n /\ 0 \in 0..0
    OBVIOUS
  <2> QED BY <1>1, <1>2, <2>1 DEF IsSum
<1> QED BY <1>3, <1>4, <1>5

LEMMA PartialSums ==
  ASSUME NEW n \in Nat, NEW f \in [1..n -> Int]
  PROVE  \E sum \in [0..n -> Int] :
           /\ sum[0] = 0
           /\ \A i \in 1..n : sum[i] = sum[i - 1] + f[i]
           /\ Total(f, n) = sum[n]
<1> DEFINE sum == [k \in 0..n |-> Total(f, k)]
<1>1. /\ Total(f, 0) = 0
      /\ \A k \in 1..n : Total(f, k) = Total(f, k - 1) + f[k]
      /\ \A k \in 0..n : Total(f, k) \in Int
  BY TotalStep
<1>2. sum \in [0..n -> Int] /\ sum[0] = 0 /\ sum[n] = Total(f, n)
  BY <1>1
<1>3. \A i \in 1..n : i \in 0..n /\ i - 1 \in 0..n
  OBVIOUS
<1>4. \A i \in 1..n : sum[i] = sum[i - 1] + f[i]
  BY <1>1, <1>3
<1> QED BY <1>2, <1>4

LEMMA TotalOfZeros ==
  ASSUME NEW n \in Nat, NEW f \in [1..n -> Int], \A i \in 1..n : f[i] = 0
  PROVE  Total(f, n) = 0
<1>1. PICK sum \in [0..n -> Int] :
        /\ sum[0] = 0
        /\ \A i \in 1..n : sum[i] = sum[i - 1] + f[i]
        /\ Total(f, n) = sum[n]
  BY PartialSums
<1> DEFINE S == {i \in 0..n : sum[i] = 0}
<1>2. 0 \in S /\ \A i \in 1..n : i - 1 \in S => i \in S
  BY <1>1
<1> HIDE DEF S
<1>3. \A i \in 0..n : i \in S
  BY <1>2, Induction
<1> QED BY <1>1, <1>3 DEF S

\* When one term changes, the sum changes by as much.
LEMMA TotalChanges ==
  ASSUME NEW n \in Nat, NEW f \in [1..n -> Int], NEW g \in [1..n -> Int],
         NEW k \in 1..n, \A i \in 1..n : i # k => g[i] = f[i]
  PROVE  Total(f, n) \in Int /\ Total(g, n) = Total(f, n) + g[k] - f[k]
<1>1. PICK sum \in [0..n -> Int] :
        /\ sum[0] = 0
        /\ \A i \in 1..n : sum[i] = sum[i - 1] + f[i]
        /\ Total(f, n) = sum[n]
  BY PartialSums
<1>2. PICK new \in [0..n -> Int] :
        /\ new[0] = 0
        /\ \A i \in 1..n : new[i] = new[i - 1] + g[i]
        /\ Total(g, n) = new[n]
  BY PartialSums
<1> DEFINE d == g[k] - f[k]
           S == {i \in 0..n : new[i] = IF i < k THEN sum[i] ELSE sum[i] + d}
<1>3. 0 \in S
  BY <1>1, <1>2
<1>4. ASSUME NEW i \in 1..n, i - 1 \in S
      PROVE  i \in S
  <2>1. new[i] = new[i - 1] + g[i] /\ sum[i] = sum[i - 1] + f[i]
    BY <1>1, <1>2
  <2>2. new[i - 1] = IF i - 1 < k THEN sum[i - 1] ELSE sum[i - 1] + d
    BY <1>4
  <2>3. i - 1 \in 0..n /\ i \in 0..n
    OBVIOUS
  <2>4. sum[i - 1] \in Int /\ f[i] \in Int /\ f[k] \in Int /\ g[k] \in Int
    BY <2>3
  <2>5. new[i] = IF i < k THEN sum[i] ELSE sum[i] + d
    <3>1. CASE i = k
      BY <2>1, <2>2, <2>4, <3>1
    <3>2. CASE i # k
      <4>1. g[i] = f[i]
        BY <3>2
      <4>2. i - 1 < k <=> i < k
        BY <3>2
      <4>3. d \in Int
        BY <2>4
      <4> HIDE DEF d
      <4>4. new[i] = (IF i < k THEN sum[i - 1] ELSE sum[i - 1] + d) + f[i]
        BY <2>1, <2>2, <4>1, <4>2
      <4>5. CASE i < k
        BY <2>1, <4>4, <4>5
      <4>6. CASE ~(i < k)
        <5>1. new[i] = (sum[i - 1] + d) + f[i]
          BY <4>4, <4>6
        <5>2. sum[i] + d = (sum[i - 1] + d) + f[i]
          BY <2>1, <2>4, <4>3
        <5> QED BY <4>6, <5>1, <5>2
      <4> QED BY <4>5, <4>6
    <3> QED BY <3>1, <3>2
  <2> QED BY <2>3, <2>5
<1> HIDE DEF S
<1>5. \A i \in 0..n : i \in S
  BY <1>3, <1>4, Induction
<1>6. new[n] = sum[n] + d /\ sum[n] \in Int /\ f[k] \in Int /\ g[k] \in Int
  BY <1>5 DEF S
<1> QED BY <1>1, <1>2, <1>6

LEMMA TotalMono ==
  ASSUME NEW n \in Nat, NEW f, NEW g,
         \A i \in 1..n : f[i] \in Int /\ g[i] \in Int /\ f[i] <= g[i]
  PROVE  Total(f, n) <= Total(g, n)
<1> DEFINE S == {i \in 0..n : Total(f, i) <= Total(g, i)}
<1>1. /\ Total(f, 0) = 0 /\ Total(g, 0) = 0
      /\ \A k \in 1..n : Total(f, k) = Total(f, k - 1) + f[k] /\ Total(g, k) = Total(g, k - 1) + g[k]
      /\ \A k \in 0..n : Total(f, k) \in Int /\ Total(g, k) \in Int
  BY TotalStep
<1>2. 0 \in S
  BY <1>1
<1>3. ASSUME NEW k \in 1..n, k - 1 \in S
      PROVE  k \in S
  <2>1. k \in 0..n /\ k - 1 \in 0..n
    OBVIOUS
  <2>2. /\ Total(f, k - 1) \in Int /\ Total(g, k - 1) \in Int
        /\ f[k] \in Int /\ g[k] \in Int /\ f[k] <= g[k] /\ Total(f, k - 1) <= Total(g, k - 1)
    BY <1>1, <1>3, <2>1
  <2>3. Total(f, k) = Total(f, k - 1) + f[k] /\ Total(g, k) = Total(g, k - 1) + g[k]
    BY <1>1
  <2>4. Total(f, k) <= Total(g, k)
    BY <2>2, <2>3
  <2> QED BY <2>1, <2>4
<1> HIDE DEF S
<1>4. \A k \in 0..n : k \in S
  BY <1>2, <1>3, Induction
<1> QED BY <1>4 DEF S

LEMMA TotalAdds ==
  ASSUME NEW n \in Nat, NEW f, NEW g, NEW h,
         \A i \in 1..n : f[i] \in Int /\ g[i] \in Int /\ h[i] = f[i] + g[i]
  PROVE  Total(h, n) = Total(f, n) + Total(g, n)
<1> DEFINE S == {i \in 0..n : Total(h, i) = Total(f, i) + Total(g, i)}
<1>0. \A i \in 1..n : h[i] \in Int
  OBVIOUS
<1>1. /\ Total(f, 0) = 0 /\ Total(g, 0) = 0 /\ Total(h, 0) = 0
      /\ \A k \in 1..n : /\ Total(f, k) = Total(f, k - 1) + f[k]
                         /\ Total(g, k) = Total(g, k - 1) + g[k]
                         /\ Total(h, k) = Total(h, k - 1) + h[k]
      /\ \A k \in 0..n : Total(f, k) \in Int /\ Total(g, k) \in Int
  BY <1>0, TotalStep
<1>2. 0 \in S
  BY <1>1
<1>3. ASSUME NEW k \in 1..n, k - 1 \in S
      PROVE  k \in S
  <2>1. k \in 0..n /\ k - 1 \in 0..n
    OBVIOUS
  <2>2. /\ Total(f, k - 1) \in Int /\ Total(g, k - 1) \in Int
        /\ f[k] \in Int /\ g[k] \in Int /\ h[k] = f[k] + g[k]
        /\ Total(h, k - 1) = Total(f, k - 1) + Total(g, k - 1)
    BY <1>1, <1>3, <2>1
  <2>3. /\ Total(f, k) = Total(f, k - 1) + f[k] /\ Total(g, k) = Total(g, k - 1) + g[k]
        /\ Total(h, k) = Total(h, k - 1) + h[k]
    BY <1>1
  <2>4. Total(h, k) = Total(f, k) + Total(g, k)
    BY <2>2, <2>3
  <2> QED BY <2>1, <2>4
<1> HIDE DEF S
<1>4. \A k \in 0..n : k \in S
  BY <1>2, <1>3, Induction
<1>5. n \in 0..n
  OBVIOUS
<1> QED BY <1>4, <1>5 DEF S

\* Only the terms count.
LEMMA TotalAgrees ==
  ASSUME NEW n \in Nat, NEW f, NEW g, \A i \in 1..n : f[i] \in Int /\ g[i] = f[i]
  PROVE  Total(f, n) = Total(g, n)
<1>1. \A i \in 1..n : f[i] \in Int /\ g[i] \in Int /\ f[i] <= g[i] /\ g[i] <= f[i]
  OBVIOUS
<1>2. Total(f, n) <= Total(g, n) /\ Total(g, n) <= Total(f, n)
  BY <1>1, TotalMono
<1>3. Total(f, n) \in Int /\ Total(g, n) \in Int
  BY <1>1, TotalStep
<1> QED BY <1>2, <1>3

LEMMA TotalIsNat ==
  ASSUME NEW n \in Nat, NEW f, \A i \in 1..n : f[i] \in Nat
  PROVE  Total(f, n) \in Nat
<1> DEFINE zero == [i \in 1..n |-> 0]
<1>1. zero \in [1..n -> Int] /\ \A i \in 1..n : zero[i] = 0 /\ zero[i] \in Int /\ f[i] \in Int /\ zero[i] <= f[i]
  OBVIOUS
<1> HIDE DEF zero
<1>2. Total(zero, n) = 0 /\ Total(zero, n) <= Total(f, n)
  BY <1>1, TotalOfZeros, TotalMono
<1>3. Total(f, n) \in Int
  BY <1>1, TotalStep
<1> QED BY <1>2, <1>3

LEMMA TotalOfOne ==
  ASSUME NEW n \in Nat, NEW f \in [1..n -> Int], NEW k \in 1..n, \A i \in 1..n : i # k => f[i] = 0
  PROVE  Total(f, n) = f[k]
<1> DEFINE zero == [i \in 1..n |-> 0]
<1>1. zero \in [1..n -> Int] /\ \A i \in 1..n : zero[i] = 0
  OBVIOUS
<1> HIDE DEF zero
<1>2. Total(zero, n) = 0
  BY <1>1, TotalOfZeros
<1>3. Total(f, n) = Total(zero, n) + f[k] - zero[k]
  <2>1. zero \in [1..n -> Int] /\ \A i \in 1..n : i # k => f[i] = zero[i]
    BY <1>1
  <2> QED BY <2>1, TotalChanges
<1>4. f[k] \in Int /\ zero[k] = 0
  BY <1>1
<1> QED BY <1>2, <1>3, <1>4

\* The terms of a sum put into n groups: the sums of the groups are the sum.
Group(at, w, m, i) == [j \in 1..m |-> IF at[j] = i THEN w[j] ELSE 0]
Groups(at, w, m, n, k) == [i \in 1..n |-> Total(Group(at, w, m, i), k)]

LEMMA TotalOfGroups ==
  ASSUME NEW n \in Nat, NEW m \in Nat, NEW at \in [1..m -> 1..n], NEW w \in [1..m -> Int]
  PROVE  Total(Groups(at, w, m, n, m), n) = Total(w, m)
<1> DEFINE G(k) == Groups(at, w, m, n, k)
           S == {k \in 0..m : Total(G(k), n) = Total(w, k)}
<1>1. \A i \in 1..n, j \in 1..m : Group(at, w, m, i)[j] = IF at[j] = i THEN w[j] ELSE 0
  BY DEF Group
<1>2. \A i \in 1..n : \A j \in 1..m : Group(at, w, m, i)[j] \in Int
  BY <1>1
<1>3. \A i \in 1..n :
        /\ Total(Group(at, w, m, i), 0) = 0
        /\ \A k \in 1..m :
             Total(Group(at, w, m, i), k) = Total(Group(at, w, m, i), k - 1) + Group(at, w, m, i)[k]
        /\ \A k \in 0..m : Total(Group(at, w, m, i), k) \in Int
  BY <1>2, TotalStep
<1>4. \A k \in 0..m : G(k) \in [1..n -> Int] /\ \A i \in 1..n : G(k)[i] = Total(Group(at, w, m, i), k)
  BY <1>3 DEF Groups
<1>5. /\ Total(w, 0) = 0
      /\ \A k \in 1..m : Total(w, k) = Total(w, k - 1) + w[k]
      /\ \A k \in 0..m : Total(w, k) \in Int
  BY TotalStep
<1> HIDE DEF G
<1>6. 0 \in S
  <2>1. 0 \in 0..m
    OBVIOUS
  <2>2. \A i \in 1..n : G(0)[i] = 0
    BY <1>3, <1>4, <2>1
  <2>3. Total(G(0), n) = 0
    BY <1>4, <2>1, <2>2, TotalOfZeros
  <2> QED BY <1>5, <2>1, <2>3
<1>7. ASSUME NEW k \in 1..m, k - 1 \in S
      PROVE  k \in S
  <2>1. k \in 0..m /\ k - 1 \in 0..m /\ at[k] \in 1..n /\ w[k] \in Int
    OBVIOUS
  <2>2. ASSUME NEW i \in 1..n
        PROVE  G(k)[i] = G(k - 1)[i] + (IF at[k] = i THEN w[k] ELSE 0)
    <3>1. G(k)[i] = Total(Group(at, w, m, i), k)
      BY <1>4, <2>1
    <3>2. G(k - 1)[i] = Total(Group(at, w, m, i), k - 1)
      BY <1>4, <2>1
    <3>3. Total(Group(at, w, m, i), k) = Total(Group(at, w, m, i), k - 1) + Group(at, w, m, i)[k]
      BY <1>3
    <3>4. Group(at, w, m, i)[k] = IF at[k] = i THEN w[k] ELSE 0
      BY <1>1
    <3> QED BY <3>1, <3>2, <3>3, <3>4
  <2>3. \A i \in 1..n : G(k - 1)[i] \in Int
    BY <1>4, <2>1
  <2>4. \A i \in 1..n : i # at[k] => G(k)[i] = G(k - 1)[i]
    BY <2>2, <2>3
  <2>5. G(k)[at[k]] = G(k - 1)[at[k]] + w[k]
    BY <2>1, <2>2
  <2>6. Total(G(k - 1), n) \in Int /\ Total(G(k), n) = Total(G(k - 1), n) + G(k)[at[k]] - G(k - 1)[at[k]]
    BY <1>4, <2>1, <2>4, TotalChanges
  <2>7. Total(G(k - 1), n) = Total(w, k - 1) /\ Total(w, k) = Total(w, k - 1) + w[k]
    BY <1>5, <1>7
  <2>8. Total(G(k), n) = Total(w, k)
    BY <2>1, <2>3, <2>5, <2>6, <2>7
  <2> QED BY <2>1, <2>8
<1> HIDE DEF S
<1>8. \A k \in 0..m : k \in S
  BY <1>6, <1>7, Induction
<1>9. m \in 0..m
  OBVIOUS
<1> QED BY <1>8, <1>9 DEF S, G

-----------------------------------------------------------------------------
(***************************************************************************)
(* The loops that place a stage at a time.  What holds of each stage and   *)
(* each edge when it is looked at keeps holding: a node only fills up by   *)
(* what was checked to fit, and an edge is checked when its second end is  *)
(* placed, whichever that is.  The DP places all stages at once and has no *)
(* such invariant.                                                         *)
(***************************************************************************)
Holds(e) == EdgeHolds(e.source, e.target, placement[e.source], placement[e.target])

LoopInv ==
  /\ todo \in Seq(Ids(dag))
  /\ placement \in [Ids(dag) -> {0} \cup Nodes]
  /\ committed \in [Nodes -> Nat]
  /\ \A n \in Nodes : committed[n] > 0 => committed[n] <= Residual(n)
  /\ phase # "failed" => \A s \in Ids(dag) : Placed(s) \/ s \in ToSet(todo)
  /\ phase = "placed" => todo = <<>>
  /\ solver # "market" => \A s \in Ids(dag) : Placed(s) => FeasibleAlone(s, placement[s])
  /\ solver = "greedy" =>
       \A e \in ToSet(dag.edges) : Placed(e.source) /\ Placed(e.target) => Holds(e)

SolverInv ==
  /\ problem \in Problems
  /\ dag = Pipeline(problem)
  /\ nodes = Topology(problem)
  /\ phase \in {"tracing", "traced", "spreading"} => solver = "tree"
  /\ solver # "tree" => LoopInv

\* The data of a problem is what the assumptions say, and the graph has what
\* every well-built one has.
LEMMA EdgesAreFound ==
  ASSUME NEW d, WellBuilt(d), NEW e \in ToSet(d.edges),
         \A i, j \in DOMAIN d.edges :
           d.edges[i].source = d.edges[j].source /\ d.edges[i].target = d.edges[j].target => i = j
  PROVE  /\ e.source \in Ids(d) /\ e.target \in Ids(d) \ {e.source}
         /\ e.source \in ToSet(Predecessors(d, e.target))
         /\ e.target \in ToSet(Successors(d, e.source))
         /\ Bound(d, e.source, e.target) = e.bound
<1>1. PICK k \in 1..Len(d.edges) : d.edges[k] = e
  BY EdgeFacts
<1>2. k \in Out(d, e.source) /\ k \in In(d, e.target) /\ k \in DOMAIN d.edges /\ k \in Int
  BY <1>1, EdgeFacts DEF Out, In
<1>3. e.source \in Ids(d) /\ e.target \in Ids(d)
  BY <1>1, EdgeFacts
<1>4. e.source # e.target
  <2>1. PICK i \in 1..Len(d.stages), j \in 1..Len(d.stages) :
          i < j /\ TopologicalSort(d)[i] = e.source /\ TopologicalSort(d)[j] = e.target
    BY <1>1, EdgesLeadForwards
  <2>2. \A l \in 1..Len(d.stages) : ~(l < l)
    BY StageFacts
  <2>3. i # j
    BY <2>1, <2>2
  <2>4. \A a, b \in 1..Len(d.stages) :
          TopologicalSort(d)[a] = TopologicalSort(d)[b] => a = b
    BY SortFacts
  <2> QED BY <2>1, <2>3, <2>4
<1>5. /\ e.source \in ToSet(Predecessors(d, e.target))
      /\ e.target \in ToSet(Successors(d, e.source))
  BY <1>1, <1>2, Neighbours
<1>6. Bound(d, e.source, e.target) = e.bound
  <2> DEFINE edges == Out(d, e.source) \cap In(d, e.target)
  <2>1. \A i \in edges : i = k
    BY <1>1, <1>2 DEF Out, In
  <2>2. edges = {k}
    BY <1>2, <2>1
  <2>3. (CHOOSE i \in edges : \A j \in edges : j <= i) = k
    BY <1>2, <2>2
  <2> QED BY <1>1, <2>3 DEF Bound
<1> QED BY <1>3, <1>4, <1>5, <1>6

LEMMA GivenFacts ==
  ASSUME SolverInv
  PROVE  /\ WellBuilt(dag)
         /\ Nodes \subseteq Nat \ {0}
         /\ \A n \in Nodes : Residual(n) \in Int
         /\ \A s \in Ids(dag) : StageOf(s).demand \in Nat
         /\ \A order \in {dag.stages, TopologicalSort(dag)} :
              order \in Seq(Ids(dag)) /\ Ids(dag) \subseteq ToSet(order) /\ IsInjective(order)
         /\ \A e \in ToSet(dag.edges) :
              /\ e.source \in Ids(dag) /\ e.target \in Ids(dag) \ {e.source}
              /\ e.source \in ToSet(Predecessors(dag, e.target))
              /\ e.target \in ToSet(Successors(dag, e.source))
              /\ Bound(dag, e.source, e.target) = e.bound
<1>1. nodes \in Seq(ToSet(nodes)) /\ \A node \in ToSet(nodes) : node.capacity \in Nat /\ node.load \in Nat
  BY ProblemsAssumption DEF SolverInv
<1>2. Nodes = 1..Len(nodes) /\ \A n \in Nodes : nodes[n] \in ToSet(nodes)
  BY <1>1 DEF Nodes, ToSet
<1>3. \A n \in Nodes : Residual(n) \in Int
  BY <1>1, <1>2 DEF Residual
<1>4. Nodes \subseteq Nat \ {0}
  BY <1>2
<1>5. \A s \in Ids(dag) : StageOf(s).demand \in Nat
  BY ProblemsAssumption DEF SolverInv, StageOf
<1>6. /\ WellBuilt(dag)
      /\ \A i, j \in DOMAIN dag.edges :
           dag.edges[i].source = dag.edges[j].source /\ dag.edges[i].target = dag.edges[j].target
             => i = j
  BY EdgesAssumption DEF SolverInv
<1>7. dag.stages \in Seq(Ids(dag)) /\ Ids(dag) \subseteq ToSet(dag.stages) /\ IsInjective(dag.stages)
  BY <1>6 DEF WellBuilt, Ids
<1>8. /\ TopologicalSort(dag) \in Seq(Ids(dag)) /\ Ids(dag) \subseteq ToSet(TopologicalSort(dag))
      /\ IsInjective(TopologicalSort(dag))
  <2> DEFINE order == TopologicalSort(dag)
  <2>1. /\ order \in Seq(Ids(dag)) /\ Len(order) = Len(dag.stages) /\ ToSet(order) = Ids(dag)
        /\ \A i, j \in 1..Len(dag.stages) : order[i] = order[j] => i = j
    BY <1>6, SortFacts
  <2>2. DOMAIN order = 1..Len(dag.stages)
    BY <2>1
  <2> HIDE DEF order
  <2>3. IsInjective(order)
    BY <2>1, <2>2 DEF IsInjective
  <2> QED BY <2>1, <2>3 DEF order
<1> QED BY <1>3, <1>4, <1>5, <1>6, <1>7, <1>8, EdgesAreFound

LEMMA InitialData ==
  ASSUME PlacementInit
  PROVE  /\ WellBuilt(dag)
         /\ \A order \in {dag.stages, TopologicalSort(dag)} :
              order \in Seq(Ids(dag)) /\ Ids(dag) \subseteq ToSet(order)
         /\ \A e \in ToSet(dag.edges) : e.source \in Ids(dag)
<1>1. WellBuilt(dag)
  BY EdgesAssumption DEF PlacementInit
<1>2. dag.stages \in Seq(Ids(dag)) /\ Ids(dag) \subseteq ToSet(dag.stages)
  BY <1>1 DEF WellBuilt, Ids
<1>3. TopologicalSort(dag) \in Seq(Ids(dag)) /\ Ids(dag) \subseteq ToSet(TopologicalSort(dag))
  BY <1>1, SortFacts
<1> QED BY <1>1, <1>2, <1>3 DEF WellBuilt

LEMMA PlacementInitial == PlacementInit => SolverInv
<1> SUFFICES ASSUME PlacementInit
             PROVE  SolverInv
  OBVIOUS
<1>1. /\ problem \in Problems /\ dag = Pipeline(problem) /\ nodes = Topology(problem)
      /\ phase = "placing"
      /\ todo \in {dag.stages, TopologicalSort(dag)}
      /\ placement = [s \in Ids(dag) |-> 0]
      /\ committed = [n \in Nodes |-> 0]
  BY DEF PlacementInit
<1>2. todo \in Seq(Ids(dag)) /\ Ids(dag) \subseteq ToSet(todo)
  BY <1>1, InitialData
<1>3. \A s \in Ids(dag) : ~Placed(s)
  BY <1>1 DEF Placed
<1>4. \A e \in ToSet(dag.edges) : ~Placed(e.source)
  BY <1>1, <1>3, InitialData
<1> QED BY <1>1, <1>2, <1>3, <1>4 DEF SolverInv, LoopInv

\* Whatever a strategy prefers, it picks from the nodes that passed its checks.
LEMMA ChoicesAreChecked ==
  ASSUME NEW s
  PROVE  /\ \A n \in GreedyChoice(s) : n \in Nodes /\ Feasible(s, n)
         /\ \A n \in LatencyChoice(s) \cup LocalityChoice(s) \cup SpilloverChoice(s) : n \in Roomy(s)
         /\ \A d : \A n \in DomainChoice(s, d) : n \in Nodes /\ Fits(s, n)
<1>1. GreedyChoice(s) \subseteq {n \in Nodes : Feasible(s, n)}
  BY DEF GreedyChoice, Cheapest, Earliest
<1>2. LatencyChoice(s) \subseteq Roomy(s)
  BY DEF LatencyChoice, Cheapest, Earliest
<1>3. LocalityChoice(s) \subseteq Roomy(s)
  BY DEF LocalityChoice, Earliest
<1>4. SpilloverChoice(s) \subseteq Roomy(s)
  BY <1>3 DEF SpilloverChoice, Earliest
<1>5. ASSUME NEW d
      PROVE  DomainChoice(s, d) \subseteq {n \in Nodes : Fits(s, n)}
  BY DEF DomainChoice, Cheapest, Earliest
<1> QED BY <1>1, <1>2, <1>3, <1>4, <1>5

\* A node that was never used in this round is checked on its own.
LEMMA FeasibleFits ==
  ASSUME SolverInv, LoopInv, NEW s \in Ids(dag), NEW n \in Nodes, Feasible(s, n)
  PROVE  Fits(s, n) /\ FeasibleAlone(s, n)
<1>1. committed[n] \in Nat /\ Residual(n) \in Int /\ StageOf(s).demand \in Nat
  BY GivenFacts DEF LoopInv
<1>2. StageOf(s).demand <= Residual(n) /\ (committed[n] > 0 => Fits(s, n))
  BY DEF Feasible, FeasibleAlone
<1>3. FeasibleAlone(s, n)
  BY DEF Feasible
<1> QED BY <1>1, <1>2, <1>3 DEF Fits

LEMMA HeadAndTail ==
  ASSUME NEW S, NEW seq \in Seq(S), seq # <<>>
  PROVE  /\ Head(seq) \in S
         /\ Tail(seq) \in Seq(S)
         /\ ToSet(seq) \subseteq {Head(seq)} \cup ToSet(Tail(seq))
<1>1. /\ Head(seq) \in S /\ Head(seq) = seq[1]
      /\ Tail(seq) \in Seq(S) /\ Len(Tail(seq)) = Len(seq) - 1
      /\ Len(seq) \in Nat
      /\ \A i \in 1..Len(Tail(seq)) : Tail(seq)[i] = seq[i + 1]
  OBVIOUS
<1>2. ASSUME NEW i \in 1..Len(seq), i # 1
      PROVE  \E k \in 1..Len(Tail(seq)) : Tail(seq)[k] = seq[i]
  <2>1. i - 1 \in 1..Len(Tail(seq)) /\ (i - 1) + 1 = i
    BY <1>1, <1>2
  <2> QED BY <1>1, <2>1
<1>3. ToSet(seq) = {seq[i] : i \in 1..Len(seq)}
  <2>1. DOMAIN seq = 1..Len(seq)
    OBVIOUS
  <2> QED BY <2>1 DEF ToSet
<1>4. ToSet(Tail(seq)) = {Tail(seq)[k] : k \in 1..Len(Tail(seq))}
  <2>1. DOMAIN Tail(seq) = 1..Len(Tail(seq))
    OBVIOUS
  <2> QED BY <2>1 DEF ToSet
<1> QED BY <1>1, <1>2, <1>3, <1>4

\* The first stage of the loop goes to a node that it fits.
LEMMA PutStep ==
  ASSUME SolverInv, solver # "tree", todo # <<>>, phase # "failed", phase # "placed",
         UNCHANGED <<given, phase>>, todo' = Tail(todo),
         NEW n \in Nodes, Put(Head(todo), n), Fits(Head(todo), n),
         solver # "market" => FeasibleAlone(Head(todo), n),
         solver = "greedy" => Feasible(Head(todo), n)
  PROVE  SolverInv'
<1> DEFINE s == Head(todo)
<1>0. LoopInv
  BY DEF SolverInv
<1>1. s \in Ids(dag) /\ todo' \in Seq(Ids(dag)) /\ ToSet(todo) \subseteq {s} \cup ToSet(todo')
  BY <1>0, HeadAndTail DEF LoopInv
<1>2. /\ dag' = dag /\ problem' = problem /\ nodes' = nodes /\ solver' = solver /\ phase' = phase
      /\ placement' = [placement EXCEPT ![s] = n]
      /\ committed' = [committed EXCEPT ![n] = @ + StageOf(s).demand]
  BY DEF given, Put
<1> HIDE DEF s
<1>3. placement' \in [Ids(dag) -> {0} \cup Nodes] /\ placement'[s] = n /\ n # 0
      /\ \A t \in Ids(dag) : t # s => placement'[t] = placement[t]
  BY <1>0, <1>1, <1>2, GivenFacts DEF LoopInv
<1>4. \A t \in Ids(dag) : Placed(t)' <=> t = s \/ Placed(t)
  BY <1>1, <1>3 DEF Placed
<1>5. /\ committed' \in [Nodes -> Nat]
      /\ \A m \in Nodes : committed'[m] > 0 => committed'[m] <= Residual(m)
  <2>1. committed[n] \in Nat /\ StageOf(s).demand \in Nat /\ Residual(n) \in Int
        /\ committed \in [Nodes -> Nat]
    BY <1>0, <1>1, GivenFacts DEF LoopInv
  <2>2. committed[n] + StageOf(s).demand <= Residual(n)
    BY <2>1 DEF Fits, s
  <2> QED BY <1>0, <1>2, <2>1, <2>2 DEF LoopInv
<1>6. \A m \in Nodes : Residual(m)' = Residual(m)
  BY <1>2 DEF Residual
<1>7. \A t \in Ids(dag) : \A m : FeasibleAlone(t, m)' = FeasibleAlone(t, m)
  BY <1>2, <1>6 DEF FeasibleAlone, StageOf, Domain, Residual
<1>8. Nodes' = Nodes
  BY <1>2 DEF Nodes
<1>9. solver # "market" => \A t \in Ids(dag) : Placed(t)' => FeasibleAlone(t, placement[t])'
  <2>1. solver # "market" => \A t \in Ids(dag) : Placed(t)' => FeasibleAlone(t, placement'[t])
    BY <1>0, <1>1, <1>3, <1>4 DEF LoopInv, s
  <2> QED BY <1>2, <2>1 DEF FeasibleAlone, StageOf, Domain, Residual
<1>10. solver = "greedy" =>
         \A e \in ToSet(dag.edges) : Placed(e.source)' /\ Placed(e.target)' => Holds(e)'
  <2> SUFFICES ASSUME solver = "greedy", NEW e \in ToSet(dag.edges),
                      Placed(e.source)', Placed(e.target)'
               PROVE  Holds(e)'
    OBVIOUS
  <2>1. /\ e.source \in Ids(dag) /\ e.target \in Ids(dag) /\ e.source # e.target
        /\ e.source \in ToSet(Predecessors(dag, e.target))
        /\ e.target \in ToSet(Successors(dag, e.source))
    BY GivenFacts
  <2>2. Feasible(s, n)
    BY DEF s
  <2>3. EdgeHolds(e.source, e.target, placement'[e.source], placement'[e.target])
    <3>1. CASE e.target = s
      <4>1. Placed(e.source) /\ placement'[e.source] = placement[e.source]
        BY <1>3, <1>4, <2>1, <3>1
      <4> QED BY <1>3, <2>1, <2>2, <3>1, <4>1 DEF Feasible
    <3>2. CASE e.source = s
      <4>1. Placed(e.target) /\ placement'[e.target] = placement[e.target]
        BY <1>3, <1>4, <2>1, <3>2
      <4> QED BY <1>3, <2>1, <2>2, <3>2, <4>1 DEF Feasible
    <3>3. CASE e.source # s /\ e.target # s
      BY <1>0, <1>3, <1>4, <2>1, <3>3 DEF LoopInv, Holds
    <3> QED BY <3>1, <3>2, <3>3
  <2> QED BY <1>2, <2>3 DEF Holds, EdgeHolds, Latency, Trusted, Trust, Domain
<1> QED BY <1>0, <1>1, <1>2, <1>3, <1>4, <1>5, <1>6, <1>8, <1>9, <1>10 DEF SolverInv, LoopInv

\* Without a node for its first stage, or without a stage, the loop is over.
LEMMA EndStep ==
  ASSUME SolverInv, solver # "tree", UNCHANGED <<given, placement, committed>>,
         \/ phase' = "failed" /\ todo' \in {todo, Tail(todo)} /\ (todo' # todo => todo # <<>>)
         \/ phase' = "placed" /\ phase = "placing" /\ todo = <<>> /\ todo' = todo
  PROVE  SolverInv'
<1>1. LoopInv
  BY DEF SolverInv
<1>2. /\ dag' = dag /\ problem' = problem /\ nodes' = nodes /\ solver' = solver
      /\ placement' = placement /\ committed' = committed
  BY DEF given
<1>3. todo' \in Seq(Ids(dag))
  BY <1>1, HeadAndTail DEF LoopInv
<1>4. \A s \in Ids(dag) : Placed(s)' = Placed(s)
  BY <1>2 DEF Placed
<1>5. \A e \in ToSet(dag.edges) : Holds(e)' = Holds(e) /\ Placed(e.source)' = Placed(e.source)
                                   /\ Placed(e.target)' = Placed(e.target)
  BY <1>2 DEF Holds, EdgeHolds, Latency, Trusted, Trust, Domain, Placed
<1>6. \A s \in Ids(dag) : FeasibleAlone(s, placement[s])' = FeasibleAlone(s, placement[s])
  BY <1>2 DEF FeasibleAlone, StageOf, Domain, Residual
<1>7. Nodes' = Nodes /\ \A n \in Nodes : Residual(n)' = Residual(n)
  BY <1>2 DEF Nodes, Residual
<1>8. phase' # "failed" => todo' = todo /\ phase # "failed"
  OBVIOUS
<1>9. phase' = "placed" => todo' = <<>>
  OBVIOUS
<1>10. phase' \notin {"tracing", "traced", "spreading"}
  OBVIOUS
<1> QED BY <1>1, <1>2, <1>3, <1>4, <1>5, <1>6, <1>7, <1>8, <1>9, <1>10 DEF SolverInv, LoopInv

\* A stage of a loop that picks among checked nodes.
LEMMA PlaceStep ==
  ASSUME SolverInv, solver \notin {"tree", "market"}, phase = "placing", todo # <<>>, UNCHANGED given,
         NEW choice, PlaceOn(choice),
         \A n \in choice : n \in Nodes /\ Fits(Head(todo), n) /\ FeasibleAlone(Head(todo), n),
         solver = "greedy" => \A n \in choice : Feasible(Head(todo), n)
  PROVE  SolverInv'
<1>1. CASE \E n \in choice : Put(Head(todo), n) /\ UNCHANGED phase
  BY <1>1, PutStep DEF PlaceOn
<1>2. CASE phase' = "failed" /\ UNCHANGED <<placement, committed>>
  BY <1>2, EndStep DEF PlaceOn
<1> QED BY <1>1, <1>2 DEF PlaceOn

LEMMA MarketStep ==
  ASSUME SolverInv, MarketPlacement
  PROVE  SolverInv'
<1> DEFINE s == Head(todo)
<1>1. solver = "market" /\ phase = "placing" /\ todo # <<>> /\ UNCHANGED given /\ todo' = Tail(todo)
  BY DEF MarketPlacement, Placing
<1>2. PICK d : \/ \E n \in DomainChoice(s, d) : Put(s, n) /\ UNCHANGED phase
               \/ phase' = "failed" /\ UNCHANGED <<placement, committed>>
  BY DEF MarketPlacement
<1>3. CASE \E n \in DomainChoice(s, d) : Put(s, n) /\ UNCHANGED phase
  <2>1. PICK n \in DomainChoice(s, d) : Put(s, n) /\ UNCHANGED phase
    BY <1>3
  <2>2. n \in Nodes /\ Fits(s, n)
    BY ChoicesAreChecked
  <2> QED BY <1>1, <2>1, <2>2, PutStep
<1>4. CASE phase' = "failed" /\ UNCHANGED <<placement, committed>>
  BY <1>1, <1>4, EndStep
<1> QED BY <1>2, <1>3, <1>4

LEMMA PlacementStep ==
  ASSUME SolverInv, [PlacementNext]_placementVars
  PROVE  SolverInv'
<1> DEFINE s == Head(todo)
<1>1. CASE GreedyPlacement
  <2>1. solver = "greedy" /\ phase = "placing" /\ todo # <<>> /\ LoopInv /\ UNCHANGED given
    BY <1>1 DEF GreedyPlacement, Placing, SolverInv
  <2>2. s \in Ids(dag)
    BY <2>1, HeadAndTail DEF LoopInv
  <2>3. \A n \in GreedyChoice(s) : n \in Nodes /\ Feasible(s, n) /\ Fits(s, n) /\ FeasibleAlone(s, n)
    BY <2>1, <2>2, ChoicesAreChecked, FeasibleFits
  <2> QED BY <1>1, <2>1, <2>3, PlaceStep DEF GreedyPlacement
<1>2. ASSUME NEW choice, PlaceOn(choice), UNCHANGED given, phase = "placing", todo # <<>>,
             solver \notin {"tree", "market", "greedy"}, \A n \in choice : n \in Roomy(s)
      PROVE  SolverInv'
  <2>1. \A n \in choice : n \in Nodes /\ Fits(s, n) /\ FeasibleAlone(s, n)
    BY <1>2 DEF Roomy
  <2> QED BY <1>2, <2>1, PlaceStep
<1>3. CASE LatencyGreedyPlacement
  BY <1>2, <1>3, ChoicesAreChecked DEF LatencyGreedyPlacement, Placing
<1>4. CASE LocalityPlacement
  BY <1>2, <1>4, ChoicesAreChecked DEF LocalityPlacement, Placing
<1>5. CASE SpilloverPlacement
  BY <1>2, <1>5, ChoicesAreChecked DEF SpilloverPlacement, Placing
<1>6. CASE MarketPlacement
  BY <1>6, MarketStep
<1>7. CASE DpRow \/ DpSink
  <2>1. solver = "tree" /\ UNCHANGED given
    BY <1>7 DEF DpRow, DpSink, Placing
  <2> QED BY <2>1 DEF SolverInv, given
<1>8. CASE Trace \/ DpTraced \/ SpreadSiblings \/ MoveSibling
  <2>1. solver = "tree" /\ UNCHANGED given
    BY <1>8 DEF Trace, DpTraced, SpreadSiblings, MoveSibling, SolverInv
  <2> QED BY <2>1 DEF SolverInv, given
<1>9. CASE Return
  <2>1. CASE solver = "tree"
    BY <1>9, <2>1 DEF Return, SolverInv, given
  <2>2. CASE solver # "tree"
    BY <1>9, <2>2, EndStep DEF Return
  <2> QED BY <2>1, <2>2
<1>10. CASE UNCHANGED placementVars
  <2>1. UNCHANGED <<dag, problem, nodes, solver, phase, todo, placement, committed>>
    BY <1>10 DEF placementVars, solverVars
  <2>2. LoopInv' = LoopInv
    BY <2>1 DEF LoopInv, Holds, EdgeHolds, Latency, Trusted, Trust, Domain, Placed, FeasibleAlone,
                StageOf, Residual, Nodes
  <2> QED BY <2>1, <2>2 DEF SolverInv
<1> QED BY <1>1, <1>3, <1>4, <1>5, <1>6, <1>7, <1>8, <1>9, <1>10 DEF PlacementNext

LEMMA PlacementInvariance == PlacementSpec => []SolverInv
<1>1. PlacementInit => SolverInv
  BY PlacementInitial
<1>2. SolverInv /\ [PlacementNext]_placementVars => SolverInv'
  BY PlacementStep
<1> QED BY <1>1, <1>2, PTL DEF PlacementSpec

\* For any pipelines and topologies: with every strategy but the DP no node is
\* given more in one round than what was left of it.  (committed_load)
THEOREM NeverOvercommitsHolds == PlacementSpec => []NeverOvercommits
<1>1. SolverInv => NeverOvercommits
  BY DEF SolverInv, LoopInv, NeverOvercommits
<1> QED BY <1>1, PlacementInvariance, PTL

\* The greedy loop looks at the edges to the stages placed so far, and ends with
\* every edge within its latency bound and between domains that trust each
\* other.  (_is_node_feasible; check_feasibility, constraint 2)
THEOREM GreedyKeepsEdges == PlacementSpec => [](solver = "greedy" => FoundPlacementKeepsEdges)
<1>1. ASSUME SolverInv, solver = "greedy", phase = "placed"
      PROVE  EdgesHold(placement)
  <2>1. LoopInv
    BY <1>1 DEF SolverInv
  <2>2. \A s \in Ids(dag) : Placed(s)
    <3>1. ToSet(todo) = {}
      BY <1>1, <2>1 DEF LoopInv, ToSet
    <3> QED BY <1>1, <2>1, <3>1 DEF LoopInv
  <2>3. \A e \in ToSet(dag.edges) : Holds(e) /\ Bound(dag, e.source, e.target) = e.bound
    BY <1>1, <2>1, <2>2, GivenFacts DEF LoopInv
  <2> QED BY <2>3 DEF EdgesHold, Holds, EdgeHolds
<1>2. SolverInv => (solver = "greedy" => FoundPlacementKeepsEdges)
  BY <1>1 DEF FoundPlacementKeepsEdges
<1> QED BY <1>2, PlacementInvariance, PTL

-----------------------------------------------------------------------------
(* Prices are numbers. *)

\* One stage per pipeline is asked for, so the price is that of the cheapest bid.
LEMMA ClearingPriceIsABid ==
  ASSUME NEW bids, IsFiniteSet(DOMAIN bids), DOMAIN bids # {}, bids \in [DOMAIN bids -> Nat]
  PROVE  ClearingPrice(bids, 1) \in Nat
<1> DEFINE bidders == DOMAIN bids
           supply == Cardinality(bidders)
           k == IF 1 < supply THEN 1 ELSE supply
           Cheaper(b) == {c \in bidders : bids[c] <= bids[b]}
           enough == {b \in bidders : k <= Cardinality(Cheaper(b))}
           prices == {bids[b] : b \in enough}
<1>1. k = 1
  BY FS_CardinalityType, FS_EmptySet
<1>2. ASSUME NEW b \in bidders
      PROVE  1 <= Cardinality(Cheaper(b))
  <2>1. Cheaper(b) \in SUBSET bidders /\ b \in Cheaper(b)
    OBVIOUS
  <2>2. IsFiniteSet(Cheaper(b))
    BY <2>1, FS_Subset
  <2>3. Cardinality(Cheaper(b)) \in Nat /\ Cardinality(Cheaper(b)) # 0
    BY <2>1, <2>2, FS_CardinalityType, FS_EmptySet
  <2> HIDE DEF Cheaper
  <2> QED BY <2>3
<1>3. ClearingPrice(bids, 1) = CHOOSE p \in prices : \A b \in enough : p <= bids[b]
  BY DEF ClearingPrice
<1> HIDE DEF k, Cheaper
<1>4. enough = bidders
  BY <1>1, <1>2
<1>5. prices \subseteq Nat /\ prices # {}
  BY <1>4
<1>6. \A b \in enough : bids[b] \in prices
  OBVIOUS
<1> HIDE DEF prices, enough
<1>7. PICK p \in prices : \A q \in prices : p <= q
  BY <1>5, LeastPlace
<1>8. \A b \in enough : p <= bids[b]
  BY <1>6, <1>7
<1> QED BY <1>3, <1>5, <1>8

LEMMA BidsAreNumbers ==
  ASSUME NEW w, w.bid \in Nat, w.load \in Nat, w.capacity \in Nat \ {0}
  PROVE  BidCost(w) \in Nat
<1>1. ASSUME NEW bid \in Nat, NEW load \in Nat, NEW capacity \in Nat \ {0},
             100 * load <= 99 * capacity
      PROVE  (bid * capacity) \div (capacity - load) \in Nat
  <2> DEFINE a == bid * capacity
             b == capacity - load
  <2>1. a \in Nat
    OBVIOUS
  <2>2. b \in Nat \ {0}
    BY <1>1
  <2> HIDE DEF a, b
  <2>3. a \div b \in Nat
    BY <2>1, <2>2
  <2> QED BY <2>3 DEF a, b
<1>2. 100 * w.bid \in Nat
  OBVIOUS
<1>3. 100 * w.load > 99 * w.capacity \/ 100 * w.load <= 99 * w.capacity
  OBVIOUS
<1> QED BY <1>1, <1>2, <1>3 DEF BidCost

LEMMA PricesAreNumbers ==
  ASSUME SolverInv, NEW s, NEW d
  PROVE  StagePrice(s, d) \in Int
<1>1. /\ Infinity \in Nat /\ problem.wan \in Nat
      /\ problem.peerPrices \in [DOMAIN problem.peerPrices -> Nat]
      /\ problem.workers \in Seq(ToSet(problem.workers))
      /\ \A w \in ToSet(problem.workers) : w.bid \in Nat /\ w.load \in Nat /\ w.capacity \in Nat \ {0}
  BY MarketAssumption DEF SolverInv
<1>2. ASSUME d \in OwnDomains
      PROVE  OwnPrice(d) \in Nat
  <2> DEFINE n == Len(problem.workers)
             B == {i \in DOMAIN problem.workers : problem.workers[i].domain = d}
             bids == [i \in B |-> BidCost(problem.workers[i])]
  <2>1. n \in Nat /\ DOMAIN problem.workers = 1..n
    BY <1>1
  <2>2. IsFiniteSet(B)
    <3>1. IsFiniteSet(1..n)
      BY <2>1, FS_Interval
    <3>2. B \in SUBSET (1..n)
      BY <2>1
    <3> QED BY <3>1, <3>2, FS_Subset
  <2>3. B # {}
    BY <1>2 DEF OwnDomains, ToSet
  <2>4. ASSUME NEW i \in B
        PROVE  BidCost(problem.workers[i]) \in Nat
    <3>1. problem.workers[i] \in ToSet(problem.workers)
      BY DEF ToSet
    <3> QED BY <1>1, <3>1, BidsAreNumbers
  <2>5. bids \in [B -> Nat]
    BY <2>4
  <2>6. ClearingPrice(bids, 1) \in Nat
    <3> HIDE DEF bids, B
    <3>1. DOMAIN bids = B
      BY <2>5
    <3> QED BY <2>2, <2>3, <2>5, <3>1, ClearingPriceIsABid
  <2> QED BY <2>6 DEF OwnPrice
<1>3. ASSUME NEW type
      PROVE  Price(d, type) \in Nat
  <2>1. d \in PricedDomains /\ d \notin OwnDomains => problem.peerPrices[d] \in Nat
    BY <1>1 DEF PricedDomains
  <2> QED BY <1>1, <1>2, <2>1 DEF Price
<1> QED BY <1>1, <1>3 DEF StagePrice

-----------------------------------------------------------------------------
(***************************************************************************)
(* The ledgers of a round: what is committed on a node is the demand of    *)
(* the stages that are on it, and the cost is the price of each stage      *)
(* where it is.                                                            *)
(***************************************************************************)
Bookings(p, n) ==
  [i \in DOMAIN dag.stages |-> IF p[dag.stages[i]] = n THEN StageOf(dag.stages[i]).demand ELSE 0]
Charges(p) ==
  [i \in DOMAIN dag.stages |->
     IF p[dag.stages[i]] # 0 THEN StagePrice(dag.stages[i], Domain(p[dag.stages[i]])) ELSE 0]

LedgerInv ==
  /\ IsInjective(todo)
  /\ \A s \in ToSet(todo) : ~Placed(s)
  /\ \A n \in Nodes : committed[n] = Total(Bookings(placement, n), Len(dag.stages))
  /\ solver = "market" => cost = Total(Charges(placement), Len(dag.stages))
  /\ solver = "market" /\ phase = "placed" => AcceptsCost(dag, cost)

\* The stages are listed once, and the terms of the sums are numbers.
LEMMA TermsAreNumbers ==
  ASSUME SolverInv
  PROVE  /\ Len(dag.stages) \in Nat /\ DOMAIN dag.stages = 1..Len(dag.stages)
         /\ \A i \in 1..Len(dag.stages) : dag.stages[i] \in Ids(dag)
         /\ \A s \in Ids(dag) : \E i \in 1..Len(dag.stages) : dag.stages[i] = s
         /\ \A i, j \in 1..Len(dag.stages) : dag.stages[i] = dag.stages[j] => i = j
         /\ \A p, n : Bookings(p, n) \in [1..Len(dag.stages) -> Int]
         /\ \A p : Charges(p) \in [1..Len(dag.stages) -> Int]
<1>1. /\ Len(dag.stages) \in Nat /\ DOMAIN dag.stages = 1..Len(dag.stages)
      /\ \A i \in 1..Len(dag.stages) : dag.stages[i] \in Ids(dag)
      /\ \A s \in Ids(dag) : \E i \in 1..Len(dag.stages) : dag.stages[i] = s
      /\ \A i, j \in 1..Len(dag.stages) : dag.stages[i] = dag.stages[j] => i = j
  BY GivenFacts, StageFacts
<1>2. \A s \in Ids(dag) : StageOf(s).demand \in Int
  BY GivenFacts
<1>3. \A p, n : Bookings(p, n) \in [1..Len(dag.stages) -> Int]
  BY <1>1, <1>2 DEF Bookings
<1>4. \A p : Charges(p) \in [1..Len(dag.stages) -> Int]
  BY <1>1, PricesAreNumbers DEF Charges
<1> QED BY <1>1, <1>3, <1>4

LEMMA LedgersStart == PlacementInit /\ SolverInv => LedgerInv
<1> SUFFICES ASSUME PlacementInit, SolverInv
             PROVE  LedgerInv
  OBVIOUS
<1>1. /\ todo \in {dag.stages, TopologicalSort(dag)}
      /\ placement = [s \in Ids(dag) |-> 0] /\ committed = [n \in Nodes |-> 0] /\ cost = 0
      /\ problem \in Problems /\ dag = Pipeline(problem)
      /\ phase = "placing"
  BY DEF PlacementInit
<1>2. IsInjective(todo) /\ ToSet(todo) \subseteq Ids(dag)
  <2>1. IsInjective(todo) /\ todo \in Seq(Ids(dag))
    BY <1>1, GivenFacts
  <2> QED BY <2>1 DEF ToSet
<1>3. \A s \in ToSet(todo) : ~Placed(s)
  BY <1>1, <1>2 DEF Placed
<1>4. ASSUME NEW n \in Nodes
      PROVE  committed[n] = Total(Bookings(placement, n), Len(dag.stages))
  <2>1. n # 0
    BY GivenFacts
  <2>2. \A i \in 1..Len(dag.stages) : Bookings(placement, n)[i] = 0
    BY <1>1, <2>1, TermsAreNumbers DEF Bookings
  <2>3. Total(Bookings(placement, n), Len(dag.stages)) = 0
    BY <2>2, TermsAreNumbers, TotalOfZeros
  <2> QED BY <1>1, <2>3
<1>5. cost = Total(Charges(placement), Len(dag.stages))
  <2>1. \A i \in 1..Len(dag.stages) : Charges(placement)[i] = 0
    BY <1>1, TermsAreNumbers DEF Charges
  <2>2. Total(Charges(placement), Len(dag.stages)) = 0
    BY <2>1, TermsAreNumbers, TotalOfZeros
  <2> QED BY <1>1, <2>2
<1> QED BY <1>1, <1>2, <1>3, <1>4, <1>5 DEF LedgerInv

\* What is left of the list does not have its head.
LEMMA InjectiveTail ==
  ASSUME NEW S, NEW seq \in Seq(S), seq # <<>>, IsInjective(seq)
  PROVE  /\ IsInjective(Tail(seq))
         /\ ToSet(Tail(seq)) \subseteq ToSet(seq) \ {Head(seq)}
         /\ Head(seq) \in ToSet(seq)
<1>1. /\ Len(seq) \in Nat \ {0} /\ DOMAIN seq = 1..Len(seq) /\ Head(seq) = seq[1]
      /\ DOMAIN Tail(seq) = 1..(Len(seq) - 1)
      /\ \A i \in 1..(Len(seq) - 1) : Tail(seq)[i] = seq[i + 1]
  OBVIOUS
<1>2. \A i \in 1..(Len(seq) - 1) : i + 1 \in 1..Len(seq) /\ i + 1 # 1
  BY <1>1
<1>3. \A i, j \in 1..Len(seq) : seq[i] = seq[j] => i = j
  BY <1>1 DEF IsInjective
<1>4. 1 \in 1..Len(seq)
  BY <1>1
<1>5. IsInjective(Tail(seq))
  <2> SUFFICES ASSUME NEW i \in 1..(Len(seq) - 1), NEW j \in 1..(Len(seq) - 1),
                      Tail(seq)[i] = Tail(seq)[j]
               PROVE  i = j
    BY <1>1 DEF IsInjective
  <2>1. i + 1 = j + 1
    BY <1>1, <1>2, <1>3
  <2> QED BY <2>1
<1>6. ASSUME NEW x \in ToSet(Tail(seq))
      PROVE  x \in ToSet(seq) \ {Head(seq)}
  <2>1. PICK i \in 1..(Len(seq) - 1) : x = seq[i + 1]
    BY <1>1 DEF ToSet
  <2> QED BY <1>1, <1>2, <1>3, <1>4, <2>1 DEF ToSet
<1> QED BY <1>1, <1>4, <1>5, <1>6 DEF ToSet

\* A stage that is put on a node is entered in both ledgers.
LEMMA EntryStep ==
  ASSUME SolverInv, LedgerInv, solver # "tree", todo # <<>>, UNCHANGED given, todo' = Tail(todo),
         phase' = "placing", NEW n \in Nodes, Put(Head(todo), n),
         solver = "market" => cost' = cost + StagePrice(Head(todo), Domain(n))
  PROVE  LedgerInv'
<1> DEFINE s == Head(todo)
           size == Len(dag.stages)
<1>0. LoopInv
  BY DEF SolverInv
<1>1. /\ s \in Ids(dag) /\ s \in ToSet(todo) /\ IsInjective(Tail(todo))
      /\ ToSet(Tail(todo)) \subseteq ToSet(todo) \ {s} /\ ToSet(todo) \subseteq Ids(dag)
  <2>1. todo \in Seq(Ids(dag)) /\ IsInjective(todo)
    BY <1>0 DEF LoopInv, LedgerInv
  <2>2. ToSet(todo) \subseteq Ids(dag)
    BY <2>1 DEF ToSet
  <2> QED BY <2>1, <2>2, HeadAndTail, InjectiveTail
<1>2. /\ dag' = dag /\ problem' = problem /\ nodes' = nodes /\ solver' = solver
      /\ placement' = [placement EXCEPT ![s] = n]
      /\ committed' = [committed EXCEPT ![n] = @ + StageOf(s).demand]
  BY DEF given, Put
<1>3. ~Placed(s)
  BY <1>1 DEF LedgerInv
<1> HIDE DEF s
<1>4. placement[s] = 0 /\ n # 0 /\ placement'[s] = n
      /\ \A t \in Ids(dag) : t # s => placement'[t] = placement[t]
  BY <1>0, <1>1, <1>2, <1>3, GivenFacts DEF LoopInv, Placed
<1>5. PICK k \in 1..size : dag.stages[k] = s
  BY <1>1, TermsAreNumbers
<1>6. \A i \in 1..size : dag.stages[i] \in Ids(dag) /\ (i # k => dag.stages[i] # s)
  BY <1>5, TermsAreNumbers
<1>7. size \in Nat /\ DOMAIN dag.stages = 1..size
  BY TermsAreNumbers
<1> HIDE DEF size
<1>8. ASSUME NEW m \in Nodes
      PROVE  committed'[m] = Total(Bookings(placement', m), size)
  <2> DEFINE old == Bookings(placement, m)
             new == Bookings(placement', m)
  <2>1. old \in [1..size -> Int] /\ new \in [1..size -> Int]
    BY TermsAreNumbers DEF size
  <2>2. \A i \in 1..size : i # k => new[i] = old[i]
    BY <1>4, <1>6, <1>7 DEF Bookings
  <2>3. new[k] = (IF n = m THEN StageOf(s).demand ELSE 0) /\ old[k] = 0
    <3>1. m # 0
      BY GivenFacts
    <3> QED BY <1>4, <1>5, <1>7, <3>1 DEF Bookings
  <2> HIDE DEF old, new
  <2>4. Total(old, size) \in Int /\ Total(new, size) = Total(old, size) + new[k] - old[k]
    BY <1>7, <2>1, <2>2, TotalChanges
  <2>5. committed[m] = Total(old, size)
    BY DEF LedgerInv, old, size
  <2>6. StageOf(s).demand \in Nat /\ committed \in [Nodes -> Nat]
    BY <1>0, <1>1, GivenFacts DEF LoopInv
  <2>7. committed'[m] = committed[m] + (IF n = m THEN StageOf(s).demand ELSE 0)
    BY <1>2, <2>6
  <2> QED BY <2>3, <2>4, <2>5, <2>6, <2>7 DEF new
<1>9. ASSUME solver = "market"
      PROVE  cost' = Total(Charges(placement'), size)
  <2> DEFINE old == Charges(placement)
             new == Charges(placement')
  <2>1. old \in [1..size -> Int] /\ new \in [1..size -> Int]
    BY TermsAreNumbers DEF size
  <2>2. \A i \in 1..size : i # k => new[i] = old[i]
    BY <1>4, <1>6, <1>7 DEF Charges
  <2>3. new[k] = StagePrice(s, Domain(n)) /\ old[k] = 0
    BY <1>4, <1>5, <1>7 DEF Charges
  <2> HIDE DEF old, new
  <2>4. Total(old, size) \in Int /\ Total(new, size) = Total(old, size) + new[k] - old[k]
    BY <1>7, <2>1, <2>2, TotalChanges
  <2>5. cost = Total(old, size) /\ cost' = cost + StagePrice(s, Domain(n))
    BY <1>9 DEF LedgerInv, old, size, s
  <2>6. StagePrice(s, Domain(n)) \in Int
    BY PricesAreNumbers
  <2> QED BY <2>3, <2>4, <2>5, <2>6 DEF new
<1>10. IsInjective(todo')
  BY <1>1
<1>11. \A t \in ToSet(todo') : ~Placed(t)'
  <2> SUFFICES ASSUME NEW t \in ToSet(todo')
               PROVE  placement'[t] = 0
    BY DEF Placed
  <2>1. t \in ToSet(todo) /\ t # s /\ t \in Ids(dag)
    BY <1>1
  <2> QED BY <1>4, <2>1 DEF LedgerInv, Placed
<1>12. \A m : Bookings(placement', m) = Bookings(placement, m)'
  BY <1>2 DEF Bookings, StageOf
<1>13. Charges(placement') = Charges(placement)'
  BY <1>2 DEF Charges, StagePrice, Domain, Price, StageOf, OwnDomains, OwnPrice, PricedDomains, BidCost
<1>14. Nodes' = Nodes /\ Len(dag.stages)' = size
  BY <1>2 DEF Nodes, size
<1> QED BY <1>2, <1>8, <1>9, <1>10, <1>11, <1>12, <1>13, <1>14 DEF LedgerInv

\* Where nothing is placed the ledgers stay.
LEMMA LedgersKept ==
  ASSUME SolverInv, LedgerInv, solver # "tree", UNCHANGED <<given, placement, committed, cost>>,
         todo' \in {todo, Tail(todo)}, todo' # todo => todo # <<>>,
         solver = "market" /\ phase' = "placed" => AcceptsCost(dag, cost)
  PROVE  LedgerInv'
<1>1. /\ dag' = dag /\ problem' = problem /\ nodes' = nodes /\ solver' = solver
      /\ placement' = placement /\ committed' = committed /\ cost' = cost
  BY DEF given
<1>2. IsInjective(todo') /\ ToSet(todo') \subseteq ToSet(todo)
  <2>1. todo \in Seq(Ids(dag)) /\ IsInjective(todo)
    BY DEF SolverInv, LoopInv, LedgerInv
  <2> QED BY <2>1, InjectiveTail
<1>3. \A m : Bookings(placement, m)' = Bookings(placement, m)
  BY <1>1 DEF Bookings, StageOf
<1>4. Charges(placement)' = Charges(placement)
  BY <1>1 DEF Charges, StagePrice, Domain, Price, StageOf, OwnDomains, OwnPrice, PricedDomains, BidCost
<1>5. Nodes' = Nodes
  BY <1>1 DEF Nodes
<1> QED BY <1>1, <1>2, <1>3, <1>4, <1>5 DEF LedgerInv, Placed

LEMMA SolverStays ==
  ASSUME [PlacementNext]_placementVars
  PROVE  solver' = solver
BY DEF PlacementNext, GreedyPlacement, LatencyGreedyPlacement, LocalityPlacement,
       SpilloverPlacement, MarketPlacement, DpRow, DpSink, Trace, DpTraced, SpreadSiblings,
       MoveSibling, Return, given, placementVars, solverVars

LEMMA LedgerStep ==
  ASSUME SolverInv, solver # "tree" => LedgerInv, [PlacementNext]_placementVars
  PROVE  (solver # "tree" => LedgerInv)'
<1> SUFFICES ASSUME solver' # "tree"
             PROVE  LedgerInv'
  OBVIOUS
<1>0. solver' = solver
  BY SolverStays
<1>1. LedgerInv /\ solver # "tree"
  BY <1>0
<1>2. ASSUME NEW choice, PlaceOn(choice), choice \subseteq Nodes, UNCHANGED given, todo # <<>>,
             phase = "placing", solver # "market"
      PROVE  LedgerInv'
  <2>1. todo' = Tail(todo) /\ cost' = cost
    BY <1>2 DEF PlaceOn
  <2>2. CASE \E n \in choice : Put(Head(todo), n) /\ UNCHANGED phase
    BY <1>1, <1>2, <2>1, <2>2, EntryStep
  <2>3. CASE phase' = "failed" /\ UNCHANGED <<placement, committed>>
    BY <1>1, <1>2, <2>1, <2>3, LedgersKept
  <2> QED BY <1>2, <2>2, <2>3 DEF PlaceOn
<1>3. CASE GreedyPlacement
  <2>1. GreedyChoice(Head(todo)) \subseteq Nodes
    BY ChoicesAreChecked
  <2> QED BY <1>2, <1>3, <2>1 DEF GreedyPlacement, Placing
<1>4. CASE LatencyGreedyPlacement
  <2>1. LatencyChoice(Head(todo)) \subseteq Nodes
    BY ChoicesAreChecked DEF Roomy
  <2> QED BY <1>2, <1>4, <2>1 DEF LatencyGreedyPlacement, Placing
<1>5. CASE LocalityPlacement
  <2>1. LocalityChoice(Head(todo)) \subseteq Nodes
    BY ChoicesAreChecked DEF Roomy
  <2> QED BY <1>2, <1>5, <2>1 DEF LocalityPlacement, Placing
<1>6. CASE SpilloverPlacement
  <2>1. SpilloverChoice(Head(todo)) \subseteq Nodes
    BY ChoicesAreChecked DEF Roomy
  <2> QED BY <1>2, <1>6, <2>1 DEF SpilloverPlacement, Placing
<1>7. CASE MarketPlacement
  <2> DEFINE s == Head(todo)
  <2>1. todo # <<>> /\ UNCHANGED given /\ todo' = Tail(todo) /\ phase = "placing"
    BY <1>7 DEF MarketPlacement, Placing
  <2>2. PICK d : \/ \E n \in DomainChoice(s, d) :
                      Put(s, n) /\ cost' = cost + StagePrice(s, d) /\ UNCHANGED phase
                 \/ phase' = "failed" /\ UNCHANGED <<placement, committed, cost>>
    BY <1>7 DEF MarketPlacement, Charge
  <2>3. CASE \E n \in DomainChoice(s, d) :
               Put(s, n) /\ cost' = cost + StagePrice(s, d) /\ UNCHANGED phase
    <3>1. PICK n \in DomainChoice(s, d) :
            Put(s, n) /\ cost' = cost + StagePrice(s, d) /\ UNCHANGED phase
      BY <2>3
    <3>2. n \in Nodes /\ Domain(n) = d
      BY DEF DomainChoice, Cheapest, Earliest
    <3> QED BY <1>1, <2>1, <3>1, <3>2, EntryStep
  <2>4. CASE phase' = "failed" /\ UNCHANGED <<placement, committed, cost>>
    BY <1>1, <2>1, <2>4, LedgersKept
  <2> QED BY <2>2, <2>3, <2>4
<1>8. CASE Return
  BY <1>1, <1>8, LedgersKept DEF Return
<1>9. CASE UNCHANGED placementVars
  <2>1. UNCHANGED <<given, placement, committed, cost>> /\ todo' = todo /\ phase' = phase
    BY <1>9 DEF placementVars, solverVars, given
  <2>2. solver = "market" /\ phase' = "placed" => AcceptsCost(dag, cost)
    BY <1>1, <2>1 DEF LedgerInv
  <2> QED BY <1>1, <2>1, <2>2, LedgersKept
<1>10. /\ ~DpRow /\ ~DpSink /\ ~Trace
       /\ ~DpTraced /\ ~SpreadSiblings /\ ~MoveSibling
  BY <1>1 DEF DpRow, DpSink, Placing, Trace, DpTraced, SpreadSiblings, MoveSibling, SolverInv
<1> QED BY <1>3, <1>4, <1>5, <1>6, <1>7, <1>8, <1>9, <1>10 DEF PlacementNext

LEMMA LedgerInvariance == PlacementSpec => [](SolverInv /\ (solver # "tree" => LedgerInv))
<1>1. PlacementInit => SolverInv /\ (solver # "tree" => LedgerInv)
  BY PlacementInitial, LedgersStart
<1>2. SolverInv /\ (solver # "tree" => LedgerInv) /\ [PlacementNext]_placementVars
        => (SolverInv /\ (solver # "tree" => LedgerInv))'
  BY PlacementStep, LedgerStep
<1> QED BY <1>1, <1>2, PTL DEF PlacementSpec

\* When every stage is placed.
LEMMA LoopIsOver ==
  ASSUME SolverInv, solver # "tree", phase = "placed"
  PROVE  LoopInv /\ \A s \in Ids(dag) : Placed(s)
<1>1. LoopInv
  BY DEF SolverInv
<1>2. ToSet(todo) = {}
  BY <1>1 DEF LoopInv, ToSet
<1> QED BY <1>1, <1>2 DEF LoopInv

\* The greedy loop looks at a stage and its placed neighbours, and keeps one
\* number per node; what it returns passes check_feasibility, which adds up the
\* stages of each node and looks at every edge.  (_is_node_feasible)
THEOREM GreedyIsFeasibleHolds == PlacementSpec => []GreedyIsFeasible
<1>1. ASSUME SolverInv, LedgerInv, solver = "greedy", phase = "placed"
      PROVE  CheckFeasibility(placement)
  <2>1. LoopInv /\ \A s \in Ids(dag) : Placed(s)
    BY <1>1, LoopIsOver
  <2>2. CapacityHolds(placement)
    <3> SUFFICES ASSUME NEW n \in Nodes
                 PROVE  Booked(placement)[n] = committed[n]
      BY <2>1 DEF CapacityHolds, LoopInv
    <3>1. Booked(placement)[n] = Total(Bookings(placement, n), Len(dag.stages))
      BY DEF Booked, SumOf, Bookings
    <3> QED BY <1>1, <3>1 DEF LedgerInv
  <2>3. \A s \in Ids(dag) : FeasibleAlone(s, placement[s])
    BY <1>1, <2>1 DEF LoopInv
  <2>4. GovernanceHolds(placement) /\ SliceHolds(placement)
    BY <2>3 DEF FeasibleAlone, GovernanceHolds, SliceHolds
  <2>5. \A e \in ToSet(dag.edges) : Holds(e) /\ Bound(dag, e.source, e.target) = e.bound
    BY <1>1, <2>1, GivenFacts DEF LoopInv
  <2>6. EdgesHold(placement)
    BY <2>5 DEF EdgesHold, Holds, EdgeHolds
  <2> QED BY <2>2, <2>4, <2>6 DEF CheckFeasibility
<1>2. SolverInv /\ (solver # "tree" => LedgerInv) => GreedyIsFeasible
  BY <1>1 DEF GreedyIsFeasible
<1> QED BY <1>2, LedgerInvariance, PTL

\* What the market accepts, it can pay: the cost it accumulated is the sum of the
\* prices of the stages where they ended up, those that fell back on the local
\* domain included.  (the budget check after the market loop)
THEOREM BudgetCoversPlacementHolds == PlacementSpec => []BudgetCoversPlacement
<1>1. ASSUME SolverInv, LedgerInv, solver = "market", phase = "placed"
      PROVE  AcceptsCost(dag, SumOf(LAMBDA s : StagePrice(s, Domain(placement[s])), dag.stages))
  <2> DEFINE prices == [i \in DOMAIN dag.stages |->
                          StagePrice(dag.stages[i], Domain(placement[dag.stages[i]]))]
  <2>1. \A s \in Ids(dag) : placement[s] # 0
    BY <1>1, LoopIsOver DEF Placed
  <2>2. prices = Charges(placement)
    <3>1. \A i \in DOMAIN dag.stages : placement[dag.stages[i]] # 0
      BY <1>1, <2>1, TermsAreNumbers
    <3> QED BY <3>1 DEF Charges
  <2>3. AcceptsCost(dag, Total(Charges(placement), Len(dag.stages)))
    BY <1>1 DEF LedgerInv
  <2>4. AcceptsCost(dag, Total(prices, Len(dag.stages)))
    <3> HIDE DEF prices
    <3> QED BY <2>2, <2>3
  <2> QED BY <2>4 DEF SumOf
<1>2. SolverInv /\ (solver # "tree" => LedgerInv) => BudgetCoversPlacement
  BY <1>1 DEF BudgetCoversPlacement
<1> QED BY <1>2, LedgerInvariance, PTL

-----------------------------------------------------------------------------
(***************************************************************************)
(* The DP on a tree.  A row is filled after those of the predecessors, a   *)
(* finite entry names a node for each of them whose entry is finite, and   *)
(* the way back from the sink only takes such nodes.  The stages that are  *)
(* still to come in a pass are in topological order.                       *)
(***************************************************************************)
IsForward(seq) ==
  \A i, j \in 1..Len(seq) : seq[j] \in ToSet(Successors(dag, seq[i])) => i < j

Reachable(s, n) == n \in Nodes /\ rows[s][n].finite

RowHolds(s) ==
  \A n \in Nodes : Reachable(s, n) =>
    /\ FeasibleAlone(s, n)
    /\ \A u \in ToSet(Predecessors(dag, s)) : Reachable(u, rows[s][n].child[u])

TreeInv ==
  /\ IsTree(dag)
  /\ todo \in Seq(Ids(dag))
  /\ IsForward(todo)
  /\ DOMAIN rows = Ids(dag)
  /\ DOMAIN placement = Ids(dag)
  /\ phase = "placing" =>
       \A s \in Ids(dag) \ ToSet(todo) :
         RowHolds(s) /\ \A u \in ToSet(Predecessors(dag, s)) : u \notin ToSet(todo)
  /\ phase = "tracing" =>
       /\ \A s \in Ids(dag) : RowHolds(s)
       /\ \A s \in Ids(dag) : s \notin ToSet(todo) \/ ToSet(Successors(dag, s)) = {}
                                => Reachable(s, placement[s])
  /\ phase \in {"traced", "spreading", "placed"} =>
       \A s \in Ids(dag) : FeasibleAlone(s, placement[s])

\* A neighbour is the other end of an edge.
LEMMA EndsOfEdges ==
  ASSUME NEW d, WellBuilt(d), NEW s
  PROVE  /\ \A v \in ToSet(Successors(d, s)) : \E k \in 1..Len(d.edges) :
              d.edges[k].source = s /\ d.edges[k].target = v
         /\ \A u \in ToSet(Predecessors(d, s)) : \E k \in 1..Len(d.edges) :
              d.edges[k].source = u /\ d.edges[k].target = s
         /\ Successors(d, s) = <<>> <=> ToSet(Successors(d, s)) = {}
<1>1. /\ ToSet(Successors(d, s)) = {d.edges[i].target : i \in Out(d, s)}
      /\ ToSet(Predecessors(d, s)) = {d.edges[i].source : i \in In(d, s)}
      /\ Successors(d, s) = <<>> <=> Out(d, s) = {}
  BY Neighbours
<1>2. /\ \A k \in Out(d, s) : k \in 1..Len(d.edges) /\ d.edges[k].source = s
      /\ \A k \in In(d, s) : k \in 1..Len(d.edges) /\ d.edges[k].target = s
  BY EdgeFacts DEF Out, In
<1>3. \A v \in ToSet(Successors(d, s)) : \E k \in Out(d, s) : d.edges[k].target = v
  BY <1>1
<1>4. \A u \in ToSet(Predecessors(d, s)) : \E k \in In(d, s) : d.edges[k].source = u
  BY <1>1
<1>5. Successors(d, s) = <<>> <=> ToSet(Successors(d, s)) = {}
  <2>1. {d.edges[i].target : i \in Out(d, s)} = {} <=> Out(d, s) = {}
    OBVIOUS
  <2> QED BY <1>1, <2>1
<1>6. \A v \in ToSet(Successors(d, s)) : \E k \in 1..Len(d.edges) :
        d.edges[k].source = s /\ d.edges[k].target = v
  BY <1>2, <1>3
<1>7. \A u \in ToSet(Predecessors(d, s)) : \E k \in 1..Len(d.edges) :
        d.edges[k].source = u /\ d.edges[k].target = s
  BY <1>2, <1>4
<1> QED BY <1>5, <1>6, <1>7

\* What the assumptions say of the graph and its sort.
LEMMA GraphFacts ==
  ASSUME SolverInv
  PROVE  /\ TopologicalSort(dag) \in Seq(Ids(dag)) /\ Ids(dag) \subseteq ToSet(TopologicalSort(dag))
         /\ IsForward(TopologicalSort(dag))
         /\ \A s \in Ids(dag) :
              /\ \A u \in ToSet(Predecessors(dag, s)) : u \in Ids(dag) /\ s \in ToSet(Successors(dag, u))
              /\ \A v \in ToSet(Successors(dag, s)) : v \in Ids(dag) /\ s \in ToSet(Predecessors(dag, v))
<1>1. TopologicalSort(dag) \in Seq(Ids(dag)) /\ Ids(dag) \subseteq ToSet(TopologicalSort(dag))
  BY GivenFacts
<1>3. IsForward(TopologicalSort(dag))
  <2> DEFINE order == TopologicalSort(dag)
             n == Len(dag.stages)
  <2>1. /\ WellBuilt(dag) /\ Len(order) = n /\ order \in Seq(Ids(dag))
        /\ \A i, j \in 1..n : order[i] = order[j] => i = j
    BY GivenFacts, SortFacts
  <2> HIDE DEF order, n
  <2>2. ASSUME NEW i \in 1..n, NEW j \in 1..n, order[j] \in ToSet(Successors(dag, order[i]))
        PROVE  i < j
    <3>1. PICK k \in 1..Len(dag.edges) :
            dag.edges[k].source = order[i] /\ dag.edges[k].target = order[j]
      BY <2>1, <2>2, EndsOfEdges
    <3>2. PICK a \in 1..n, b \in 1..n :
            a < b /\ order[a] = dag.edges[k].source /\ order[b] = dag.edges[k].target
      BY <2>1, EdgesLeadForwards DEF order, n
    <3> QED BY <2>1, <3>1, <3>2
  <2>3. IsForward(order)
    BY <2>1, <2>2 DEF IsForward
  <2> QED BY <2>3 DEF order
<1>4. WellBuilt(dag)
  BY GivenFacts
<1>5. \A i \in 1..Len(dag.edges) :
        /\ dag.edges[i].source \in Ids(dag) /\ dag.edges[i].target \in Ids(dag)
        /\ i \in Out(dag, dag.edges[i].source) /\ i \in In(dag, dag.edges[i].target)
  BY <1>4, EdgeFacts DEF Out, In
<1>6. ASSUME NEW s \in Ids(dag), NEW u \in ToSet(Predecessors(dag, s))
      PROVE  u \in Ids(dag) /\ s \in ToSet(Successors(dag, u))
  <2>1. PICK i \in 1..Len(dag.edges) : dag.edges[i].source = u /\ dag.edges[i].target = s
    BY <1>4, <1>6, EndsOfEdges
  <2> QED BY <1>4, <1>5, <2>1, Neighbours
<1>7. ASSUME NEW s \in Ids(dag), NEW v \in ToSet(Successors(dag, s))
      PROVE  v \in Ids(dag) /\ s \in ToSet(Predecessors(dag, v))
  <2>1. PICK i \in 1..Len(dag.edges) : dag.edges[i].source = s /\ dag.edges[i].target = v
    BY <1>4, <1>7, EndsOfEdges
  <2> QED BY <1>4, <1>5, <2>1, Neighbours
<1> QED BY <1>1, <1>3, <1>6, <1>7

\* Whether taken from the front or from the end, what is left is in order; what
\* leads to the first, or follows on the last, is not left.
LEMMA ForwardEnds ==
  ASSUME NEW seq \in Seq(Ids(dag)), seq # <<>>, IsForward(seq)
  PROVE  /\ Head(seq) \in Ids(dag) /\ Tail(seq) \in Seq(Ids(dag)) /\ IsForward(Tail(seq))
         /\ ToSet(seq) = {Head(seq)} \cup ToSet(Tail(seq))
         /\ \A u \in ToSet(seq) : Head(seq) \notin ToSet(Successors(dag, u))
         /\ Last(seq) \in Ids(dag) /\ Front(seq) \in Seq(Ids(dag)) /\ IsForward(Front(seq))
         /\ ToSet(seq) = {Last(seq)} \cup ToSet(Front(seq))
         /\ \A v \in ToSet(Successors(dag, Last(seq))) : v \notin ToSet(seq)
<1> DEFINE n == Len(seq)
<1>1. n \in Nat \ {0} /\ DOMAIN seq = 1..n /\ 1 \in 1..n /\ n \in 1..n
  OBVIOUS
<1>2. Head(seq) = seq[1] /\ Last(seq) = seq[n]
  BY DEF Last
<1>3. /\ Tail(seq) \in Seq(Ids(dag)) /\ Len(Tail(seq)) = n - 1
      /\ \A i \in 1..(n - 1) : Tail(seq)[i] = seq[i + 1]
  OBVIOUS
<1>4. /\ Front(seq) \in Seq(Ids(dag)) /\ Len(Front(seq)) = n - 1
      /\ \A i \in 1..(n - 1) : Front(seq)[i] = seq[i]
  <2>1. Front(seq) = SubSeq(seq, 1, n - 1) /\ 1 \in 1..(n + 1) /\ n - 1 \in 0..n
    BY <1>1 DEF Front
  <2> QED BY <1>1, <2>1, SubSeqProperties
<1>5. \A i, j \in 1..n : seq[j] \in ToSet(Successors(dag, seq[i])) => i < j
  BY DEF IsForward
<1>6. /\ \A i \in 1..(n - 1) : i + 1 \in 1..n /\ i \in 1..n
      /\ \A i \in 1..n : i # n => i \in 1..(n - 1)
  <2> HIDE DEF n
  <2> QED BY <1>1
<1>7. IsForward(Tail(seq))
  <2> SUFFICES ASSUME NEW i \in 1..(n - 1), NEW j \in 1..(n - 1),
                      Tail(seq)[j] \in ToSet(Successors(dag, Tail(seq)[i]))
               PROVE  i < j
    BY <1>3 DEF IsForward
  <2>1. i + 1 < j + 1
    BY <1>3, <1>5, <1>6
  <2> QED BY <2>1
<1>8. IsForward(Front(seq))
  <2> SUFFICES ASSUME NEW i \in 1..(n - 1), NEW j \in 1..(n - 1),
                      Front(seq)[j] \in ToSet(Successors(dag, Front(seq)[i]))
               PROVE  i < j
    BY <1>4 DEF IsForward
  <2> QED BY <1>4, <1>5, <1>6
<1>9. ToSet(seq) = {Head(seq)} \cup ToSet(Tail(seq))
  <2>1. ToSet(seq) \subseteq {Head(seq)} \cup ToSet(Tail(seq))
    BY HeadAndTail
  <2>2. ASSUME NEW i \in 1..(n - 1)
        PROVE  Tail(seq)[i] \in ToSet(seq)
    BY <1>1, <1>3, <1>6 DEF ToSet
  <2>3. DOMAIN Tail(seq) = 1..(n - 1)
    BY <1>1, <1>3
  <2>4. Head(seq) \in ToSet(seq)
    BY <1>1, <1>2 DEF ToSet
  <2> QED BY <2>1, <2>2, <2>3, <2>4 DEF ToSet
<1>10. ToSet(seq) = {Last(seq)} \cup ToSet(Front(seq))
  <2>1. ToSet(seq) = {seq[i] : i \in 1..n}
    BY <1>1 DEF ToSet
  <2>2. ASSUME NEW i \in 1..n, i # n
        PROVE  seq[i] \in ToSet(Front(seq))
    <3>1. i \in 1..(n - 1)
      BY <1>6, <2>2
    <3>2. DOMAIN Front(seq) = 1..(n - 1)
      BY <1>4
    <3>3. Front(seq)[i] = seq[i]
      BY <1>4, <3>1
    <3> QED BY <3>1, <3>2, <3>3 DEF ToSet
  <2>3. \A i \in 1..n : seq[i] = Last(seq) \/ seq[i] \in ToSet(Front(seq))
    BY <1>2, <2>2
  <2>4. ToSet(Front(seq)) \subseteq ToSet(seq)
    <3>1. DOMAIN Front(seq) = 1..(n - 1)
      BY <1>4
    <3> QED BY <1>4, <1>6, <2>1, <3>1 DEF ToSet
  <2>5. Last(seq) \in ToSet(seq)
    BY <1>1, <1>2, <2>1
  <2> QED BY <2>1, <2>3, <2>4, <2>5
<1>11. \A u \in ToSet(seq) : Head(seq) \notin ToSet(Successors(dag, u))
  <2> SUFFICES ASSUME NEW i \in 1..n, seq[1] \in ToSet(Successors(dag, seq[i]))
               PROVE  FALSE
    BY <1>1, <1>2 DEF ToSet
  <2>1. i < 1
    BY <1>1, <1>5
  <2> QED BY <2>1
<1>12. \A v \in ToSet(Successors(dag, Last(seq))) : v \notin ToSet(seq)
  <2> SUFFICES ASSUME NEW j \in 1..n, seq[j] \in ToSet(Successors(dag, seq[n]))
               PROVE  FALSE
    BY <1>1, <1>2 DEF ToSet
  <2>1. n < j
    BY <1>1, <1>5
  <2> QED BY <1>1, <2>1
<1>13. Head(seq) \in Ids(dag) /\ Last(seq) \in Ids(dag)
  BY <1>1, <1>2
<1> QED BY <1>3, <1>4, <1>7, <1>8, <1>9, <1>10, <1>11, <1>12, <1>13

\* What a finite entry stands for when it is made.
LEMMA EntryHolds ==
  ASSUME SolverInv, NEW s, NEW n \in Nodes, Entry(s, n).finite
  PROVE  /\ FeasibleAlone(s, n)
         /\ \A u \in ToSet(Predecessors(dag, s)) : Reachable(u, Entry(s, n).child[u])
<1>2. FeasibleAlone(s, n) /\ \A u \in ToSet(Predecessors(dag, s)) : BestChild(u, s, n) # 0
  BY DEF Entry
<1>3. Entry(s, n).child = [u \in ToSet(Predecessors(dag, s)) |-> BestChild(u, s, n)]
  BY DEF Entry
<1>4. ASSUME NEW u \in ToSet(Predecessors(dag, s))
      PROVE  Reachable(u, BestChild(u, s, n))
  <2> DEFINE best == Cheapest(ChildNodes(u, s, n), LAMBDA m : rows[u][m].cost + EdgeCost(m, n))
  <2>1. best \subseteq ChildNodes(u, s, n)
    BY DEF Cheapest, Earliest
  <2>2. BestChild(u, s, n) = IF best = {} THEN 0 ELSE CHOOSE m \in best : TRUE
    BY DEF BestChild
  <2> HIDE DEF best
  <2>3. BestChild(u, s, n) \in best
    BY <1>2, <2>2
  <2> QED BY <2>1, <2>3 DEF ChildNodes, Reachable
<1> QED BY <1>2, <1>3, <1>4

LEMMA TreeInitial ==
  ASSUME PlacementInit, SolverInv, solver = "tree"
  PROVE  TreeInv
<1>1. /\ todo = TopologicalSort(dag) /\ phase = "placing"
      /\ rows = [s \in Ids(dag) |-> << >>] /\ placement = [s \in Ids(dag) |-> 0]
  BY DEF PlacementInit
<1>2. \A s \in Ids(dag) : s \in ToSet(todo)
  BY <1>1, GraphFacts
<1>3. IsTree(dag)
  BY DEF PlacementInit, FindPlacement, Heuristics
<1> QED BY <1>1, <1>2, <1>3, GraphFacts DEF TreeInv

\* What stays as long as the graph, the nodes and the rows do.
LEMMA RowsStay ==
  ASSUME UNCHANGED <<given, rows>>
  PROVE  /\ \A seq : IsForward(seq)' = IsForward(seq)
         /\ \A s, n : FeasibleAlone(s, n)' = FeasibleAlone(s, n) /\ Reachable(s, n)' = Reachable(s, n)
         /\ \A s : RowHolds(s)' = RowHolds(s)
<1>1. dag' = dag /\ problem' = problem /\ nodes' = nodes /\ solver' = solver /\ rows' = rows
  BY DEF given
<1>2. \A s, n : FeasibleAlone(s, n)' = FeasibleAlone(s, n)
  BY <1>1 DEF FeasibleAlone, StageOf, Residual, Domain
<1>3. \A s, n : Reachable(s, n)' = Reachable(s, n)
  BY <1>1 DEF Reachable, Nodes
<1>4. \A s : RowHolds(s)' = RowHolds(s)
  BY <1>1, <1>2, <1>3 DEF RowHolds, Nodes
<1>5. \A seq : IsForward(seq)' = IsForward(seq)
  BY <1>1 DEF IsForward
<1> QED BY <1>2, <1>3, <1>4, <1>5

LEMMA RowStep ==
  ASSUME SolverInv, TreeInv, DpRow
  PROVE  TreeInv'
<1>0. PICK s : s = Head(todo)
  OBVIOUS
<1>1. /\ phase = "placing" /\ todo # <<>> /\ todo' = Tail(todo) /\ phase' = phase
      /\ rows' = [rows EXCEPT ![s] = [n \in Nodes |-> Entry(s, n)]]
      /\ dag' = dag /\ problem' = problem /\ nodes' = nodes /\ placement' = placement
  BY <1>0 DEF DpRow, Placing, given
<1>2. /\ todo \in Seq(Ids(dag)) /\ IsForward(todo)
      /\ DOMAIN rows = Ids(dag) /\ DOMAIN placement = Ids(dag)
      /\ \A t \in Ids(dag) \ ToSet(todo) :
           RowHolds(t) /\ \A u \in ToSet(Predecessors(dag, t)) : u \notin ToSet(todo)
  BY <1>1 DEF TreeInv
<1>3. /\ s \in Ids(dag) /\ Tail(todo) \in Seq(Ids(dag)) /\ IsForward(Tail(todo))
      /\ ToSet(todo) = {s} \cup ToSet(Tail(todo))
      /\ \A u \in ToSet(todo) : s \notin ToSet(Successors(dag, u))
  BY <1>0, <1>1, <1>2, ForwardEnds
<1>4. /\ rows'[s] = [n \in Nodes |-> Entry(s, n)]
      /\ \A t : t # s => rows'[t] = rows[t]
      /\ DOMAIN rows' = Ids(dag)
  BY <1>1, <1>2, <1>3
<1>5. \A t, n : FeasibleAlone(t, n)' = FeasibleAlone(t, n)
  BY <1>1 DEF FeasibleAlone, StageOf, Residual, Domain
<1>6. \A t : t # s => \A n : Reachable(t, n)' = Reachable(t, n)
  BY <1>1, <1>4 DEF Reachable, Nodes
<1>7. \A t \in Ids(dag) \ ToSet(Tail(todo)) :
        \A u \in ToSet(Predecessors(dag, t)) : u \notin ToSet(todo)
  <2> SUFFICES ASSUME NEW u \in ToSet(Predecessors(dag, s)), u \in ToSet(todo)
               PROVE  FALSE
    BY <1>2, <1>3
  <2> QED BY <1>3, GraphFacts
<1>8. ASSUME NEW t \in Ids(dag) \ ToSet(Tail(todo))
      PROVE  RowHolds(t)'
  <2>1. \A u \in ToSet(Predecessors(dag, t)) : u # s
    BY <1>3, <1>7
  <2>2. CASE t = s
    <3>1. ASSUME NEW n \in Nodes, Reachable(s, n)'
          PROVE  /\ FeasibleAlone(s, n)
                 /\ \A u \in ToSet(Predecessors(dag, s)) : Reachable(u, rows'[s][n].child[u])
      <4>1. rows'[s][n] = Entry(s, n)
        BY <1>4
      <4>2. Entry(s, n).finite
        BY <3>1, <4>1 DEF Reachable
      <4> QED BY <4>1, <4>2, EntryHolds
    <3> QED BY <1>1, <1>5, <1>6, <2>1, <2>2, <3>1 DEF RowHolds, Nodes
  <2>3. CASE t # s
    <3>1. RowHolds(t) /\ rows'[t] = rows[t]
      BY <1>2, <1>3, <1>4, <2>3
    <3> QED BY <1>1, <1>5, <1>6, <2>1, <2>3, <3>1 DEF RowHolds, Nodes
  <2> QED BY <2>2, <2>3
<1>9. IsForward(todo)' /\ IsTree(dag)'
  BY <1>1, <1>3 DEF IsForward, TreeInv
<1>10. \A u \in ToSet(Tail(todo)) : u \in ToSet(todo)
  BY <1>3
<1> QED BY <1>1, <1>2, <1>3, <1>4, <1>7, <1>8, <1>9, <1>10 DEF TreeInv

\* The only sink is where the way back begins.
LEMMA SinkStep ==
  ASSUME SolverInv, TreeInv, DpSink
  PROVE  TreeInv'
<1>1. /\ phase = "placing" /\ todo = <<>> /\ dag' = dag /\ UNCHANGED <<given, rows>>
  BY DEF DpSink, given, dpVars
<1>2. /\ DOMAIN rows = Ids(dag) /\ DOMAIN placement = Ids(dag) /\ IsTree(dag)
      /\ \A s \in Ids(dag) : RowHolds(s)
  <2>1. ToSet(todo) = {}
    BY <1>1 DEF ToSet
  <2> QED BY <1>1, <2>1 DEF TreeInv
<1>3. \A s \in Ids(dag) : ToSet(Successors(dag, s)) = {} <=> s = Root
  <2>1. PICK s \in Ids(dag) : Sinks(dag) = {s}
    BY <1>2 DEF IsTree
  <2>2. Root = s
    BY <2>1 DEF Root
  <2>3. \A t \in Ids(dag) : Successors(dag, t) = <<>> <=> ToSet(Successors(dag, t)) = {}
    BY GivenFacts, EndsOfEdges
  <2> QED BY <2>1, <2>2, <2>3 DEF Sinks
<1>4. CASE phase' = "failed" /\ UNCHANGED <<placement, todo>>
  BY <1>1, <1>2, <1>4, RowsStay DEF TreeInv
<1>5. CASE phase' = "tracing" /\ todo' = TopologicalSort(dag)
           /\ \E n \in Nodes : /\ rows[Root][n].finite
                               /\ placement' = [placement EXCEPT ![Root] = n]
  <2>1. PICK n \in Nodes : /\ rows[Root][n].finite
                           /\ placement' = [placement EXCEPT ![Root] = n]
    BY <1>5
  <2>2. DOMAIN placement' = Ids(dag)
    BY <1>2, <2>1
  <2>3. \A s \in Ids(dag) : s \notin ToSet(todo') \/ ToSet(Successors(dag, s)) = {}
                              => Reachable(s, placement'[s])
    BY <1>2, <1>3, <1>5, <2>1, GraphFacts DEF Reachable
  <2>4. /\ todo' \in Seq(Ids(dag)) /\ IsForward(todo')
    BY <1>5, GraphFacts
  <2> QED BY <1>1, <1>2, <1>5, <2>2, <2>3, <2>4, RowsStay DEF TreeInv, IsForward
<1>6. ASSUME NEW n \in Cheapest({m \in Nodes : rows[Root][m].finite},
                                LAMBDA m : rows[Root][m].cost)
      PROVE  n \in Nodes /\ rows[Root][n].finite
  BY DEF Cheapest, Earliest
<1> QED BY <1>4, <1>5, <1>6 DEF DpSink

LEMMA TraceStep ==
  ASSUME SolverInv, TreeInv, Trace
  PROVE  TreeInv'
<1> DEFINE s == Last(todo)
           out == ToSet(Successors(dag, s))
           v == CHOOSE t \in out : TRUE
<1>1. /\ phase = "tracing" /\ todo # <<>> /\ dag' = dag /\ UNCHANGED <<given, rows, phase>>
      /\ todo' = Front(todo)
      /\ placement' = IF out = {} THEN placement
                      ELSE [placement EXCEPT ![s] = rows[v][placement[v]].child[s]]
  BY DEF Trace, given, dpVars
<1>2. /\ todo \in Seq(Ids(dag)) /\ IsForward(todo) /\ IsTree(dag)
      /\ DOMAIN rows = Ids(dag) /\ DOMAIN placement = Ids(dag)
      /\ \A t \in Ids(dag) : RowHolds(t)
      /\ \A t \in Ids(dag) : t \notin ToSet(todo) \/ ToSet(Successors(dag, t)) = {}
                              => Reachable(t, placement[t])
  BY <1>1 DEF TreeInv
<1>3. /\ s \in Ids(dag) /\ Front(todo) \in Seq(Ids(dag)) /\ IsForward(Front(todo))
      /\ ToSet(todo) \subseteq {s} \cup ToSet(Front(todo))
      /\ \A t \in out : t \notin ToSet(todo)
  BY <1>1, <1>2, ForwardEnds
<1>4. DOMAIN placement' = Ids(dag)
  BY <1>1, <1>2
<1>5. out # {} => Reachable(s, placement'[s])
  <2> SUFFICES ASSUME out # {}
               PROVE  Reachable(s, rows[v][placement[v]].child[s])
    BY <1>1, <1>2, <1>3
  <2>1. v \in out
    OBVIOUS
  <2> HIDE DEF v
  <2>2. v \in Ids(dag) /\ s \in ToSet(Predecessors(dag, v)) /\ v \notin ToSet(todo)
    BY <1>3, <2>1, GraphFacts
  <2>3. Reachable(v, placement[v]) /\ RowHolds(v)
    BY <1>2, <2>2
  <2> QED BY <2>2, <2>3 DEF RowHolds, Reachable
<1>6. out = {} => Reachable(s, placement'[s])
  BY <1>1, <1>2, <1>3
<1> HIDE DEF s, out, v
<1>7. ASSUME NEW t \in Ids(dag), t \notin ToSet(todo') \/ ToSet(Successors(dag, t)) = {}
      PROVE  Reachable(t, placement'[t])
  <2>1. CASE t = s
    BY <1>5, <1>6, <2>1
  <2>2. CASE t # s
    <3>1. placement'[t] = placement[t]
      BY <1>1, <1>2, <2>2
    <3>2. t \notin ToSet(todo) \/ ToSet(Successors(dag, t)) = {}
      BY <1>1, <1>3, <1>7, <2>2
    <3> QED BY <1>2, <3>1, <3>2
  <2> QED BY <2>1, <2>2
<1>8. IsForward(todo')
  BY <1>1, <1>3
<1> QED BY <1>1, <1>2, <1>3, <1>4, <1>7, <1>8, RowsStay DEF TreeInv, IsForward

\* With all stages traced, each is where it may be; moving keeps that.
LEMMA SpreadStep ==
  ASSUME SolverInv, TreeInv, DpTraced \/ SpreadSiblings \/ MoveSibling
  PROVE  TreeInv'
<1>1. dag' = dag /\ UNCHANGED <<given, rows>>
  BY DEF DpTraced, SpreadSiblings, MoveSibling, given, dpVars
<1>2. todo' \in Seq(Ids(dag)) /\ IsForward(todo') /\ phase' \in {"traced", "spreading"}
  <2>1. CASE DpTraced
    BY <2>1, GraphFacts DEF DpTraced
  <2>2. CASE SpreadSiblings
    BY <2>2, ForwardEnds DEF SpreadSiblings, TreeInv
  <2>3. CASE MoveSibling
    BY <2>3 DEF MoveSibling, TreeInv
  <2> QED BY <2>1, <2>2, <2>3
<1>3. DOMAIN placement = Ids(dag) /\ \A s \in Ids(dag) : FeasibleAlone(s, placement[s])
  <2>1. CASE DpTraced
    <3>1. phase = "tracing" /\ ToSet(todo) = {}
      BY <2>1 DEF DpTraced, ToSet
    <3>2. \A s \in Ids(dag) : Reachable(s, placement[s]) /\ RowHolds(s)
      BY <3>1 DEF TreeInv
    <3> QED BY <3>2 DEF TreeInv, RowHolds, Reachable
  <2>2. CASE SpreadSiblings
    BY <2>2 DEF SpreadSiblings, TreeInv
  <2>3. CASE MoveSibling
    BY <2>3 DEF MoveSibling, TreeInv
  <2> QED BY <2>1, <2>2, <2>3
<1>4. DOMAIN placement' = Ids(dag) /\ \A s \in Ids(dag) : FeasibleAlone(s, placement'[s])
  <2>1. CASE UNCHANGED placement
    BY <1>3, <2>1
  <2>2. CASE MoveSibling /\ ~UNCHANGED placement
    <3>1. PICK n \in Spare(Head(movers), placement[Head(movers)]) :
            placement' = [placement EXCEPT ![Head(movers)] = n]
      BY <2>2 DEF MoveSibling
    <3>2. FeasibleAlone(Head(movers), n)
      BY <3>1 DEF Spare, Cheapest, Earliest
    <3> QED BY <1>3, <3>1, <3>2
  <2> QED BY <2>1, <2>2 DEF DpTraced, SpreadSiblings
<1> QED BY <1>1, <1>2, <1>4, RowsStay DEF TreeInv, IsForward

LEMMA TreeStep ==
  ASSUME SolverInv, solver = "tree" => TreeInv, [PlacementNext]_placementVars
  PROVE  (solver = "tree" => TreeInv)'
<1> SUFFICES ASSUME solver' = "tree"
             PROVE  TreeInv'
  OBVIOUS
<1>1. solver = "tree" /\ TreeInv
  BY SolverStays
<1>2. CASE DpRow
  BY <1>1, <1>2, RowStep
<1>3. CASE DpSink
  BY <1>1, <1>3, SinkStep
<1>4. CASE Trace
  BY <1>1, <1>4, TraceStep
<1>5. CASE DpTraced \/ SpreadSiblings \/ MoveSibling
  BY <1>1, <1>5, SpreadStep
<1>6. CASE Return
  <2>1. /\ UNCHANGED <<given, rows, placement, todo>> /\ dag' = dag
        /\ phase = "spreading" /\ phase' = "placed"
    BY <1>1, <1>6 DEF Return, given, dpVars
  <2> QED BY <1>1, <2>1, RowsStay DEF TreeInv
<1>7. CASE UNCHANGED placementVars
  <2>1. UNCHANGED <<given, rows, placement, todo, phase>> /\ dag' = dag
    BY <1>7 DEF placementVars, solverVars, dpVars, given
  <2> QED BY <1>1, <2>1, RowsStay DEF TreeInv
<1> QED BY <1>1, <1>2, <1>3, <1>4, <1>5, <1>6, <1>7
        DEF PlacementNext, GreedyPlacement, LatencyGreedyPlacement, LocalityPlacement,
            SpilloverPlacement, MarketPlacement, Placing

\* With every strategy, the DP and its spreading of siblings included, a pipeline
\* that is placed has every stage in its domain and on a slice that takes it; the
\* market is not told of either.  (_is_node_feasible_simple)
THEOREM PlacedWhereAllowedHolds == PlacementSpec => []PlacedWhereAllowed
<1> DEFINE PlacedInv == SolverInv /\ (solver = "tree" => TreeInv)
<1>1. PlacementInit => PlacedInv
  BY PlacementInitial, TreeInitial
<1>2. PlacedInv /\ [PlacementNext]_placementVars => PlacedInv'
  BY PlacementStep, TreeStep
<1>3. PlacedInv => PlacedWhereAllowed
  <2> SUFFICES ASSUME PlacedInv, phase = "placed", solver # "market"
               PROVE  GovernanceHolds(placement) /\ SliceHolds(placement)
    BY DEF PlacedWhereAllowed
  <2>1. \A s \in Ids(dag) : FeasibleAlone(s, placement[s])
    <3>1. CASE solver = "tree"
      BY <3>1 DEF TreeInv
    <3>2. CASE solver # "tree"
      BY <3>2, LoopIsOver DEF LoopInv
    <3> QED BY <3>1, <3>2
  <2> QED BY <2>1 DEF FeasibleAlone, GovernanceHolds, SliceHolds
<1> QED BY <1>1, <1>2, <1>3, PTL DEF PlacementSpec

-----------------------------------------------------------------------------
(***************************************************************************)
(* What the DP finds is the cheapest.  Every row is what the rows of the   *)
(* predecessors make it, and the way back from the sink follows the        *)
(* choices written there.  Summed over the stages, the cost of an entry    *)
(* is counted once more for each edge that leaves its stage, which in a    *)
(* tree is once for all stages but the sink: what remains of the sums is   *)
(* the entry of the sink on one side, and the cost of the whole on the     *)
(* other.                                                                  *)
(***************************************************************************)
\* What the edges to a stage bring, and what those from it do.
Into(d, w, s) == [j \in 1..Len(d.edges) |-> IF d.edges[j].target = s THEN w[j] ELSE 0]
From(d, w, s) == [j \in 1..Len(d.edges) |-> IF d.edges[j].source = s THEN w[j] ELSE 0]

LEMMA EdgesByStage ==
  ASSUME NEW d, WellBuilt(d), NEW w \in [1..Len(d.edges) -> Int]
  PROVE  /\ Total([i \in 1..Len(d.stages) |-> Total(Into(d, w, d.stages[i]), Len(d.edges))],
                  Len(d.stages)) = Total(w, Len(d.edges))
         /\ Total([i \in 1..Len(d.stages) |-> Total(From(d, w, d.stages[i]), Len(d.edges))],
                  Len(d.stages)) = Total(w, Len(d.edges))
<1> DEFINE n == Len(d.stages)
           m == Len(d.edges)
           to == [j \in 1..m |-> CHOOSE i \in 1..n : d.stages[i] = d.edges[j].target]
           by == [j \in 1..m |-> CHOOSE i \in 1..n : d.stages[i] = d.edges[j].source]
<1>1. /\ n \in Nat /\ \A i, j \in 1..n : d.stages[i] = d.stages[j] => i = j
      /\ \A s \in Ids(d) : \E i \in 1..n : d.stages[i] = s
  BY StageFacts
<1>2. m \in Nat /\ \A j \in 1..m : d.edges[j].source \in Ids(d) /\ d.edges[j].target \in Ids(d)
  BY EdgeFacts
<1> HIDE DEF n, m
<1>3. \A j \in 1..m : /\ to[j] \in 1..n /\ d.stages[to[j]] = d.edges[j].target
                      /\ by[j] \in 1..n /\ d.stages[by[j]] = d.edges[j].source
  BY <1>1, <1>2
<1>4. to \in [1..m -> 1..n] /\ by \in [1..m -> 1..n] /\ w \in [1..m -> Int]
  BY <1>3 DEF m
<1> HIDE DEF to, by
<1>5. \A i \in 1..n : /\ Group(to, w, m, i) = Into(d, w, d.stages[i])
                      /\ Group(by, w, m, i) = From(d, w, d.stages[i])
  <2> TAKE i \in 1..n
  <2>1. \A j \in 1..m : /\ to[j] = i <=> d.edges[j].target = d.stages[i]
                        /\ by[j] = i <=> d.edges[j].source = d.stages[i]
    BY <1>1, <1>3
  <2> QED BY <2>1 DEF Group, Into, From, m
<1>6. /\ Groups(to, w, m, n, m) = [i \in 1..n |-> Total(Into(d, w, d.stages[i]), m)]
      /\ Groups(by, w, m, n, m) = [i \in 1..n |-> Total(From(d, w, d.stages[i]), m)]
  BY <1>5 DEF Groups
<1>7. Total(Groups(to, w, m, n, m), n) = Total(w, m) /\ Total(Groups(by, w, m, n, m), n) = Total(w, m)
  BY <1>1, <1>2, <1>4, TotalOfGroups
<1> QED BY <1>6, <1>7 DEF n, m

\* Every stage of a tree but its root is the source of one edge.
LEMMA SourcesOfTree ==
  ASSUME NEW d, WellBuilt(d), IsTree(d), NEW root, Sinks(d) = {root}, NEW c \in [Ids(d) -> Int]
  PROVE  Total([i \in 1..Len(d.stages) |-> c[d.stages[i]]], Len(d.stages))
           = Total([j \in 1..Len(d.edges) |-> c[d.edges[j].source]], Len(d.edges)) + c[root]
<1> DEFINE n == Len(d.stages)
           m == Len(d.edges)
           w == [j \in 1..m |-> c[d.edges[j].source]]
           all == [i \in 1..n |-> c[d.stages[i]]]
           sent == [i \in 1..n |-> Total(From(d, w, d.stages[i]), m)]
<1>1. /\ n \in Nat /\ \A i, j \in 1..n : d.stages[i] = d.stages[j] => i = j
      /\ \A s \in Ids(d) : \E i \in 1..n : d.stages[i] = s
      /\ \A i \in 1..n : d.stages[i] \in Ids(d)
  BY StageFacts
<1>2. /\ m \in Nat /\ \A j \in 1..m : d.edges[j].source \in Ids(d)
      /\ \A s : Out(d, s) = {j \in 1..m : d.edges[j].source = s}
  BY EdgeFacts DEF Out
<1>3. root \in Ids(d) /\ \A s \in Ids(d) : s = root <=> Out(d, s) = {}
  BY Neighbours DEF Sinks
<1> HIDE DEF n, m
<1>4. w \in [1..m -> Int] /\ all \in [1..n -> Int]
  BY <1>1, <1>2
<1>5. Total(sent, n) = Total(w, m)
  BY <1>4, EdgesByStage DEF n, m
<1>6. \A j \in 1..m : w[j] = c[d.edges[j].source] /\ w[j] \in Int
  BY <1>4
<1> HIDE DEF w
<1>7. \A s : From(d, w, s) \in [1..m -> Int]
             /\ \A j \in 1..m : From(d, w, s)[j] = IF d.edges[j].source = s THEN w[j] ELSE 0
  BY <1>6 DEF From, m
<1>8. ASSUME NEW s \in Ids(d)
      PROVE  Total(From(d, w, s), m) = IF s = root THEN 0 ELSE c[s]
  <2>1. CASE s = root
    <3>1. \A j \in 1..m : From(d, w, s)[j] = 0
      BY <1>2, <1>3, <1>7, <2>1
    <3> QED BY <1>2, <1>7, <2>1, <3>1, TotalOfZeros
  <2>2. CASE s # root
    <3>0. Out(d, s) # {} /\ Out(d, s) = {j \in 1..m : d.edges[j].source = s}
      BY <1>2, <1>3, <2>2
    <3>1. PICK k \in 1..m : d.edges[k].source = s
      BY <3>0
    <3>2. ASSUME NEW j \in 1..m, j # k
          PROVE  d.edges[j].source # s
      <4>1. \A i \in Out(d, s) : i = k
        BY <3>0, <3>1, OneEdgeLeaves
      <4> QED BY <3>0, <3>2, <4>1
    <3>3. From(d, w, s)[k] = c[s] /\ \A j \in 1..m : j # k => From(d, w, s)[j] = 0
      BY <1>6, <1>7, <3>1, <3>2
    <3>4. Total(From(d, w, s), m) = From(d, w, s)[k]
      BY <1>2, <1>7, <3>3, TotalOfOne
    <3> QED BY <2>2, <3>3, <3>4
  <2> QED BY <2>1, <2>2
<1>9. PICK r \in 1..n : d.stages[r] = root
  BY <1>1, <1>3
<1>10. \A i \in 1..n : sent[i] = IF i = r THEN 0 ELSE c[d.stages[i]]
  BY <1>1, <1>8, <1>9
<1>11. /\ sent \in [1..n -> Int] /\ sent[r] = 0 /\ all[r] = c[root]
       /\ \A i \in 1..n : i # r => all[i] = sent[i]
  <2>1. \A i \in 1..n : sent[i] \in Int
    BY <1>1, <1>10
  <2> QED BY <1>9, <1>10, <2>1
<1>12. c[root] \in Int
  BY <1>3
<1> HIDE DEF sent, all
<1>13. Total(sent, n) \in Int /\ Total(all, n) = Total(sent, n) + all[r] - sent[r]
  <2>1. n \in Nat /\ r \in 1..n /\ all \in [1..n -> Int] /\ sent \in [1..n -> Int]
        /\ \A i \in 1..n : i # r => all[i] = sent[i]
    BY <1>1, <1>4, <1>9, <1>11
  <2> QED BY <2>1, TotalChanges
<1>14. Total(all, n) = Total(w, m) + c[root]
  BY <1>5, <1>11, <1>12, <1>13
<1> QED BY <1>14 DEF all, w, n, m

\* Costs are natural numbers, and a latency is the same both ways.
LEMMA CostFacts ==
  ASSUME SolverInv
  PROVE  /\ \A s \in Ids(dag), n \in Nodes : StageCost(s, n) \in Nat
         /\ \A m, n \in Nodes : EdgeCost(m, n) \in Nat
         /\ \A m, n : Latency(m, n) = Latency(n, m)
<1>1. /\ problem \in Problems /\ dag = Pipeline(problem) /\ nodes = Topology(problem)
  BY DEF SolverInv
<1>2. /\ Unit \in Nat /\ problem.alpha \in Nat /\ problem.beta \in Nat /\ problem.gamma \in Nat
      /\ \A n \in Nodes : nodes[n].capacity \in Nat /\ nodes[n].capacity # 0
  <2>1. nodes \in Seq(ToSet(nodes)) /\ \A node \in ToSet(nodes) : node.capacity \in Nat /\ node.capacity # 0
    BY <1>1, ProblemsAssumption, CostsAssumption
  <2>2. \A n \in Nodes : nodes[n] \in ToSet(nodes)
    BY <2>1 DEF Nodes, ToSet
  <2> QED BY <1>1, <2>1, <2>2, CostsAssumption
<1>3. \A s \in Ids(dag) : StageOf(s).demand \in Nat
  BY GivenFacts
<1>4. ASSUME NEW a \in Nat, NEW b \in Nat
      PROVE  a * b \in Nat
  BY <1>4
<1>5. ASSUME NEW s \in Ids(dag), NEW n \in Nodes
      PROVE  StageCost(s, n) \in Nat
  <2>1. Unit * StageOf(s).demand \in Nat
    BY <1>2, <1>3, <1>4
  <2>2. ASSUME NEW a \in Nat, NEW b \in Nat, b # 0
        PROVE  a \div b \in Nat
    BY <2>2
  <2>3. LoadRatio(s, n) \in Nat
    BY <1>2, <2>1, <2>2 DEF LoadRatio
  <2> QED BY <1>2, <1>4, <2>3 DEF StageCost
<1>6. ASSUME NEW m \in Nodes, NEW n \in Nodes
      PROVE  EdgeCost(m, n) \in Nat
  <2>1. Latency(m, n) \in Nat /\ Crossing(m, n) \in Nat
    BY DEF Latency, Crossing
  <2>2. problem.alpha * Latency(m, n) \in Nat /\ problem.gamma * Crossing(m, n) \in Nat
    BY <1>2, <1>4, <2>1
  <2>3. problem.alpha * Latency(m, n) + problem.gamma * Crossing(m, n) \in Nat
    BY <2>2
  <2> QED BY <1>2, <1>4, <2>3 DEF EdgeCost
<1>7. \A m, n : Latency(m, n) = Latency(n, m)
  BY DEF Latency
<1> QED BY <1>5, <1>6, <1>7

LEMMA CheapestExists ==
  ASSUME NEW S, S \subseteq Nat, S # {}, NEW f \in [S -> Nat]
  PROVE  \E n \in S : /\ \A m \in S : f[n] <= f[m]
                      /\ \A m \in S : (\A k \in S : f[m] <= f[k]) => n <= m
<1> DEFINE prices == {f[n] : n \in S}
           best == {n \in S : \A m \in S : f[n] <= f[m]}
<1>1. prices \subseteq Nat /\ prices # {}
  OBVIOUS
<1>2. PICK x \in prices : \A y \in prices : x <= y
  BY <1>1, LeastPlace
<1>3. best \subseteq Nat /\ best # {}
  <2>1. PICK n \in S : x = f[n]
    BY <1>2
  <2>2. \A m \in S : f[m] \in prices
    OBVIOUS
  <2>3. n \in best
    BY <1>2, <2>1, <2>2
  <2> QED BY <2>3
<1>4. PICK n \in best : \A m \in best : n <= m
  BY <1>3, LeastPlace
<1> QED BY <1>4

\* The way up from the predecessor u, through m.
Via(u, m, n) == rows[u][m].cost + EdgeCost(m, n)

LEMMA BestChildFacts ==
  ASSUME SolverInv, NEW u, NEW s, NEW n \in Nodes, \A m \in Nodes : rows[u][m].cost \in Nat
  PROVE  IF ChildNodes(u, s, n) = {} THEN BestChild(u, s, n) = 0
         ELSE /\ BestChild(u, s, n) \in ChildNodes(u, s, n) /\ BestChild(u, s, n) # 0
              /\ \A m \in ChildNodes(u, s, n) : Via(u, BestChild(u, s, n), n) <= Via(u, m, n)
<1> DEFINE kids == ChildNodes(u, s, n)
           price == [m \in kids |-> Via(u, m, n)]
           best == Cheapest(kids, LAMBDA m : rows[u][m].cost + EdgeCost(m, n))
<1>1. kids \subseteq Nodes
  BY DEF ChildNodes
<1>2. BestChild(u, s, n) = IF best = {} THEN 0 ELSE CHOOSE m \in best : TRUE
  BY DEF BestChild
<1>3. best = {k \in {m \in kids : \A j \in kids : Via(u, m, n) <= Via(u, j, n)} :
                \A j \in {m \in kids : \A i \in kids : Via(u, m, n) <= Via(u, i, n)} : k <= j}
  BY DEF Cheapest, Earliest, Via
<1> HIDE DEF best
<1>4. CASE kids = {}
  BY <1>2, <1>3, <1>4
<1>5. CASE kids # {}
  <2>1. kids \subseteq Nat /\ \A m \in kids : m # 0
    BY <1>1, GivenFacts
  <2>2. \A m \in kids : Via(u, m, n) \in Nat
    <3> TAKE m \in kids
    <3>1. rows[u][m].cost \in Nat /\ EdgeCost(m, n) \in Nat
      BY <1>1, CostFacts
    <3> QED BY <3>1 DEF Via
  <2> HIDE DEF kids
  <2>3. price \in [kids -> Nat] /\ \A m \in kids : price[m] = Via(u, m, n)
    BY <2>2
  <2> HIDE DEF price
  <2>4. PICK k \in kids : /\ \A m \in kids : price[k] <= price[m]
                          /\ \A m \in kids : (\A j \in kids : price[m] <= price[j]) => k <= m
    BY <1>5, <2>1, <2>3, CheapestExists
  <2>5. k \in best
    BY <1>3, <2>3, <2>4
  <2>6. BestChild(u, s, n) \in best
    BY <1>2, <2>5
  <2>7. BestChild(u, s, n) \in kids
        /\ \A m \in kids : Via(u, BestChild(u, s, n), n) <= Via(u, m, n)
    BY <1>3, <2>6
  <2>8. BestChild(u, s, n) # 0
    BY <2>1, <2>7
  <2> QED BY <1>5, <2>7, <2>8 DEF kids
<1> QED BY <1>4, <1>5

-----------------------------------------------------------------------------
\* What reaches s on n over the edges, with its predecessors where p has them.
Passed(s, n, p) ==
  [j \in 1..Len(dag.edges) |->
     IF dag.edges[j].target = s THEN Via(dag.edges[j].source, p[dag.edges[j].source], n) ELSE 0]

\* An entry of the table is what the entries of the predecessors make it.
EntryIsRight(e, s, n) ==
  /\ e.cost \in Nat
  /\ e.finite <=> /\ FeasibleAlone(s, n)
                  /\ \A u \in ToSet(Predecessors(dag, s)) : ChildNodes(u, s, n) # {}
  /\ e.finite =>
       /\ e.cost = StageCost(s, n) + Total(Passed(s, n, e.child), Len(dag.edges))
       /\ \A u \in ToSet(Predecessors(dag, s)) :
            /\ e.child[u] \in ChildNodes(u, s, n)
            /\ \A m \in ChildNodes(u, s, n) : Via(u, e.child[u], n) <= Via(u, m, n)

RowIsRight(s) == \A n \in Nodes : EntryIsRight(rows[s][n], s, n)

LEMMA PassedIsNat ==
  ASSUME SolverInv, NEW s \in Ids(dag), NEW n \in Nodes, NEW p,
         \A u \in ToSet(Predecessors(dag, s)) : p[u] \in Nodes /\ rows[u][p[u]].cost \in Nat
  PROVE  /\ \A j \in 1..Len(dag.edges) : Passed(s, n, p)[j] \in Nat
         /\ Total(Passed(s, n, p), Len(dag.edges)) \in Nat
<1>1. /\ WellBuilt(dag) /\ Len(dag.edges) \in Nat
      /\ \A j \in 1..Len(dag.edges) : j \in In(dag, dag.edges[j].target)
  BY GivenFacts, EdgeFacts DEF In
<1>2. ASSUME NEW j \in 1..Len(dag.edges)
      PROVE  Passed(s, n, p)[j] \in Nat
  <2>1. CASE dag.edges[j].target = s
    <3> DEFINE u == dag.edges[j].source
    <3>1. u \in ToSet(Predecessors(dag, s))
      BY <1>1, <2>1, Neighbours
    <3> HIDE DEF u
    <3>2. p[u] \in Nodes /\ rows[u][p[u]].cost \in Nat
      BY <3>1
    <3>3. EdgeCost(p[u], n) \in Nat
      BY <3>2, CostFacts
    <3>4. Via(u, p[u], n) \in Nat
      BY <3>2, <3>3 DEF Via
    <3> QED BY <2>1, <3>4 DEF Passed, u
  <2>2. CASE dag.edges[j].target # s
    BY <2>2 DEF Passed
  <2> QED BY <2>1, <2>2
<1>3. Total(Passed(s, n, p), Len(dag.edges)) \in Nat
  BY <1>1, <1>2, TotalIsNat
<1> QED BY <1>2, <1>3

LEMMA EntryFacts ==
  ASSUME SolverInv, NEW s \in Ids(dag), NEW n \in Nodes,
         \A u \in ToSet(Predecessors(dag, s)) : \A m \in Nodes : rows[u][m].cost \in Nat
  PROVE  EntryIsRight(Entry(s, n), s, n)
<1> DEFINE e == Entry(s, n)
           preds == ToSet(Predecessors(dag, s))
           child == [u \in preds |-> BestChild(u, s, n)]
           sum == SumOf(LAMBDA i : IF i.target # s THEN 0
                          ELSE rows[i.source][child[i.source]].cost
                                 + EdgeCost(child[i.source], n), dag.edges)
<1>1. e.child = child
  BY DEF Entry
<1>2. e.finite <=> FeasibleAlone(s, n) /\ \A u \in preds : BestChild(u, s, n) # 0
  BY DEF Entry
<1>3. e.cost = IF e.finite THEN StageCost(s, n) + sum ELSE 0
  BY DEF Entry
<1>4. \A u \in preds :
        IF ChildNodes(u, s, n) = {} THEN BestChild(u, s, n) = 0
        ELSE /\ BestChild(u, s, n) \in ChildNodes(u, s, n) /\ BestChild(u, s, n) # 0
             /\ \A m \in ChildNodes(u, s, n) : Via(u, BestChild(u, s, n), n) <= Via(u, m, n)
  BY BestChildFacts
<1>5. sum = Total(Passed(s, n, e.child), Len(dag.edges))
  <2>1. DOMAIN dag.edges = 1..Len(dag.edges)
    BY GivenFacts, EdgeFacts
  <2> DEFINE f == [i \in DOMAIN dag.edges |->
                    IF dag.edges[i].target # s THEN 0
                    ELSE rows[dag.edges[i].source][child[dag.edges[i].source]].cost
                           + EdgeCost(child[dag.edges[i].source], n)]
  <2>2. sum = Total(f, Len(dag.edges))
    BY DEF SumOf
  <2> HIDE DEF child
  <2>3. f = Passed(s, n, child)
    BY <2>1 DEF Passed, Via
  <2> HIDE DEF f, sum
  <2> QED BY <1>1, <2>2, <2>3
<1> HIDE DEF e, sum
<1>6. e.finite <=> FeasibleAlone(s, n) /\ \A u \in preds : ChildNodes(u, s, n) # {}
  BY <1>2, <1>4
<1>7. ASSUME e.finite, NEW u \in preds
      PROVE  /\ e.child[u] \in ChildNodes(u, s, n) /\ e.child[u] \in Nodes
             /\ rows[u][e.child[u]].cost \in Nat
             /\ \A m \in ChildNodes(u, s, n) : Via(u, e.child[u], n) <= Via(u, m, n)
  <2>1. e.child[u] = BestChild(u, s, n) /\ ChildNodes(u, s, n) # {}
    BY <1>1, <1>6, <1>7
  <2>2. e.child[u] \in ChildNodes(u, s, n)
        /\ \A m \in ChildNodes(u, s, n) : Via(u, e.child[u], n) <= Via(u, m, n)
    BY <1>4, <2>1
  <2> QED BY <2>2 DEF ChildNodes
<1>8. e.cost \in Nat
  <2>1. CASE e.finite
    <3>1. sum \in Nat
      BY <1>5, <1>7, <2>1, PassedIsNat
    <3>2. StageCost(s, n) \in Nat
      BY CostFacts
    <3> QED BY <1>3, <2>1, <3>1, <3>2
  <2>2. CASE ~e.finite
    BY <1>3, <2>2
  <2> QED BY <2>1, <2>2
<1>9. EntryIsRight(e, s, n)
  BY <1>3, <1>5, <1>6, <1>7, <1>8 DEF EntryIsRight
<1> QED BY <1>9 DEF e

\* A row is right as long as the rows it was made from are what they were.
LEMMA RowStays ==
  ASSUME SolverInv, UNCHANGED given, NEW s,
         \A u \in ToSet(Predecessors(dag, s)) : rows'[u] = rows[u],
         \A n \in Nodes : EntryIsRight(rows'[s][n], s, n)
  PROVE  RowIsRight(s)'
<1>1. dag' = dag /\ problem' = problem /\ nodes' = nodes
  BY DEF given
<1>2. Nodes' = Nodes
  BY <1>1 DEF Nodes
<1>3. \A m, n : Latency(m, n)' = Latency(m, n) /\ Domain(n)' = Domain(n)
  BY <1>1 DEF Latency, Domain
<1>4. \A d, e : Trusted(d, e)' = Trusted(d, e)
  BY <1>1 DEF Trusted, Trust
<1>5. \A n : FeasibleAlone(s, n)' = FeasibleAlone(s, n) /\ StageCost(s, n)' = StageCost(s, n)
  BY <1>1 DEF FeasibleAlone, StageOf, Residual, Domain, StageCost, LoadRatio
<1>6. \A m, n : EdgeCost(m, n)' = EdgeCost(m, n)
  BY <1>1, <1>3 DEF EdgeCost, Crossing
<1>7. \A u \in ToSet(Predecessors(dag, s)) : \A n :
        ChildNodes(u, s, n)' = ChildNodes(u, s, n) /\ \A m : Via(u, m, n)' = Via(u, m, n)
  BY <1>1, <1>2, <1>3, <1>4, <1>6 DEF ChildNodes, Via
<1>8. \A n, p : Passed(s, n, p)' = Passed(s, n, p)
  <2> TAKE n, p
  <2>1. \A j \in 1..Len(dag.edges) :
          dag.edges[j].target = s => dag.edges[j].source \in ToSet(Predecessors(dag, s))
    <3>1. WellBuilt(dag) /\ \A j \in 1..Len(dag.edges) : j \in In(dag, dag.edges[j].target)
      BY GivenFacts, EdgeFacts DEF In
    <3> QED BY <3>1, Neighbours
  <2> QED BY <1>1, <1>7, <2>1 DEF Passed
<1> QED BY <1>1, <1>2, <1>5, <1>7, <1>8 DEF RowIsRight, EntryIsRight

-----------------------------------------------------------------------------
RootIsCheapest ==
  /\ Reachable(Root, placement[Root])
  /\ \A n \in Nodes : rows[Root][n].finite => rows[Root][placement[Root]].cost <= rows[Root][n].cost

\* The predecessor u is where s wants it.
Follows(s, u) == placement[u] = rows[s][placement[s]].child[u]

DpInv ==
  /\ placement \in [Ids(dag) -> {0} \cup Nodes]
  /\ \A s \in Ids(dag) : (phase = "placing" => s \notin ToSet(todo)) => RowIsRight(s)
  /\ phase = "tracing" =>
       /\ RootIsCheapest
       /\ \A s \in Ids(dag) : \A u \in ToSet(Predecessors(dag, s)) :
            /\ s \in ToSet(todo) => u \in ToSet(todo)
            /\ u \notin ToSet(todo) => Follows(s, u)
  /\ phase = "traced" =>
       /\ RootIsCheapest
       /\ \A s \in Ids(dag) : /\ Reachable(s, placement[s])
                               /\ \A u \in ToSet(Predecessors(dag, s)) : Follows(s, u)
  /\ phase = "failed" => \A n \in Nodes : ~rows[Root][n].finite

LEMMA RootFacts ==
  ASSUME SolverInv, TreeInv
  PROVE  /\ Root \in Ids(dag) /\ Sinks(dag) = {Root}
         /\ \A s \in Ids(dag) : ToSet(Successors(dag, s)) = {} <=> s = Root
<1>1. PICK s \in Ids(dag) : Sinks(dag) = {s}
  BY DEF TreeInv, IsTree
<1>2. Root = s
  BY <1>1 DEF Root
<1>3. \A t \in Ids(dag) : Successors(dag, t) = <<>> <=> ToSet(Successors(dag, t)) = {}
  BY GivenFacts, EndsOfEdges
<1> QED BY <1>1, <1>2, <1>3 DEF Sinks

\* What is said of the rows and the placement stays as long as they do.
LEMMA DpStays ==
  ASSUME SolverInv, UNCHANGED <<given, rows>>
  PROVE  /\ \A s : RowIsRight(s) => RowIsRight(s)'
         /\ Root' = Root /\ Nodes' = Nodes
         /\ \A s, n : Reachable(s, n)' = Reachable(s, n)
         /\ UNCHANGED placement => /\ RootIsCheapest => RootIsCheapest'
                                  /\ \A s, u : Follows(s, u)' = Follows(s, u)
<1>1. dag' = dag /\ nodes' = nodes /\ rows' = rows /\ UNCHANGED given
  BY DEF given
<1>2. \A s : RowIsRight(s) => RowIsRight(s)'
  <2> SUFFICES ASSUME NEW s, RowIsRight(s)
               PROVE  RowIsRight(s)'
    OBVIOUS
  <2>1. \A n \in Nodes : EntryIsRight(rows'[s][n], s, n)
    BY <1>1 DEF RowIsRight
  <2> QED BY <1>1, <2>1, RowStays
<1>3. Root' = Root /\ Nodes' = Nodes
  BY <1>1 DEF Root, Nodes
<1>4. \A s, n : Reachable(s, n)' = Reachable(s, n)
  BY <1>1, <1>3 DEF Reachable
<1>5. ASSUME UNCHANGED placement
      PROVE  /\ RootIsCheapest => RootIsCheapest'
             /\ \A s, u : Follows(s, u)' = Follows(s, u)
  BY <1>1, <1>3, <1>4, <1>5 DEF RootIsCheapest, Follows
<1> QED BY <1>2, <1>3, <1>4, <1>5

LEMMA DpInitial ==
  ASSUME PlacementInit, SolverInv, solver = "tree"
  PROVE  DpInv
<1>1. /\ todo = TopologicalSort(dag) /\ phase = "placing"
      /\ placement = [s \in Ids(dag) |-> 0]
  BY DEF PlacementInit
<1>2. \A s \in Ids(dag) : s \in ToSet(todo)
  BY <1>1, GraphFacts
<1> QED BY <1>1, <1>2 DEF DpInv

LEMMA DpRowStep ==
  ASSUME SolverInv, TreeInv, DpInv, DpRow
  PROVE  DpInv'
<1>0. PICK s : s = Head(todo)
  OBVIOUS
<1>1. /\ phase = "placing" /\ todo # <<>> /\ todo' = Tail(todo) /\ phase' = phase
      /\ rows' = [rows EXCEPT ![s] = [n \in Nodes |-> Entry(s, n)]]
      /\ dag' = dag /\ nodes' = nodes /\ placement' = placement /\ UNCHANGED given
  BY <1>0 DEF DpRow, Placing, given
<1>2. /\ todo \in Seq(Ids(dag)) /\ IsForward(todo) /\ DOMAIN rows = Ids(dag)
      /\ \A t \in Ids(dag) \ ToSet(todo) :
           \A u \in ToSet(Predecessors(dag, t)) : u \notin ToSet(todo)
  BY <1>1 DEF TreeInv
<1>3. /\ s \in Ids(dag) /\ ToSet(todo) = {s} \cup ToSet(Tail(todo))
      /\ \A u \in ToSet(todo) : s \notin ToSet(Successors(dag, u))
  BY <1>0, <1>1, <1>2, ForwardEnds
<1>4. /\ rows'[s] = [n \in Nodes |-> Entry(s, n)]
      /\ \A t : t # s => rows'[t] = rows[t]
  BY <1>1, <1>2, <1>3
<1>5. \A t \in Ids(dag) \ ToSet(Tail(todo)) :
        \A u \in ToSet(Predecessors(dag, t)) : u \in Ids(dag) /\ u \notin ToSet(todo)
  <2> TAKE t \in Ids(dag) \ ToSet(Tail(todo))
  <2> TAKE u \in ToSet(Predecessors(dag, t))
  <2>1. u \in Ids(dag) /\ t \in ToSet(Successors(dag, u))
    BY GraphFacts
  <2>2. CASE t = s
    BY <1>3, <2>1, <2>2
  <2>3. CASE t # s
    BY <1>2, <1>3, <2>1, <2>3
  <2> QED BY <2>2, <2>3
<1>6. \A t \in Ids(dag) \ ToSet(todo) : RowIsRight(t)
  BY <1>1 DEF DpInv
<1>7. ASSUME NEW t \in Ids(dag) \ ToSet(Tail(todo))
      PROVE  RowIsRight(t)'
  <2>1. \A u \in ToSet(Predecessors(dag, t)) : rows'[u] = rows[u]
    BY <1>3, <1>4, <1>5
  <2>2. \A n \in Nodes : EntryIsRight(rows'[t][n], t, n)
    <3>1. CASE t = s
      <4>1. \A u \in ToSet(Predecessors(dag, t)) : RowIsRight(u)
        BY <1>5, <1>6
      <4>2. \A u \in ToSet(Predecessors(dag, t)) : \A m \in Nodes : rows[u][m].cost \in Nat
        BY <4>1 DEF RowIsRight, EntryIsRight
      <4>3. \A n \in Nodes : EntryIsRight(Entry(t, n), t, n)
        BY <4>2, EntryFacts
      <4> QED BY <1>4, <3>1, <4>3
    <3>2. CASE t # s
      BY <1>3, <1>4, <1>6, <3>2 DEF RowIsRight
    <3> QED BY <3>1, <3>2
  <2> QED BY <1>1, <2>1, <2>2, RowStays
<1>8. \A t \in Ids(dag) : t \notin ToSet(todo') => RowIsRight(t)'
  BY <1>1, <1>7
<1>9. phase' = "placing"
  BY <1>1
<1>10. placement' \in [Ids(dag) -> {0} \cup Nodes] /\ Nodes' = Nodes
  BY <1>1 DEF DpInv, Nodes
<1> QED BY <1>1, <1>8, <1>9, <1>10 DEF DpInv

LEMMA DpSinkStep ==
  ASSUME SolverInv, TreeInv, DpInv, DpSink
  PROVE  DpInv'
<1> DEFINE finite == {n \in Nodes : rows[Root][n].finite}
           best == Cheapest(finite, LAMBDA n : rows[Root][n].cost)
<1>1. /\ phase = "placing" /\ todo = <<>> /\ dag' = dag /\ nodes' = nodes
      /\ UNCHANGED <<given, rows>>
      /\ \/ \E n \in best : /\ placement' = [placement EXCEPT ![Root] = n]
                            /\ phase' = "tracing" /\ todo' = TopologicalSort(dag)
         \/ best = {} /\ phase' = "failed" /\ UNCHANGED placement
  BY DEF DpSink, given, dpVars
<1>2. /\ placement \in [Ids(dag) -> {0} \cup Nodes]
      /\ \A s \in Ids(dag) : RowIsRight(s)
  <2>1. ToSet(todo) = {}
    BY <1>1 DEF ToSet
  <2> QED BY <2>1 DEF DpInv
<1>3. Root \in Ids(dag)
  BY RootFacts
<1>4. \A n \in Nodes : rows[Root][n].cost \in Nat
  BY <1>2, <1>3 DEF RowIsRight, EntryIsRight
<1>5. \A n \in best : n \in finite /\ \A m \in finite : rows[Root][n].cost <= rows[Root][m].cost
  BY DEF Cheapest, Earliest
<1>6. finite # {} => best # {}
  <2> SUFFICES ASSUME finite # {}
               PROVE  best # {}
    OBVIOUS
  <2> DEFINE f == [n \in finite |-> rows[Root][n].cost]
  <2>1. finite \subseteq Nat /\ f \in [finite -> Nat] /\ \A n \in finite : f[n] = rows[Root][n].cost
    BY <1>4, GivenFacts
  <2> HIDE DEF finite, f
  <2>2. PICK n \in finite : /\ \A m \in finite : f[n] <= f[m]
                            /\ \A m \in finite : (\A k \in finite : f[m] <= f[k]) => n <= m
    BY <2>1, CheapestExists
  <2>3. n \in best
    BY <2>1, <2>2 DEF Cheapest, Earliest
  <2> QED BY <2>3
<1> HIDE DEF best
<1>7. CASE best = {} /\ phase' = "failed" /\ UNCHANGED placement
  <2>1. \A n \in Nodes : ~rows[Root][n].finite
    BY <1>6, <1>7
  <2> QED BY <1>1, <1>2, <1>7, <2>1, DpStays DEF DpInv
<1>8. ASSUME NEW n \in best, placement' = [placement EXCEPT ![Root] = n],
             phase' = "tracing", todo' = TopologicalSort(dag)
      PROVE  DpInv'
  <2>1. /\ n \in Nodes /\ rows[Root][n].finite
        /\ \A m \in Nodes : rows[Root][m].finite => rows[Root][n].cost <= rows[Root][m].cost
    BY <1>5
  <2>2. placement' \in [Ids(dag) -> {0} \cup Nodes] /\ placement'[Root] = n
    BY <1>2, <1>3, <1>8, <2>1
  <2>3. RootIsCheapest'
    BY <1>1, <2>1, <2>2, DpStays DEF RootIsCheapest, Reachable
  <2>4. \A s \in Ids(dag) : \A u \in ToSet(Predecessors(dag, s)) : u \in ToSet(todo')
    BY <1>8, GraphFacts
  <2> QED BY <1>1, <1>2, <1>8, <2>2, <2>3, <2>4, DpStays DEF DpInv
<1> QED BY <1>1, <1>7, <1>8

LEMMA DpTraceStep ==
  ASSUME SolverInv, TreeInv, DpInv, Trace
  PROVE  DpInv'
<1> DEFINE s == Last(todo)
           out == ToSet(Successors(dag, s))
           v == CHOOSE t \in out : TRUE
<1>1. /\ phase = "tracing" /\ todo # <<>> /\ UNCHANGED <<given, rows, phase>>
      /\ todo' = Front(todo) /\ dag' = dag /\ nodes' = nodes
      /\ placement' = IF out = {} THEN placement
                      ELSE [placement EXCEPT ![s] = rows[v][placement[v]].child[s]]
  BY DEF Trace, given, dpVars
<1>2. /\ placement \in [Ids(dag) -> {0} \cup Nodes] /\ RootIsCheapest
      /\ \A t \in Ids(dag) : RowIsRight(t)
      /\ \A t \in Ids(dag) : \A u \in ToSet(Predecessors(dag, t)) :
           /\ t \in ToSet(todo) => u \in ToSet(todo)
           /\ u \notin ToSet(todo) => Follows(t, u)
  BY <1>1 DEF DpInv
<1>3. /\ todo \in Seq(Ids(dag)) /\ IsForward(todo)
      /\ \A t \in Ids(dag) : t \notin ToSet(todo) => Reachable(t, placement[t]) /\ RowHolds(t)
  BY <1>1 DEF TreeInv
<1>4. /\ s \in Ids(dag) /\ ToSet(todo) = {s} \cup ToSet(Front(todo))
      /\ \A t \in out : t \notin ToSet(todo)
  BY <1>1, <1>3, ForwardEnds
<1> HIDE DEF s
<1>5. \A t \in Ids(dag) : s \in ToSet(Predecessors(dag, t)) => t \in out
  BY GraphFacts
<1>6. \A t \in out : t \in Ids(dag) /\ s \in ToSet(Predecessors(dag, t))
  BY <1>4, GraphFacts
<1>7. \A t \in out : t = v
  <2>1. WellBuilt(dag) /\ IsTree(dag)
    BY GivenFacts DEF TreeInv
  <2>2. ASSUME NEW t \in out, NEW x \in out
        PROVE  t = x
    <3>1. PICK i \in 1..Len(dag.edges) : dag.edges[i].source = s /\ dag.edges[i].target = t
      BY <2>1, <2>2, EndsOfEdges
    <3>2. PICK j \in 1..Len(dag.edges) : dag.edges[j].source = s /\ dag.edges[j].target = x
      BY <2>1, <2>2, EndsOfEdges
    <3>3. DOMAIN dag.edges = 1..Len(dag.edges)
      BY <2>1, EdgeFacts
    <3>4. i \in Out(dag, s) /\ j \in Out(dag, s)
      BY <3>1, <3>2, <3>3 DEF Out
    <3>5. i = j
      BY <1>4, <2>1, <3>4, OneEdgeLeaves
    <3> QED BY <3>1, <3>2, <3>5
  <2>3. ASSUME NEW t \in out
        PROVE  v \in out
    BY <2>3
  <2> QED BY <2>2, <2>3
<1> HIDE DEF v, out
<1>8. ASSUME NEW t \in out
      PROVE  /\ placement' = [placement EXCEPT ![s] = rows[v][placement[v]].child[s]]
             /\ rows[v][placement[v]].child[s] \in Nodes /\ v \notin ToSet(todo) /\ v # s
  <2>1. v = t
    BY <1>7
  <2>2. v \in Ids(dag) /\ v \notin ToSet(todo) /\ s \in ToSet(Predecessors(dag, v))
    BY <1>4, <1>6, <2>1
  <2>3. Reachable(s, rows[v][placement[v]].child[s])
    BY <1>3, <2>2 DEF RowHolds, Reachable
  <2>4. out # {}
    OBVIOUS
  <2>5. v # s
    BY <1>4, <2>2
  <2>6. rows[v][placement[v]].child[s] \in Nodes
    BY <2>3 DEF Reachable
  <2> QED BY <1>1, <2>2, <2>4, <2>5, <2>6
<1>9. placement' \in [Ids(dag) -> {0} \cup Nodes] /\ \A t \in Ids(dag) : t # s => placement'[t] = placement[t]
  <2>1. CASE out = {}
    BY <1>1, <1>2, <2>1
  <2>2. CASE out # {}
    BY <1>2, <1>4, <1>8, <2>2
  <2> QED BY <2>1, <2>2
<1>10. RootIsCheapest'
  <2>1. Root \in Ids(dag) /\ (s = Root => out = {})
    BY <1>4, RootFacts DEF out
  <2>2. placement'[Root] = placement[Root]
    BY <1>1, <1>9, <2>1
  <2>3. Root' = Root /\ Nodes' = Nodes /\ rows' = rows
    BY <1>1, DpStays
  <2> QED BY <1>2, <2>2, <2>3 DEF RootIsCheapest, Reachable
<1>11. ASSUME NEW t \in Ids(dag), NEW u \in ToSet(Predecessors(dag, t))
       PROVE  /\ t \in ToSet(todo') => u \in ToSet(todo')
              /\ u \notin ToSet(todo') => Follows(t, u)'
  <2>1. u \in Ids(dag) /\ (u = s => t \in out)
    BY <1>5, <1>11, GraphFacts
  <2>2. t \in ToSet(todo') => u \in ToSet(todo')
    <3> SUFFICES ASSUME t \in ToSet(Front(todo))
                 PROVE  u \in ToSet(Front(todo))
      BY <1>1
    <3>1. t \in ToSet(todo) /\ t \notin out
      BY <1>4
    <3>2. u \in ToSet(todo) /\ u # s
      BY <1>2, <2>1, <3>1
    <3> QED BY <1>4, <3>2
  <2>3. ASSUME u \notin ToSet(todo'), u # s
        PROVE  Follows(t, u)'
    <3>1. u \notin ToSet(todo) /\ t \notin ToSet(todo)
      BY <1>1, <1>2, <1>4, <2>3
    <3>2. placement'[u] = placement[u] /\ placement'[t] = placement[t]
      BY <1>4, <1>9, <2>1, <2>3, <3>1
    <3>3. placement[u] = rows[t][placement[t]].child[u]
      BY <1>2, <3>1 DEF Follows
    <3> QED BY <1>1, <3>2, <3>3 DEF Follows
  <2>4. ASSUME u = s
        PROVE  Follows(t, u)'
    <3>1. t = v /\ t \in out
      BY <1>7, <2>1, <2>4
    <3>2. placement'[s] = rows[v][placement[v]].child[s] /\ placement'[v] = placement[v]
      BY <1>2, <1>4, <1>8, <1>9, <3>1
    <3> QED BY <1>1, <2>4, <3>1, <3>2 DEF Follows
  <2> QED BY <2>2, <2>3, <2>4
<1>12. \A t \in Ids(dag) : RowIsRight(t)'
  BY <1>1, <1>2, DpStays
<1>13. phase' = "tracing" /\ Nodes' = Nodes
  BY <1>1 DEF Nodes
<1> QED BY <1>1, <1>9, <1>10, <1>11, <1>12, <1>13 DEF DpInv

LEMMA DpTracedStep ==
  ASSUME SolverInv, TreeInv, DpInv, DpTraced
  PROVE  DpInv'
<1>1. /\ phase = "tracing" /\ todo = <<>> /\ phase' = "traced" /\ dag' = dag /\ nodes' = nodes
      /\ UNCHANGED <<given, rows>> /\ UNCHANGED placement
  BY DEF DpTraced, given, dpVars
<1>2. ToSet(todo) = {}
  BY <1>1 DEF ToSet
<1>3. /\ placement \in [Ids(dag) -> {0} \cup Nodes] /\ RootIsCheapest
      /\ \A s \in Ids(dag) : RowIsRight(s)
      /\ \A s \in Ids(dag) : \A u \in ToSet(Predecessors(dag, s)) : Follows(s, u)
  BY <1>1, <1>2 DEF DpInv
<1>4. \A s \in Ids(dag) : Reachable(s, placement[s])
  BY <1>1, <1>2 DEF TreeInv
<1>5. /\ \A s \in Ids(dag) : RowIsRight(s)'
      /\ RootIsCheapest' /\ Nodes' = Nodes
      /\ \A s \in Ids(dag) : Reachable(s, placement[s])'
      /\ \A s \in Ids(dag) : \A u \in ToSet(Predecessors(dag, s)) : Follows(s, u)'
  BY <1>1, <1>3, <1>4, DpStays
<1> QED BY <1>1, <1>3, <1>5 DEF DpInv

LEMMA DpSpreadStep ==
  ASSUME SolverInv, DpInv, SpreadSiblings \/ MoveSibling
  PROVE  DpInv'
<1>1. /\ phase \in {"traced", "spreading"} /\ phase' = "spreading" /\ dag' = dag /\ nodes' = nodes
      /\ UNCHANGED <<given, rows>>
  BY DEF SpreadSiblings, MoveSibling, given, dpVars
<1>2. placement \in [Ids(dag) -> {0} \cup Nodes] /\ \A s \in Ids(dag) : RowIsRight(s)
  BY <1>1 DEF DpInv
<1>3. placement' \in [Ids(dag) -> {0} \cup Nodes]
  <2>1. CASE UNCHANGED placement
    BY <1>2, <2>1
  <2>2. CASE MoveSibling /\ ~UNCHANGED placement
    <3>1. PICK n \in Spare(Head(movers), placement[Head(movers)]) :
            placement' = [placement EXCEPT ![Head(movers)] = n]
      BY <2>2 DEF MoveSibling
    <3>2. n \in Nodes
      BY <3>1 DEF Spare, Cheapest, Earliest
    <3> QED BY <1>2, <3>1, <3>2
  <2> QED BY <2>1, <2>2 DEF SpreadSiblings
<1>4. Nodes' = Nodes /\ \A s \in Ids(dag) : RowIsRight(s)'
  BY <1>1, <1>2, DpStays
<1> QED BY <1>1, <1>3, <1>4 DEF DpInv

LEMMA DpStep ==
  ASSUME SolverInv, solver = "tree" => TreeInv /\ DpInv, [PlacementNext]_placementVars
  PROVE  (solver = "tree" => DpInv)'
<1> SUFFICES ASSUME solver' = "tree"
             PROVE  DpInv'
  OBVIOUS
<1>1. solver = "tree" /\ TreeInv /\ DpInv
  BY SolverStays
<1>2. CASE DpRow
  BY <1>1, <1>2, DpRowStep
<1>3. CASE DpSink
  BY <1>1, <1>3, DpSinkStep
<1>4. CASE Trace
  BY <1>1, <1>4, DpTraceStep
<1>5. CASE DpTraced
  BY <1>1, <1>5, DpTracedStep
<1>6. CASE SpreadSiblings \/ MoveSibling
  BY <1>1, <1>6, DpSpreadStep
<1>7. CASE Return
  <2>1. /\ UNCHANGED <<given, rows>> /\ UNCHANGED placement /\ dag' = dag
        /\ phase = "spreading" /\ phase' = "placed"
    BY <1>1, <1>7 DEF Return, given, dpVars
  <2>2. placement \in [Ids(dag) -> {0} \cup Nodes] /\ \A s \in Ids(dag) : RowIsRight(s)
    BY <1>1, <2>1 DEF DpInv
  <2>3. Nodes' = Nodes /\ \A s \in Ids(dag) : RowIsRight(s)'
    BY <2>1, <2>2, DpStays
  <2> QED BY <2>1, <2>2, <2>3 DEF DpInv
<1>8. CASE UNCHANGED placementVars
  <2>1. /\ UNCHANGED <<given, rows>> /\ UNCHANGED placement /\ UNCHANGED <<todo, phase>>
        /\ dag' = dag
    BY <1>8 DEF placementVars, solverVars, dpVars, given
  <2>2. /\ Nodes' = Nodes /\ Root' = Root
        /\ \A s : RowIsRight(s) => RowIsRight(s)'
        /\ RootIsCheapest => RootIsCheapest'
        /\ \A s, u : Follows(s, u)' = Follows(s, u)
        /\ \A s, n : Reachable(s, n)' = Reachable(s, n)
    BY <2>1, DpStays
  <2>3. rows' = rows
    BY <2>1
  <2> QED BY <1>1, <2>1, <2>2, <2>3 DEF DpInv
<1> QED BY <1>1, <1>2, <1>3, <1>4, <1>5, <1>6, <1>7, <1>8
        DEF PlacementNext, GreedyPlacement, LatencyGreedyPlacement, LocalityPlacement,
            SpilloverPlacement, MarketPlacement, Placing

-----------------------------------------------------------------------------
\* The cost that the table gives p at every stage, and what it is made of.
CostIn(p, s) == rows[s][p[s]].cost
MadeUpOf(p, s) == StageCost(s, p[s]) + Total(Passed(s, p[s], p), Len(dag.edges))

LEMMA CostsAddUp ==
  ASSUME SolverInv, TreeInv, NEW p \in [Ids(dag) -> Nodes],
         \A s \in Ids(dag) : CostIn(p, s) \in Nat
  PROVE  /\ PlacementCost(p) \in Int
         /\ (\A s \in Ids(dag) : CostIn(p, s) <= MadeUpOf(p, s)) => CostIn(p, Root) <= PlacementCost(p)
         /\ (\A s \in Ids(dag) : CostIn(p, s) = MadeUpOf(p, s)) => CostIn(p, Root) = PlacementCost(p)
<1> DEFINE n == Len(dag.stages)
           m == Len(dag.edges)
           stage(i) == dag.stages[i]
           source(j) == dag.edges[j].source
           c == [s \in Ids(dag) |-> CostIn(p, s)]
           costs == [i \in 1..n |-> c[dag.stages[i]]]
           passed == [j \in 1..m |-> c[dag.edges[j].source]]
           edges == [j \in 1..m |-> EdgeCost(p[dag.edges[j].source], p[dag.edges[j].target])]
           w == [j \in 1..m |-> passed[j] + edges[j]]
           alone == [i \in 1..n |-> StageCost(dag.stages[i], p[dag.stages[i]])]
           into == [i \in 1..n |-> Total(Into(dag, w, dag.stages[i]), m)]
           made == [i \in 1..n |-> MadeUpOf(p, dag.stages[i])]
<1>1. /\ WellBuilt(dag) /\ IsTree(dag) /\ Sinks(dag) = {Root} /\ Root \in Ids(dag)
      /\ n \in Nat /\ DOMAIN dag.stages = 1..n /\ \A i \in 1..n : dag.stages[i] \in Ids(dag)
      /\ m \in Nat /\ DOMAIN dag.edges = 1..m
      /\ \A j \in 1..m : dag.edges[j].source \in Ids(dag) /\ dag.edges[j].target \in Ids(dag)
      /\ \A s \in Ids(dag) : \E i \in 1..n : dag.stages[i] = s
  BY GivenFacts, RootFacts, StageFacts, EdgeFacts DEF TreeInv
<1>2. PlacementCost(p) = Total(edges, m) + Total(alone, n)
  BY <1>1 DEF PlacementCost, SumOf
<1> HIDE DEF n, m
<1>3. c \in [Ids(dag) -> Int] /\ \A s \in Ids(dag) : c[s] = CostIn(p, s)
  OBVIOUS
<1> HIDE DEF c
<1>4. Total(costs, n) = Total(passed, m) + c[Root]
  BY <1>1, <1>3, SourcesOfTree DEF n, m
<1>5. \A j \in 1..m : passed[j] \in Int /\ edges[j] \in Int /\ w[j] = passed[j] + edges[j]
  <2> TAKE j \in 1..m
  <2>1. dag.edges[j].source \in Ids(dag) /\ dag.edges[j].target \in Ids(dag)
    BY <1>1
  <2>2. EdgeCost(p[dag.edges[j].source], p[dag.edges[j].target]) \in Nat
    BY <2>1, CostFacts
  <2> QED BY <1>3, <2>1, <2>2
<1>6. \A i \in 1..n : costs[i] \in Int /\ alone[i] \in Int /\ costs[i] = CostIn(p, dag.stages[i])
  <2> TAKE i \in 1..n
  <2>1. dag.stages[i] \in Ids(dag)
    BY <1>1
  <2>2. StageCost(dag.stages[i], p[dag.stages[i]]) \in Nat
    BY <2>1, CostFacts
  <2> QED BY <1>3, <2>1, <2>2
<1>7. w \in [1..m -> Int]
  BY <1>5
<1>8. \A j \in 1..m : w[j] = Via(dag.edges[j].source, p[dag.edges[j].source], p[dag.edges[j].target])
  BY <1>1, <1>3, <1>5 DEF Via, CostIn
<1> HIDE DEF passed, edges, w
<1>9. Total(w, m) = Total(passed, m) + Total(edges, m)
  <2>1. m \in Nat
    BY <1>1
  <2> QED BY <1>5, <2>1, TotalAdds
<1>10. Total(into, n) = Total(w, m)
  BY <1>1, <1>7, EdgesByStage DEF n, m
<1>11. \A s \in Ids(dag) : Passed(s, p[s], p) = Into(dag, w, s)
  BY <1>8 DEF Passed, Into, m
<1>12. \A i \in 1..n : into[i] \in Int /\ made[i] = alone[i] + into[i]
  <2> TAKE i \in 1..n
  <2>1. \A j \in 1..m : Into(dag, w, dag.stages[i])[j] \in Int
    BY <1>7 DEF Into, m
  <2>2. Total(Into(dag, w, dag.stages[i]), m) \in Int
    <3>1. m \in Nat /\ m \in 0..m
      BY <1>1
    <3> QED BY <2>1, <3>1, TotalStep
  <2>3. MadeUpOf(p, dag.stages[i]) = StageCost(dag.stages[i], p[dag.stages[i]])
                                       + Total(Into(dag, w, dag.stages[i]), m)
    BY <1>1, <1>11 DEF MadeUpOf, m
  <2> QED BY <2>2, <2>3
<1> HIDE DEF into, alone, costs
<1>13. Total(made, n) = Total(alone, n) + Total(into, n)
  <2>1. n \in Nat
    BY <1>1
  <2>2. \A i \in 1..n : alone[i] \in Int /\ into[i] \in Int /\ made[i] = alone[i] + into[i]
    BY <1>6, <1>12
  <2> HIDE DEF made
  <2> QED BY <2>1, <2>2, TotalAdds
<1>14. /\ Total(alone, n) \in Int /\ Total(edges, m) \in Int /\ Total(passed, m) \in Int
       /\ Total(costs, n) \in Int /\ c[Root] \in Int
  <2>1. n \in Nat /\ m \in Nat /\ n \in 0..n /\ m \in 0..m
    BY <1>1
  <2>2. Total(alone, n) \in Int /\ Total(costs, n) \in Int
    BY <1>6, <2>1, TotalStep
  <2>3. Total(edges, m) \in Int /\ Total(passed, m) \in Int
    BY <1>5, <2>1, TotalStep
  <2> QED BY <1>1, <1>3, <2>2, <2>3
<1>15. Total(made, n) = PlacementCost(p) + Total(passed, m)
  BY <1>2, <1>9, <1>10, <1>13, <1>14
<1>19. PlacementCost(p) \in Int
  BY <1>2, <1>14
<1>16. \A i \in 1..n : made[i] = MadeUpOf(p, dag.stages[i]) /\ made[i] \in Int
  BY <1>6, <1>12
<1> HIDE DEF made
<1>17. ASSUME \A s \in Ids(dag) : CostIn(p, s) <= MadeUpOf(p, s)
       PROVE  c[Root] <= PlacementCost(p)
  <2>1. \A i \in 1..n : costs[i] \in Int /\ made[i] \in Int /\ costs[i] <= made[i]
    BY <1>1, <1>6, <1>16, <1>17
  <2>2. Total(costs, n) <= Total(made, n)
    BY <1>1, <2>1, TotalMono
  <2> QED BY <1>4, <1>14, <1>15, <1>19, <2>2
<1>18. ASSUME \A s \in Ids(dag) : CostIn(p, s) = MadeUpOf(p, s)
       PROVE  c[Root] = PlacementCost(p)
  <2>1. \A i \in 1..n : costs[i] \in Int /\ made[i] = costs[i]
    BY <1>1, <1>6, <1>16, <1>18
  <2>2. Total(costs, n) = Total(made, n)
    BY <1>1, <2>1, TotalAgrees
  <2> QED BY <1>4, <1>14, <1>15, <1>19, <2>2
<1> QED BY <1>1, <1>3, <1>17, <1>18, <1>19

\* No candidate is cheaper anywhere than the table says: were one not finite at
\* some stages, there would be one of them whose predecessors are, and which
\* therefore is.
LEMMA CandidatesCostMore ==
  ASSUME SolverInv, \A s \in Ids(dag) : RowIsRight(s), NEW p \in Candidates
  PROVE  \A s \in Ids(dag) : /\ rows[s][p[s]].finite
                            /\ CostIn(p, s) \in Nat /\ CostIn(p, s) <= MadeUpOf(p, s)
<1>1. /\ p \in [Ids(dag) -> Nodes] /\ \A s \in Ids(dag) : FeasibleAlone(s, p[s])
      /\ \A e \in ToSet(dag.edges) : /\ Latency(p[e.source], p[e.target]) <= e.bound
                                    /\ Trusted(Domain(p[e.source]), Domain(p[e.target]))
  BY DEF Candidates, EdgesHold
<1>2. \A s \in Ids(dag) : EntryIsRight(rows[s][p[s]], s, p[s])
  BY <1>1 DEF RowIsRight
<1>3. /\ WellBuilt(dag) /\ Len(dag.edges) \in Nat
      /\ \A j \in 1..Len(dag.edges) : /\ dag.edges[j] \in ToSet(dag.edges)
                                     /\ j \in In(dag, dag.edges[j].target)
  BY GivenFacts, EdgeFacts DEF In
<1>4. ASSUME NEW s \in Ids(dag), NEW u \in ToSet(Predecessors(dag, s)), rows[u][p[u]].finite
      PROVE  p[u] \in ChildNodes(u, s, p[s])
  <2>1. PICK j \in 1..Len(dag.edges) : dag.edges[j].source = u /\ dag.edges[j].target = s
    BY <1>3, <1>4, EndsOfEdges
  <2>2. dag.edges[j] \in ToSet(dag.edges) /\ Bound(dag, u, s) = dag.edges[j].bound
    BY <1>3, <2>1, GivenFacts
  <2>3. Latency(p[u], p[s]) <= Bound(dag, u, s) /\ Trusted(Domain(p[u]), Domain(p[s]))
    BY <1>1, <2>1, <2>2
  <2>4. Latency(p[s], p[u]) <= Bound(dag, u, s)
    BY <2>3, CostFacts
  <2>5. p[u] \in Nodes
    BY <1>1, <1>4, GraphFacts
  <2> QED BY <1>4, <2>3, <2>4, <2>5 DEF ChildNodes
<1>5. \A s \in Ids(dag) : rows[s][p[s]].finite
  <2> DEFINE S == {s \in Ids(dag) : ~rows[s][p[s]].finite}
  <2> SUFFICES ASSUME S # {}
               PROVE  FALSE
    OBVIOUS
  <2>1. PICK s \in S : \A i \in In(dag, s) : dag.edges[i].source \notin S
    BY <1>3 DEF WellBuilt, Acyclic
  <2>2. \A u \in ToSet(Predecessors(dag, s)) : u \in Ids(dag) /\ u \notin S
    BY <1>3, <2>1, Neighbours, GraphFacts
  <2>3. \A u \in ToSet(Predecessors(dag, s)) : ChildNodes(u, s, p[s]) # {}
    BY <1>4, <2>2
  <2>4. rows[s][p[s]].finite
    BY <1>1, <1>2, <2>3 DEF EntryIsRight
  <2> QED BY <2>4
<1>6. ASSUME NEW s \in Ids(dag)
      PROVE  CostIn(p, s) \in Nat /\ CostIn(p, s) <= MadeUpOf(p, s)
  <2> DEFINE child == rows[s][p[s]].child
             preds == ToSet(Predecessors(dag, s))
  <2>1. /\ CostIn(p, s) \in Nat
        /\ CostIn(p, s) = StageCost(s, p[s]) + Total(Passed(s, p[s], child), Len(dag.edges))
        /\ \A u \in preds : child[u] \in ChildNodes(u, s, p[s])
                           /\ \A k \in ChildNodes(u, s, p[s]) : Via(u, child[u], p[s]) <= Via(u, k, p[s])
    BY <1>2, <1>5 DEF EntryIsRight, CostIn
  <2> HIDE DEF child
  <2>2. \A u \in preds : /\ p[u] \in Nodes /\ child[u] \in Nodes
                        /\ Via(u, child[u], p[s]) <= Via(u, p[u], p[s])
    <3> TAKE u \in preds
    <3>1. u \in Ids(dag)
      BY GraphFacts
    <3>2. p[u] \in ChildNodes(u, s, p[s])
      BY <1>4, <1>5, <3>1
    <3> QED BY <1>1, <2>1, <3>1, <3>2 DEF ChildNodes
  <2>3. \A u \in preds : \A m \in Nodes : rows[u][m].cost \in Nat
    BY GraphFacts DEF RowIsRight, EntryIsRight
  <2>4. p[s] \in Nodes
    BY <1>1
  <2>5. /\ \A j \in 1..Len(dag.edges) : Passed(s, p[s], child)[j] \in Nat /\ Passed(s, p[s], p)[j] \in Nat
        /\ Total(Passed(s, p[s], child), Len(dag.edges)) \in Nat
        /\ Total(Passed(s, p[s], p), Len(dag.edges)) \in Nat
    BY <2>2, <2>3, <2>4, PassedIsNat
  <2>6. \A j \in 1..Len(dag.edges) : Passed(s, p[s], child)[j] <= Passed(s, p[s], p)[j]
    <3> TAKE j \in 1..Len(dag.edges)
    <3>1. CASE dag.edges[j].target = s
      <4>1. dag.edges[j].source \in preds
        BY <1>3, <3>1, Neighbours
      <4> QED BY <2>2, <3>1, <4>1 DEF Passed
    <3>2. CASE dag.edges[j].target # s
      BY <3>2 DEF Passed
    <3> QED BY <3>1, <3>2
  <2>7. \A j \in 1..Len(dag.edges) : /\ Passed(s, p[s], child)[j] \in Int /\ Passed(s, p[s], p)[j] \in Int
                                    /\ Passed(s, p[s], child)[j] <= Passed(s, p[s], p)[j]
    BY <2>5, <2>6
  <2>8. Total(Passed(s, p[s], child), Len(dag.edges)) <= Total(Passed(s, p[s], p), Len(dag.edges))
    BY <1>3, <2>7, TotalMono
  <2>9. StageCost(s, p[s]) \in Nat
    BY <2>4, CostFacts
  <2>10. StageCost(s, p[s]) + Total(Passed(s, p[s], child), Len(dag.edges)) <= MadeUpOf(p, s)
    BY <2>5, <2>8, <2>9 DEF MadeUpOf
  <2> QED BY <2>1, <2>10
<1> QED BY <1>5, <1>6

\* The way back is a candidate, and costs what the table says of the sink.
LEMMA TracedIsCandidate ==
  ASSUME SolverInv, TreeInv, DpInv, phase = "traced"
  PROVE  /\ placement \in Candidates
         /\ PlacementCost(placement) = CostIn(placement, Root)
<1>1. /\ \A s \in Ids(dag) : RowIsRight(s) /\ Reachable(s, placement[s])
      /\ \A s \in Ids(dag) : \A u \in ToSet(Predecessors(dag, s)) : Follows(s, u)
      /\ placement \in [Ids(dag) -> {0} \cup Nodes]
  BY DEF DpInv
<1>2. placement \in [Ids(dag) -> Nodes] /\ \A s \in Ids(dag) : rows[s][placement[s]].finite
  BY <1>1 DEF Reachable
<1>3. \A s \in Ids(dag) : EntryIsRight(rows[s][placement[s]], s, placement[s])
  BY <1>1, <1>2 DEF RowIsRight
<1>4. \A s \in Ids(dag) : \A u \in ToSet(Predecessors(dag, s)) :
        placement[u] \in ChildNodes(u, s, placement[s])
  BY <1>1, <1>2, <1>3 DEF EntryIsRight, Follows
<1>5. ASSUME NEW e \in ToSet(dag.edges)
      PROVE  /\ Latency(placement[e.source], placement[e.target]) <= e.bound
             /\ Trusted(Domain(placement[e.source]), Domain(placement[e.target]))
  <2>1. /\ e.source \in Ids(dag) /\ e.target \in Ids(dag)
        /\ e.source \in ToSet(Predecessors(dag, e.target))
        /\ Bound(dag, e.source, e.target) = e.bound
    BY GivenFacts
  <2>2. placement[e.source] \in ChildNodes(e.source, e.target, placement[e.target])
    BY <1>4, <2>1
  <2>3. Latency(placement[e.target], placement[e.source]) <= e.bound
        /\ Trusted(Domain(placement[e.source]), Domain(placement[e.target]))
    BY <2>1, <2>2 DEF ChildNodes
  <2> QED BY <2>3, CostFacts
<1>6. \A s \in Ids(dag) : FeasibleAlone(s, placement[s])
  BY <1>2, <1>3 DEF EntryIsRight
<1>7. placement \in Candidates
  BY <1>2, <1>5, <1>6 DEF Candidates, EdgesHold
<1>8. ASSUME NEW s \in Ids(dag)
      PROVE  CostIn(placement, s) \in Nat /\ CostIn(placement, s) = MadeUpOf(placement, s)
  <2> DEFINE child == rows[s][placement[s]].child
  <2>1. /\ CostIn(placement, s) \in Nat
        /\ CostIn(placement, s) = StageCost(s, placement[s])
                                   + Total(Passed(s, placement[s], child), Len(dag.edges))
    BY <1>2, <1>3 DEF EntryIsRight, CostIn
  <2>2. \A u \in ToSet(Predecessors(dag, s)) : child[u] = placement[u]
    BY <1>1 DEF Follows
  <2> HIDE DEF child
  <2>3. \A j \in 1..Len(dag.edges) :
          dag.edges[j].target = s => dag.edges[j].source \in ToSet(Predecessors(dag, s))
    <3>1. WellBuilt(dag) /\ \A j \in 1..Len(dag.edges) : j \in In(dag, dag.edges[j].target)
      BY GivenFacts, EdgeFacts DEF In
    <3> QED BY <3>1, Neighbours
  <2>4. Passed(s, placement[s], child) = Passed(s, placement[s], placement)
    BY <2>2, <2>3 DEF Passed
  <2> QED BY <2>1, <2>4 DEF MadeUpOf
<1>9. PlacementCost(placement) = CostIn(placement, Root)
  BY <1>2, <1>8, CostsAddUp
<1> QED BY <1>7, <1>9

\* On a tree the DP returns a cheapest one of all the assignments that respect
\* every stage and every edge by itself, and it fails only where there is none.
\* (_dp_tree_placement, before the siblings are spread)
THEOREM DpIsOptimalHolds == PlacementSpec => []DpIsOptimal
<1> DEFINE Inv == SolverInv /\ (solver = "tree" => TreeInv /\ DpInv)
<1>1. PlacementInit => Inv
  BY PlacementInitial, TreeInitial, DpInitial
<1>2. Inv /\ [PlacementNext]_placementVars => Inv'
  BY PlacementStep, TreeStep, DpStep
<1>3. Inv => DpIsOptimal
  <2> SUFFICES ASSUME Inv, solver = "tree"
               PROVE  DpIsOptimal
    BY DEF DpIsOptimal
  <2>1. SolverInv /\ TreeInv /\ DpInv
    OBVIOUS
  <2>2. phase \in {"traced", "failed"} => \A s \in Ids(dag) : RowIsRight(s)
    BY <2>1 DEF DpInv
  <2>3. Root \in Ids(dag)
    BY <2>1, RootFacts
  <2>4. \A p \in Candidates : p \in [Ids(dag) -> Nodes]
    BY DEF Candidates
  <2>5. ASSUME phase = "traced", NEW p \in Candidates
        PROVE  PlacementCost(placement) <= PlacementCost(p)
    <3>1. \A s \in Ids(dag) : /\ rows[s][p[s]].finite
                             /\ CostIn(p, s) \in Nat /\ CostIn(p, s) <= MadeUpOf(p, s)
      BY <2>1, <2>2, <2>5, CandidatesCostMore
    <3>2. PlacementCost(p) \in Int /\ CostIn(p, Root) <= PlacementCost(p)
      BY <2>1, <2>4, <2>5, <3>1, CostsAddUp
    <3>3. CostIn(placement, Root) <= CostIn(p, Root)
      BY <2>1, <2>3, <2>4, <2>5, <3>1 DEF DpInv, RootIsCheapest, CostIn
    <3>4. placement \in Candidates /\ PlacementCost(placement) = CostIn(placement, Root)
      BY <2>1, <2>5, TracedIsCandidate
    <3>5. CostIn(placement, Root) \in Nat
      BY <2>1, <2>2, <2>3, <2>5, <3>4, CandidatesCostMore
    <3>6. CostIn(p, Root) \in Nat
      BY <2>3, <3>1
    <3> QED BY <3>2, <3>3, <3>4, <3>5, <3>6
  <2>6. ASSUME phase = "failed", NEW p \in Candidates
        PROVE  FALSE
    <3>1. rows[Root][p[Root]].finite
      BY <2>1, <2>2, <2>3, <2>6, CandidatesCostMore
    <3>2. p[Root] \in Nodes
      BY <2>3, <2>4, <2>6
    <3> QED BY <2>1, <2>6, <3>1, <3>2 DEF DpInv
  <2>7. phase = "traced" => placement \in Candidates
    BY <2>1, TracedIsCandidate
  <2> QED BY <2>5, <2>6, <2>7 DEF DpIsOptimal
<1> QED BY <1>1, <1>2, <1>3, PTL DEF PlacementSpec
=============================================================================
