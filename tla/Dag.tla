--------------------------------- MODULE Dag ---------------------------------
(***************************************************************************)
(* The pipeline graph: how it is built, and what the solver asks of it.    *)
(*                                                                         *)
(* A graph keeps the order in which its stages and edges were added: the   *)
(* code iterates over dictionaries and lists, and ties are broken by it.   *)
(***************************************************************************)
EXTENDS Integers, Sequences, FiniteSets, SequencesExt

CONSTANTS
  NewStages,   \* the Stage objects the builder may add
  NewBounds,   \* the latency bounds it may put on an edge
  MaxEdges,    \* bound on the number of edges
  None         \* no slice, no domain, no budget

VARIABLE dag

EmptyDag == [stages |-> <<>>, edges |-> <<>>, stage |-> << >>, budget |-> None]

Ids(d) == ToSet(d.stages)

\* The elements of a sequence at some places, in order.
Part(seq, places) ==
  [k \in 1..Cardinality(places) |->
     seq[CHOOSE i \in places : Cardinality({j \in places : j <= i}) = k]]

\* The places of the edges from a stage and to it.
Out(d, s) == {i \in DOMAIN d.edges : d.edges[i].source = s}
In(d, s) == {i \in DOMAIN d.edges : d.edges[i].target = s}

\* In the order of the edges, and as often as there are edges.
Successors(d, s) ==
  LET out == Part(d.edges, Out(d, s))
  IN  [i \in DOMAIN out |-> out[i].target]
Predecessors(d, s) ==
  LET in == Part(d.edges, In(d, s))
  IN  [i \in DOMAIN in |-> in[i].source]

\* The latency bound of the edge, that of the last one if it was added twice.
Bound(d, u, v) ==
  LET edges == Out(d, u) \cap In(d, v)
  IN  d.edges[CHOOSE i \in edges : \A j \in edges : j <= i].bound

Sources(d) == Part(d.stages, {i \in DOMAIN d.stages : Predecessors(d, d.stages[i]) = <<>>})
Sinks(d) == {s \in Ids(d) : Successors(d, s) = <<>>}

\* Broken variant: only a direct edge back is seen.
CanReach_OneHop(d, from, to) == from = to \/ to \in ToSet(Successors(d, from))

\* The search visits one more layer of successors in each round.
Visited(d, from) ==
  LET seen[round \in 0..Len(d.stages)] ==
        IF round = 0 THEN {from}
        ELSE LET before == seen[round - 1]
             IN  before \cup {d.edges[i].target :
                               i \in {j \in DOMAIN d.edges : d.edges[j].source \in before}}
  IN  seen[Len(d.stages)]

CanReach(d, from, to) == to \in Visited(d, from)

Add(d, s) ==
  [d EXCEPT !.stages = Append(@, s.id),
            !.stage = [t \in Ids(d) \cup {s.id} |-> IF t = s.id THEN s ELSE @[t]]]
Connect(d, u, v, b) ==
  [d EXCEPT !.edges = Append(@, [source |-> u, target |-> v, bound |-> b])]

(***************************************************************************)
(* Kahn's algorithm.  The queue starts with the sources; stages leave it   *)
(* in the order they came, one a round, and with it their edges are taken  *)
(* off the in-degrees of the targets, one after another.  The edge that    *)
(* leaves none queues its target.                                          *)
(***************************************************************************)
LeavesNone(d, i, popped) ==
  \A k \in In(d, d.edges[i].target) :
    d.edges[k].source \in popped \/ (d.edges[k].source = d.edges[i].source /\ k <= i)

\* What the stage at this place of the queue releases.
Released(d, queued, place) ==
  LET popped == {queued[i] : i \in 1..(place - 1)}
      last == Part(d.edges, {i \in Out(d, queued[place]) : LeavesNone(d, i, popped)})
  IN  [k \in DOMAIN last |-> last[k].target]

\* Shorter than d.stages when the queue runs dry: the code raises RuntimeError.
TopologicalSort(d) ==
  LET queued[round \in 0..Len(d.stages)] ==
        IF round = 0 THEN Sources(d)
        ELSE LET before == queued[round - 1]
             IN  IF round > Len(before) THEN before ELSE before \o Released(d, before, round)
  IN  queued[Len(d.stages)]

\* Nothing fans out and everything ends in one sink: the solver may use DP.
IsTree(d) ==
  /\ \A s \in Ids(d) : Len(Successors(d, s)) <= 1
  /\ \E s \in Ids(d) : Sinks(d) = {s}

AcceptsCost(d, cost) == d.budget = None \/ cost <= d.budget

-----------------------------------------------------------------------------
(* Building a graph.  A stage that exists, an edge to a stage that does not *)
(* and an edge that would close a cycle are refused (ValueError).           *)

Init == dag = EmptyDag

AddStage(s) ==
  /\ s.id \notin Ids(dag)
  /\ dag' = Add(dag, s)

AddEdge(u, v, b) ==
  /\ Len(dag.edges) < MaxEdges
  /\ ~CanReach(dag, v, u)
  /\ dag' = Connect(dag, u, v, b)

Next ==
  \/ \E s \in NewStages : AddStage(s)
  \/ \E u, v \in Ids(dag), b \in NewBounds : AddEdge(u, v, b)

Spec == Init /\ [][Next]_dag

\* What a builder makes, and the solver is given: edges between stages of the
\* graph, and in any group of stages one that no edge from the group leads to.
Acyclic(d) ==
  \A S \in (SUBSET Ids(d)) \ {{}} :
    \E s \in S : \A i \in In(d, s) : d.edges[i].source \notin S

WellBuilt(d) ==
  /\ d.stages \in Seq(Ids(d)) /\ IsInjective(d.stages)
  /\ d.edges \in Seq(ToSet(d.edges))
  /\ \A e \in ToSet(d.edges) : e.source \in Ids(d) /\ e.target \in Ids(d)
  /\ Acyclic(d)

-----------------------------------------------------------------------------
Position(seq, x) == CHOOSE i \in DOMAIN seq : seq[i] = x

\* Whatever order the edges came in, repeated ones included, the sort places
\* every stage once and every edge forwards: the cycle check of add_edge
\* (dag.py:158) is enough for the RuntimeError of topological_sort to be dead code.
OrderIsTopological ==
  LET order == TopologicalSort(dag)
  IN  /\ Len(order) = Len(dag.stages)
      /\ ToSet(order) = Ids(dag)
      /\ \A e \in ToSet(dag.edges) : Position(order, e.source) < Position(order, e.target)

\* is_tree counts successors and sinks only.  It holds of exactly the graphs
\* in which the DP may treat predecessors as independent: one edge fewer than
\* stages, and one stage that every stage leads to (no set of others is closed).
TreeIsConnected ==
  IsTree(dag) <=>
    /\ Len(dag.edges) = Len(dag.stages) - 1
    /\ \E sink \in Ids(dag) : \A S \in (SUBSET (Ids(dag) \ {sink})) \ {{}} :
         \E e \in ToSet(dag.edges) : e.source \in S /\ e.target \notin S

\* What a validated pipeline may be relied on for.  (topological_sort, is_tree)
PipelineGraphIsSound == OrderIsTopological /\ TreeIsConnected
=============================================================================
