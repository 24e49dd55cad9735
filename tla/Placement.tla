------------------------------ MODULE Placement ------------------------------
(***************************************************************************)
(* Placing one pipeline: the strategies of placement.py, a stage at a      *)
(* time, on the snapshot of the topology that publish took.                *)
(*                                                                         *)
(* Nodes are numbered in the order of the topology, which is also the      *)
(* order of their ids.  Demand, capacity and load are in hundredths,       *)
(* latencies and prices in ms.  A cost is multiplied by Unit, a common     *)
(* multiple of the capacities, so that the load ratio is exact.  The       *)
(* tolerance of 1e-9 in the comparisons has no counterpart: nothing is     *)
(* rounded here.                                                           *)
(***************************************************************************)
EXTENDS Patterns

CONSTANTS
  Problems,   \* what the solver may be given, see the fields below
  Unit,
  Infinity    \* the price where nothing is sold

(***************************************************************************)
(* A problem: the graph; placement_mode; the broker's own nodes and, when  *)
(* it coordinates a sharded oracle, those of its peers; the domain it      *)
(* serves; the weights of the cost; the stage types that stay local and    *)
(* the trust between domains; for the market the WAN cost, the two         *)
(* switches of the configuration and the peer prices it has been told.     *)
(***************************************************************************)
VARIABLES
  problem,     \* never changes
  nodes,       \* the topology handed to the solver
  solver,      \* the function that mode and graph select
  phase,       \* "placing", "placed", "failed"; of the DP also "tracing",
               \* "traced" (every stage has its node), "spreading"
  todo,        \* the stages left, in the order of the loop
  rows,        \* the DP: cost and choice of each stage on each node
  movers,      \* the DP: siblings still to be moved
  placement,   \* placement[s]: a node, 0 while s is not placed
  committed,   \* additional_load / committed_load of each node
  cost         \* total_cost of the market

dpVars == <<rows, movers>>
solverVars == <<problem, nodes, solver, phase, todo, dpVars, placement, committed, cost>>
given == <<dag, problem, nodes, solver>>

Nodes == DOMAIN nodes
StageOf(s) == dag.stage[s]
Domain(n) == nodes[n].domain

\* ExecutionUnit.residual_capacity
Residual(n) == nodes[n].capacity - nodes[n].load

\* 2 within a domain, 20 between domains of the registry, 50 across shards.
Latency(a, b) ==
  IF a = b THEN 0
  ELSE IF Domain(a) = Domain(b) THEN 2
  ELSE IF nodes[a].local /\ nodes[b].local THEN 20 ELSE 50

Trust(d, e) ==
  IF d = e THEN 100
  ELSE IF <<d, e>> \in DOMAIN problem.trust THEN problem.trust[<<d, e>>]
  ELSE IF <<e, d>> \in DOMAIN problem.trust THEN problem.trust[<<e, d>>]
  ELSE 0
Trusted(d, e) == d = e \/ Trust(d, e) > 0

SliceMatches(slice, required) == required = None \/ slice = "flat" \/ slice = required

\* _is_node_feasible_simple: the stage alone on the node.
FeasibleAlone(s, n) ==
  /\ StageOf(s).demand <= Residual(n)
  /\ SliceMatches(nodes[n].slice, StageOf(s).slice)
  /\ StageOf(s).domain # None => Domain(n) = StageOf(s).domain
  /\ StageOf(s).type \in problem.localTypes /\ StageOf(s).domain # None
       => Domain(n) = StageOf(s).domain

\* Broken variant: what this round has committed is not looked at.
Fits_NoLedger(s, n) == StageOf(s).demand <= Residual(n)

Fits(s, n) == StageOf(s).demand <= Residual(n) - committed[n]

Placed(s) == placement[s] # 0

\* Broken variant: the trust between the two domains is not asked for.
EdgeHolds_LatencyOnly(u, v, m, n) == Latency(m, n) <= Bound(dag, u, v)

\* An edge whose ends are on nodes m and n.
EdgeHolds(u, v, m, n) == Latency(m, n) <= Bound(dag, u, v) /\ Trusted(Domain(m), Domain(n))

\* _is_node_feasible: next to the stages placed so far.
Feasible(s, n) ==
  /\ FeasibleAlone(s, n)
  /\ committed[n] > 0 => Fits(s, n)
  /\ \A u \in ToSet(Predecessors(dag, s)) : Placed(u) => EdgeHolds(u, s, placement[u], n)
  /\ \A v \in ToSet(Successors(dag, s)) : Placed(v) => EdgeHolds(s, v, n, placement[v])

-----------------------------------------------------------------------------
(* Costs. *)

LoadRatio(s, n) == (Unit * StageOf(s).demand) \div nodes[n].capacity

Crossing(m, n) == IF Domain(m) # Domain(n) THEN 1 ELSE 0

\* What the edge from a stage on m to one on n adds.
EdgeCost(m, n) == Unit * (problem.alpha * Latency(m, n) + problem.gamma * Crossing(m, n))

StageCost(s, n) == problem.beta * LoadRatio(s, n)

\* f[1] + ... + f[n]
Total(f, n) ==
  LET sum[i \in 0..n] == IF i = 0 THEN 0 ELSE sum[i - 1] + f[i]
  IN  sum[n]
SumOf(op(_), seq) == Total([i \in DOMAIN seq |-> op(seq[i])], Len(seq))

PlacedPredecessors(s) == SelectSeq(Predecessors(dag, s), Placed)

\* The greedy increment: edges from the predecessors placed, and the load.
AddedCost(s, n) ==
  SumOf(LAMBDA u : EdgeCost(placement[u], n), PlacedPredecessors(s)) + StageCost(s, n)

\* Latencies to the predecessors, and the compute time when the node states one.
AddedLatency(s, n) ==
  SumOf(LAMBDA u : Latency(placement[u], n), PlacedPredecessors(s)) + nodes[n].compute

\* _placement_cost of a whole assignment.
PlacementCost(p) ==
  SumOf(LAMBDA e : EdgeCost(p[e.source], p[e.target]), dag.edges)
    + SumOf(LAMBDA s : StageCost(s, p[s]), dag.stages)

-----------------------------------------------------------------------------
(* One stage: the nodes a strategy may pick, at most one of them. *)

Earliest(S) == {n \in S : \A m \in S : n <= m}
Cheapest(S, Price(_)) == Earliest({n \in S : \A m \in S : Price(n) <= Price(m)})

GreedyChoice(s) ==
  Cheapest({n \in Nodes : Feasible(s, n)}, LAMBDA n : AddedCost(s, n))

Roomy(s) == {n \in Nodes : Fits(s, n) /\ FeasibleAlone(s, n)}

LatencyChoice(s) == Cheapest(Roomy(s), LAMBDA n : AddedLatency(s, n))

LocalNodes == {n \in Nodes : Domain(n) = problem.local}

LocalityChoice(s) == Earliest(Roomy(s) \cap LocalNodes)

SpilloverChoice(s) ==
  IF Roomy(s) \cap LocalNodes # {} THEN LocalityChoice(s) ELSE Earliest(Roomy(s) \ LocalNodes)

Put(s, n) ==
  /\ placement' = [placement EXCEPT ![s] = n]
  /\ committed' = [committed EXCEPT ![n] = @ + StageOf(s).demand]

\* The body of the loop; without a node it raises RuntimeError.
PlaceOn(choice) ==
  /\ \/ \E n \in choice : Put(Head(todo), n) /\ UNCHANGED phase
     \/ choice = {} /\ phase' = "failed" /\ UNCHANGED <<placement, committed>>
  /\ todo' = Tail(todo)
  /\ UNCHANGED <<cost, dpVars>>

Placing(strategy) == phase = "placing" /\ solver = strategy /\ todo # <<>>

GreedyPlacement == Placing("greedy") /\ PlaceOn(GreedyChoice(Head(todo))) /\ UNCHANGED given
LatencyGreedyPlacement == Placing("latency") /\ PlaceOn(LatencyChoice(Head(todo))) /\ UNCHANGED given
LocalityPlacement == Placing("locality") /\ PlaceOn(LocalityChoice(Head(todo))) /\ UNCHANGED given
SpilloverPlacement == Placing("spillover") /\ PlaceOn(SpilloverChoice(Head(todo))) /\ UNCHANGED given

-----------------------------------------------------------------------------
(* Market prices. *)

KnownStageTypes ==
  {"data_collect", "preprocess", "feature_extract", "predict", "detect", "fuse", "aggregate",
   "report"}

\* compute_clearing_prices: the k-th cheapest bid, k = min(demand, supply), is
\* the least price that k bids do not exceed.
ClearingPrice(bids, demand) ==
  LET bidders == DOMAIN bids
      supply == Cardinality(bidders)
      k == IF demand < supply THEN demand ELSE supply
      enough == {b \in bidders : k <= Cardinality({c \in bidders : bids[c] <= bids[b]})}
  IN  IF demand = 0 THEN 0
      ELSE CHOOSE p \in {bids[b] : b \in enough} : \A b \in enough : p <= bids[b]

\* What a worker asks: with dynamic bidding the price diverges with its load.
BidCost(w) ==
  IF ~problem.dynamicBidding THEN w.bid
  ELSE IF 100 * w.load > 99 * w.capacity THEN 100 * w.bid
  ELSE (w.bid * w.capacity) \div (w.capacity - w.load)

OwnDomains == {w.domain : w \in ToSet(problem.workers)}
OwnPrice(d) ==
  LET bidders == {i \in DOMAIN problem.workers : problem.workers[i].domain = d}
  IN  ClearingPrice([i \in bidders |-> BidCost(problem.workers[i])], 1)

\* The prices of the registry win over what a peer said of the same domain.
PricedDomains == OwnDomains \cup DOMAIN problem.peerPrices
Price(d, type) ==
  IF type \notin KnownStageTypes \/ d \notin PricedDomains THEN Infinity
  ELSE IF d \in OwnDomains THEN OwnPrice(d) ELSE problem.peerPrices[d]

ShouldTradeCrossDomain(local, remote) == remote + problem.wan < local

\* Where the stage is bought: the cheapest domain that beats the local price.
Sellers(type) ==
  LET offers == {d \in PricedDomains \ {problem.local} :
                   ShouldTradeCrossDomain(Price(problem.local, type), Price(d, type))}
  IN  IF offers = {} THEN {problem.local}
      ELSE {d \in offers : \A e \in offers : Price(d, type) <= Price(e, type)}

\* Within a domain: the least loaded node, or the first when the broker does not look.
DomainChoice(s, d) ==
  LET free == {n \in Nodes : Domain(n) = d /\ Fits(s, n)}
  IN  IF problem.loadAware THEN Cheapest(free, LAMBDA n : nodes[n].load + committed[n])
      ELSE Earliest(free)

StagePrice(s, d) ==
  IF d = problem.local THEN Price(d, StageOf(s).type)
  ELSE Price(d, StageOf(s).type) + problem.wan

\* Broken variant: a stage that falls back keeps the price it was promised.
Charge_Chosen(s, chosen, paid) == StagePrice(s, chosen)

\* What a stage adds to total_cost: the price of the domain it ends up in.
Charge(s, chosen, paid) == StagePrice(s, paid)

\* Without room in that domain the stage falls back on the local one and its price.
MarketPlacement ==
  /\ Placing("market")
  /\ LET s == Head(todo)
     IN  \E chosen \in Sellers(StageOf(s).type) :
           LET paid == IF DomainChoice(s, chosen) # {} THEN chosen ELSE problem.local
           IN  \/ \E n \in DomainChoice(s, paid) :
                    /\ Put(s, n)
                    /\ cost' = cost + Charge(s, chosen, paid)
                    /\ UNCHANGED phase
               \/ /\ DomainChoice(s, paid) = {}
                  /\ phase' = "failed"
                  /\ UNCHANGED <<placement, committed, cost>>
  /\ todo' = Tail(todo)
  /\ UNCHANGED <<given, dpVars>>

-----------------------------------------------------------------------------
(* Dynamic programming over a tree, from the sources to the sink.          *)

\* Where the predecessor u may be when s is on n.
ChildNodes(u, s, n) ==
  {m \in Nodes : /\ rows[u][m].finite
                 /\ Latency(n, m) <= Bound(dag, u, s)
                 /\ Trusted(Domain(m), Domain(n))}

\* Broken variant: the edge to the parent costs nothing.
BestChild_NoEdge(u, s, n) ==
  LET best == Cheapest(ChildNodes(u, s, n), LAMBDA m : rows[u][m].cost)
  IN  IF best = {} THEN 0 ELSE CHOOSE m \in best : TRUE

BestChild(u, s, n) ==
  LET best == Cheapest(ChildNodes(u, s, n), LAMBDA m : rows[u][m].cost + EdgeCost(m, n))
  IN  IF best = {} THEN 0 ELSE CHOOSE m \in best : TRUE

\* dp[s][n] and choice[s][n]; the cost of an entry that is not finite is INF.
Entry(s, n) ==
  LET preds == ToSet(Predecessors(dag, s))
      child == [u \in preds |-> BestChild(u, s, n)]
      finite == FeasibleAlone(s, n) /\ \A u \in preds : child[u] # 0
      Added(e) == IF e.target # s THEN 0
                  ELSE rows[e.source][child[e.source]].cost + EdgeCost(child[e.source], n)
  IN  [finite |-> finite,
       cost |-> IF finite THEN StageCost(s, n) + SumOf(Added, dag.edges) ELSE 0,
       child |-> child]

DpRow ==
  /\ Placing("tree")
  /\ LET s == Head(todo)
     IN  rows' = [rows EXCEPT ![s] = [n \in Nodes |-> Entry(s, n)]]
  /\ todo' = Tail(todo)
  /\ UNCHANGED <<given, phase, movers, placement, committed, cost>>

Root == CHOOSE s \in Sinks(dag) : TRUE

\* The sink goes where the whole is cheapest.
DpSink ==
  /\ phase = "placing" /\ solver = "tree" /\ todo = <<>>
  /\ LET best == Cheapest({n \in Nodes : rows[Root][n].finite}, LAMBDA n : rows[Root][n].cost)
     IN  \/ \E n \in best :
              /\ placement' = [placement EXCEPT ![Root] = n]
              /\ phase' = "tracing"
              /\ todo' = TopologicalSort(dag)
         \/ best = {} /\ phase' = "failed" /\ UNCHANGED <<placement, todo>>
  /\ UNCHANGED <<given, dpVars, committed, cost>>

\* Back from the sink: a stage goes where its only successor chose.
Trace ==
  /\ phase = "tracing" /\ todo # <<>>
  /\ LET s == Last(todo)
         out == ToSet(Successors(dag, s))
         v == CHOOSE t \in out : TRUE
     IN  placement' = IF out = {} THEN placement
                      ELSE [placement EXCEPT ![s] = rows[v][placement[v]].child[s]]
  /\ todo' = Front(todo)
  /\ UNCHANGED <<given, phase, dpVars, committed, cost>>

Booked(p) ==
  [n \in Nodes |-> SumOf(LAMBDA s : IF p[s] = n THEN StageOf(s).demand ELSE 0, dag.stages)]

DpTraced ==
  /\ phase = "tracing" /\ todo = <<>>
  /\ committed' = Booked(placement)
  /\ phase' = "traced"
  /\ todo' = TopologicalSort(dag)
  /\ UNCHANGED <<given, dpVars, placement, cost>>

(***************************************************************************)
(* Siblings (predecessors of one stage) that share a node are spread: all  *)
(* but the most demanding move to the feasible node with the least         *)
(* committed load, if there is one.  Nothing but the stage alone and the   *)
(* room on the node is looked at.                                          *)
(***************************************************************************)
\* Broken variant: only the room is looked at, not slice or sovereignty.
Spare_AnyRoom(s, from) ==
  Cheapest({n \in Nodes \ {from} : Fits(s, n)}, LAMBDA n : committed[n])

Spare(s, from) ==
  Cheapest({n \in Nodes \ {from} : FeasibleAlone(s, n) /\ Fits(s, n)}, LAMBDA n : committed[n])

\* The colocated siblings, the most demanding first, equal ones in order.
ByDemand(seq) ==
  LET Before(i, j) ==
        \/ StageOf(seq[i]).demand > StageOf(seq[j]).demand
        \/ StageOf(seq[i]).demand = StageOf(seq[j]).demand /\ i < j
      rank == SetToSortSeq(DOMAIN seq, Before)
  IN  [i \in DOMAIN seq |-> seq[rank[i]]]

\* Those of the predecessors of s that move, in the order the groups are met.
Movers(s) ==
  LET preds == Predecessors(dag, s)
      Group(n) == SelectSeq(preds, LAMBDA u : placement[u] = n)
      leaders == SelectSeq(preds, LAMBDA u : Head(Group(placement[u])) = u)
  IN  FlattenSeq([i \in DOMAIN leaders |-> Tail(ByDemand(Group(placement[leaders[i]])))])

SpreadSiblings ==
  /\ phase \in {"traced", "spreading"} /\ movers = <<>> /\ todo # <<>>
  /\ phase' = "spreading"
  /\ movers' = Movers(Head(todo))
  /\ todo' = Tail(todo)
  /\ UNCHANGED <<given, rows, placement, committed, cost>>

MoveSibling ==
  /\ phase = "spreading" /\ movers # <<>>
  /\ LET s == Head(movers)
         from == placement[s]
     IN  \/ \E n \in Spare(s, from) :
              /\ placement' = [placement EXCEPT ![s] = n]
              /\ committed' = [committed EXCEPT ![from] = @ - StageOf(s).demand,
                                               ![n] = @ + StageOf(s).demand]
         \/ Spare(s, from) = {} /\ UNCHANGED <<placement, committed>>
  /\ movers' = Tail(movers)
  /\ UNCHANGED <<given, phase, todo, rows, cost>>

-----------------------------------------------------------------------------
\* The loop is over; a market pipeline over its budget is rejected.
Return ==
  /\ todo = <<>> /\ movers = <<>>
  /\ phase = IF solver = "tree" THEN "spreading" ELSE "placing"
  /\ phase' = IF solver = "market" /\ ~AcceptsCost(dag, cost) THEN "failed" ELSE "placed"
  /\ UNCHANGED <<given, todo, dpVars, placement, committed, cost>>

\* merge_topologies: the shards one after another.
MergeTopologies(local, peers) == local \o FlattenSeq(peers)

FindPlacement == IF IsTree(dag) THEN "tree" ELSE "greedy"

Heuristics == {"market", "locality", "latency", "spillover"}

\* "__local__" becomes the domain of the broker that was asked.
Resolved(d, local) ==
  [d EXCEPT !.stage = [s \in Ids(d) |-> IF @[s].domain = "__local__"
                                        THEN [@[s] EXCEPT !.domain = local] ELSE @[s]]]

Sharded(p) == p.mode = "sharded_oracle" /\ p.coordinator

\* The pipeline and the nodes the solver is called with.
Pipeline(p) == Resolved(p.dag, p.local)
Topology(p) == IF Sharded(p) THEN MergeTopologies(p.workers, p.peers) ELSE p.workers

\* Demands and capacities are numbers.
ASSUME ProblemsAssumption ==
  \A p \in Problems :
    /\ Topology(p) \in Seq(ToSet(Topology(p)))
    /\ \A node \in ToSet(Topology(p)) : node.capacity \in Nat /\ node.load \in Nat
    /\ \A s \in Ids(Pipeline(p)) : Pipeline(p).stage[s].demand \in Nat

\* Prices are numbers, and a worker that bids has some capacity.
ASSUME MarketAssumption ==
  /\ Infinity \in Nat
  /\ \A p \in Problems :
       /\ p.wan \in Nat /\ p.peerPrices \in [DOMAIN p.peerPrices -> Nat]
       /\ p.workers \in Seq(ToSet(p.workers))
       /\ \A w \in ToSet(p.workers) : w.bid \in Nat /\ w.load \in Nat /\ w.capacity \in Nat \ {0}

\* The weights of a cost are numbers, and the load ratio divides by a capacity.
ASSUME CostsAssumption ==
  /\ Unit \in Nat
  /\ \A p \in Problems :
       /\ p.alpha \in Nat /\ p.beta \in Nat /\ p.gamma \in Nat
       /\ \A node \in ToSet(Topology(p)) : node.capacity # 0

\* A builder made the graph and gave no edge twice (pattern factories), so that
\* the ends of an edge look up that very edge.
ASSUME EdgesAssumption ==
  \A d \in {Pipeline(p) : p \in Problems} :
    /\ WellBuilt(d)
    /\ \A i, j \in DOMAIN d.edges :
         d.edges[i].source = d.edges[j].source /\ d.edges[i].target = d.edges[j].target => i = j

PlacementInit ==
  /\ problem \in Problems
  /\ dag = Pipeline(problem)
  /\ nodes = Topology(problem)
  /\ solver = IF problem.mode \in Heuristics THEN problem.mode ELSE FindPlacement
  /\ phase = "placing"
  /\ todo = IF solver = "market" THEN dag.stages ELSE TopologicalSort(dag)
  /\ rows = [s \in Ids(dag) |-> << >>]
  /\ movers = <<>>
  /\ placement = [s \in Ids(dag) |-> 0]
  /\ committed = [n \in Nodes |-> 0]
  /\ cost = 0

PlacementNext ==
  \/ GreedyPlacement
  \/ LatencyGreedyPlacement
  \/ LocalityPlacement
  \/ SpilloverPlacement
  \/ MarketPlacement
  \/ DpRow
  \/ DpSink
  \/ Trace
  \/ DpTraced
  \/ SpreadSiblings
  \/ MoveSibling
  \/ Return

placementVars == <<dag, solverVars>>
PlacementSpec == PlacementInit /\ [][PlacementNext]_placementVars

-----------------------------------------------------------------------------
(* check_feasibility, which publish runs on the outcome. *)

CapacityHolds(p) == \A n \in Nodes : Booked(p)[n] > 0 => Booked(p)[n] <= Residual(n)
EdgesHold(p) == \A e \in ToSet(dag.edges) :
  /\ Latency(p[e.source], p[e.target]) <= e.bound
  /\ Trusted(Domain(p[e.source]), Domain(p[e.target]))
GovernanceHolds(p) ==
  \A s \in Ids(dag) : StageOf(s).domain # None => Domain(p[s]) = StageOf(s).domain
SliceHolds(p) == \A s \in Ids(dag) : SliceMatches(nodes[p[s]].slice, StageOf(s).slice)

CheckFeasibility(p) == CapacityHolds(p) /\ EdgesHold(p) /\ GovernanceHolds(p) /\ SliceHolds(p)

-----------------------------------------------------------------------------
\* However many stages of one pipeline land on a node, together they fit what
\* was left of it: every loop but the DP keeps a ledger of what it has already
\* handed out in this round (placement.py:462, 595, 1110, 1155, 1229).
NeverOvercommits ==
  solver # "tree" => \A n \in Nodes : committed[n] > 0 => committed[n] <= Residual(n)

\* The greedy loop checks each stage against its placed neighbours only; what
\* it returns still passes check_feasibility, which looks at the whole.
GreedyIsFeasible == solver = "greedy" /\ phase = "placed" => CheckFeasibility(placement)

\* Slice and sovereignty survive every strategy that is given them, the
\* redistribution of siblings included.
PlacedWhereAllowed ==
  phase = "placed" /\ solver # "market" => GovernanceHolds(placement) /\ SliceHolds(placement)

\* On a tree the DP finds the cheapest assignment of Eq. 10 among all that
\* respect the stages and the edges one by one, and fails only if there is none.
Candidates ==
  {p \in [Ids(dag) -> Nodes] : EdgesHold(p) /\ \A s \in Ids(dag) : FeasibleAlone(s, p[s])}
DpIsOptimal ==
  /\ solver = "tree" /\ phase = "traced" =>
       /\ placement \in Candidates
       /\ LET found == PlacementCost(placement)
          IN  \A p \in Candidates : found <= PlacementCost(p)
  /\ solver = "tree" /\ phase = "failed" => Candidates = {}

\* A pipeline the market accepts can pay for the nodes it was given: stages
\* that fell back on the local domain are charged at the local price.
BudgetCoversPlacement ==
  solver = "market" /\ phase = "placed" =>
    AcceptsCost(dag, SumOf(LAMBDA s : StagePrice(s, Domain(placement[s])), dag.stages))

\* What the docstring of find_placement promises for the edges: "Find a
\* cost-minimising, feasible placement ... subject to capacity (Eq. 1), latency
\* (Eq. 2), governance (Eq. 5), and slice (Eq. 9) constraints"
\* (placement.py:1034-1041).  Spreading siblings breaks it.
FoundPlacementKeepsEdges ==
  phase = "placed" /\ solver \in {"tree", "greedy"} => EdgesHold(placement)
=============================================================================
