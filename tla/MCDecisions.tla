----------------------------- MODULE MCDecisions -----------------------------
(***************************************************************************)
(* The decisions a broker computes from data it already holds, for TLC:    *)
(* building a graph, placing it, turning the cycles of the static broker,  *)
(* routing a publication.  A behaviour is about one of them.               *)
(***************************************************************************)
EXTENDS Placement, RoundRobin, Routing

CONSTANTS s1, s2, s3, s4, StageNames

VARIABLE part   \* what this behaviour is about; never changes

Builder == {[id |-> s] : s \in StageNames}
Symmetry == Permutations(StageNames)

Node(domain, slice, capacity, load, bid) ==
  [domain |-> domain, slice |-> slice, capacity |-> capacity, load |-> load,
   compute |-> 0, bid |-> bid, local |-> TRUE]
Remote(n) == [n EXCEPT !.local = FALSE]

Trusting == (<<"d1", "d2">> :> 80)

\* One stage never fits a second time on a node of 100; the last node is the roomy one.
Workers ==
  {<<Node("d1", sl, 100, l1, b1), Node("d1", "flat", 200, 0, 30), Node("d2", sr, 200, l2, 20)>> :
     sl \in {"flat", "URLLC"}, sr \in {"flat", "eMBB"}, l1 \in {0, 50}, l2 \in {0, 100},
     b1 \in {20, 60}}

\* One node in each domain: a sibling that moves, moves across the WAN.
Pairs == {<<Node("d1", "flat", 200, l, 20), Node("d2", "flat", 200, 0, 20)>> : l \in {0, 100}}

\* The large node takes the light stages of the small one, for the price of an edge.
Uneven == <<Node("d1", "flat", 200, 0, 20), Node("d1", "URLLC", 400, 360, 20)>>

\* Eight stages do not fit in one domain.
Crowded == {<<Node("d1", "flat", 200, l, 20), Node("d2", "flat", 200, 80, 20)>> : l \in {50, 80}}

Shards == <<Remote(Node("d3", "flat", 200, 0, 10)), Remote(Node("d3", "flat", 100, 50, 10))>>

\* Only the market reads the bids.
Unpriced == {w \in Workers : w[1].bid = 20}

SmallDags ==
  {BuildDag("cqi_prediction"), BuildDag("anomaly_detection"), BuildDag("map"),
   SensorFusionPipeline(2), FunnelPipeline(2, "ingest", 10, 5)}
\* Sensors that may share a node, and may not all be moved off it.
SlicedSensors ==
  [SensorFusionPipeline(2) EXCEPT !.stage["sensor_0"].slice = "URLLC",
                                  !.stage["sensor_1"].domain = "__local__"]
LargeDags == {BuildDag("ran_entangled"), BuildDag("anomaly_sp"), BuildDag("cqi_chain")}

Given(d, mode, workers) ==
  [dag |-> d, mode |-> mode, workers |-> workers, peers |-> <<Shards>>, coordinator |-> TRUE,
   local |-> "d1", alpha |-> 1, beta |-> 1, gamma |-> 1, localTypes |-> {"collect"},
   trust |-> Trusting, wan |-> 10, loadAware |-> FALSE, dynamicBidding |-> FALSE,
   peerPrices |-> ("d2" :> 5) @@ ("d3" :> 15)]

SolverProblems ==
  {[Given(d, "neural", w) EXCEPT !.trust = t, !.beta = b] :
     d \in SmallDags \cup {SlicedSensors}, w \in Unpriced \cup Pairs \cup {Uneven}, t \in {<< >>, Trusting}, b \in {1, 40}}
ShardedProblems ==
  {[Given(d, "sharded_oracle", w) EXCEPT !.coordinator = c, !.trust = t] :
     d \in {BuildDag("cqi_prediction"), BuildDag("map")},
     w \in {x \in Unpriced : x[1].slice = "flat"},
     c \in BOOLEAN, t \in {<< >>, Trusting @@ (<<"d1", "d3">> :> 50)}}
HeuristicProblems ==
  {Given(d, m, w) : d \in SmallDags \cup LargeDags, w \in Unpriced,
                    m \in {"locality", "latency", "spillover"}}
MarketProblems ==
  {[Given([d EXCEPT !.budget = b], "market", w)
      EXCEPT !.loadAware = a, !.dynamicBidding = y, !.local = l] :
     d \in {BuildDag("cqi_chain"), BuildDag("anomaly_detection")}, w \in Workers,
     b \in {None, 100, 200}, a \in BOOLEAN, y \in BOOLEAN, l \in {"d1", "d2"}}
LargeProblems ==
  {[Given(d, "neural", w) EXCEPT !.trust = t] :
     d \in {BuildDag("ran_entangled")}, w \in Unpriced \cup Crowded, t \in {<< >>, Trusting}}

AllProblems ==
  SolverProblems \cup ShardedProblems \cup HeuristicProblems \cup MarketProblems
    \cup LargeProblems

NoProblem == Given(EmptyDag, "none", << >>)

IdleSolver ==
  /\ dag = EmptyDag
  /\ problem = NoProblem /\ nodes = << >> /\ solver = "none" /\ phase = "none"
  /\ todo = <<>> /\ rows = << >> /\ movers = <<>> /\ placement = << >> /\ committed = << >> /\ cost = 0

WorkerSlices == <<"flat", "URLLC", "eMBB">>

\* Two clusters at the far domain, whose centroid is up to 45 degrees from a member.
AllCases ==
  {[clusters |-> ("a" :> {{h}}) @@ ("b" :> {{0, 2 * w}, {12 - 2 * w, 12}}) @@ ("c" :> {{6}}),
    groups |-> ("b" :> {{{0, 2 * w}, {12 - 2 * w, 12}}}), compressed |-> z, at |-> "a",
    publication |-> p, threshold |-> t, trust |-> ("b" :> x) @@ ("c" :> 60), localOnly |-> l] :
     h \in {0, 9}, w \in 0..2, z \in {{}, {"b"}}, p \in 0..12, t \in {50, 200, 300}, x \in {0, 80},
     l \in BOOLEAN}

NoCase == CHOOSE c \in AllCases : TRUE
IdleRouting == query = NoCase /\ summary = << >> /\ route = Unrouted

DecisionsInit ==
  \/ part = "graph" /\ Init /\ IdleSolver /\ RotorInit /\ IdleRouting
  \/ part = "placement" /\ PlacementInit /\ RotorInit /\ IdleRouting
  \/ part = "rotor" /\ IdleSolver /\ RotorInit /\ IdleRouting
  \/ part = "routing" /\ IdleSolver /\ RotorInit /\ RoutingInit

DecisionsNext ==
  /\ UNCHANGED part
  /\ \/ part = "graph" /\ Next /\ UNCHANGED <<solverVars, rotorVars, routingVars>>
     \/ part = "placement" /\ PlacementNext /\ UNCHANGED <<rotorVars, routingVars>>
     \/ part = "rotor" /\ RotorNext /\ UNCHANGED <<placementVars, routingVars>>
     \/ part = "routing" /\ RoutingNext /\ UNCHANGED <<placementVars, rotorVars>>

decisionsVars == <<part, placementVars, rotorVars, routingVars>>
DecisionsSpec == DecisionsInit /\ [][DecisionsNext]_decisionsVars
=============================================================================
