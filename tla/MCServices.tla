----------------------------- MODULE MCServices -----------------------------
(***************************************************************************)
(* The parts around the broker's engine, each on its own: a behaviour runs *)
(* one of them and leaves the others as they began.                        *)
(***************************************************************************)
EXTENDS MCPropagation, FailureInjection, Workload, KafkaTransport, ShardedOracle, Traces

CONSTANTS d3, c1, c2, l1, r1, r2, m1, m2, m3, j1, j2, u1, u2, u3, n1, n2

VARIABLE part   \* never changes

\* Two workers lose a container each, one of them twice, and a link is cut.
OverlappingScenarios ==
  {[type |-> "worker_kill", targets |-> <<c1>>, ends |-> TRUE],
   [type |-> "partial_input", targets |-> <<c1, c2>>, ends |-> TRUE],
   [type |-> "network_partition", targets |-> <<l1>>, ends |-> TRUE]}

\* The home broker has two peers that have no peer but it.
Star == (d1 :> <<d2, d3>>) @@ (d2 :> <<d1>>) @@ (d3 :> <<d1>>)

\* A coordinator and two shards with a worker each.
PeerShards == <<d2, d3>>
Owners == (u1 :> d1) @@ (u2 :> d2) @@ (u3 :> d3)

TwoDomains == (n1 :> d1) @@ (n2 :> d2)

ServicesInit ==
  /\ part \in {"propagation", "failure", "workload", "kafka", "oracle", "traces"}
  /\ Init /\ FailureInit /\ WorkloadInit /\ KafkaInit /\ OracleInit /\ TracesInit

All == <<part, vars, failureVars, workloadVars, kafkaVars, oracleVars, traceVars>>

ServicesNext ==
  /\ UNCHANGED part
  /\ \/ /\ part = "propagation" /\ Next
        /\ UNCHANGED <<failureVars, workloadVars, kafkaVars, oracleVars, traceVars>>
     \/ /\ part = "failure" /\ FailureNext
        /\ UNCHANGED <<vars, workloadVars, kafkaVars, oracleVars, traceVars>>
     \/ /\ part = "workload" /\ WorkloadNext
        /\ UNCHANGED <<vars, failureVars, kafkaVars, oracleVars, traceVars>>
     \/ /\ part = "kafka" /\ KafkaNext
        /\ UNCHANGED <<vars, failureVars, workloadVars, oracleVars, traceVars>>
     \/ /\ part = "oracle" /\ OracleNext
        /\ UNCHANGED <<vars, failureVars, workloadVars, kafkaVars, traceVars>>
     \/ /\ part = "traces" /\ TracesNext
        /\ UNCHANGED <<vars, failureVars, workloadVars, kafkaVars, oracleVars>>

\* Each part with its own fairness: where a part does not run, nothing of what
\* it is fair to is enabled.  Failures and traces need none.
ServicesFairness ==
  /\ Fairness
  /\ KafkaFairness
  /\ OracleFairness
  /\ WF_workloadVars(part = "workload" /\ Closing)

ServicesSpec == ServicesInit /\ [][ServicesNext]_All /\ ServicesFairness

-----------------------------------------------------------------------------
\* GeneratorFinishes, ReadIsPosted and JobsSettle of the parts they are about.
ServicesComeToAnEnd ==
  /\ part = "workload" => GeneratorFinishes
  /\ part = "kafka" => ReadIsPosted
  /\ part = "oracle" => JobsSettle
=============================================================================
