# A verification of the neural pub/sub experiments

This directory specifies the processes under `src/` in TLA+: the brokers, their
workers, the federation, and the experiment around them. TLC model-checks the
specifications, and the TLA+ proof system proves their main properties. Paths
below are relative to the repository root; `src/src` is the Python package
directory as the manifest names it.

## 1. The system

A *domain* is one broker and its workers, all single-threaded asyncio processes
that talk HTTP. A client publishes a *pipeline*, a DAG of stages. The broker
places every stage on a worker, sends the stages whose predecessors are complete
(`POST /execute`), and a worker reports each stage it ran (`POST /result`)
before it answers the `/execute`. The broker probes its workers and moves the
stages of a dead one. Brokers of several domains forward pipelines to each other
and exchange capacity summaries and prices. An experiment adds a generator of
requests, an injector of failures and a collector of traces.

| component | source | state | operations | hard behaviour | what makes it correct |
|---|---|---|---|---|---|
| pipeline engine of NeuralBroker | `broker/neural_broker.py`, `broker/base.py`, `broker/models.py` | registry, failure counters, pipeline table; per pipeline placement, completed, dispatched and skipped stages; suspended coroutines | publish, dispatch, re-dispatch, result, register, deregister, health round, recovery | everything runs between everybody's awaits; results late and twice; a chain of nested waits | DAG order, dispatch once, outcome final, recovery complete, pipelines settle |
| funnel policy | `broker/funnel_resilience.py` | environment variables | `apply_funnel_policy`, `find_funnel_predecessor_stages` | inputs lost while others arrive | wait, proceed and abort do what they say |
| load accounting | `neural_broker.py` `_update_worker_load`, `_rebuild_topology`; `worker.py` `execute_stage` | three copies of each worker's load | reserve, release, sync, rebuild | copies diverge; failure paths skip the release | what is reserved is released |
| worker | `worker/worker.py` | load, registration | start, execute, report with one retry, health, shutdown | report times out although it arrived; registers before it listens | reports at least once while it lives |
| static broker | `broker/static_broker.py`, `broker/base.py` | as the engine, and a cycle of workers per slice | as the engine, eviction at the first failed dispatch | recovery split over two paths; cycles built at different moments | as the engine; even picks among those who are there |
| graphs and templates | `pipeline/dag.py`, `pipeline/patterns.py` | stages, edges | add, sort, tree test, factories | ties broken by insertion order; repeated edges | the sort is topological, the tree test exact |
| placement, market | `broker/placement.py`, `broker/market.py` | none (pure) | greedy, DP with redistribution, market, locality, latency, spillover, feasibility, prices | ledgers of what was handed out; a pass after the optimum | capacity, edges, slices, sovereignty, optimality, budget |
| federation: summaries | `federation/propagation.py`, `neural_broker.py` | peer health counters, peer summaries, prices | push round, receive, probe | late and reordered pushes | newest summary wins, reachable peers are healthy |
| federation: forwarding, routing | `neural_broker.py` `_try_federation_forward`, `federation/summary.py`, `routing.py` | requests under way | forward, summarise, compress, route | a time-out after the peer accepted; radii added in a space without a metric | no loop, no unnoticed double run, subscribers found |
| sharded oracle | `broker/sharded_oracle_broker.py`, `neural_broker.py` | pulled topologies, worker URLs | pull, merge, decide, dispatch | the URLs are replaced while stages wait | a placed stage can be dispatched |
| Kafka sidecar | `broker/kafka_consumer.py`, `neural_broker.py` `_send_to_worker` | group position, tasks, semaphore | produce, consume, commit, post | commits run ahead of the posts | a lost stage has a known cause |
| failure injector, adaptation | `measurement/failure.py`, `harness.py` | killed containers, cut links, events | kill, partition, restore, clean up, match events | scenarios overlap between an effect and its booking | everything is restored; an outage is measured from its own failure |
| traces | `measurement/harness.py` | records per pipeline | record, complete, latencies, crossings | stages that ran twice, late results | figures lie within the run |
| workload generator | `workload/generator.py` | tasks, counters, warm-up identities | arrive, publish, drain, export, tag | cancellations, rejections that run | figures are what the brokers did |
| warm-up detection, scripts | `measurement/warmup.py`, `scripts/` | none | offline statistics, deployment, plots | none | not modelled |

`PROJECT.json` lists the same components with their status, and under `hazards`
every place in the code that is hard to test, with the properties that watch it.

## 2. Modules

| module | models |
|---|---|
| `NeuralBroker` | the pipeline engine, the funnel policy, the worker processes, the network and the faults |
| `PipelineLifecycle` | the abstract promise: stages start in DAG order, a pipeline ends once, a success is complete |
| `StaticBroker` | the baseline engine: the actions it shares with `NeuralBroker`, and those that differ |
| `BrokerLoad` | `NeuralBroker` plus the three load figures: a step of the engine together with what the same lines do to the figures |
| `RoundRobin` | the cycles of the static broker |
| `Dag`, `Patterns` | the graph builder with its algorithms; every template |
| `Placement` | every placement strategy, market prices, `check_feasibility` |
| `Routing` | summaries, their compression, `federated_route` |
| `Propagation` | the summary exchange: push rounds, peer health and probes, both caches of the receiver, late requests, broker crashes |
| `Workload` | the generator, forwarding between brokers, drain and export |
| `ShardedOracle` | pulls, decision, URL cache and dispatches of a coordinator |
| `KafkaTransport` | producer, topic, sidecar |
| `AdaptationTracker` | how the tracker matches recoveries with failures |
| `FailureInjection` | scenarios, their books, the cleanup, the events they record |
| `Traces` | what the collector computes from the records of a pipeline |
| `MCNeuralBroker`, `MCBrokerModes`, `MCBrokerLiveness`, `MCBrokerLoad`, `MCPropagation`, `MCDecisions`, `MCServices` | instances for TLC |
| `NeuralBroker_proofs`, `Dag_proofs`, `Placement_proofs` | theorems and proofs about the module they are named after |
| `Brokers_proofs` | about `StaticBroker`, about what drives a pipeline of either broker, about `BrokerLoad` |
| `Decisions_proofs` | about `RoundRobin` and `Routing` |
| `Federation_proofs` | about `Propagation`, `ShardedOracle` and `Workload` |
| `Services_proofs` | about `FailureInjection`, `KafkaTransport` and `Traces` |

`MCBrokerModes` composes three instances of the engine, the static broker and
`BrokerLoad`, `MCBrokerLiveness` both brokers and `BrokerLoad`, `MCDecisions` the
four parts that compute (graph, placement, cycles, routing), and `MCServices` the six parts around the engine. In each of them a
variable (`mode`, `broker`, `part`) chooses once what a behaviour is about; the
rest stands still, so that the state spaces add up and do not multiply.

### How the code maps to NeuralBroker

*Atomicity.* `_workers_lock`, `_pipelines_lock` and the collector's lock guard blocks
without an await, so acquiring one never suspends a coroutine, and neither does
awaiting a coroutine that does not itself suspend. A handler therefore runs
without interruption from one network call, `gather` or `sleep` to the next.
Each such stretch is one action:

| code | actions |
|---|---|
| `publish` up to its `gather` | `Publish` |
| `_dispatch_stage` up to the first send | `StartDispatch`, `StartUnregistered` |
| ... from the first send's end | `SendReturns`, `Redispatch`, `DispatchFails` |
| ... from the second send's end | `SendReturns`, `RedispatchFails` |
| `/result` up to its `gather` or answer | `ResultUnknown`, `ResultOfFailed`, `ResultDelivers`, `ResultAdvances` |
| `/result` after the `gather` | `ResultAnswered` |
| `/register`, `DELETE /register` | `Register`, `Deregister` |
| `_health_check_loop` | `ProbeStart`, `ProbeAnswer`, `ProbeJoin`, then `RemoveDead`, one of `ReplaceNothing`, `ReplaceStages`, `ReplaceFails` per affected pipeline, `HealthResumes` after a wait, `VictimDone` |
| `Worker.run`, `_register_with_retry` | `Register` (with `Boot`), `StartWithoutRegistration`, `Listen` |
| `execute_stage`, `_report_result` | `Execute`, `FinishStage`, `ReportAgain`, `ReportGivenUp` |

`gather` runs each `_dispatch_stage` as a task of its own, which starts in a later
turn of the event loop: between `task = "spawned"` and `StartDispatch` other
handlers run. The stretch from the join of the probes to the next dispatch or
sleep contains no suspension, however many pipelines it walks; it is cut into one
action per pipeline, and the guard `LoopFree` keeps all other broker handlers out
until it is over. Worker steps and network steps commute with it.

*State.* `active`, `failed`, `placement`, `completed`, `dispatched`, `skipped` are the
fields of `PipelineState` for all pipelines; stages of pipelines are jobs
`<<p, s>>`. `waiting` and `expired` stand for `funnel_wait_start` and the clock.
`outcome` is the trace of the pipeline in the `MetricsCollector`. A suspended
`_dispatch_stage` is `task[j]` and its local `node_id` is `target[j]`. A suspended
`/result` handler is a record of `handlers` with the jobs its `gather` awaits.

*Abstractions.* The placement solver is any function to registered workers, or a
failure whenever the code handles one; that covers each strategy of `Placement`
and every capacity. Every accepted publish is one of the `Pipelines`; a refused one leaves
no state behind. The template is one DAG shared by the pipelines, any predecessor
relation; its stages are listed in topological order, as the templates of
`pipeline/patterns.py` list them. Failure counters stop at `MaxFailures`, as the
code only compares with `>=`. The broker process itself does not crash: it keeps
nothing on disk, so a restarted broker is a new one.

*Faults.* A fault is a step of the environment: a killed worker, an answer that
comes too late for its caller (2 s, 5 s and 30 s time-outs alike), a request or
result that gets lost, a failing stage, a deregistration (`shutdown` is one,
followed by the end of the process), a restart, a worker that is slow to listen,
exhausted registration attempts. `Faults` selects the kinds and `MaxFaults` bounds
their number; everything that follows from a fault (a refused connection, a
repeated report, a failed probe) is not bounded. The proofs hold for every
`Faults` and `MaxFaults`.

### How the code maps to Propagation

`StartRound` is `push_summary` up to its `gather`, with `_select_eligible_peers`;
`Answer`, `BrokenConnection` and `Timeout` are the two branches of `_send_to_peer`,
`RecordFailure` the counting; `Receive` is the whole `POST /federation/summary`
handler with `receive_summary`. The round is over when `awaiting[d]` is empty,
which is when `gather` returns. `ChangeTopology` is `_rebuild_topology` as far as
the summary goes, `ChangeLoad` every change of a load. A summary is its timestamp
and one capacity figure; timestamps come from one clock that never repeats, as
only those of one domain are compared. `failures` stops at `MaxPeerFailures`. A
restarted broker knows nothing, its workers register again by `ChangeTopology`.
A static broker serves the same endpoint, but nothing sets its local summary.

A receiver keeps two copies, which `Receive` writes: `seen` is the propagator's, which
refuses an older summary, and `cache` the broker's own, which takes whatever comes and
does go back when a late request is served, until the next push. `Fresh` is the
condition of `receive_summary`, with its legacy case: a time of 0, of either summary,
is accepted. No broker sends one (`_build_capacity_summary` stamps each), and time 0
stands for no summary in the model.

A request belongs to a round as long as it is `live`. A time-out either loses it
or leaves it to be served later, even after the sender's crash; a restart of the
receiver breaks the requests under way. Two equal requests that both lost their
sender's interest are one in `net`: serving it twice changes nothing.

### How the code maps to StaticBroker and RoundRobin

`BaseBroker` carries publish, results, registration and the health loop for both
brokers, so `StaticBroker` EXTENDS `NeuralBroker` and replaces what
`static_broker.py` overrides: a dispatch to an unregistered worker closes the
trace (`StaticStartUnregistered`), a failed first send evicts the worker from the
registry and places this one stage anew (`Evict`, `StaticRedispatch`,
`StaticDispatchFails`), a deregistration fails no pipeline (`StaticDeregister`),
and a recovery moves stages one by one until one finds no worker
(`StaticReplaceFails`). A pick is any registered worker, or a failure; the picks
themselves are `RoundRobin`, where a cycle is the sequence of its workers with
the next one first, which is what `itertools.cycle` keeps.

### How the code maps to Dag, Patterns and Placement

A graph keeps the order of insertion, by which the code breaks ties. `Placement`
makes one step per turn of a strategy's loop. The DP has four loops: `DpRow` fills
the row of a stage (`rows` holds `dp` and `choice` together), `DpSink` picks the
node of the sink, `Trace` follows the choices back, and after `DpTraced` has
summed up the loads, `SpreadSiblings` and `MoveSibling` spread the siblings that
share a node; `phase` is "traced" in between, so that a property can speak of the
optimum. Groups of siblings are met one after another but read in advance
(`movers`): a group is a set of stages of one node, and moving one stage does not
change another. `Trace` walks the stages backwards where the code recurses over
the tree; each stage of a tree has one successor, and gets its node from that one's
choice in either order. Nodes are numbers in the order of the topology. Demands and capacities
are in hundredths, and costs are multiplied by `Unit`, a common multiple of the
capacities, so that the load ratio is an integer: nothing is rounded, and the
tolerance of 1e-9 in the comparisons has no counterpart. A problem fixes what
`publish` would hand over: graph, mode, nodes, trust, weights, switches and peer
prices. `publish` dispatches a placement that `check_feasibility` refuses all
the same; the model therefore has no step for a refusal.

### How the code maps to Routing and Workload

Embeddings are directions in a plane in steps of 7.5 degrees, where angles add up
exactly: the worst case for a radius. Which clusters k-means merges is an input, as
are the spread of a cluster and the threshold, which nothing in the code ties to each
other. `Workload` identifies a call by its *way*, the sequence of brokers that handed
the request on; each broker on the way is a handler that is placing, running its
sources, asking the next peer, or has answered. A time-out is the caller's step
alone, and the callee goes on. The generator is `run` with its publish tasks
(`Post` takes the semaphore), the drain with its cancellations, and the export;
`PipelineId` and `RequestId` keep apart the identities that the broker and the
generator draw. The home broker may break for good; a peer that breaks is a peer
that does not answer.

### How the code maps to ShardedOracle and KafkaTransport

In `ShardedOracle` a publish is `StartPull`, one `PullPeer` per peer in their
order, and `Decide`, which replaces the URL cache and places on any candidate
it has seen (what a strategy would choose is `Placement`); `DispatchStage` reads
registry and cache when the stage is due, possibly after other publishes. Pipelines
are chains. In `KafkaTransport` a message is a stage with its worker's URL, as
the broker always sends it; the three topics the sidecar reads are one sequence,
the others drop out. `Commit` is the client library's timer.

### How the code maps to FailureInjection and Traces

A Docker call takes effect while its task waits; the books are written when the
task is resumed: hence `Inject` and `BookInjection`, `CheckRestart`,
`RestartContainer` and `BookRestart`. Scenarios run as tasks and overlap at these
points. `AdaptationOutages` is `adaptation_times_ms` with an event's place for
its time; `OpenAfter` is its `pending`, with the places of all keys in one set, and as
in the code every event that is not a recovery is put there. The injector records no
detection events; a neural broker does, in a tracker of its own that nothing reads, and
whose events are not modelled. `Traces` follows the records of one chain whose stages may be sent or
reported twice; time is a tick per step, so that no two records carry one time
by accident, only those of one result.

## 3. Runs

Deadlock is not checked: pipelines settle, runs end, a finished placement is done.

| run | instance | checks |
|---|---|---|
| `broker_faults` | chain of 2 stages, 1 pipeline, wait, any 2 faults of all 8 kinds, a worker is dead after 1 probe | `TypeOK`, `NoEarlyExecution`, `TableMatchesTraces`, `SuccessIsComplete`, `RecoveryIsComplete`, `OutcomeIsFinal`, `DispatchedOnce`, `SpawnedStageFindsWorker`, `ImplementsLifecycle` |
| `broker_proceed` | c after a and b, proceed, bypass, 1 crash | `StepsRepeatNothing` (`OutcomeIsFinal` and `DispatchedOnce`) |
| `broker_modes` | pair: 2 pipelines of 1 stage, 2 crashes or deregistrations; abort: c after a and b, bypass, 1 crash; wait: a, b after a, c after both, bypass, 1 crash; static: chain of 2, 2 crashes, time-outs, deregistrations or restarts; loads: 1 stage, capacity 1, any 2 faults, dead after 2 probes | `OrderInEveryMode` (`NoEarlyExecution` of abort, wait and static), `DrivenInEveryMode` (`LivePipelineIsDriven`), `RecordsInEveryMode` (`RecoveryIsComplete` with two pipelines, `TableMatchesTraces` of the static broker), `StaticResendsElsewhere`, `LoadsAreSound` (`LoadTypeOK`, `IdleWorkerIsUnloaded`), `StepsInEveryMode` (`OutcomeIsFinal` and `DispatchedOnce`) |
| `broker_liveness` | either broker, chain of 2, 1 crash, dead after 2 probes; loads: 1 stage, capacity 1, any fault | `EitherBrokerSettles` (`PipelinesSettle`), `EitherBrokerAnswers` (`DispatchesEnd`), `EitherBrokerRemovesDead` (`DeadWorkerIsRemoved`), `LoadsAreHealed` (`HealthLoopHealsLoad`) |
| `decisions` | graphs of up to 4 stages and 4 edges; some 2,500 placement problems; 3 workers with up to 4 picks between changes; 3 domains, clusters of one or two subscriptions, compressed or not, thresholds of 0.05, 0.2 and 0.3 | `PipelineGraphIsSound`, `NeverOvercommits`, `GreedyIsFeasible`, `PlacedWhereAllowed`, `DpIsOptimal`, `BudgetCoversPlacement`, `RoundRobinIsEven`, `SubscribersAreReachable` |
| `services` | 2 brokers that push to each other, 2 topology changes, 3 crashes or time-outs, unhealthy after 2 failures, probed in every 3rd round; 3 overlapping scenarios on 2 containers and a link, 1 Docker error; 2 requests, a home broker with 2 peers, semaphore 1, 1 late answer; 3 messages of which 2 subscribed, semaphore 1, 1 crash; 2 pipelines of 2 stages over 3 shards, 1 mishap; a chain of 3 on 2 nodes, 1 stage sent or reported twice | `HealthIsEarned`, `SummaryNeverGoesBack`, `PeersConverge`, `ReachablePeerIsHealthy`; `CleanupRestores`, `OutagesAreMeasured`; `NoForwardingLoop`, `RunsMatchAnswers`; `LossHasCause`; `PeersStayKnown`; `FiguresFitTheRun` (`StageWithinPipeline`, `CrossingsAreEdges`); `ServicesComeToAnEnd` (`GeneratorFinishes`, `ReadIsPosted`, `JobsSettle`) |
| `moved_stage_is_lost` | 1 stage, crash and losses | finding 1 |
| `proceed_is_a_full_success` | c after a and b, proceed | finding 2 |
| `reservation_leaks` | 2 parallel stages, 1 failing stage | finding 3 |
| `summary_ignores_load` | 1 broker that pushes to another, no faults | finding 4 |
| `sibling_moves_past_its_bounds` | as `decisions` | finding 5 |
| `warmup_rows_are_not_tagged` | as `services` | finding 6 |

*Why these bounds.* Two stages in a chain give a stage whose inputs come later
and a result that triggers a dispatch; the nested fan-in gives a funnel whose
inputs depend on each other, so that losing one is noticed while the other is
under way. With bypass nobody takes over from a dead input, so that the fan-in of the
abort mode is found dead and its pipeline given up.
Two workers are what a re-placement needs. Two faults are what the
deepest races take: a crash with a late answer or a lost result with a restart.
The symmetric runs permute worker (and pipeline) identities, over which the engine
does not discriminate; in `decisions` the names of the stages that are built. Runs with liveness properties use no symmetry.

Four stages hold every shape the sort and the tree test tell apart: a diamond, a
forest, a repeated edge, a chain with a shortcut. The placement problems
cover between them every template and every strategy, those of eight stages
included; the nodes are chosen so that each
check decides: one that is full, one of another slice, one in another domain,
nodes only large enough together.

In `services`, two topology changes make an older and a newer summary; three
faults make a peer unhealthy by time-outs with a third late request, or by a
crash with two time-outs (refused connections are not bounded); an interval of 3
leaves rounds that pass a peer over twice between probes. Two scenarios share a
container, one of them with a second one after it, which is what an overlap at
each of the injector's awaits takes. One late answer is what makes a request run
twice; two requests over a semaphore of 1 make one wait while the other is
answered late or cancelled. Two publishes interleave at every pull; the one
mishap is a pull, a dispatch or a worker that leaves. A stage that runs twice
may end before or after the other run, and after the pipeline.

Each property has a mutant of a mapped definition that TLC refutes under the same
configuration: `D_X` in the modules is definition `D` with the plausible slip `X`.

*Scope of the properties.* `NoEarlyExecution` excepts proceed mode, which gives up
missing inputs on purpose. `LivePipelineIsDriven` is claimed for crashes and
deregistrations, with the static broker also for late answers and restarts: with
lost results a pipeline can be left without anything under way (finding 1 is one
way), and in proceed mode a skipped stage never completes.
`SpawnedStageFindsWorker` is claimed without bypass and outside proceed mode.
`DpIsOptimal` is about the DP before siblings are spread and about edges one by
one: the DP does not look at how much several stages load a node together, so
`NeverOvercommits` excepts it. `GreedyIsFeasible` says nothing of a failure: the
greedy loop may miss a placement that exists. `SubscribersAreReachable` is
unconditional for a domain that sent its summary as it was. Of a compressed one it is
claimed when the radii stay below the threshold: cosine distance is no metric,
and with a wide cluster and a small threshold a subscriber is lost (see the other
observations). `SummaryNeverGoesBack` speaks of the propagator's copy; the broker's own
does go back, and `PeersConverge` says that it catches up.
`OutagesAreMeasured` speaks of the injector's events, not of the brokers'
(see the other observations).

*Fairness.* The event loop runs every coroutine that can run: each handler, task
and the health loop are weakly fair, in both brokers. The network delivers what
it does not lose, a running worker goes on (`asyncio.sleep` returns, reports are
sent), and timers fire. No fault and no publish is fair, and neither is a
registration: no liveness property depends on anybody joining. In `Propagation`
the push loop of a running broker goes on, an answer or a broken connection that
is there is noticed, and a running peer serves its requests; neither crashes,
time-outs nor restarts are fair, and the liveness properties speak of brokers
that stay up. `Workload` is fair only to the generator's own deadlines
(`Closing`): it ends whatever the brokers do. `KafkaTransport` is fair to the
tasks, each of which has a time-out; `ShardedOracle` to the coordinator's steps,
each of which ends by an answer or a time-out. `MCServices` takes the fairness of
each part.

### Findings

1. *A moved stage is not dispatched* (`moved_stage_is_lost`). The recovery places
   the stages of a dead worker anew and calls `_dispatch_ready_stages`, which
   passes over all stages in `dispatched_stages`. A stage whose dispatch is over
   but whose result was lost stays undone, and its pipeline stays in the table.
2. *A partial result counts as a full success* (`proceed_is_a_full_success`).
   `complete_pipeline` has a parameter `partial` that no caller passes.
3. *Reservations leak* (`reservation_leaks`). A result for a pipeline that left
   the table returns before the release.
4. *A summary ignores load* (`summary_ignores_load`). Dispatches and results change
   the loads without rebuilding the summary, whose docstring promises it: peers
   hold the capacity of the last registration, however often it is pushed.
5. *A sibling moves past the bounds of its edge* (`sibling_moves_past_its_bounds`).
   The pass after the DP spreads siblings over nodes without looking at latency
   bounds or trust; `find_placement` promises both.
6. *Rows of the warm-up are not tagged* (`warmup_rows_are_not_tagged`). The
   generator looks for its own request identities among the pipeline identities
   of the broker, which are drawn apart.

### Other observations

Read in the code while modelling, and modelled as they are, without a run of
their own:

- `domain_crossings` takes the domain from the metadata or a topology; the export
  passes none (`harness.py:477`), so that the exported number is 0. `Traces`
  models the count for callers that pass one.
- `decide_globally` is called with the local governance, although the comment at
  its call speaks of a merged one; `merge_governance` has no caller. A node id that
  two shards share raises a `ValueError` in the merge that nobody catches.
- A coordinator without workers of its own does not place, whatever its peers
  have.
- The market ignores governance and slices, although its docstring says that
  sovereignty constraints still apply. `PlacedWhereAllowed` excepts it.
- `_known_stage_types` reads an attribute that does not exist, so that its default
  set of stage types is priced, and every other type costs infinity.
- A placement that `check_feasibility` refuses is logged and dispatched.
- `adaptation_times_ms` takes the detection-complete events, which a broker records beside
  each failure under the same key, for failures of their own (`harness.py:827`): each
  recovery leaves one behind, and the next one of that worker is paired with it.
  Nothing reads the trackers of the brokers.
- The radius of a compressed cluster adds two cosine distances (`summary.py:256`), which can
  be less than the distance of a member: clusters 15 degrees wide and 75 degrees apart
  get 0.216 where the outermost member is at 0.293. The docstring of `ClusterSummary`
  promises the maximum. Nothing in the repository calls `compress_summary`.
- The static broker evicts a healthy worker whose answer takes too long.
- The static broker never refreshes its summary and never forwards.
- A late duplicate result overwrites the placement in the trace.
- The configuration's `warmup_s` is dropped when the file is loaded.

## 4. Proofs

All theorems hold for every value of the constants that the modules' named
assumptions allow; TLC evaluates each assumption on the runs. Most are types and
shapes of the constants (`NeuralBrokerAssumption`, `PropagationAssumption`,
`FailureAssumption`, `WorkloadAssumption`, `KafkaAssumption`, `OracleAssumption`,
`UnitsAssumption`, `TracesAssumption`). The others say more:

- `TemplateAssumption`: a template has stages, and they form no cycle: among any of
  them is one that needs none of the others. `add_edge` refuses an edge that would
  close a cycle (`src/src/pipeline/dag.py:150`).
- `CapacityAssumption`: a worker has some capacity, and there are finitely many jobs;
  otherwise nothing bounds what the broker may reserve (`MaxLoad`).
- `MarketAssumption`: prices are numbers, and a worker that bids has capacity.
- `ProblemsAssumption`: demands and capacities are numbers. `CostsAssumption`: so
  are the weights of a cost, and the load ratio divides by no capacity of 0.
- `EdgesAssumption`: a builder made the graph the solver is given (`WellBuilt`), and
  gave no edge twice, as no template does. With an edge twice `get_edge` finds the
  last (`src/src/pipeline/dag.py:156`), whose bound need not be that of the first. `GraphsAreWellBuilt` proves
  the first half of whatever a builder makes.
- `CasesAssumption`: clusters have members, and the groups of a compressed summary are
  made of its clusters. Nothing is assumed of spreads and thresholds.

`NeuralBroker_proofs` proves, for every set of workers, pipelines and stages,
every predecessor relation, every funnel policy and every number of faults:
type correctness, `NoEarlyExecution`, `TableMatchesTraces`, `SuccessIsComplete`,
`OutcomeIsFinal`, `DispatchedOnce`, `RecoveryIsComplete`, and under the
restrictions named in the theorems `SpawnedStageFindsWorker` and the
implementation of `PipelineLifecycle`.

*The inductive invariant.* None of the safety properties is inductive: that a
worker holds only stages with complete inputs says nothing of a second report
that is still under way. `IInv` adds what the code relies on silently: whatever
has a task, a call or a result was marked in `dispatched` (`StartedIsMarked`,
`OnlyDispatchedRuns`), a marked stage has its inputs (`DispatchedHasInputs`,
outside proceed mode), an unpublished pipeline left no trace
(`UnknownIsUntouched`), and a recorded failure is marked (`FailureIsMarked`).
The steps are grouped by what they write: most leave the tables alone
(`FrameStep`, `FrameInv`), and advances, dispatches, results, publishes, removals
and recoveries have a lemma each, which `NextInv` combines.

`RecoveryIsComplete` rests on a second invariant, `RecoveryIsPending`: a live job
on an unregistered worker belongs to the victim the health loop is working on,
and its pipeline is still to be treated. `SpawnedStageFindsWorker` needs a third:
a spawned task has nothing under way (`SpawnedIsFresh`), and after every advance
nothing is ready that was not dispatched, so that outside proceed mode the health
loop never waits in the middle of a recovery.

The refinement maps `outcome` to `life`, `dispatched` to `started` and
`completed` to `done`. Results become `Advance`, `Succeed` or `Fail`; retries,
repeated results, moves and abandoned dispatches are stutters.
`DagOrderHolds` carries the abstract order over to the engine: whatever is marked as
dispatched has its inputs, and whatever is complete was marked. It is proved from the
invariant of the engine, not from the guards of the abstract specification.

`DispatchedOnce` has two halves: a stage whose task has started is not spawned again,
and a handler, or the health loop, only waits for stages that were not marked before
(`WaitsAreNew`), so that none is spawned a second time before its first task starts.

`Brokers_proofs` is about what shares the engine.

*The static broker* takes every step of `NeuralBroker` but five and five of its own
(`StaticSteps`, `OwnStep`), so that only those five are proved anew. Its
invariant `StaticInv` is `IInv` with `SpawnedIsFresh` and `NothingIsReady`: this
broker closes a trace without a look at it when a spawned stage finds its worker gone
or a recovery finds no worker, which overwrites no success because neither is done
for a stage that is complete. It gives the types, the DAG order,
`TableMatchesTraces`, `OutcomeIsFinal`, `DispatchedOnce`, the implementation of
`PipelineLifecycle`, and that a stage sent again goes to another worker than the
one that failed (`StaticResendAvoidsFailedWorker`).

*What drives a pipeline.* `LivePipelineIsDriven` is proved of both brokers, for
any number of faults but lost results, and outside proceed mode; the runs claim
less. `DrivenInv` says of every live pipeline that a dispatched stage that is not
done has a dispatch under way or its result on its way (`StageIsDriven`), that a
request whose stage was executed left such a result (`ReportIsUnderWay`), and that
not all stages are done (`LiveIsIncomplete`). Among those that are not done there
is one that needs none of the others, by `TemplateAssumption`; with `NothingIsReady` it
has been dispatched, and so it is driven.

*Loads.* `BrokerLoad` takes steps of `NeuralBroker` only, by the way it is written
(`LoadIsNext`), so that the engine's invariants hold there; that no figure keeps the
engine from a step is not proved. `LoadFiguresAreSound` proves the types
and `IdleWorkerIsUnloaded`. Its invariant says that a job has at most one request per
try, the second only after the first has failed (`OneCallEach`), that a worker's
own figure is at most the number of requests it executes (`OwnIsBacked`: a stage that
starts at full capacity is not counted, and counted off all the same), and that a
figure of the broker is a report and what was reserved since, at most, one unit for
each job sent (`FiguresAreBounded`).

`Dag_proofs` proves for every graph the builder can make, with any stages, bounds
and repeated edges, that it is well built, and `PipelineGraphIsSound`. The prover cannot
apply the library's induction theorem, whose hypothesis is a predicate, so `Induction`
states it for a set of numbers, by a least number outside it (`Placement_proofs` uses
it too), and `Recursion` gives the recursive functions of `Dag` their values.

*The builder.* The search of `CanReach` stops finding stages before it runs out of
rounds (`VisitedIsClosed`), so what it visits is closed under the edges. Were there
after `AddEdge(u, v)` a group in which each stage is the target of another, both ends
would be in it, and u not among what v reaches; what is left of the group without
what v reaches would have been such a group before (`EdgeIsAdded`).

*The sort.* `KahnInv` says after each round that the queue has no stage twice, holds
exactly those all of whose edges come from stages that left it, and holds the source
of an edge before its target. If the queue ran dry early, the stages outside it would
be a group of which each has an edge from within, which `Acyclic` excludes
(`SortFacts`).

*The tree test.* Both directions of `TreeIsConnected` count: sending each stage but
the sink to the edge that leaves it is a bijection (`TreeLeads`, `LeadingIsTree`).

`Placement_proofs` is about the strategies, for any problems.

*Loops of the placement.* `LoopInv` says that what is placed so far respects each
stage, each edge between placed stages (greedy) and, node by node, the ledger
(`NeverOvercommitsHolds`, `GreedyKeepsEdges`). For `GreedyIsFeasibleHolds` the ledger has
to be what `check_feasibility` adds up, and for `BudgetCoversPlacementHolds` the
cost has to be the sum of the prices (`LedgerInv`). Both are sums over the
stages of which one term changes per step; that the whole changes by as much
(`TotalChanges`) is an induction along the stages.

*The DP.* `PlacedWhereAllowedHolds` covers it with its rows, its traceback and the
spreading of siblings. `TreeInv`: in a filled row every entry of finite cost is of a
node that may take the stage, and points to finite entries of the predecessors
(`RowHolds`); the traceback walks against the topological order, so that a stage
is reached after its successor has its node.

*That the DP is optimal.* `DpIsOptimalHolds`: of all assignments of a tree that
are feasible edge by edge none is cheaper than the one the DP traces. `DpInv` says
that each filled entry is computed from the final rows of the predecessors, and that
traced stages have the node their successor's entry names. An entry is then at most
the price of the stage on its node plus the entries any other choice of the
predecessors has. No induction over subtrees is needed: summed up over all stages,
each entry but that of the sink occurs on both sides, once as the entry of a stage and
once in the sum of its one successor (`CostsAddUp`, `CandidatesCostMore`), and
what is left is the sink's entry against the whole cost. That the entries of a
feasible assignment are finite does follow the graph: among the stages whose
entry is not there would be one that needs none of the others, by `Acyclic`.

`Decisions_proofs` is about what a broker computes without a pipeline.

*Turns.* `RoundRobinIsEvenHolds` rests on a fair queue (`FairQueue`): those at the
front have had no more turns than those behind, and nobody two more than
another. A rebuild sorts the eligible workers; that there is a sorted list is proved
by giving each worker the number of those up to it as its place (`SortedLists`).

*Routing.* `SubscribersAreReachableHolds`: a radius reaches every member of its
cluster (`ClusterIsCovered`). Of a group it need not, but two distances on the way add up to
at least half of the whole one (`HalfTheWay`), so that a member is never
farther than twice the super-radius (`GroupIsCovered`). With the radius below the
threshold, radius and threshold together cover it, and the domain of a subscriber is
among the candidates (`SubscriberIsCandidate`).

`Federation_proofs` is about what brokers tell and ask each other.

*Summaries.* For every set of brokers and peers the types, `HealthIsEarned`
(inductive with the types) and `SummaryNeverGoesBack`. As a summary with time 0 would
replace any other, the latter needs that no request under way carries one
(`SentSummariesHaveTimes`): a round starts only with a local summary, which has a time.

*The oracle.* `PeersStayKnown`. As long as nothing has gone wrong a pull has found
exactly the workers of the peers behind it (`JobIsSound`), so that every publish
replaces the URLs by the same set.

*Requests.* `NoForwardingLoop` and `RunsMatchAnswers`, with one invariant per
request, `RequestInv`: ways have at most two brokers (`WaysAreShort`), a peer is
asked only when the home broker could not place (`CallsAreOrdered`), without a late
answer at most one peer asked has not refused (`OneIsOpen`), and what the generator
noted was true (`AnswersAreTrue`).

`Services_proofs` is about what surrounds them.

*The cleanup.* `CleanupRestores` holds for any scenarios. What is down
is on the books or about to be put there, and no task is about to strike it off
(`OutagesAreBooked`); the cleanup begins when no task is between an effect and
its booking, and leaves a kind behind only when its books are empty
(`CleanupIsLast`). A container killed again before its restart was booked breaks
the first, which is why the property excepts it (`overtaken`).

*Outages.* `OutagesAreMeasuredHolds`, for any scenarios. The tracker pairs a recovery with
the earliest open failure of its key, and the property says that this is the last one:
it is if no key fails twice without a recovery in between (`Separated`). Why none does
is in `Tracked`. A scenario *holds* the targets it has broken and not restored: they
are down (`HeldIsDown`), booked (`HeldIsKilled`) and held by nobody else (`HeldOnce`).
A target with an open failure is down, or its recovery is about to be recorded
(`OpenIsDown`), so that it cannot be broken again; it is open only under the type
of its holder (`OpenIsHeld`), so that the holder's recovery closes it. The second
failure that `kill_partial_inputs` records, of the set, needs a condition of its own:
while it is open a scenario holds the whole set or a member is down for good
(`WholeIsBroken`). TLC checked the invariant with up to six overlapping scenarios
on three targets before it was proved.

*The sidecar.* `LossHasCause`. `KafkaInv` extends the claim from
the places below the position to those below the committed one, which is what
survives a crash (`PassedIsHandled`), and counts attempts instead of deliveries
(`RepeatedByCrashes`): a stage not read since the last start has been tried at
most once per crash.

*Figures.* `FiguresFitTheRun`, for chains of any length. A stage is sent only
when those before it are complete, so that every run of it, the first or a
repeated one, starts after the first start of each of those (`ChainIsTimed`). The
records of a stage come with its first result, start before end, and nothing is
timed after the delivery (`RecordsFit`). Hence the order of the first starts is that
of the chain (`ChainIsSorted`), and sending a stage to its edge is a bijection
between what is counted and the edges that cross.

Only model-checked are liveness and fairness (`broker_liveness`, and
`PeersConverge`, `ReachablePeerIsHealthy`, `ServicesComeToAnEnd`), which are out of
the prover's reach. In proceed mode nothing is claimed, by a run or by a theorem, that
a skipped stage breaks: the refinement, `LivePipelineIsDriven` and
`SpawnedStageFindsWorker`.

`MCBrokerModes` wraps properties of its five parts, each under the condition of
its part (`OrderInEveryMode` is `NoEarlyExecution` of the one that is on, and so
on). The theorems state what is wrapped, for each broker apart: `NoEarlyExecution`,
`LivePipelineIsDriven`, `RecoveryIsComplete`, `TableMatchesTraces`,
`ResendAvoidsFailedWorker`, `LoadTypeOK`, `IdleWorkerIsUnloaded`, `OutcomeIsFinal` and
`DispatchedOnce`.

## 5. Not modelled

- *Price signals*: how they travel. They carry neither time nor number by which
  an order could be stated; `Placement` takes what a broker holds of its peers as
  an input.
- *Federation*: the pull endpoint, which changes no state; the integrator, a
  facade no broker calls; the counters of the federation monitor.
- *Measurement*: the events of the brokers' own trackers, detection and re-placement times, percentiles, aggregates, CSV
  and JSON formats, and the warm-up detector, a coefficient of variation over
  floating-point windows.
- *Funnels with the oracle*: `_dispatch_ready_stages` takes workers of peer shards
  for dead; an experiment runs one or the other, and the two are modelled apart.
- *Worker re-registration after removal*: nothing in the code does it.
- *Scripts*: deployment, monitoring, plots; YAML, CLI and Docker lookups.

What could come next: the brokers' own trackers, with detection and re-placement
times; the composition of `ShardedOracle` with the engine's funnels; proofs of what
proceed mode still promises.
