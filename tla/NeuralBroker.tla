---------------------------- MODULE NeuralBroker ----------------------------
(***************************************************************************)
(* The pipeline engine of one NeuralBroker and the workers it drives over  *)
(* HTTP: publish, dispatch with a single re-placement, stage results,      *)
(* funnel resilience, (de)registration and the health-check loop.          *)
(*                                                                         *)
(* The broker is one asyncio event loop.  Its locks guard blocks that do   *)
(* not await, so they never suspend a coroutine: a handler runs without    *)
(* interruption from one network call, gather or sleep to the next, and    *)
(* that stretch is one action here.  The placement solver is abstracted to *)
(* what the engine sees of it: any assignment to registered workers, or a  *)
(* RuntimeError.  Worker load is added by module BrokerLoad.               *)
(***************************************************************************)
EXTENDS Naturals, FiniteSets

CONSTANTS
  Workers,        \* node ids of the domain's workers
  Pipelines,      \* pipeline ids, one per accepted publish
  Stages,         \* stage ids of the pipeline template
  Preds,          \* Preds[s]: the stages with an edge into s
  FunnelMode,     \* FUNNEL_MODE: "wait", "proceed" or "abort"
  BypassReplace,  \* FUNNEL_BYPASS_REPLACE
  MaxFailures,    \* health_check_max_failures
  Faults,         \* kinds of faults of this instance, a subset of FaultKinds
  MaxFaults,      \* bound on the number of faults of a behaviour
  None            \* no worker

FaultKinds ==
  { "crash",      \* a worker process is killed
    "timeout",    \* a request is answered too late for its caller
    "loss",       \* a request, or a result, never reaches its receiver
    "error",      \* a stage ends with success = False
    "deregister", \* DELETE /register/{node_id}
    "restart",    \* a killed worker process is started again
    "slow",       \* a worker that starts is registered long before it listens
    "unregistered" \* all registration attempts of a starting worker fail
  }

ASSUME NeuralBrokerAssumption ==
  /\ Preds \in [Stages -> SUBSET Stages]
  /\ FunnelMode \in {"wait", "proceed", "abort"}
  /\ BypassReplace \in BOOLEAN
  /\ MaxFailures \in Nat \ {0}
  /\ Faults \subseteq FaultKinds
  /\ MaxFaults \in Nat
  /\ None \notin Workers

\* A template has stages and its edges close no cycle (PipelineDAG.add_edge):
\* among any of its stages there is one that needs none of the others.
ASSUME TemplateAssumption ==
  /\ Stages # {}
  /\ \A S \in SUBSET Stages : S # {} => \E s \in S : Preds[s] \cap S = {}

\* A job is one stage of one pipeline instance.
Jobs == Pipelines \X Stages
JobsOf(p) == {p} \X Stages
PredJobs(j) == {j[1]} \X Preds[j[2]]
FanIn(s) == \E q, r \in Preds[s] : q # r
FunnelPreds == UNION {Preds[s] : s \in {t \in Stages : FanIn(t)}}

VARIABLES
  \* the environment and the worker processes
  process,     \* process[w]: not yet started, about to listen, up or killed
  calls,       \* POST /execute requests the network or a worker holds
  results,     \* POST /result requests on their way to the broker
  faults,      \* faults so far
  \* the broker's registry and pipeline table
  registry,    \* _workers
  failures,    \* _worker_failures, an absent entry is 0
  active,      \* _active_pipelines
  failed,      \* pipelines with ps.failed
  placement,   \* ps.placement
  completed,   \* ps.completed_stages, of all pipelines
  dispatched,  \* ps.dispatched_stages
  skipped,     \* ps.skipped_stages
  waiting,     \* pipelines with ps.funnel_wait_start
  expired,     \* of those, the ones whose FUNNEL_TIMEOUT has elapsed
  outcome,     \* the pipeline's trace in the MetricsCollector
  \* the broker's suspended coroutines
  task,        \* task[j]: where _dispatch_stage of job j stands
  target,      \* its local node_id
  handlers,    \* /result handlers that wait for their dispatches
  \* the health-check loop
  hpc,         \* where it stands
  probe,       \* the answers of the current round
  doomed,      \* dead_workers not yet removed
  victim,      \* the worker being removed
  affected,    \* its pipelines not yet re-placed
  hwaits       \* the dispatches the loop waits for

workerVars == <<process, calls, results>>
pipeVars   == <<active, failed, placement, completed, dispatched, skipped,
                waiting, expired, outcome>>
healthVars == <<hpc, probe, doomed, victim, affected, hwaits>>
vars == <<process, calls, results, faults, registry, failures, active, failed,
          placement, completed, dispatched, skipped, waiting, expired, outcome,
          task, target, handlers, hpc, probe, doomed, victim, affected, hwaits>>

Calls == [job : Jobs, try : {1, 2}, node : Workers, ok : BOOLEAN,
          phase : {"sent", "running", "report1", "report2", "returned"}]
Results == [job : Jobs, try : {1, 2}, num : {1, 2}, node : Workers,
            ok : BOOLEAN]
Handlers == [job : Jobs, try : {1, 2}, num : {1, 2}, awaits : SUBSET Jobs]

TypeOK ==
  /\ process \in [Workers -> {"new", "starting", "up", "killed"}]
  /\ calls \subseteq Calls
  /\ results \subseteq Results
  /\ faults \in 0..MaxFaults
  /\ registry \subseteq Workers
  /\ failures \in [Workers -> 0..MaxFailures]
  /\ active \subseteq Pipelines
  /\ failed \subseteq Pipelines
  /\ placement \in [Jobs -> Workers \cup {None}]
  /\ completed \subseteq Jobs
  /\ dispatched \subseteq Jobs
  /\ skipped \subseteq Jobs
  /\ waiting \subseteq Pipelines
  /\ expired \subseteq waiting
  /\ outcome \in [Pipelines -> {"unknown", "running", "success", "failure"}]
  /\ task \in [Jobs -> {"idle", "spawned", "sending", "resending", "ended"}]
  /\ target \in [Jobs -> Workers \cup {None}]
  /\ handlers \subseteq Handlers
  /\ hpc \in {"sleep", "probing", "removing", "replacing", "awaiting"}
  /\ probe \in [Workers -> {"unprobed", "pending", "healthy", "failed"}]
  /\ doomed \subseteq Workers
  /\ victim \in Workers \cup {None}
  /\ affected \subseteq Pipelines
  /\ hwaits \subseteq Jobs

Init ==
  /\ process = [w \in Workers |-> "new"]
  /\ calls = {} /\ results = {} /\ faults = 0
  /\ registry = {}
  /\ failures = [w \in Workers |-> 0]
  /\ active = {} /\ failed = {}
  /\ placement = [j \in Jobs |-> None]
  /\ completed = {} /\ dispatched = {} /\ skipped = {}
  /\ waiting = {} /\ expired = {}
  /\ outcome = [p \in Pipelines |-> "unknown"]
  /\ task = [j \in Jobs |-> "idle"]
  /\ target = [j \in Jobs |-> None]
  /\ handlers = {}
  /\ hpc = "sleep"
  /\ probe = [w \in Workers |-> "unprobed"]
  /\ doomed = {} /\ victim = None /\ affected = {} /\ hwaits = {}

Up(w) == process[w] = "up"

Fault(kind) ==
  /\ kind \in Faults
  /\ faults < MaxFaults
  /\ faults' = faults + 1

\* No handler runs while the health loop executes a stretch without an await:
\* from the join of its probes, and from the join of a dispatch it waited for,
\* to the next dispatch or to its sleep.
LoopFree == hpc \notin {"removing", "replacing"}

\* (A definition named D_X is D with a plausible slip X.  No action uses one:
\* each shows that some property would notice the slip.)

\* Counting stops at MaxFailures: the code only ever compares with >=.
Bumped_Unbounded(n) == n + 1
Bumped(n) == IF n < MaxFailures THEN n + 1 ELSE n

-----------------------------------------------------------------------------
(* Walking the DAG: _find_ready_stages and _dispatch_ready_stages.          *)

Unstarted_ForgetsDispatched(p, done) == JobsOf(p) \ (done \cup skipped)
Unstarted(p, done) == JobsOf(p) \ (done \cup dispatched \cup skipped)

\* Stages whose predecessors are all complete.
ReadyJobs_NoOrder(p, done) == Unstarted(p, done)
ReadyJobs_AnyInput(p, done) ==
  {j \in Unstarted(p, done) :
     PredJobs(j) # {} => \E q \in PredJobs(j) : q \in done}
ReadyJobs(p, done) == {j \in Unstarted(p, done) : PredJobs(j) \subseteq done}

\* Incomplete predecessors placed on a worker that left the registry.
DeadPreds(j, done, place) ==
  {q \in PredJobs(j) \ done : place[q] \notin registry}

\* Fan-in stages the funnel policy is consulted for.
FunnelJobs(p, done, place) ==
  {j \in Unstarted(p, done) : FanIn(j[2]) /\ DeadPreds(j, done, place) # {}}

\* The policy fails the pipeline: abort mode, or wait mode timed out.
FunnelFails(p, done, place) ==
  /\ FunnelJobs(p, done, place) # {}
  /\ FunnelMode = "abort" \/ (FunnelMode = "wait" /\ p \in expired)

\* The stages dispatched now: ready ones and, in proceed mode, funnels.
GoJobs(p, done, place) ==
  IF FunnelFails(p, done, place) THEN {}
  ELSE ReadyJobs(p, done) \cup
       IF FunnelMode = "proceed" THEN FunnelJobs(p, done, place) ELSE {}

\* _dispatch_ready_stages of a pipeline that has not failed, up to its gather:
\* every stage to dispatch is marked and gets a task of its own.
Advance(p, done, place) ==
  /\ waiting' = IF FunnelJobs(p, done, place) # {} THEN waiting \cup {p}
                                                   ELSE waiting
  /\ dispatched' = dispatched \cup GoJobs(p, done, place)
  /\ task' = [j \in Jobs |-> IF j \in GoJobs(p, done, place) THEN "spawned"
                                                            ELSE task[j]]
  /\ \/ /\ FunnelFails(p, done, place)
        /\ failed' = failed \cup {p}
        /\ active' = active \ {p}
        /\ outcome' = [outcome EXCEPT ![p] = "failure"]
        /\ UNCHANGED skipped
     \/ /\ ~FunnelFails(p, done, place)
        /\ skipped' = IF FunnelMode = "proceed"
                      THEN skipped \cup UNION {DeadPreds(j, done, place) :
                                     j \in FunnelJobs(p, done, place)}
                      ELSE skipped
        /\ UNCHANGED <<failed, active, outcome>>

\* FUNNEL_TIMEOUT elapses for a pipeline that has met a dead funnel; only wait
\* mode does anything about it.
FunnelClock(p) ==
  /\ p \in waiting \ expired
  /\ expired' = expired \cup {p}
  /\ UNCHANGED <<workerVars, faults, registry, failures, active, failed,
                 placement, completed, dispatched, skipped, waiting, outcome,
                 task, target, handlers, healthVars>>

-----------------------------------------------------------------------------
(* POST /publish, when the placement succeeds; a rejected request leaves no *)
(* trace in the broker.  Every worker of the placement is registered, so no *)
(* funnel is consulted and the stages to dispatch are the sources.          *)

Publish(p) ==
  /\ LoopFree
  /\ outcome[p] = "unknown"
  /\ \E plan \in [JobsOf(p) -> registry] :
       placement' = [j \in Jobs |-> IF j \in JobsOf(p) THEN plan[j]
                                                       ELSE placement[j]]
  /\ active' = active \cup {p}
  /\ outcome' = [outcome EXCEPT ![p] = "running"]
  /\ dispatched' = dispatched \cup ReadyJobs(p, completed)
  /\ task' = [j \in Jobs |-> IF j \in ReadyJobs(p, completed) THEN "spawned"
                                                              ELSE task[j]]
  /\ UNCHANGED <<workerVars, faults, registry, failures, failed, completed,
                 skipped, waiting, expired, target, handlers, healthVars>>

-----------------------------------------------------------------------------
(* _dispatch_stage, one coroutine per job.                                  *)

\* POST /execute: a worker that does not run refuses the connection.
Posted(j, k, w) ==
  IF Up(w)
  THEN calls \cup {[job |-> j, try |-> k, node |-> w, ok |-> TRUE,
                    phase |-> "sent"]}
  ELSE calls

\* The pipeline is failed and leaves the table; its trace stays as it is.
Abandon_OnlyLogs(p) == UNCHANGED <<failed, active>>
Abandon(p) ==
  /\ failed' = failed \cup {p}
  /\ active' = active \ {p}

\* The task starts and finds its worker in the registry.
StartDispatch(j) ==
  /\ LoopFree
  /\ task[j] = "spawned"
  /\ placement[j] \in registry
  /\ task' = [task EXCEPT ![j] = "sending"]
  /\ target' = [target EXCEPT ![j] = placement[j]]
  /\ calls' = Posted(j, 1, placement[j])
  /\ UNCHANGED <<process, results, faults, registry, failures, pipeVars,
                 handlers, healthVars>>

\* The task starts and its worker has left the registry meanwhile.
StartUnregistered(j) ==
  /\ LoopFree
  /\ task[j] = "spawned"
  /\ placement[j] \notin registry
  /\ task' = [task EXCEPT ![j] = "ended"]
  /\ Abandon(j[1])
  /\ UNCHANGED <<workerVars, faults, registry, failures, placement, completed,
                 dispatched, skipped, waiting, expired, outcome, target,
                 handlers, healthVars>>

Pending(j, k) == {c \in calls : c.job = j /\ c.try = k}

\* A POST /execute raises: no connection is left, or its 30 s are over.
SendRaises(j, k) ==
  \/ Pending(j, k) = {} /\ UNCHANGED faults
  \/ /\ \E c \in Pending(j, k) : c.phase # "returned"
     /\ Fault("timeout")

SendReturns(j, k) ==
  /\ LoopFree
  /\ task[j] = IF k = 1 THEN "sending" ELSE "resending"
  /\ \E c \in Pending(j, k) : c.phase = "returned"
  /\ task' = [task EXCEPT ![j] = "ended"]
  /\ UNCHANGED <<workerVars, faults, registry, failures, pipeVars, target,
                 handlers, healthVars>>

\* The first send raises and the solver finds the stage another worker, maybe
\* the same one: one more send.
Redispatch(j) ==
  /\ LoopFree
  /\ task[j] = "sending"
  /\ SendRaises(j, 1)
  /\ failures' = [failures EXCEPT ![target[j]] = Bumped(@)]
  /\ \E w \in registry :
       /\ placement' = [placement EXCEPT ![j] = w]
       /\ calls' = Posted(j, 2, w)
  /\ task' = [task EXCEPT ![j] = "resending"]
  /\ UNCHANGED <<process, results, registry, active, failed, completed,
                 dispatched, skipped, waiting, expired, outcome, target,
                 handlers, healthVars>>

\* The first send raises and no placement is left.
DispatchFails(j) ==
  /\ LoopFree
  /\ task[j] = "sending"
  /\ SendRaises(j, 1)
  /\ failures' = [failures EXCEPT ![target[j]] = Bumped(@)]
  /\ task' = [task EXCEPT ![j] = "ended"]
  /\ Abandon(j[1])
  /\ UNCHANGED <<workerVars, registry, placement, completed, dispatched,
                 skipped, waiting, expired, outcome, target, handlers,
                 healthVars>>

\* The second send raises too.
RedispatchFails(j) ==
  /\ LoopFree
  /\ task[j] = "resending"
  /\ SendRaises(j, 2)
  /\ task' = [task EXCEPT ![j] = "ended"]
  /\ Abandon(j[1])
  /\ UNCHANGED <<workerVars, registry, failures, placement, completed,
                 dispatched, skipped, waiting, expired, outcome, target,
                 handlers, healthVars>>

-----------------------------------------------------------------------------
(* A worker process: /execute runs the stage, reports its result with at    *)
(* most two attempts, and answers only then.                                *)

brokerVars == <<registry, failures, pipeVars, task, target, healthVars>>

MoveCall(c, phase, ok) ==
  calls' = (calls \ {c}) \cup {[c EXCEPT !.phase = phase, !.ok = ok]}

Report(c, num, ok) ==
  results' = results \cup {[job |-> c.job, try |-> c.try, num |-> num,
                            node |-> c.node, ok |-> ok]}

Execute(c) ==
  /\ c \in calls
  /\ c.phase = "sent"
  /\ MoveCall(c, "running", c.ok)
  /\ UNCHANGED <<process, results, faults, handlers, brokerVars>>

FinishStage(c) ==
  /\ c \in calls
  /\ c.phase = "running"
  /\ \/ MoveCall(c, "report1", TRUE) /\ Report(c, 1, TRUE) /\ UNCHANGED faults
     \/ MoveCall(c, "report1", FALSE) /\ Report(c, 1, FALSE) /\ Fault("error")
  /\ UNCHANGED <<process, handlers, brokerVars>>

\* The broker holds, or will yet receive, this attempt to report.
InBroker(c, num) ==
  \/ \E m \in results : m.job = c.job /\ m.try = c.try /\ m.num = num
  \/ \E h \in handlers : h.job = c.job /\ h.try = c.try /\ h.num = num

\* An attempt fails: it was lost, or the broker is too slow to answer it.
ReportRaises(c, num) ==
  \/ ~InBroker(c, num) /\ UNCHANGED faults
  \/ InBroker(c, num) /\ Fault("timeout")

ReportAgain(c) ==
  /\ c \in calls
  /\ c.phase = "report1"
  /\ ReportRaises(c, 1)
  /\ MoveCall(c, "report2", c.ok)
  /\ Report(c, 2, c.ok)
  /\ UNCHANGED <<process, handlers, brokerVars>>

\* After the second attempt the worker gives up and answers all the same.
ReportGivenUp(c) ==
  /\ c \in calls
  /\ c.phase = "report2"
  /\ ReportRaises(c, 2)
  /\ MoveCall(c, "returned", c.ok)
  /\ UNCHANGED <<process, results, handlers, brokerVars>>

Crash(w) ==
  /\ process[w] \in {"starting", "up"}
  /\ Fault("crash")
  /\ process' = [process EXCEPT ![w] = "killed"]
  /\ calls' = {c \in calls : c.node # w}
  /\ UNCHANGED <<results, handlers, brokerVars>>

\* The network drops a request before its receiver has it.
LoseCall(c) ==
  /\ c \in calls
  /\ c.phase = "sent"
  /\ Fault("loss")
  /\ calls' = calls \ {c}
  /\ UNCHANGED <<process, results, handlers, brokerVars>>

LoseResult(m) ==
  /\ m \in results
  /\ Fault("loss")
  /\ results' = results \ {m}
  /\ UNCHANGED <<process, calls, handlers, brokerVars>>

-----------------------------------------------------------------------------
(* POST /result.                                                            *)

\* The handler of m is suspended until the dispatches js have ended; with none
\* to wait for it is about to answer.
Suspend_OnItself(m, js) ==
  handlers' = handlers \cup {[job |-> m.job, try |-> m.try, num |-> m.num,
                              awaits |-> js \cup {m.job}]}
Suspend(m, js) ==
  handlers' = handlers \cup {[job |-> m.job, try |-> m.try, num |-> m.num,
                              awaits |-> js]}

Receive(m) ==
  /\ LoopFree
  /\ m \in results
  /\ results' = results \ {m}

InTable_NeverPruned(p) == outcome[p] # "unknown"
InTable(p) == p \in active

\* ps.completed_stages == ps.all_stages
AllDone_Dispatched(p, done) == JobsOf(p) \cap dispatched \subseteq done
AllDone(p, done) == JobsOf(p) \subseteq done

\* The pipeline is not in the table: nothing but an answer.
ResultUnknown(m) ==
  /\ Receive(m)
  /\ ~InTable(m.job[1])
  /\ Suspend(m, {})
  /\ UNCHANGED <<process, calls, faults, brokerVars>>

\* What the report does to ps.completed_stages and ps.failed.
DoneAfter(m) == IF m.ok THEN completed \cup {m.job} ELSE completed
FailedAfter(m) == IF m.ok THEN failed ELSE failed \cup {m.job[1]}

\* The stage failed, or the pipeline had failed before.
ResultOfFailed_StaysInTable(m) ==
  /\ Receive(m)
  /\ InTable(m.job[1])
  /\ m.job[1] \in FailedAfter(m)
  /\ completed' = DoneAfter(m)
  /\ failed' = FailedAfter(m)
  /\ outcome' = [outcome EXCEPT ![m.job[1]] = "failure"]
  /\ Suspend(m, {})
  /\ UNCHANGED <<process, calls, faults, registry, failures, active, placement,
                 dispatched, skipped, waiting, expired, task, target,
                 healthVars>>
ResultOfFailed(m) ==
  /\ Receive(m)
  /\ InTable(m.job[1])
  /\ m.job[1] \in FailedAfter(m)
  /\ completed' = DoneAfter(m)
  /\ failed' = FailedAfter(m)
  /\ outcome' = [outcome EXCEPT ![m.job[1]] = "failure"]
  /\ active' = active \ {m.job[1]}
  /\ Suspend(m, {})
  /\ UNCHANGED <<process, calls, faults, registry, failures, placement,
                 dispatched, skipped, waiting, expired, task, target,
                 healthVars>>

\* The last stage: the pipeline is delivered.
ResultDelivers(m) ==
  /\ Receive(m)
  /\ InTable(m.job[1])
  /\ m.job[1] \notin FailedAfter(m)
  /\ AllDone(m.job[1], DoneAfter(m))
  /\ completed' = DoneAfter(m)
  /\ outcome' = [outcome EXCEPT ![m.job[1]] = "success"]
  /\ active' = active \ {m.job[1]}
  /\ Suspend(m, {})
  /\ UNCHANGED <<process, calls, faults, registry, failures, failed, placement,
                 dispatched, skipped, waiting, expired, task, target,
                 healthVars>>

\* Any other stage: the newly ready ones are dispatched and waited for.
ResultAdvances(m) ==
  /\ Receive(m)
  /\ InTable(m.job[1])
  /\ m.job[1] \notin FailedAfter(m)
  /\ ~AllDone(m.job[1], DoneAfter(m))
  /\ completed' = DoneAfter(m)
  /\ Advance(m.job[1], DoneAfter(m), placement)
  /\ Suspend(m, GoJobs(m.job[1], DoneAfter(m), placement))
  /\ UNCHANGED <<process, calls, faults, registry, failures, placement, expired,
                 target, healthVars>>

\* The handler's dispatches have ended and it answers the worker, which, if it
\* still waits for this attempt, answers the /execute in turn.
ResultAnswered(h) ==
  /\ LoopFree
  /\ h \in handlers
  /\ \A j \in h.awaits : task[j] = "ended"
  /\ handlers' = handlers \ {h}
  /\ calls' = {IF /\ c.job = h.job /\ c.try = h.try
                  /\ c.phase = IF h.num = 1 THEN "report1" ELSE "report2"
               THEN [c EXCEPT !.phase = "returned"]
               ELSE c : c \in calls}
  /\ UNCHANGED <<process, results, faults, brokerVars>>

-----------------------------------------------------------------------------
(* POST /register, sent by a worker as it starts, and DELETE /register.     *)

\* A process starts for the first time, or again after it was killed.  It
\* registers before its server listens, and a slow one refuses connections
\* until then.
Boot(w) ==
  \/ /\ \/ process[w] = "new" /\ UNCHANGED faults
        \/ process[w] = "killed" /\ Fault("restart")
     /\ process' = [process EXCEPT ![w] = "up"]
  \/ /\ process[w] \in {"new", "killed"}
     /\ Fault("slow")
     /\ process' = [process EXCEPT ![w] = "starting"]

Register(w) ==
  /\ LoopFree
  /\ Boot(w)
  /\ registry' = registry \cup {w}
  /\ UNCHANGED <<calls, results, failures, pipeVars, task, target, handlers,
                 healthVars>>

\* The registration attempts are exhausted; the worker serves all the same.
StartWithoutRegistration(w) ==
  /\ process[w] = "new"
  /\ Fault("unregistered")
  /\ process' = [process EXCEPT ![w] = "up"]
  /\ UNCHANGED <<calls, results, handlers, brokerVars>>

\* The server of a slow one listens at last.
Listen(w) ==
  /\ process[w] = "starting"
  /\ process' = [process EXCEPT ![w] = "up"]
  /\ UNCHANGED <<calls, results, faults, handlers, brokerVars>>

\* Its pipelines fail but stay in the table, and their traces stay open.
Deregister(w) ==
  /\ LoopFree
  /\ w \in registry
  /\ Fault("deregister")
  /\ registry' = registry \ {w}
  /\ failed' = failed \cup {p \in active : \E j \in JobsOf(p) :
                                                      placement[j] = w}
  /\ UNCHANGED <<workerVars, failures, active, placement, completed,
                 dispatched, skipped, waiting, expired, outcome, task, target,
                 handlers, healthVars>>

-----------------------------------------------------------------------------
(* _health_check_loop, _remove_dead_worker, _replace_failed_stages.         *)

roundVars == <<doomed, victim, affected, hwaits>>

\* Every worker registered now is probed, in parallel.
ProbeStart ==
  /\ hpc = "sleep"
  /\ registry # {}
  /\ hpc' = "probing"
  /\ probe' = [w \in Workers |-> IF w \in registry THEN "pending"
                                                   ELSE "unprobed"]
  /\ UNCHANGED <<workerVars, faults, registry, failures, pipeVars, task,
                 target, handlers, roundVars>>

ProbeAnswer(w) ==
  /\ hpc = "probing"
  /\ probe[w] = "pending"
  /\ \/ Up(w) /\ probe' = [probe EXCEPT ![w] = "healthy"] /\ UNCHANGED faults
     \/ ~Up(w) /\ probe' = [probe EXCEPT ![w] = "failed"] /\ UNCHANGED faults
     \/ Up(w) /\ probe' = [probe EXCEPT ![w] = "failed"] /\ Fault("timeout")
  /\ UNCHANGED <<workerVars, registry, failures, pipeVars, task, target,
                 handlers, hpc, roundVars>>

FailuresAfter_NotCarried(w) == IF probe[w] = "failed" THEN 1 ELSE 0
FailuresAfter(w) ==
  CASE probe[w] = "healthy" -> 0
    [] probe[w] = "failed"  -> Bumped(failures[w])
    [] OTHER                -> failures[w]

\* All answers are in: the counters are updated and the dead are collected.
ProbeJoin ==
  /\ hpc = "probing"
  /\ \A w \in Workers : probe[w] # "pending"
  /\ failures' = [w \in Workers |-> FailuresAfter(w)]
  /\ doomed' = {w \in Workers : /\ probe[w] = "failed"
                                /\ FailuresAfter(w) = MaxFailures}
  /\ hpc' = IF doomed' = {} THEN "sleep" ELSE "removing"
  /\ probe' = [w \in Workers |-> "unprobed"]
  /\ UNCHANGED <<workerVars, faults, registry, pipeVars, task, target,
                 handlers, victim, affected, hwaits>>

RemoveDead(w) ==
  /\ hpc = "removing"
  /\ w \in doomed
  /\ doomed' = doomed \ {w}
  /\ victim' = w
  /\ failures' = [failures EXCEPT ![w] = 0]
  /\ registry' = registry \ {w}
  /\ affected' = {p \in active \ failed : \E j \in JobsOf(p) :
                                                      placement[j] = w}
  /\ hpc' = "replacing"
  /\ UNCHANGED <<workerVars, faults, pipeVars, task, target, handlers, probe,
                 hwaits>>

DeadJobs_Undispatched(p) ==
  {j \in JobsOf(p) : placement[j] = victim} \ (completed \cup dispatched)
DeadJobs(p) == {j \in JobsOf(p) : placement[j] = victim} \ completed
JobsToReplace(p) == IF BypassReplace
                    THEN {j \in DeadJobs(p) : j[2] \notin FunnelPreds}
                    ELSE DeadJobs(p)

\* The victim runs no incomplete stage of p: nothing to do for it.
ReplaceNothing(p) ==
  /\ hpc = "replacing"
  /\ p \in affected
  /\ DeadJobs(p) = {}
  /\ affected' = affected \ {p}
  /\ UNCHANGED <<workerVars, faults, registry, failures, pipeVars, task,
                 target, handlers, hpc, probe, doomed, victim, hwaits>>

\* The stages to move get a registered worker each, and the pipeline is
\* advanced; the loop waits for what that dispatches.  A pipeline that failed
\* while the loop waited for another one is moved too, but not advanced.
ReplaceStages(p) ==
  /\ hpc = "replacing"
  /\ p \in affected
  /\ DeadJobs(p) # {}
  /\ \E plan \in [JobsToReplace(p) -> registry] :
       placement' = [j \in Jobs |-> IF j \in JobsToReplace(p)
                                    THEN plan[j] ELSE placement[j]]
  /\ affected' = affected \ {p}
  /\ IF p \in failed
     THEN UNCHANGED <<active, failed, dispatched, skipped, waiting, outcome,
                      task, hpc, hwaits>>
     ELSE /\ Advance(p, completed, placement')
          /\ hwaits' = GoJobs(p, completed, placement')
          /\ hpc' = IF hwaits' = {} THEN "replacing" ELSE "awaiting"
  /\ UNCHANGED <<workerVars, faults, registry, failures, completed, expired,
                 target, handlers, probe, doomed, victim>>

\* No worker is left, or the solver finds no placement.
ReplaceFails(p) ==
  /\ hpc = "replacing"
  /\ p \in affected
  /\ JobsToReplace(p) # {}
  /\ affected' = affected \ {p}
  /\ Abandon(p)
  /\ outcome' = [outcome EXCEPT ![p] = "failure"]
  /\ UNCHANGED <<workerVars, faults, registry, failures, placement, completed,
                 dispatched, skipped, waiting, expired, task, target, handlers,
                 hpc, probe, doomed, victim, hwaits>>

\* The dispatches the loop waited for have ended.
HealthResumes ==
  /\ hpc = "awaiting"
  /\ \A j \in hwaits : task[j] = "ended"
  /\ hpc' = "replacing"
  /\ hwaits' = {}
  /\ UNCHANGED <<workerVars, faults, registry, failures, pipeVars, task,
                 target, handlers, probe, doomed, victim, affected>>

\* The victim is dealt with: on to the next one, or to sleep.
VictimDone ==
  /\ hpc = "replacing"
  /\ affected = {}
  /\ victim' = None
  /\ hpc' = IF doomed = {} THEN "sleep" ELSE "removing"
  /\ UNCHANGED <<workerVars, faults, registry, failures, pipeVars, task,
                 target, handlers, probe, doomed, affected, hwaits>>

-----------------------------------------------------------------------------

BrokerStep ==
  \/ \E p \in Pipelines : \/ Publish(p) \/ FunnelClock(p)
  \/ \E j \in Jobs : \/ StartDispatch(j) \/ StartUnregistered(j)
                     \/ \E k \in {1, 2} : SendReturns(j, k)
                     \/ Redispatch(j) \/ DispatchFails(j) \/ RedispatchFails(j)
  \/ \E m \in results : \/ ResultUnknown(m) \/ ResultOfFailed(m)
                        \/ ResultDelivers(m) \/ ResultAdvances(m)
  \/ \E h \in handlers : ResultAnswered(h)

HealthStep ==
  \/ ProbeStart \/ ProbeJoin \/ HealthResumes \/ VictimDone
  \/ \E w \in Workers : ProbeAnswer(w) \/ RemoveDead(w)
  \/ \E p \in Pipelines : \/ ReplaceNothing(p) \/ ReplaceStages(p)
                          \/ ReplaceFails(p)

WorkerStep ==
  \/ \E c \in calls : \/ Execute(c) \/ FinishStage(c) \/ ReportAgain(c)
                      \/ ReportGivenUp(c)
  \/ \E w \in Workers : Register(w) \/ Listen(w)

FaultStep ==
  \/ \E w \in Workers : \/ Crash(w) \/ StartWithoutRegistration(w)
                        \/ Deregister(w)
  \/ \E c \in calls : LoseCall(c)
  \/ \E m \in results : LoseResult(m)

Next == BrokerStep \/ HealthStep \/ WorkerStep \/ FaultStep

Spec == Init /\ [][Next]_vars

-----------------------------------------------------------------------------
(* Properties.                                                              *)

\* No worker ever holds a stage whose inputs are not all in, be it by the
\* first dispatch, by the re-dispatch after a failed one or through a result
\* that arrived twice.  (Proceed mode gives this up on purpose.)
NoEarlyExecution ==
  FunnelMode # "proceed" =>
    \A c \in calls : PredJobs(c.job) \subseteq completed

\* The pipeline table and the traces agree: a pipeline in the table has an
\* open trace, and a pipeline that left it has a closed one, or is one of
\* those a dispatch failure abandons.
TableMatchesTraces ==
  \A p \in Pipelines :
    /\ p \in active => outcome[p] = "running"
    /\ outcome[p] = "running" => p \in active \cup failed

\* A pipeline counted as a success did complete: every stage reported success.
SuccessIsComplete ==
  \A p \in Pipelines : outcome[p] = "success" => JobsOf(p) \subseteq completed

\* No plain success for a pipeline whose funnel ran with partial inputs, that
\* is, with a predecessor given up as dead.
SuccessHasFullInputs ==
  \A p \in Pipelines : outcome[p] = "success" => JobsOf(p) \cap skipped = {}

\* After a round of health checks no live pipeline depends on a worker that
\* left the registry: whatever interleaves with the recovery, the stages it
\* has yet to complete are placed on registered workers.
RecoveryIsComplete ==
  (hpc \in {"sleep", "probing"} /\ ~BypassReplace) =>
    \A p \in active \ failed : \A j \in JobsOf(p) \ completed :
      placement[j] \in registry

\* Something drives every live pipeline: a dispatch that has not ended, or a
\* result on its way.  Otherwise it would stay in the table for ever.
LivePipelineIsDriven ==
  \A p \in active \ failed :
    \/ \E j \in JobsOf(p) : task[j] \notin {"idle", "ended"}
    \/ \E m \in results : m.job[1] = p

\* The recorded outcome of a pipeline is never overwritten, by a late result,
\* a late failure or the recovery of another pipeline.
KeepsOutcomes ==
  \A p \in Pipelines : outcome[p] \in {"success", "failure"} => outcome'[p] = outcome[p]
OutcomeIsFinal == [][KeepsOutcomes]_vars

\* The engine hands a stage to dispatch once: a result reported twice, or a
\* recovery during the dispatch, does not start a second dispatch of it, not even
\* while the first has yet to start.  (What a handler or the health loop begins to
\* wait for are the tasks it has just spawned.)
DispatchesAtMostOnce ==
  /\ \A j \in Jobs :
       /\ task[j] # "idle" => task'[j] # "idle"
       /\ task'[j] = "spawned" => task[j] \in {"idle", "spawned"}
  /\ \A h \in handlers' \ handlers : h.awaits \cap dispatched = {}
  /\ (hwaits' \ hwaits) \cap dispatched = {}
DispatchedOnce == [][DispatchesAtMostOnce]_vars

\* A stage of a live pipeline that waits for its dispatch task to start still
\* has a registered worker when it does: recovery has moved it if need be.
SpawnedStageFindsWorker ==
  [][\A j \in Jobs : (task[j] = "spawned" /\ task'[j] = "ended") =>
       j[1] \in failed]_vars

\* A stage the recovery moves to another worker, whose inputs are in and whose
\* own dispatch is over, is dispatched there.
MovedStageIsDispatched ==
  [][\A j \in Jobs :
       (/\ hpc = "replacing" /\ placement'[j] # placement[j]
        /\ j[1] \notin failed
        /\ PredJobs(j) \subseteq completed /\ task[j] = "ended")
         => task'[j] = "spawned"]_vars

\* The abstract specification this one implements unless funnels may proceed
\* with partial inputs.
LifeOf(result) == CASE result = "unknown" -> "new"
                    [] result = "running" -> "running"
                    [] result = "success" -> "succeeded"
                    [] result = "failure" -> "failed"
Life == [p \in Pipelines |-> LifeOf(outcome[p])]
Lifecycle == INSTANCE PipelineLifecycle WITH
  life <- Life, started <- dispatched, done <- completed

ImplementsLifecycle == Lifecycle!Spec

-----------------------------------------------------------------------------
(* Fairness: the event loop runs every coroutine that can run, the network  *)
(* delivers what is not lost, and a running worker goes on working.  No     *)
(* fault is fair, and neither is a publish.                                 *)

\* The turns of the event loop, and of the network and the workers for it.
ServeResult == \E m \in results : \/ ResultUnknown(m) \/ ResultOfFailed(m)
                                  \/ ResultDelivers(m) \/ ResultAdvances(m)
ResumeHandler == \E h \in handlers : ResultAnswered(h)
StartTask(j) == StartDispatch(j) \/ StartUnregistered(j)
ResumeTask(j) == \E k \in {1, 2} : SendReturns(j, k)
FailTask(j) == Redispatch(j) \/ DispatchFails(j)
Work(j) == \E c \in calls : /\ c.job = j
                            /\ \/ Execute(c) \/ FinishStage(c)
                               \/ ReportAgain(c) \/ ReportGivenUp(c)

Fairness ==
  /\ WF_vars(ServeResult) /\ WF_vars(ResumeHandler)
  /\ \A j \in Jobs :
       /\ WF_vars(StartTask(j)) /\ WF_vars(ResumeTask(j)) /\ WF_vars(Work(j))
       /\ WF_vars(FailTask(j)) /\ WF_vars(RedispatchFails(j))
  /\ \A p \in Pipelines : WF_vars(FunnelClock(p))
  /\ \A w \in Workers : WF_vars(Listen(w))
  /\ WF_vars(HealthStep)

FairSpec == Spec /\ Fairness

\* Every accepted pipeline eventually leaves the pipeline table.
PipelinesSettle ==
  \A p \in Pipelines : outcome[p] = "running" ~> p \notin active

\* Every dispatch ends, although the answer to a dispatch waits for all the
\* dispatches it leads to: the nested waits never form a cycle.
DispatchesEnd ==
  \A j \in Jobs : task[j] # "idle" ~> task[j] = "ended"

\* The health loop is never held up for good by the dispatches it waits for,
\* so a worker that was killed leaves the registry, or is started again.
DeadWorkerIsRemoved ==
  \A w \in Workers : (process[w] = "killed" /\ w \in registry)
                       ~> (process[w] = "up" \/ w \notin registry)

=============================================================================
