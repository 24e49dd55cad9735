------------------------- MODULE NeuralBroker_proofs -------------------------
(***************************************************************************)
(* Proofs about NeuralBroker: type correctness, and the safety properties  *)
(* that follow from the inductive invariant IInv.                          *)
(***************************************************************************)
EXTENDS NeuralBroker, TLAPS

-----------------------------------------------------------------------------
(* Jobs.                                                                    *)

\* The stages of a pipeline are jobs of that pipeline, and so are their inputs.
LEMMA JobFacts ==
  /\ \A p \in Pipelines : JobsOf(p) \subseteq Jobs
  /\ \A p \in Pipelines : \A j \in JobsOf(p) : j[1] = p
  /\ \A j \in Jobs : /\ j[1] \in Pipelines
                     /\ j \in JobsOf(j[1])
                     /\ PredJobs(j) \subseteq JobsOf(j[1])
BY NeuralBrokerAssumption DEF Jobs, JobsOf, PredJobs

\* What _dispatch_ready_stages dispatches are stages of the pipeline that were
\* neither completed, dispatched nor skipped, and outside proceed mode all
\* their inputs are in.
LEMMA GoJobsFacts ==
  ASSUME NEW p \in Pipelines, NEW done, NEW place
  PROVE  /\ GoJobs(p, done, place) \subseteq JobsOf(p)
         /\ GoJobs(p, done, place) \cap (done \cup dispatched \cup skipped) = {}
         /\ FunnelMode # "proceed" =>
              \A j \in GoJobs(p, done, place) : PredJobs(j) \subseteq done
BY DEF GoJobs, ReadyJobs, FunnelJobs, Unstarted

\* What an advance does to the pipeline tables.
LEMMA AdvanceType ==
  ASSUME TypeOK, NEW p \in Pipelines, NEW done, NEW place,
         Advance(p, done, place)
  PROVE  /\ waiting' \subseteq Pipelines
         /\ waiting \subseteq waiting'
         /\ dispatched' \subseteq Jobs
         /\ task' \in [Jobs -> {"idle", "spawned", "sending", "resending",
                                "ended"}]
         /\ failed' \subseteq Pipelines
         /\ active' \subseteq Pipelines
         /\ outcome' \in [Pipelines -> {"unknown", "running", "success",
                                        "failure"}]
         /\ skipped' \subseteq Jobs
<1>1. GoJobs(p, done, place) \subseteq Jobs
  BY GoJobsFacts, JobFacts
<1>2. UNION {DeadPreds(j, done, place) : j \in FunnelJobs(p, done, place)}
        \subseteq Jobs
  <2>1. FunnelJobs(p, done, place) \subseteq Jobs
    BY JobFacts DEF FunnelJobs, Unstarted
  <2>2. \A j \in Jobs : DeadPreds(j, done, place) \subseteq Jobs
    BY JobFacts DEF DeadPreds
  <2> QED BY <2>1, <2>2
<1> QED BY <1>1, <1>2 DEF Advance, TypeOK

-----------------------------------------------------------------------------
(* Type correctness.                                                        *)

\* No step of the broker's dispatches breaks a type.
LEMMA DispatchTypes ==
  ASSUME TypeOK, NEW j \in Jobs,
         \/ StartDispatch(j) \/ StartUnregistered(j) \/ Redispatch(j)
         \/ DispatchFails(j) \/ RedispatchFails(j)
         \/ \E k \in {1, 2} : SendReturns(j, k)
  PROVE  TypeOK'
<1> USE DEF TypeOK, workerVars, pipeVars, healthVars
<1>1. ASSUME NEW k \in {1, 2}, NEW w \in Workers
      PROVE  Posted(j, k, w) \subseteq Calls
  <2>1. [job |-> j, try |-> k, node |-> w, ok |-> TRUE, phase |-> "sent"]
          \in Calls
    BY DEF Calls
  <2> QED BY <2>1 DEF Posted
<1>2. \A n \in 0..MaxFailures : Bumped(n) \in 0..MaxFailures
  BY NeuralBrokerAssumption DEF Bumped
<1>3. \A k \in {1, 2} : SendRaises(j, k) => faults' \in 0..MaxFaults
  BY NeuralBrokerAssumption DEF SendRaises, Fault
<1>4. j[1] \in Pipelines
  BY JobFacts
<1>5. CASE StartDispatch(j)
  <2>1. placement[j] \in Workers
    BY <1>5 DEF StartDispatch
  <2> QED BY <1>1, <1>5, <2>1 DEF StartDispatch
<1>6. CASE StartUnregistered(j)
  BY <1>4, <1>6 DEF StartUnregistered, Abandon
<1>7. CASE Redispatch(j)
  <2>1. /\ faults' \in 0..MaxFaults
        /\ calls' \subseteq Calls
        /\ placement' \in [Jobs -> Workers \cup {None}]
    BY <1>1, <1>3, <1>7 DEF Redispatch
  <2>2. failures' \in [Workers -> 0..MaxFailures]
    BY <1>2, <1>7 DEF Redispatch
  <2> QED BY <1>7, <2>1, <2>2 DEF Redispatch
<1>8. CASE DispatchFails(j)
  <2>1. faults' \in 0..MaxFaults
    BY <1>3, <1>8 DEF DispatchFails
  <2>2. failures' \in [Workers -> 0..MaxFailures]
    BY <1>2, <1>8 DEF DispatchFails
  <2> QED BY <1>4, <1>8, <2>1, <2>2 DEF DispatchFails, Abandon
<1>9. CASE RedispatchFails(j)
  BY <1>3, <1>4, <1>9 DEF RedispatchFails, Abandon
<1>10. CASE \E k \in {1, 2} : SendReturns(j, k)
  BY <1>10 DEF SendReturns
<1> QED BY <1>5, <1>6, <1>7, <1>8, <1>9, <1>10

\* Nor does a step of the result handler.
LEMMA ResultTypes ==
  ASSUME TypeOK, NEW m \in results,
         \/ ResultUnknown(m) \/ ResultOfFailed(m) \/ ResultDelivers(m)
         \/ ResultAdvances(m)
  PROVE  TypeOK'
<1>1. /\ m \in Results
      /\ m.job \in Jobs
      /\ m.job[1] \in Pipelines
  BY JobFacts DEF TypeOK, Results
<1>2. /\ DoneAfter(m) \subseteq Jobs
      /\ FailedAfter(m) \subseteq Pipelines
  BY <1>1 DEF DoneAfter, FailedAfter, TypeOK
<1>3. ASSUME NEW js \in SUBSET Jobs, Suspend(m, js)
      PROVE  handlers' \subseteq Handlers
  BY <1>1, <1>3 DEF Suspend, Handlers, Results, TypeOK
<1> USE DEF Receive, brokerVars, pipeVars, healthVars
<1>4. CASE ResultUnknown(m)
  <2>1. handlers' \subseteq Handlers
    BY <1>3, <1>4 DEF ResultUnknown
  <2> QED BY <1>4, <2>1 DEF ResultUnknown, TypeOK
<1>5. CASE ResultOfFailed(m)
  <2>1. handlers' \subseteq Handlers
    BY <1>3, <1>5 DEF ResultOfFailed
  <2> QED BY <1>1, <1>2, <1>5, <2>1 DEF ResultOfFailed, TypeOK
<1>6. CASE ResultDelivers(m)
  <2>1. handlers' \subseteq Handlers
    BY <1>3, <1>6 DEF ResultDelivers
  <2> QED BY <1>1, <1>2, <1>6, <2>1 DEF ResultDelivers, TypeOK
<1>7. CASE ResultAdvances(m)
  <2>1. handlers' \subseteq Handlers
    <3>1. GoJobs(m.job[1], DoneAfter(m), placement) \subseteq Jobs
      BY <1>1, GoJobsFacts, JobFacts
    <3> QED BY <1>3, <1>7, <3>1 DEF ResultAdvances
  <2>2. Advance(m.job[1], DoneAfter(m), placement)
    BY <1>7 DEF ResultAdvances
  <2> HIDE DEF Receive
  <2>3. /\ waiting' \subseteq Pipelines
        /\ waiting \subseteq waiting'
        /\ dispatched' \subseteq Jobs
        /\ task' \in [Jobs -> {"idle", "spawned", "sending", "resending",
                               "ended"}]
        /\ failed' \subseteq Pipelines
        /\ active' \subseteq Pipelines
        /\ outcome' \in [Pipelines -> {"unknown", "running", "success",
                                       "failure"}]
        /\ skipped' \subseteq Jobs
    BY <1>1, <2>2, AdvanceType
  <2> QED BY <1>2, <1>7, <2>1, <2>3 DEF ResultAdvances, Receive, TypeOK
<1> QED BY <1>4, <1>5, <1>6, <1>7

\* Nor does a step of a worker process or of the network.
LEMMA WorkerTypes ==
  ASSUME TypeOK,
         \/ \E c \in calls : \/ Execute(c) \/ FinishStage(c) \/ ReportAgain(c)
                             \/ ReportGivenUp(c) \/ LoseCall(c)
         \/ \E m \in results : LoseResult(m)
         \/ \E h \in handlers : ResultAnswered(h)
         \/ \E w \in Workers : Crash(w)
  PROVE  TypeOK'
<1> USE DEF brokerVars, pipeVars, healthVars
<1>1. ASSUME NEW kind, Fault(kind)
      PROVE  faults' \in 0..MaxFaults
  BY <1>1, NeuralBrokerAssumption DEF Fault, TypeOK
<1>2. ASSUME NEW c \in calls, NEW phase \in {"running", "report1", "report2",
                                             "returned"},
             NEW ok \in BOOLEAN, MoveCall(c, phase, ok)
      PROVE  calls' \subseteq Calls
  BY <1>2 DEF MoveCall, Calls, TypeOK
<1>3. ASSUME NEW c \in calls, NEW num \in {1, 2}, NEW ok \in BOOLEAN,
             Report(c, num, ok)
      PROVE  results' \subseteq Results
  <2>1. c \in Calls
    BY DEF TypeOK
  <2>2. [job |-> c.job, try |-> c.try, num |-> num, node |-> c.node, ok |-> ok]
          \in Results
    BY <2>1 DEF Calls, Results
  <2> QED BY <1>3, <2>2 DEF Report, TypeOK
<1>4. ASSUME NEW c \in calls, NEW num \in {1, 2}, ReportRaises(c, num)
      PROVE  faults' \in 0..MaxFaults
  BY <1>1, <1>4 DEF ReportRaises, TypeOK
<1>5. \A c \in calls : c.ok \in BOOLEAN
  BY DEF TypeOK, Calls
<1>6. ASSUME NEW c \in calls, Execute(c)
      PROVE  TypeOK'
  <2>1. calls' \subseteq Calls
    BY <1>2, <1>5, <1>6 DEF Execute
  <2> QED BY <1>6, <2>1 DEF Execute, TypeOK
<1>7. ASSUME NEW c \in calls, FinishStage(c)
      PROVE  TypeOK'
  <2>1. calls' \subseteq Calls
    BY <1>2, <1>7 DEF FinishStage
  <2>2. results' \subseteq Results
    BY <1>3, <1>7 DEF FinishStage
  <2>3. faults' \in 0..MaxFaults
    BY <1>1, <1>7 DEF FinishStage, TypeOK
  <2> QED BY <1>7, <2>1, <2>2, <2>3 DEF FinishStage, TypeOK
<1>8. ASSUME NEW c \in calls, ReportAgain(c)
      PROVE  TypeOK'
  <2>1. calls' \subseteq Calls
    BY <1>2, <1>5, <1>8 DEF ReportAgain
  <2>2. results' \subseteq Results
    BY <1>3, <1>5, <1>8 DEF ReportAgain
  <2>3. faults' \in 0..MaxFaults
    BY <1>4, <1>8 DEF ReportAgain
  <2> QED BY <1>8, <2>1, <2>2, <2>3 DEF ReportAgain, TypeOK
<1>9. ASSUME NEW c \in calls, ReportGivenUp(c)
      PROVE  TypeOK'
  <2>1. calls' \subseteq Calls
    BY <1>2, <1>5, <1>9 DEF ReportGivenUp
  <2>2. faults' \in 0..MaxFaults
    BY <1>4, <1>9 DEF ReportGivenUp
  <2> QED BY <1>9, <2>1, <2>2 DEF ReportGivenUp, TypeOK
<1>10. ASSUME NEW c \in calls, LoseCall(c)
       PROVE  TypeOK'
  BY <1>1, <1>10 DEF LoseCall, TypeOK
<1>11. ASSUME NEW m \in results, LoseResult(m)
       PROVE  TypeOK'
  BY <1>1, <1>11 DEF LoseResult, TypeOK
<1>12. ASSUME NEW h \in handlers, ResultAnswered(h)
       PROVE  TypeOK'
  <2>1. \A c \in Calls : [c EXCEPT !.phase = "returned"] \in Calls
    BY DEF Calls
  <2>2. calls' \subseteq Calls
    BY <1>12, <2>1 DEF ResultAnswered, TypeOK
  <2> QED BY <1>12, <2>2 DEF ResultAnswered, TypeOK
<1>13. ASSUME NEW w \in Workers, Crash(w)
       PROVE  TypeOK'
  BY <1>1, <1>13 DEF Crash, TypeOK
<1> QED BY <1>6, <1>7, <1>8, <1>9, <1>10, <1>11, <1>12, <1>13

\* Nor does a publish, a (de)registration or the clock.
LEMMA EntryTypes ==
  ASSUME TypeOK,
         \/ \E p \in Pipelines : Publish(p) \/ FunnelClock(p)
         \/ \E w \in Workers : \/ Register(w) \/ StartWithoutRegistration(w)
                               \/ Listen(w) \/ Deregister(w)
  PROVE  TypeOK'
<1> USE DEF brokerVars, workerVars, pipeVars, healthVars
<1>1. ASSUME NEW kind, Fault(kind)
      PROVE  faults' \in 0..MaxFaults
  BY <1>1, NeuralBrokerAssumption DEF Fault, TypeOK
<1>2. ASSUME NEW p \in Pipelines, Publish(p)
      PROVE  TypeOK'
  <2>1. ReadyJobs(p, completed) \subseteq Jobs
    BY JobFacts DEF ReadyJobs, Unstarted
  <2>2. placement' \in [Jobs -> Workers \cup {None}]
    BY <1>2, JobFacts DEF Publish, TypeOK
  <2>3. task' \in [Jobs -> {"idle", "spawned", "sending", "resending", "ended"}]
    BY <1>2 DEF Publish, TypeOK
  <2> QED BY <1>2, <2>1, <2>2, <2>3 DEF Publish, TypeOK
<1>3. ASSUME NEW p \in Pipelines, FunnelClock(p)
      PROVE  TypeOK'
  BY <1>3 DEF FunnelClock, TypeOK
<1>4. ASSUME NEW w \in Workers, Register(w)
      PROVE  TypeOK'
  BY <1>1, <1>4 DEF Register, Boot, TypeOK
<1>5. ASSUME NEW w \in Workers, StartWithoutRegistration(w)
      PROVE  TypeOK'
  BY <1>1, <1>5 DEF StartWithoutRegistration, TypeOK
<1>6. ASSUME NEW w \in Workers, Deregister(w)
      PROVE  TypeOK'
  BY <1>1, <1>6 DEF Deregister, TypeOK
<1>7. ASSUME NEW w \in Workers, Listen(w)
      PROVE  TypeOK'
  BY <1>7 DEF Listen, TypeOK
<1> QED BY <1>2, <1>3, <1>4, <1>5, <1>6, <1>7

\* Nor does the health loop.
LEMMA HealthTypes ==
  ASSUME TypeOK, HealthStep
  PROVE  TypeOK'
<1> USE DEF workerVars, pipeVars, healthVars, roundVars
<1>1. ProbeStart => TypeOK'
  BY DEF ProbeStart, TypeOK
<1>2. ASSUME NEW w \in Workers, ProbeAnswer(w)
      PROVE  TypeOK'
  BY <1>2, NeuralBrokerAssumption DEF ProbeAnswer, Fault, TypeOK
<1>3. ASSUME ProbeJoin
      PROVE  TypeOK'
  <2>1. \A w \in Workers : FailuresAfter(w) \in 0..MaxFailures
    BY NeuralBrokerAssumption DEF FailuresAfter, Bumped, TypeOK
  <2> QED BY <1>3, <2>1 DEF ProbeJoin, TypeOK
<1>4. ASSUME NEW w \in Workers, RemoveDead(w)
      PROVE  TypeOK'
  BY <1>4, NeuralBrokerAssumption DEF RemoveDead, TypeOK
<1>5. ASSUME NEW p \in Pipelines, ReplaceNothing(p)
      PROVE  TypeOK'
  BY <1>5 DEF ReplaceNothing, TypeOK
<1>6. ASSUME NEW p \in Pipelines, ReplaceStages(p)
      PROVE  TypeOK'
  <2>1. placement' \in [Jobs -> Workers \cup {None}]
    BY <1>6, JobFacts DEF ReplaceStages, TypeOK
  <2>2. CASE p \in failed
    BY <1>6, <2>1, <2>2 DEF ReplaceStages, TypeOK
  <2>3. CASE p \notin failed
    <3>1. GoJobs(p, completed, placement') \subseteq Jobs
      BY GoJobsFacts, JobFacts
    <3>2. Advance(p, completed, placement')
      BY <1>6, <2>3 DEF ReplaceStages
    <3>3. /\ waiting' \subseteq Pipelines
          /\ waiting \subseteq waiting'
          /\ dispatched' \subseteq Jobs
          /\ task' \in [Jobs -> {"idle", "spawned", "sending", "resending",
                                 "ended"}]
          /\ failed' \subseteq Pipelines
          /\ active' \subseteq Pipelines
          /\ outcome' \in [Pipelines -> {"unknown", "running", "success",
                                         "failure"}]
          /\ skipped' \subseteq Jobs
      BY <3>2, AdvanceType
    <3> QED BY <1>6, <2>1, <2>3, <3>1, <3>3 DEF ReplaceStages, TypeOK
  <2> QED BY <2>2, <2>3
<1>7. ASSUME NEW p \in Pipelines, ReplaceFails(p)
      PROVE  TypeOK'
  BY <1>7 DEF ReplaceFails, Abandon, TypeOK
<1>8. HealthResumes => TypeOK'
  BY DEF HealthResumes, TypeOK
<1>9. VictimDone => TypeOK'
  BY DEF VictimDone, TypeOK
<1> QED BY <1>1, <1>2, <1>3, <1>4, <1>5, <1>6, <1>7, <1>8, <1>9 DEF HealthStep

\* So no step breaks a type.
LEMMA NextTypes == TypeOK /\ [Next]_vars => TypeOK'
<1> SUFFICES ASSUME TypeOK, [Next]_vars
             PROVE  TypeOK'
  OBVIOUS
<1>1. CASE BrokerStep
  BY <1>1, DispatchTypes, ResultTypes, EntryTypes, WorkerTypes DEF BrokerStep
<1>2. CASE HealthStep
  BY <1>2, HealthTypes
<1>3. CASE WorkerStep
  BY <1>3, WorkerTypes, EntryTypes DEF WorkerStep
<1>4. CASE FaultStep
  BY <1>4, WorkerTypes, EntryTypes DEF FaultStep
<1>5. CASE UNCHANGED vars
  BY <1>5 DEF vars, TypeOK
<1> QED BY <1>1, <1>2, <1>3, <1>4, <1>5 DEF Next

\* Every variable keeps its type, whatever the DAG, the faults and the funnel
\* policy.
THEOREM TypeCorrect == Spec => []TypeOK
<1>1. Init => TypeOK
  BY NeuralBrokerAssumption DEF Init, TypeOK
<1> QED BY <1>1, NextTypes, PTL DEF Spec

-----------------------------------------------------------------------------
(* The inductive invariant.                                                 *)

\* A job has a dispatch task, running or ended, iff it is marked dispatched.
StartedIsMarked == \A j \in Jobs : task[j] = "idle" <=> j \notin dispatched

\* Only dispatched jobs are with the workers, reported or completed.
OnlyDispatchedRuns ==
  /\ \A c \in calls : c.job \in dispatched
  /\ \A m \in results : m.job \in dispatched
  /\ completed \subseteq dispatched

\* Outside proceed mode no stage is skipped, and every dispatched job has all
\* its inputs.
DispatchedHasInputs ==
  FunnelMode # "proceed" =>
    /\ skipped = {}
    /\ \A j \in dispatched : PredJobs(j) \subseteq completed

\* A pipeline not yet accepted has left no mark anywhere.
UnknownIsUntouched ==
  \A p \in Pipelines : outcome[p] = "unknown" =>
    /\ p \notin active \cup failed \cup affected
    /\ JobsOf(p) \cap dispatched = {}

\* A pipeline recorded as a failure is marked failed.
FailureIsMarked == \A p \in Pipelines : outcome[p] = "failure" => p \in failed

IInv ==
  /\ TypeOK
  /\ StartedIsMarked
  /\ OnlyDispatchedRuns
  /\ DispatchedHasInputs
  /\ UnknownIsUntouched
  /\ FailureIsMarked
  /\ TableMatchesTraces
  /\ SuccessIsComplete

Tables == <<active, failed, completed, dispatched, skipped, outcome>>

\* Requests and results only ever come from earlier requests and results.
NothingNewRuns ==
  /\ \A c \in calls' : \E d \in calls : c.job = d.job
  /\ \A m \in results' : \/ \E n \in results : m.job = n.job
                         \/ \E c \in calls : m.job = c.job

\* A step that leaves the pipeline tables and the dispatch tasks alone.
LEMMA FrameInv ==
  ASSUME IInv, TypeOK', UNCHANGED <<Tables, task>>, affected' \subseteq affected,
         NothingNewRuns
  PROVE  IInv'
BY DEF IInv, Tables, NothingNewRuns, StartedIsMarked, OnlyDispatchedRuns,
       DispatchedHasInputs, UnknownIsUntouched, FailureIsMarked,
       TableMatchesTraces, SuccessIsComplete, PredJobs

\* The steps that leave the pipeline tables and the dispatch tasks alone.
FrameStep ==
  \/ \E c \in calls : \/ Execute(c) \/ FinishStage(c) \/ ReportAgain(c)
                      \/ ReportGivenUp(c) \/ LoseCall(c)
  \/ \E m \in results : LoseResult(m) \/ ResultUnknown(m)
  \/ \E h \in handlers : ResultAnswered(h)
  \/ \E w \in Workers : \/ Crash(w) \/ Register(w) \/ ProbeAnswer(w)
                        \/ StartWithoutRegistration(w) \/ Listen(w)
  \/ \E p \in Pipelines : FunnelClock(p) \/ ReplaceNothing(p)
  \/ ProbeStart \/ ProbeJoin \/ HealthResumes \/ VictimDone
  \/ UNCHANGED vars

\* They leave affected and the health loop's waits no larger, and no worker gets
\* work on another job than before.
LEMMA FrameFacts ==
  ASSUME IInv, FrameStep
  PROVE  /\ UNCHANGED <<Tables, task>>
         /\ affected' \subseteq affected
         /\ hpc' = "awaiting" => hpc = "awaiting"
         /\ NothingNewRuns
<1> USE DEF workerVars, brokerVars, pipeVars, healthVars, roundVars, Tables
<1>1. ASSUME NEW c \in calls,
             \/ Execute(c) \/ FinishStage(c) \/ ReportAgain(c)
             \/ ReportGivenUp(c) \/ LoseCall(c)
      PROVE  /\ UNCHANGED <<Tables, task, affected, hpc>>
             /\ NothingNewRuns
  <2>1. c \in Calls
    BY DEF IInv, TypeOK
  <2>2. \A phase, ok : [c EXCEPT !.phase = phase, !.ok = ok].job = c.job
    BY <2>1 DEF Calls
  <2>3. \A phase, ok : MoveCall(c, phase, ok) =>
          \A d \in calls' : \E e \in calls : d.job = e.job
    BY <2>2 DEF MoveCall
  <2>4. \A num, ok : Report(c, num, ok) =>
          \A m \in results' : m \in results \/ m.job = c.job
    BY DEF Report
  <2>5. \A d \in calls' : \E e \in calls : d.job = e.job
    BY <1>1, <2>3 DEF Execute, FinishStage, ReportAgain, ReportGivenUp, LoseCall
  <2>6. \A m \in results' : m \in results \/ m.job = c.job
    BY <1>1, <2>4 DEF Execute, FinishStage, ReportAgain, ReportGivenUp, LoseCall
  <2>7. UNCHANGED <<Tables, task, affected, hpc>>
    BY <1>1 DEF Execute, FinishStage, ReportAgain, ReportGivenUp, LoseCall
  <2> QED BY <2>5, <2>6, <2>7 DEF NothingNewRuns
<1>2. ASSUME NEW h \in handlers, ResultAnswered(h)
      PROVE  /\ UNCHANGED <<Tables, task, affected, hpc>>
             /\ NothingNewRuns
  <2>1. \A c \in calls : [c EXCEPT !.phase = "returned"].job = c.job
    BY DEF IInv, TypeOK, Calls
  <2>2. \A c \in calls' : \E d \in calls : c = d \/ c = [d EXCEPT !.phase = "returned"]
    BY <1>2, Zenon DEF ResultAnswered
  <2>3. results' = results /\ UNCHANGED <<Tables, task, affected, hpc>>
    BY <1>2 DEF ResultAnswered
  <2> QED BY <2>1, <2>2, <2>3 DEF NothingNewRuns
<1>3. CASE \E m \in results : LoseResult(m) \/ ResultUnknown(m)
  BY <1>3 DEF LoseResult, ResultUnknown, Receive, NothingNewRuns
<1>4. CASE \E w \in Workers : \/ Crash(w) \/ Register(w) \/ ProbeAnswer(w)
                              \/ StartWithoutRegistration(w) \/ Listen(w)
  BY <1>4 DEF Crash, Register, ProbeAnswer, StartWithoutRegistration, Boot,
              Listen, NothingNewRuns
<1>5. CASE \E p \in Pipelines : FunnelClock(p) \/ ReplaceNothing(p)
  BY <1>5 DEF FunnelClock, ReplaceNothing, NothingNewRuns
<1>6. CASE ProbeStart \/ ProbeJoin \/ HealthResumes \/ VictimDone
  BY <1>6 DEF ProbeStart, ProbeJoin, HealthResumes, VictimDone, NothingNewRuns
<1>7. CASE UNCHANGED vars
  BY <1>7 DEF vars, NothingNewRuns
<1> QED BY <1>1, <1>2, <1>3, <1>4, <1>5, <1>6, <1>7 DEF FrameStep

\* So they keep the invariant.
LEMMA FrameSteps ==
  ASSUME IInv, TypeOK', FrameStep
  PROVE  IInv'
BY FrameFacts, FrameInv

\* An advance of a running pipeline, after completed grew by dispatched jobs.
LEMMA AdvanceInv ==
  ASSUME IInv, TypeOK', NEW p \in Pipelines, NEW place,
         Advance(p, completed', place),
         p \in active, p \notin failed,
         completed \subseteq completed', completed' \subseteq dispatched,
         affected' \subseteq affected, NothingNewRuns
  PROVE  IInv'
<1> USE DEF IInv
<1>1. /\ GoJobs(p, completed', place) \subseteq JobsOf(p)
      /\ GoJobs(p, completed', place) \subseteq Jobs
      /\ GoJobs(p, completed', place) \cap dispatched = {}
      /\ FunnelMode # "proceed" =>
           \A j \in GoJobs(p, completed', place) : PredJobs(j) \subseteq completed'
  BY GoJobsFacts, JobFacts
<1>2. outcome[p] = "running"
  BY DEF TableMatchesTraces
<1>3. StartedIsMarked'
  BY <1>1 DEF Advance, StartedIsMarked
<1>4. OnlyDispatchedRuns'
  BY DEF Advance, OnlyDispatchedRuns, NothingNewRuns
<1>5. DispatchedHasInputs'
  BY <1>1 DEF Advance, DispatchedHasInputs, PredJobs
<1>6. UnknownIsUntouched'
  BY <1>1, <1>2, JobFacts DEF Advance, UnknownIsUntouched, TypeOK
<1>7. FailureIsMarked'
  BY DEF Advance, FailureIsMarked, TypeOK
<1>8. TableMatchesTraces'
  BY DEF Advance, TableMatchesTraces, TypeOK
<1>9. SuccessIsComplete'
  BY DEF Advance, SuccessIsComplete, TypeOK
<1> QED BY <1>3, <1>4, <1>5, <1>6, <1>7, <1>8, <1>9

\* A step of a dispatch task that has started: its job is dispatched, the task
\* does not become idle, and at most the pipeline is abandoned.
LEMMA DispatchInv ==
  ASSUME IInv, NEW j \in Jobs,
         \/ StartDispatch(j) \/ StartUnregistered(j) \/ Redispatch(j)
         \/ DispatchFails(j) \/ RedispatchFails(j)
         \/ \E k \in {1, 2} : SendReturns(j, k)
  PROVE  IInv'
<1> USE DEF IInv, workerVars, pipeVars, healthVars
<1>1. TypeOK'
  BY DispatchTypes
<1>2. j \in dispatched /\ j[1] \in Pipelines /\ j \in JobsOf(j[1])
  BY JobFacts DEF StartDispatch, StartUnregistered, Redispatch, DispatchFails,
                  RedispatchFails, SendReturns, StartedIsMarked
<1>3. /\ UNCHANGED <<results, completed, dispatched, skipped, outcome, affected>>
      /\ UNCHANGED <<active, failed>> \/ Abandon(j[1])
  BY DEF StartDispatch, StartUnregistered, Redispatch, DispatchFails,
         RedispatchFails, SendReturns, Abandon
<1>4. \E phase \in {"sending", "resending", "ended"} :
        task' = [task EXCEPT ![j] = phase]
  BY DEF StartDispatch, StartUnregistered, Redispatch, DispatchFails,
         RedispatchFails, SendReturns
<1>5. \A c \in calls' : c \in calls \/ c.job = j
  BY DEF StartDispatch, StartUnregistered, Redispatch, DispatchFails,
         RedispatchFails, SendReturns, Posted
<1>6. StartedIsMarked'
  BY <1>2, <1>3, <1>4 DEF StartedIsMarked, TypeOK
<1>7. OnlyDispatchedRuns' /\ DispatchedHasInputs'
  BY <1>2, <1>3, <1>5 DEF OnlyDispatchedRuns, DispatchedHasInputs, PredJobs
<1>8. UnknownIsUntouched'
  BY <1>2, <1>3 DEF UnknownIsUntouched, Abandon
<1>9. FailureIsMarked' /\ TableMatchesTraces' /\ SuccessIsComplete'
  BY <1>3 DEF FailureIsMarked, TableMatchesTraces, SuccessIsComplete, Abandon
<1> QED BY <1>1, <1>6, <1>7, <1>8, <1>9

\* A result of a pipeline in the table.
LEMMA ResultInv ==
  ASSUME IInv, NEW m \in results,
         ResultOfFailed(m) \/ ResultDelivers(m) \/ ResultAdvances(m)
  PROVE  IInv'
<1> USE DEF IInv, brokerVars, healthVars, Receive, InTable
<1>1. TypeOK'
  BY ResultTypes
<1>2. /\ m.job \in Jobs /\ m.job \in dispatched
      /\ m.job[1] \in Pipelines
  BY JobFacts DEF TypeOK, Results, OnlyDispatchedRuns
<1>3. m.job[1] \in active /\ outcome[m.job[1]] = "running"
  BY <1>2 DEF ResultOfFailed, ResultDelivers, ResultAdvances, TableMatchesTraces
<1>4. /\ completed \subseteq completed' /\ completed' \subseteq dispatched
      /\ calls' = calls /\ results' \subseteq results /\ affected' = affected
      /\ NothingNewRuns
  BY <1>2 DEF ResultOfFailed, ResultDelivers, ResultAdvances, DoneAfter,
              OnlyDispatchedRuns, NothingNewRuns
<1>5. CASE ResultAdvances(m)
  <2>1. /\ Advance(m.job[1], completed', placement)
        /\ m.job[1] \notin failed
    BY <1>5 DEF ResultAdvances, FailedAfter
  <2> QED BY <1>1, <1>2, <1>3, <1>4, <2>1, AdvanceInv
<1>6. CASE ResultOfFailed(m) \/ ResultDelivers(m)
  <2>1. /\ UNCHANGED <<task, dispatched, skipped>>
        /\ active' = active \ {m.job[1]}
        /\ failed \subseteq failed' /\ failed' \subseteq failed \cup {m.job[1]}
    BY <1>6 DEF ResultOfFailed, ResultDelivers, FailedAfter
  <2>2. \/ /\ outcome' = [outcome EXCEPT ![m.job[1]] = "failure"]
           /\ m.job[1] \in failed'
        \/ /\ outcome' = [outcome EXCEPT ![m.job[1]] = "success"]
           /\ JobsOf(m.job[1]) \subseteq completed'
    BY <1>6 DEF ResultOfFailed, ResultDelivers, AllDone
  <2>3. StartedIsMarked' /\ OnlyDispatchedRuns'
    BY <1>4, <2>1 DEF StartedIsMarked, OnlyDispatchedRuns
  <2>4. DispatchedHasInputs'
    BY <1>4, <2>1 DEF DispatchedHasInputs, PredJobs
  <2>5. UnknownIsUntouched'
    BY <1>2, <1>4, <2>1, <2>2 DEF UnknownIsUntouched, TypeOK
  <2>6. FailureIsMarked'
    BY <2>1, <2>2 DEF FailureIsMarked, TypeOK
  <2>7. TableMatchesTraces'
    BY <2>1, <2>2 DEF TableMatchesTraces, TypeOK
  <2>8. SuccessIsComplete'
    BY <1>4, <2>2 DEF SuccessIsComplete, TypeOK
  <2> QED BY <1>1, <2>3, <2>4, <2>5, <2>6, <2>7, <2>8
<1> QED BY <1>5, <1>6

\* A pipeline enters the table.
LEMMA PublishInv ==
  ASSUME IInv, NEW p \in Pipelines, Publish(p)
  PROVE  IInv'
<1> USE DEF IInv, workerVars, healthVars, Publish
<1>1. TypeOK'
  BY EntryTypes
<1>2. /\ ReadyJobs(p, completed) \subseteq JobsOf(p)
      /\ ReadyJobs(p, completed) \subseteq Jobs
      /\ ReadyJobs(p, completed) \cap dispatched = {}
      /\ \A j \in ReadyJobs(p, completed) : PredJobs(j) \subseteq completed
  BY JobFacts DEF ReadyJobs, Unstarted
<1>3. StartedIsMarked'
  BY <1>2 DEF StartedIsMarked
<1>4. OnlyDispatchedRuns' /\ DispatchedHasInputs'
  BY <1>2 DEF OnlyDispatchedRuns, DispatchedHasInputs, PredJobs
<1>5. UnknownIsUntouched'
  BY <1>2, JobFacts DEF UnknownIsUntouched, TypeOK
<1>6. FailureIsMarked' /\ TableMatchesTraces' /\ SuccessIsComplete'
  BY DEF FailureIsMarked, TableMatchesTraces, SuccessIsComplete, TypeOK
<1> QED BY <1>1, <1>3, <1>4, <1>5, <1>6

\* A worker leaves the registry, by its own request or as dead.
LEMMA LeaveInv ==
  ASSUME IInv, NEW w \in Workers, Deregister(w) \/ RemoveDead(w)
  PROVE  IInv'
<1> USE DEF IInv, workerVars, pipeVars, healthVars
<1>1. TypeOK'
  BY EntryTypes, HealthTypes DEF HealthStep
<1>2. /\ UNCHANGED <<calls, results, task, active, completed, dispatched,
                     skipped, outcome>>
      /\ failed \subseteq failed' /\ failed' \subseteq failed \cup active
      /\ affected' \subseteq affected \cup active
  BY DEF Deregister, RemoveDead
<1>3. StartedIsMarked' /\ OnlyDispatchedRuns'
  BY <1>2 DEF StartedIsMarked, OnlyDispatchedRuns
<1>4. DispatchedHasInputs'
  BY <1>2 DEF DispatchedHasInputs, PredJobs
<1>5. UnknownIsUntouched' /\ FailureIsMarked'
  BY <1>2 DEF UnknownIsUntouched, FailureIsMarked
<1>6. TableMatchesTraces' /\ SuccessIsComplete'
  BY <1>2 DEF TableMatchesTraces, SuccessIsComplete
<1> QED BY <1>1, <1>3, <1>4, <1>5, <1>6

\* A pipeline the recovery is about to move is running or has failed: a
\* pipeline that was delivered has no dead jobs, whenever that happened.
LEMMA AffectedIsOpen ==
  ASSUME IInv, NEW p \in affected, DeadJobs(p) # {}
  PROVE  /\ p \in Pipelines
         /\ outcome[p] \in {"running", "failure"}
         /\ p \notin failed => p \in active /\ outcome[p] = "running"
<1>1. p \in Pipelines /\ outcome[p] \in {"running", "success", "failure"}
  BY DEF IInv, TypeOK, UnknownIsUntouched
<1>2. outcome[p] # "success"
  BY <1>1 DEF IInv, SuccessIsComplete, DeadJobs
<1> QED BY <1>1, <1>2 DEF IInv, FailureIsMarked, TableMatchesTraces

\* The recovery moves the stages of a pipeline, or fails it.
LEMMA ReplaceInv ==
  ASSUME IInv, NEW p \in Pipelines, ReplaceStages(p) \/ ReplaceFails(p)
  PROVE  IInv'
<1> USE DEF IInv, workerVars
<1>1. TypeOK'
  BY HealthTypes DEF HealthStep
<1>2. /\ p \in affected /\ DeadJobs(p) # {}
      /\ affected' \subseteq affected
      /\ UNCHANGED <<calls, results, completed>>
      /\ NothingNewRuns
  BY DEF ReplaceStages, ReplaceFails, JobsToReplace, NothingNewRuns
<1>3. /\ outcome[p] \in {"running", "failure"}
      /\ p \notin failed => p \in active /\ outcome[p] = "running"
  BY <1>2, AffectedIsOpen
<1>4. CASE ReplaceStages(p) /\ p \in failed
  <2>1. UNCHANGED <<Tables, task>>
    BY <1>4 DEF ReplaceStages, Tables
  <2> QED BY <1>1, <1>2, <2>1, FrameInv
<1>5. CASE ReplaceStages(p) /\ p \notin failed
  <2>1. Advance(p, completed', placement')
    BY <1>2, <1>5 DEF ReplaceStages
  <2>2. completed' \subseteq dispatched
    BY <1>2 DEF OnlyDispatchedRuns
  <2> QED BY <1>1, <1>2, <1>3, <1>5, <2>1, <2>2, AdvanceInv
<1>6. CASE ReplaceFails(p)
  <2>1. /\ UNCHANGED <<task, dispatched, skipped>>
        /\ failed' = failed \cup {p} /\ active' = active \ {p}
        /\ outcome' = [outcome EXCEPT ![p] = "failure"]
    BY <1>6 DEF ReplaceFails, Abandon
  <2>2. StartedIsMarked' /\ OnlyDispatchedRuns'
    BY <1>2, <2>1 DEF StartedIsMarked, OnlyDispatchedRuns
  <2>3. DispatchedHasInputs'
    BY <1>2, <2>1 DEF DispatchedHasInputs, PredJobs
  <2>4. UnknownIsUntouched' /\ FailureIsMarked'
    BY <1>2, <2>1 DEF UnknownIsUntouched, FailureIsMarked, TypeOK
  <2>5. TableMatchesTraces' /\ SuccessIsComplete'
    BY <1>2, <2>1 DEF TableMatchesTraces, SuccessIsComplete, TypeOK
  <2> QED BY <1>1, <2>2, <2>3, <2>4, <2>5
<1> QED BY <1>4, <1>5, <1>6

\* The invariant holds before anything is published.
LEMMA InitInv == Init => IInv
<1> SUFFICES ASSUME Init PROVE IInv
  OBVIOUS
<1>1. TypeOK
  BY NeuralBrokerAssumption DEF Init, TypeOK
<1> QED BY <1>1 DEF Init, IInv, StartedIsMarked, OnlyDispatchedRuns,
           DispatchedHasInputs, UnknownIsUntouched, FailureIsMarked,
           TableMatchesTraces, SuccessIsComplete

\* Every step of broker, health loop, worker or fault keeps it.
LEMMA NextInv == IInv /\ TypeOK' /\ [Next]_vars => IInv'
<1> SUFFICES ASSUME IInv, TypeOK', [Next]_vars
             PROVE  IInv'
  OBVIOUS
<1>1. CASE BrokerStep
  BY <1>1, PublishInv, DispatchInv, ResultInv, FrameSteps
     DEF BrokerStep, FrameStep
<1>2. CASE HealthStep
  BY <1>2, LeaveInv, ReplaceInv, FrameSteps DEF HealthStep, FrameStep
<1>3. CASE WorkerStep
  BY <1>3, FrameSteps DEF WorkerStep, FrameStep
<1>4. CASE FaultStep
  BY <1>4, LeaveInv, FrameSteps DEF FaultStep, FrameStep
<1>5. CASE UNCHANGED vars
  BY <1>5, FrameSteps DEF FrameStep
<1> QED BY <1>1, <1>2, <1>3, <1>4, <1>5 DEF Next

\* The inductive invariant holds in every reachable state.
THEOREM Invariance == Spec => []IInv
<1>1. Spec => []TypeOK
  BY TypeCorrect
<1> QED BY <1>1, InitInv, NextInv, PTL DEF Spec

-----------------------------------------------------------------------------
(* Safety.                                                                  *)

\* No worker holds a stage whose inputs are not all in, whichever dispatch,
\* re-dispatch or repeated result brought it there.
THEOREM NoEarlyExecutionHolds == Spec => []NoEarlyExecution
<1>1. IInv => NoEarlyExecution
  BY DEF IInv, OnlyDispatchedRuns, DispatchedHasInputs, NoEarlyExecution
<1> QED BY <1>1, Invariance, PTL

\* The pipeline table never disagrees with the traces of the collector.
THEOREM TableMatchesTracesHolds == Spec => []TableMatchesTraces
<1>1. IInv => TableMatchesTraces
  BY DEF IInv
<1> QED BY <1>1, Invariance, PTL

\* A pipeline counted as a success has every stage completed.
THEOREM SuccessIsCompleteHolds == Spec => []SuccessIsComplete
<1>1. IInv => SuccessIsComplete
  BY DEF IInv
<1> QED BY <1>1, Invariance, PTL

\* Started tasks move on, no task is spawned.
TasksMoveOn ==
  \A j \in Jobs : \/ task'[j] = task[j]
                  \/ /\ task[j] # "idle"
                     /\ task'[j] \in {"sending", "resending", "ended"}

\* The steps that write the tables of a pipeline; all others leave outcomes,
\* completed and dispatched stages alone.
LEMMA StepKinds ==
  ASSUME IInv, [Next]_vars
  PROVE  \/ \E p \in Pipelines : Publish(p)
         \/ \E m \in results : \/ ResultOfFailed(m) \/ ResultDelivers(m)
                               \/ ResultAdvances(m)
         \/ \E p \in Pipelines : ReplaceStages(p) \/ ReplaceFails(p)
         \/ UNCHANGED <<outcome, completed, dispatched>> /\ TasksMoveOn
<1> USE DEF IInv, workerVars, brokerVars, pipeVars, healthVars, roundVars
<1>1. ASSUME NEW j \in Jobs,
             \/ StartDispatch(j) \/ StartUnregistered(j) \/ Redispatch(j)
             \/ DispatchFails(j) \/ RedispatchFails(j)
             \/ \E k \in {1, 2} : SendReturns(j, k)
      PROVE  UNCHANGED <<outcome, completed, dispatched>> /\ TasksMoveOn
  <2>1. \E phase \in {"sending", "resending", "ended"} :
          task' = [task EXCEPT ![j] = phase]
    BY <1>1 DEF StartDispatch, StartUnregistered, Redispatch, DispatchFails,
                RedispatchFails, SendReturns
  <2>2. task[j] # "idle"
    BY <1>1 DEF StartDispatch, StartUnregistered, Redispatch, DispatchFails,
                RedispatchFails, SendReturns
  <2>3. UNCHANGED <<outcome, completed, dispatched>>
    BY <1>1 DEF StartDispatch, StartUnregistered, Redispatch, DispatchFails,
                RedispatchFails, SendReturns
  <2> QED BY <2>1, <2>2, <2>3 DEF TasksMoveOn, TypeOK
<1>2. CASE FrameStep \/ \E w \in Workers : Deregister(w) \/ RemoveDead(w)
  <2>1. UNCHANGED <<outcome, completed, dispatched, task>>
    BY <1>2, FrameFacts DEF Deregister, RemoveDead, Tables
  <2> QED BY <2>1 DEF TasksMoveOn
<1> QED BY <1>1, <1>2 DEF Next, BrokerStep, HealthStep, WorkerStep, FaultStep,
        FrameStep

\* A result that writes the tables belongs to a dispatched job of a running
\* pipeline, and adds at most that job to the completed ones.
LEMMA ResultFacts ==
  ASSUME IInv, NEW m \in results,
         ResultOfFailed(m) \/ ResultDelivers(m) \/ ResultAdvances(m)
  PROVE  /\ m.job \in dispatched /\ m.job \in JobsOf(m.job[1])
         /\ m.job[1] \in Pipelines /\ m.job[1] \in active
         /\ outcome[m.job[1]] = "running"
         /\ completed' = completed \/ completed' = completed \cup {m.job}
<1>1. /\ m.job \in Jobs /\ m.job \in dispatched
      /\ m.job[1] \in Pipelines /\ m.job \in JobsOf(m.job[1])
  BY JobFacts DEF IInv, TypeOK, Results, OnlyDispatchedRuns
<1>2. m.job[1] \in active
  BY DEF ResultOfFailed, ResultDelivers, ResultAdvances, InTable
<1>3. completed' = completed \/ completed' = completed \cup {m.job}
  BY DEF ResultOfFailed, ResultDelivers, ResultAdvances, DoneAfter
<1> QED BY <1>1, <1>2, <1>3 DEF IInv, TableMatchesTraces

\* Likewise for a pipeline the recovery works on.
LEMMA ReplaceFacts ==
  ASSUME IInv, NEW p \in Pipelines, ReplaceStages(p) \/ ReplaceFails(p)
  PROVE  /\ UNCHANGED completed
         /\ outcome[p] \in {"running", "failure"}
         /\ p \notin failed => p \in active /\ outcome[p] = "running"
<1>1. p \in affected /\ DeadJobs(p) # {} /\ UNCHANGED completed
  BY DEF ReplaceStages, ReplaceFails, JobsToReplace
<1> QED BY <1>1, AffectedIsOpen

\* No step touches an outcome that is recorded.
LEMMA OutcomesKept == IInv /\ [Next]_vars => KeepsOutcomes
<1>1. ASSUME IInv, [Next]_vars, NEW p \in Pipelines,
             outcome[p] \in {"success", "failure"}
      PROVE  outcome'[p] = outcome[p]
  <2>1. CASE \E q \in Pipelines : Publish(q)
    BY <1>1, <2>1 DEF Publish, IInv, TypeOK
  <2>2. CASE \E m \in results : \/ ResultOfFailed(m) \/ ResultDelivers(m)
                                \/ ResultAdvances(m)
    <3> PICK m \in results : \/ ResultOfFailed(m) \/ ResultDelivers(m)
                             \/ ResultAdvances(m)
      BY <2>2
    <3>1. m.job[1] \in Pipelines /\ outcome[m.job[1]] = "running"
      BY <1>1, ResultFacts
    <3>2. \E result \in {"running", "success", "failure"} :
            outcome' = [outcome EXCEPT ![m.job[1]] = result]
      BY <1>1, <3>1 DEF ResultOfFailed, ResultDelivers, ResultAdvances, Advance,
                        IInv, TypeOK
    <3> QED BY <1>1, <3>1, <3>2 DEF IInv, TypeOK
  <2>3. ASSUME NEW q \in Pipelines, ReplaceStages(q)
        PROVE  outcome'[p] = outcome[p]
    BY <1>1, <2>3, ReplaceFacts DEF ReplaceStages, Advance, IInv, TypeOK
  <2>4. ASSUME NEW q \in Pipelines, ReplaceFails(q)
        PROVE  outcome'[p] = outcome[p]
    BY <1>1, <2>4, ReplaceFacts DEF ReplaceFails, IInv, TypeOK
  <2> QED BY <1>1, <2>1, <2>2, <2>3, <2>4, StepKinds
<1> QED BY <1>1 DEF KeepsOutcomes

\* A recorded outcome is final.
THEOREM OutcomeIsFinalHolds == Spec => OutcomeIsFinal
<1>1. IInv /\ [Next]_vars => [KeepsOutcomes]_vars
  BY OutcomesKept
<1> QED BY <1>1, Invariance, PTL DEF Spec, OutcomeIsFinal

\* A task stays as it is, is spawned, or moves on.
LEMMA TaskMoves ==
  ASSUME IInv, [Next]_vars, NEW j \in Jobs
  PROVE  \/ task'[j] = task[j]
         \/ task[j] = "idle" /\ task'[j] = "spawned"
         \/ task[j] # "idle" /\ task'[j] \notin {"idle", "spawned"}
<1>1. ASSUME NEW p \in Pipelines, NEW done, NEW place, Advance(p, done, place)
      PROVE  \/ task'[j] = task[j]
             \/ task[j] = "idle" /\ task'[j] = "spawned"
  BY <1>1, GoJobsFacts DEF Advance, IInv, StartedIsMarked
<1>2. CASE \E p \in Pipelines : Publish(p)
  BY <1>2 DEF Publish, ReadyJobs, Unstarted, IInv, StartedIsMarked
<1>3. CASE \E m \in results : \/ ResultOfFailed(m) \/ ResultDelivers(m)
                              \/ ResultAdvances(m)
  BY <1>1, <1>3, ResultFacts DEF ResultOfFailed, ResultDelivers, ResultAdvances
<1>4. CASE \E p \in Pipelines : ReplaceStages(p) \/ ReplaceFails(p)
  BY <1>1, <1>4 DEF ReplaceStages, ReplaceFails
<1>5. CASE TasksMoveOn
  BY <1>5 DEF TasksMoveOn
<1> QED BY <1>2, <1>3, <1>4, <1>5, StepKinds

\* What a handler or the health loop begins to wait for was not marked dispatched
\* before.
WaitsForNew ==
  /\ \A h \in handlers' \ handlers : h.awaits \cap dispatched = {}
  /\ (hwaits' \ hwaits) \cap dispatched = {}

LEMMA WaitsAreNew ==
  ASSUME IInv, [Next]_vars
  PROVE  WaitsForNew
<1> USE DEF WaitsForNew, workerVars, brokerVars, pipeVars, healthVars, roundVars
<1>1. \A p \in Pipelines : \A done, place :
        GoJobs(p, done, place) \cap dispatched = {}
  BY GoJobsFacts
<1>2. ASSUME NEW m \in results, ResultAdvances(m)
      PROVE  WaitsForNew
  <2>1. m.job[1] \in Pipelines
    BY <1>2, ResultFacts
  <2>2. /\ handlers' = handlers \cup
             {[job |-> m.job, try |-> m.try, num |-> m.num,
               awaits |-> GoJobs(m.job[1], DoneAfter(m), placement)]}
        /\ hwaits' = hwaits
    BY <1>2 DEF ResultAdvances, Suspend
  <2> QED BY <1>1, <2>1, <2>2
<1>3. ASSUME NEW m \in results, ResultUnknown(m) \/ ResultOfFailed(m) \/ ResultDelivers(m)
      PROVE  WaitsForNew
  <2>1. /\ handlers' = handlers \cup
             {[job |-> m.job, try |-> m.try, num |-> m.num, awaits |-> {}]}
        /\ hwaits' = hwaits
    BY <1>3 DEF ResultUnknown, ResultOfFailed, ResultDelivers, Suspend
  <2> QED BY <2>1
<1>4. ASSUME NEW p \in Pipelines, ReplaceStages(p)
      PROVE  WaitsForNew
  <2>1. handlers' = handlers /\ (hwaits' = hwaits \/ hwaits' = GoJobs(p, completed, placement'))
    BY <1>4 DEF ReplaceStages
  <2> QED BY <1>1, <2>1
<1>5. CASE \E h \in handlers : ResultAnswered(h)
  BY <1>5 DEF ResultAnswered
<1>6. CASE HealthResumes
  BY <1>6 DEF HealthResumes
<1>7. CASE UNCHANGED <<handlers, hwaits>>
  BY <1>7
<1>8. CASE BrokerStep
  <2>1. ASSUME NEW p \in Pipelines, Publish(p) \/ FunnelClock(p)
        PROVE  UNCHANGED <<handlers, hwaits>>
    BY <2>1 DEF Publish, FunnelClock
  <2>2. ASSUME NEW j \in Jobs,
               \/ StartDispatch(j) \/ StartUnregistered(j)
               \/ \E k \in {1, 2} : SendReturns(j, k)
               \/ Redispatch(j) \/ DispatchFails(j) \/ RedispatchFails(j)
        PROVE  UNCHANGED <<handlers, hwaits>>
    BY <2>2 DEF StartDispatch, StartUnregistered, SendReturns, Redispatch, DispatchFails,
                RedispatchFails
  <2> QED BY <1>2, <1>3, <1>5, <1>7, <1>8, <2>1, <2>2 DEF BrokerStep
<1>9. CASE HealthStep
  <2>1. CASE \/ ProbeStart \/ ProbeJoin \/ VictimDone
             \/ \E w \in Workers : ProbeAnswer(w) \/ RemoveDead(w)
             \/ \E p \in Pipelines : ReplaceNothing(p) \/ ReplaceFails(p)
    <3>1. UNCHANGED <<handlers, hwaits>>
      BY <2>1 DEF ProbeStart, ProbeJoin, VictimDone, ProbeAnswer, RemoveDead,
                  ReplaceNothing, ReplaceFails
    <3> QED BY <1>7, <3>1
  <2> QED BY <1>4, <1>6, <1>9, <2>1 DEF HealthStep
<1>10. CASE WorkerStep \/ FaultStep
  <2>1. UNCHANGED <<handlers, hwaits>>
    BY <1>10 DEF WorkerStep, FaultStep, Execute, FinishStage, ReportAgain, ReportGivenUp,
                 Register, Listen, Crash, StartWithoutRegistration, Deregister, LoseCall,
                 LoseResult
  <2> QED BY <1>7, <2>1
<1>11. CASE UNCHANGED vars
  BY <1>11 DEF vars
<1> QED BY <1>8, <1>9, <1>10, <1>11 DEF Next

\* No stage is handed to dispatch twice, not even before its first task starts.
THEOREM DispatchedOnceHolds == Spec => DispatchedOnce
<1>1. IInv /\ [Next]_vars => [DispatchesAtMostOnce]_vars
  BY TaskMoves, WaitsAreNew DEF DispatchesAtMostOnce, WaitsForNew
<1> QED BY <1>1, Invariance, PTL DEF Spec, DispatchedOnce

-----------------------------------------------------------------------------
(* Refinement.                                                              *)

\* The same sets under the names of both modules.
LEMMA SameSets ==
  /\ \A p : Lifecycle!StagesOf(p) = JobsOf(p)
  /\ \A j : Lifecycle!Before(j) = PredJobs(j)
BY DEF Lifecycle!StagesOf, Lifecycle!Before, JobsOf, PredJobs

\* The order the life cycle promises holds of the dispatches: a stage is marked
\* only with all its inputs completed, be its task still to start, running or long
\* ended, and no report completes a stage that was never dispatched.
\* (_dispatch_ready_stages, _handle_result)
THEOREM DagOrderHolds == FunnelMode # "proceed" /\ Spec => []Lifecycle!DagOrder
<1> SUFFICES ASSUME FunnelMode # "proceed"
             PROVE  Spec => []Lifecycle!DagOrder
  OBVIOUS
<1>1. IInv => Lifecycle!DagOrder
  BY SameSets DEF IInv, DispatchedHasInputs, OnlyDispatchedRuns, Lifecycle!DagOrder
<1> QED BY <1>1, Invariance, PTL

\* A life changes as the outcome does.
LEMMA LifeChanges ==
  ASSUME IInv, NEW p \in Pipelines, NEW result,
         outcome' = [outcome EXCEPT ![p] = result]
  PROVE  Life' = [Life EXCEPT ![p] = LifeOf(result)]
BY DEF Life, IInv, TypeOK

\* An advance of a running pipeline is one in the abstract, or a failure.
LEMMA AdvanceSimulation ==
  ASSUME IInv, TypeOK', FunnelMode # "proceed",
         NEW p \in Pipelines, NEW place, Advance(p, completed', place),
         outcome[p] = "running",
         \/ completed' = completed
         \/ \E j \in dispatched \cap JobsOf(p) : completed' = completed \cup {j}
  PROVE  Lifecycle!Advance(p) \/ Lifecycle!Fail(p)
<1>1. Life[p] = "running"
  BY DEF Life, LifeOf
<1>2. \/ \E j \in dispatched \cap Lifecycle!StagesOf(p) :
           completed' = completed \cup {j}
      \/ UNCHANGED completed
  BY SameSets
<1>3. CASE FunnelFails(p, completed', place)
  <2>1. dispatched' = dispatched
    BY <1>3 DEF Advance, GoJobs
  <2>2. outcome' = [outcome EXCEPT ![p] = "failure"]
    BY <1>3 DEF Advance
  <2>3. Life' = [Life EXCEPT ![p] = "failed"]
    BY <2>2, LifeChanges DEF LifeOf
  <2> QED BY <1>1, <1>2, <2>1, <2>3 DEF Lifecycle!Fail
<1>4. CASE ~FunnelFails(p, completed', place)
  <2>1. outcome' = outcome
    BY <1>4 DEF Advance
  <2>2. Life' = Life
    BY <2>1 DEF Life
  <2>3. GoJobs(p, completed', place) \in
          SUBSET {j \in Lifecycle!StagesOf(p) : Lifecycle!Before(j) \subseteq completed'}
    BY GoJobsFacts, SameSets
  <2>4. Lifecycle!Starts(p)
    BY <2>3 DEF Advance, Lifecycle!Starts
  <2> QED BY <1>1, <1>2, <2>2, <2>4 DEF Lifecycle!Advance
<1> QED BY <1>3, <1>4

\* An empty table maps to pipelines that are all new.
LEMMA InitSimulation == Init => Lifecycle!Init
BY DEF Init, Lifecycle!Init, Life, LifeOf

\* Every step of the broker is a step of the life cycle or a stutter.
LEMMA NextSimulation ==
  ASSUME IInv, TypeOK', [Next]_vars, FunnelMode # "proceed"
  PROVE  [Lifecycle!Next]_(Lifecycle!vars)
<1>1. ASSUME NEW p \in Pipelines, Publish(p)
      PROVE  Lifecycle!Accept(p)
  <2>1. outcome[p] = "unknown" /\ outcome' = [outcome EXCEPT ![p] = "running"]
    BY <1>1 DEF Publish
  <2>2. Life[p] = "new" /\ Life' = [Life EXCEPT ![p] = "running"]
    BY <2>1, LifeChanges DEF Life, LifeOf
  <2>3. ReadyJobs(p, completed) \in
          SUBSET {j \in Lifecycle!StagesOf(p) : Lifecycle!Before(j) \subseteq completed'}
    BY <1>1, SameSets DEF Publish, ReadyJobs, Unstarted
  <2>4. Lifecycle!Starts(p)
    BY <1>1, <2>3 DEF Publish, Lifecycle!Starts
  <2> QED BY <1>1, <2>2, <2>4 DEF Publish, Lifecycle!Accept
<1>2. ASSUME NEW m \in results,
             ResultOfFailed(m) \/ ResultDelivers(m) \/ ResultAdvances(m)
      PROVE  \E p \in Pipelines : \/ Lifecycle!Advance(p) \/ Lifecycle!Succeed(p)
                                  \/ Lifecycle!Fail(p)
  <2> DEFINE p == m.job[1]
  <2>1. /\ p \in Pipelines /\ outcome[p] = "running"
        /\ m.job \in dispatched \cap JobsOf(p)
        /\ completed' = completed \/ completed' = completed \cup {m.job}
    BY <1>2, ResultFacts
  <2>2. Life[p] = "running"
    BY <2>1 DEF Life, LifeOf
  <2>3. CASE ResultOfFailed(m)
    <3>1. outcome' = [outcome EXCEPT ![p] = "failure"] /\ dispatched' = dispatched
      BY <2>3 DEF ResultOfFailed
    <3>2. Life' = [Life EXCEPT ![p] = "failed"]
      BY <2>1, <3>1, LifeChanges DEF LifeOf
    <3>3. Lifecycle!Fail(p)
      BY <2>1, <2>2, <3>1, <3>2, SameSets DEF Lifecycle!Fail
    <3> QED BY <2>1, <3>3
  <2>4. CASE ResultDelivers(m)
    <3>1. /\ outcome' = [outcome EXCEPT ![p] = "success"]
          /\ dispatched' = dispatched
          /\ completed' = completed \cup {m.job}
          /\ JobsOf(p) \subseteq completed'
      BY <2>4 DEF ResultDelivers, AllDone, FailedAfter, DoneAfter
    <3>2. Life' = [Life EXCEPT ![p] = "succeeded"]
      BY <2>1, <3>1, LifeChanges DEF LifeOf
    <3>3. Lifecycle!Succeed(p)
      BY <2>1, <2>2, <3>1, <3>2, SameSets DEF Lifecycle!Succeed
    <3> QED BY <2>1, <3>3
  <2>5. CASE ResultAdvances(m)
    <3>1. Advance(p, completed', placement)
      BY <2>5 DEF ResultAdvances
    <3>2. Lifecycle!Advance(p) \/ Lifecycle!Fail(p)
      BY <2>1, <3>1, AdvanceSimulation
    <3> QED BY <2>1, <3>2
  <2> QED BY <1>2, <2>3, <2>4, <2>5
<1>3. ASSUME NEW p \in Pipelines, ReplaceStages(p) \/ ReplaceFails(p)
      PROVE  \/ Lifecycle!Advance(p) \/ Lifecycle!Fail(p)
             \/ UNCHANGED Lifecycle!vars
  <2>1. /\ UNCHANGED completed
        /\ outcome[p] \in {"running", "failure"}
        /\ p \notin failed => outcome[p] = "running"
    BY <1>3, ReplaceFacts
  <2>2. CASE ReplaceStages(p) /\ p \in failed
    <3>1. UNCHANGED <<outcome, dispatched>>
      BY <2>2 DEF ReplaceStages
    <3> QED BY <2>1, <3>1 DEF Lifecycle!vars, Life
  <2>3. CASE ReplaceStages(p) /\ p \notin failed
    <3>1. Advance(p, completed', placement')
      BY <2>1, <2>3 DEF ReplaceStages
    <3> QED BY <2>1, <2>3, <3>1, AdvanceSimulation
  <2>4. CASE ReplaceFails(p)
    <3>1. outcome' = [outcome EXCEPT ![p] = "failure"] /\ dispatched' = dispatched
      BY <2>4 DEF ReplaceFails
    <3>2. Life' = [Life EXCEPT ![p] = "failed"]
      BY <3>1, LifeChanges DEF LifeOf
    <3>3. CASE outcome[p] = "running"
      <4>1. Life[p] = "running"
        BY <3>3 DEF Life, LifeOf
      <4> QED BY <2>1, <3>1, <3>2, <4>1 DEF Lifecycle!Fail
    <3>4. CASE outcome[p] = "failure"
      <4>1. outcome' = outcome
        BY <3>1, <3>4 DEF IInv, TypeOK
      <4> QED BY <2>1, <3>1, <4>1 DEF Lifecycle!vars, Life
    <3> QED BY <2>1, <3>3, <3>4
  <2> QED BY <1>3, <2>2, <2>3, <2>4
<1>4. UNCHANGED <<outcome, completed, dispatched>> => UNCHANGED Lifecycle!vars
  BY DEF Lifecycle!vars, Life
<1> QED BY <1>1, <1>2, <1>3, <1>4, StepKinds DEF Lifecycle!Next

\* Outside proceed mode the broker, with its retries, recovery and repeated
\* results, implements the pipeline life cycle.
THEOREM Implementation == FunnelMode # "proceed" /\ Spec => ImplementsLifecycle
<1> SUFFICES ASSUME FunnelMode # "proceed"
             PROVE  Spec => ImplementsLifecycle
  OBVIOUS
<1>1. IInv /\ TypeOK' /\ [Next]_vars => [Lifecycle!Next]_(Lifecycle!vars)
  BY NextSimulation
<1>2. Spec => []TypeOK
  BY TypeCorrect
<1>3. Spec => []IInv
  BY Invariance
<1> QED BY <1>1, <1>2, <1>3, InitSimulation, PTL
        DEF Spec, ImplementsLifecycle, Lifecycle!Spec

-----------------------------------------------------------------------------
(* Recovery.                                                                *)

\* A live pipeline depends on an unregistered worker only while the recovery
\* of that worker still has the pipeline before it.
RecoveryIsPending ==
  ~BypassReplace =>
    \A p \in active \ failed : \A j \in JobsOf(p) \ completed :
      \/ placement[j] \in registry
      \/ /\ placement[j] = victim
         /\ p \in affected
         /\ hpc \in {"replacing", "awaiting"}

\* The recovery clears what it announces: removing a worker puts its live
\* pipelines before it, and each is moved, failed or found unconcerned.
LEMMA RecoveryNext ==
  ASSUME TypeOK, RecoveryIsPending, [Next]_vars
  PROVE  RecoveryIsPending'
<1> USE DEF workerVars, brokerVars, pipeVars, healthVars, roundVars
<1>1. ASSUME NEW p \in Pipelines, Publish(p)
      PROVE  RecoveryIsPending'
  <2>1. /\ \A j \in JobsOf(p) : placement'[j] \in registry
        /\ \A j \in Jobs \ JobsOf(p) : placement'[j] = placement[j]
    BY <1>1, JobFacts DEF Publish
  <2>2. /\ active' = active \cup {p}
        /\ UNCHANGED <<failed, completed, registry, victim, affected, hpc>>
    BY <1>1 DEF Publish
  <2>3. \A q \in Pipelines : q # p => JobsOf(q) \subseteq Jobs \ JobsOf(p)
    BY JobFacts
  <2> QED BY <2>1, <2>2, <2>3 DEF RecoveryIsPending, TypeOK
<1>2. ASSUME NEW j \in Jobs, Redispatch(j)
      PROVE  RecoveryIsPending'
  <2>1. \A i \in Jobs : \/ placement'[i] = placement[i]
                        \/ placement'[i] \in registry
    BY <1>2 DEF Redispatch, TypeOK
  <2>2. UNCHANGED <<active, failed, completed, registry, victim, affected, hpc>>
    BY <1>2 DEF Redispatch
  <2> QED BY <2>1, <2>2, JobFacts DEF RecoveryIsPending, TypeOK
<1>3. ASSUME NEW j \in Jobs,
             \/ StartDispatch(j) \/ StartUnregistered(j) \/ DispatchFails(j)
             \/ RedispatchFails(j) \/ \E k \in {1, 2} : SendReturns(j, k)
      PROVE  RecoveryIsPending'
  <2>1. /\ UNCHANGED <<placement, victim, affected, completed, registry, hpc>>
        /\ active' \subseteq active /\ failed \subseteq failed'
    BY <1>3 DEF StartDispatch, StartUnregistered, DispatchFails,
                RedispatchFails, SendReturns, Abandon
  <2> QED BY <2>1 DEF RecoveryIsPending
<1>4. ASSUME NEW m \in results,
             \/ ResultUnknown(m) \/ ResultOfFailed(m) \/ ResultDelivers(m)
             \/ ResultAdvances(m)
      PROVE  RecoveryIsPending'
  <2>1. /\ UNCHANGED <<placement, victim, affected, registry, hpc>>
        /\ active' \subseteq active /\ failed \subseteq failed'
        /\ completed \subseteq completed'
    BY <1>4 DEF ResultUnknown, ResultOfFailed, ResultDelivers, ResultAdvances,
                Advance, FailedAfter, DoneAfter
  <2> QED BY <2>1 DEF RecoveryIsPending
<1>5. CASE \/ WorkerStep \/ UNCHANGED vars
           \/ \E h \in handlers : ResultAnswered(h)
           \/ \E p \in Pipelines : FunnelClock(p)
           \/ \E w \in Workers : Crash(w) \/ StartWithoutRegistration(w)
           \/ \E c \in calls : LoseCall(c)
           \/ \E m \in results : LoseResult(m)
           \/ \E w \in Workers : ProbeAnswer(w)
  <2>1. /\ UNCHANGED <<placement, victim, affected, active, failed, completed,
                       hpc>>
        /\ registry \subseteq registry'
    BY <1>5 DEF WorkerStep, vars, Execute, FinishStage, ReportAgain,
                ReportGivenUp, Register, Listen, Crash, StartWithoutRegistration,
                LoseCall, LoseResult, ResultAnswered, FunnelClock, ProbeAnswer
  <2> QED BY <2>1 DEF RecoveryIsPending
<1>6. ASSUME NEW w \in Workers, Deregister(w)
      PROVE  RecoveryIsPending'
  <2>1. /\ UNCHANGED <<placement, victim, affected, active, completed, hpc>>
        /\ registry' = registry \ {w}
        /\ failed \subseteq failed'
        /\ \A p \in active \ failed' : \A j \in JobsOf(p) : placement[j] # w
    BY <1>6 DEF Deregister
  <2> QED BY <2>1 DEF RecoveryIsPending
<1>7. ASSUME NEW w \in Workers, RemoveDead(w)
      PROVE  RecoveryIsPending'
  <2>1. /\ UNCHANGED <<placement, active, failed, completed>>
        /\ registry' = registry \ {w} /\ victim' = w
        /\ hpc = "removing" /\ hpc' = "replacing"
        /\ affected' = {p \in active \ failed :
                          \E j \in JobsOf(p) : placement[j] = w}
    BY <1>7 DEF RemoveDead
  <2> QED BY <2>1 DEF RecoveryIsPending
<1>8. CASE \/ ProbeStart \/ ProbeJoin \/ HealthResumes \/ VictimDone
           \/ \E p \in Pipelines : ReplaceNothing(p)
  <2>1. UNCHANGED <<placement, active, failed, completed, registry>>
    BY <1>8 DEF ProbeStart, ProbeJoin, HealthResumes, VictimDone, ReplaceNothing
  <2>2. CASE ProbeStart \/ ProbeJoin
    BY <2>1, <2>2 DEF ProbeStart, ProbeJoin, RecoveryIsPending
  <2>3. CASE HealthResumes
    BY <2>1, <2>3 DEF HealthResumes, RecoveryIsPending
  <2>4. CASE VictimDone
    BY <2>1, <2>4 DEF VictimDone, RecoveryIsPending
  <2>5. ASSUME NEW p \in Pipelines, ReplaceNothing(p)
        PROVE  RecoveryIsPending'
    <3>1. \A j \in JobsOf(p) \ completed : placement[j] # victim
      BY <2>5 DEF ReplaceNothing, DeadJobs
    <3>2. UNCHANGED <<victim, hpc>> /\ affected' = affected \ {p}
      BY <2>5 DEF ReplaceNothing
    <3> QED BY <2>1, <3>1, <3>2 DEF RecoveryIsPending
  <2> QED BY <1>8, <2>2, <2>3, <2>4, <2>5
<1>9. ASSUME NEW p \in Pipelines, ReplaceStages(p)
      PROVE  RecoveryIsPending'
  <2>1. /\ UNCHANGED <<completed, registry, victim>>
        /\ hpc = "replacing" /\ hpc' \in {"replacing", "awaiting"}
        /\ affected' = affected \ {p}
        /\ active' \subseteq active /\ failed \subseteq failed'
    BY <1>9 DEF ReplaceStages, Advance
  <2>2. \A i \in Jobs : \/ placement'[i] \in registry
                        \/ /\ placement'[i] = placement[i]
                           /\ i \notin JobsToReplace(p)
    BY <1>9 DEF ReplaceStages
  <2>3. SUFFICES ASSUME ~BypassReplace, NEW q \in active \ failed,
                        NEW j \in JobsOf(q) \ completed
                 PROVE  \/ placement'[j] \in registry
                        \/ /\ placement'[j] = victim
                           /\ q \in affected \ {p}
    BY <2>1 DEF RecoveryIsPending
  <2>4. /\ j \in Jobs
        /\ \/ placement[j] \in registry
           \/ /\ placement[j] = victim
              /\ q \in affected
    BY <2>3, JobFacts DEF RecoveryIsPending, TypeOK
  <2>5. q = p /\ placement[j] = victim => j \in JobsToReplace(p)
    BY <2>3 DEF JobsToReplace, DeadJobs
  <2> QED BY <2>2, <2>4, <2>5
<1>10. ASSUME NEW p \in Pipelines, ReplaceFails(p)
       PROVE  RecoveryIsPending'
  <2>1. /\ UNCHANGED <<placement, completed, registry, victim, hpc>>
        /\ affected' = affected \ {p}
        /\ active' = active \ {p} /\ failed \subseteq failed'
    BY <1>10 DEF ReplaceFails, Abandon
  <2> QED BY <2>1 DEF RecoveryIsPending
<1> QED BY <1>1, <1>2, <1>3, <1>4, <1>5, <1>6, <1>7, <1>8, <1>9, <1>10
        DEF Next, BrokerStep, HealthStep, FaultStep

\* After a round of health checks every stage a live pipeline has yet to
\* complete is placed on a registered worker.
THEOREM RecoveryIsCompleteHolds == Spec => []RecoveryIsComplete
<1>1. Init => RecoveryIsPending
  BY DEF Init, RecoveryIsPending
<1>2. TypeOK /\ RecoveryIsPending /\ [Next]_vars => RecoveryIsPending'
  BY RecoveryNext
<1>3. RecoveryIsPending => RecoveryIsComplete
  BY DEF RecoveryIsPending, RecoveryIsComplete
<1> QED BY <1>1, <1>2, <1>3, TypeCorrect, PTL DEF Spec

\* Jobs somebody works, or has worked, on.
Underway ==
  completed \cup {c.job : c \in calls} \cup {m.job : m \in results}

\* A stage whose dispatch task has yet to start is with nobody.
SpawnedIsFresh == \A j \in Jobs : task[j] = "spawned" => j \notin Underway

\* Outside proceed mode a live pipeline has no stage left to dispatch, so the
\* recovery dispatches nothing and never waits.
NothingIsReady ==
  FunnelMode # "proceed" =>
    /\ hpc # "awaiting"
    /\ \A p \in active \ failed : ReadyJobs(p, completed) = {}

\* Work on a job starts with its task's first or second send.
LEMMA UnderwayGrows ==
  ASSUME IInv, [Next]_vars, NEW j \in Underway'
  PROVE  j \in Underway \/ task'[j] # "spawned"
<1> USE DEF IInv, workerVars, pipeVars, healthVars, brokerVars
<1>1. NothingNewRuns /\ completed' = completed => j \in Underway
  BY DEF NothingNewRuns, Underway
<1>2. CASE FrameStep
  BY <1>1, <1>2, FrameFacts DEF Tables
<1>3. CASE \/ \E p \in Pipelines : \/ Publish(p) \/ ReplaceStages(p)
                                   \/ ReplaceFails(p)
           \/ \E w \in Workers : Deregister(w) \/ RemoveDead(w)
  <2>1. UNCHANGED <<calls, results, completed>>
    BY <1>3 DEF Publish, ReplaceStages, ReplaceFails, Deregister, RemoveDead
  <2> QED BY <2>1 DEF Underway
<1>4. CASE \E m \in results : \/ ResultOfFailed(m) \/ ResultDelivers(m)
                              \/ ResultAdvances(m)
  <2> PICK m \in results : \/ ResultOfFailed(m) \/ ResultDelivers(m)
                           \/ ResultAdvances(m)
    BY <1>4
  <2>1. calls' = calls /\ results' \subseteq results
    BY DEF ResultOfFailed, ResultDelivers, ResultAdvances, Receive
  <2>2. completed' \subseteq completed \cup {m.job}
    BY ResultFacts
  <2> QED BY <2>1, <2>2 DEF Underway
<1>5. ASSUME NEW i \in Jobs,
             \/ StartDispatch(i) \/ StartUnregistered(i) \/ Redispatch(i)
             \/ DispatchFails(i) \/ RedispatchFails(i)
             \/ \E k \in {1, 2} : SendReturns(i, k)
      PROVE  j \in Underway \/ task'[j] # "spawned"
  <2>1. /\ UNCHANGED <<results, completed>>
        /\ \A c \in calls' : c \in calls \/ c.job = i
    BY <1>5 DEF StartDispatch, StartUnregistered, Redispatch, DispatchFails,
                RedispatchFails, SendReturns, Posted
  <2>2. task'[i] # "spawned"
    BY <1>5 DEF StartDispatch, StartUnregistered, Redispatch, DispatchFails,
                RedispatchFails, SendReturns, TypeOK
  <2> QED BY <2>1, <2>2 DEF Underway
<1> QED BY <1>2, <1>3, <1>4, <1>5
        DEF Next, BrokerStep, HealthStep, WorkerStep, FaultStep, FrameStep

\* A task that has not started yet has sent nothing, and stays so.
LEMMA SpawnedNext ==
  ASSUME IInv, SpawnedIsFresh, [Next]_vars
  PROVE  SpawnedIsFresh'
<1> SUFFICES ASSUME NEW j \in Jobs, task'[j] = "spawned", j \in Underway'
             PROVE  FALSE
  BY DEF SpawnedIsFresh
<1>1. j \in Underway
  BY UnderwayGrows
<1>2. Underway \subseteq dispatched
  BY DEF IInv, OnlyDispatchedRuns, Underway
<1>3. task[j] = "spawned"
  BY <1>1, <1>2, TaskMoves DEF IInv, StartedIsMarked
<1> QED BY <1>1, <1>3 DEF SpawnedIsFresh

\* An advance leaves its pipeline with nothing ready, or failed.
LEMMA AdvanceLeavesNothing ==
  ASSUME IInv, NothingIsReady, FunnelMode # "proceed",
         NEW p \in Pipelines, NEW place, Advance(p, completed', place),
         completed \subseteq completed',
         completed' \subseteq completed \cup JobsOf(p)
  PROVE  \A q \in active' \ failed' : ReadyJobs(q, completed)' = {}
<1> SUFFICES ASSUME NEW q \in active' \ failed'
             PROVE  ReadyJobs(q, completed)' = {}
  OBVIOUS
<1> USE DEF ReadyJobs, Unstarted
<1>1. q \in active \ failed /\ q \in Pipelines
  BY DEF Advance, IInv, TypeOK
<1>2. CASE q = p
  <2>1. ~FunnelFails(p, completed', place)
    BY <1>2 DEF Advance
  <2>2. ReadyJobs(p, completed') \subseteq dispatched'
    BY <2>1 DEF Advance, GoJobs
  <2>3. skipped' = skipped /\ dispatched \subseteq dispatched'
    BY <2>1 DEF Advance
  <2> QED BY <1>2, <2>2, <2>3
<1>3. CASE q # p
  <2>1. ReadyJobs(q, completed) = {}
    BY <1>1 DEF NothingIsReady
  <2>2. /\ JobsOf(q) \cap JobsOf(p) = {}
        /\ \A j \in JobsOf(q) : PredJobs(j) \subseteq JobsOf(q)
    BY <1>1, <1>3, JobFacts
  <2>3. dispatched \subseteq dispatched' /\ skipped \subseteq skipped'
    BY DEF Advance
  <2> QED BY <2>1, <2>2, <2>3
<1> QED BY <1>2, <1>3

\* No step leaves a live pipeline with a ready stage it has not dispatched.
LEMMA ReadyNext ==
  ASSUME IInv, NothingIsReady, [Next]_vars
  PROVE  NothingIsReady'
<1> SUFFICES ASSUME FunnelMode # "proceed"
             PROVE  /\ hpc' # "awaiting"
                    /\ \A q \in active' \ failed' : ReadyJobs(q, completed)' = {}
  BY DEF NothingIsReady
<1> USE DEF workerVars, pipeVars, healthVars, brokerVars
<1>1. ASSUME UNCHANGED <<completed, dispatched, skipped>>,
             active' \subseteq active, failed \subseteq failed'
      PROVE  \A q \in active' \ failed' : ReadyJobs(q, completed)' = {}
  BY <1>1 DEF NothingIsReady, ReadyJobs, Unstarted
<1>2. CASE FrameStep
  BY <1>1, <1>2, FrameFacts DEF Tables, NothingIsReady
<1>3. CASE \E w \in Workers : Deregister(w) \/ RemoveDead(w)
  BY <1>1, <1>3 DEF Deregister, RemoveDead, NothingIsReady
<1>4. ASSUME NEW j \in Jobs,
             \/ StartDispatch(j) \/ StartUnregistered(j) \/ Redispatch(j)
             \/ DispatchFails(j) \/ RedispatchFails(j)
             \/ \E k \in {1, 2} : SendReturns(j, k)
      PROVE  /\ hpc' # "awaiting"
             /\ \A q \in active' \ failed' : ReadyJobs(q, completed)' = {}
  <2>1. /\ UNCHANGED <<completed, dispatched, skipped, hpc>>
        /\ active' \subseteq active /\ failed \subseteq failed'
    BY <1>4 DEF StartDispatch, StartUnregistered, Redispatch, DispatchFails,
                RedispatchFails, SendReturns, Abandon
  <2> QED BY <1>1, <2>1 DEF NothingIsReady
<1>5. ASSUME NEW p \in Pipelines, Publish(p)
      PROVE  /\ hpc' # "awaiting"
             /\ \A q \in active' \ failed' : ReadyJobs(q, completed)' = {}
  BY <1>5 DEF Publish, NothingIsReady, ReadyJobs, Unstarted
<1>6. ASSUME NEW m \in results, ResultOfFailed(m) \/ ResultDelivers(m)
      PROVE  /\ hpc' # "awaiting"
             /\ \A q \in active' \ failed' : ReadyJobs(q, completed)' = {}
  <2>1. /\ UNCHANGED <<dispatched, skipped, hpc>>
        /\ active' = active \ {m.job[1]} /\ failed \subseteq failed'
    BY <1>6 DEF ResultOfFailed, ResultDelivers, FailedAfter
  <2>2. /\ completed \subseteq completed'
        /\ completed' \subseteq completed \cup JobsOf(m.job[1])
        /\ m.job[1] \in Pipelines
    BY <1>6, ResultFacts
  <2>3. ASSUME NEW q \in active' \ failed'
        PROVE  ReadyJobs(q, completed)' = {}
    <3>1. q \in active \ failed /\ q \in Pipelines /\ q # m.job[1]
      BY <2>1, <2>3 DEF IInv, TypeOK
    <3>2. /\ JobsOf(q) \cap JobsOf(m.job[1]) = {}
          /\ \A j \in JobsOf(q) : PredJobs(j) \subseteq JobsOf(q)
      BY <2>2, <3>1, JobFacts
    <3> QED BY <2>1, <2>2, <3>1, <3>2 DEF NothingIsReady, ReadyJobs, Unstarted
  <2> QED BY <2>1, <2>3 DEF NothingIsReady
<1>7. ASSUME NEW m \in results, ResultAdvances(m)
      PROVE  /\ hpc' # "awaiting"
             /\ \A q \in active' \ failed' : ReadyJobs(q, completed)' = {}
  <2>1. Advance(m.job[1], completed', placement) /\ hpc' = hpc
    BY <1>7 DEF ResultAdvances
  <2>2. /\ completed \subseteq completed'
        /\ completed' \subseteq completed \cup JobsOf(m.job[1])
        /\ m.job[1] \in Pipelines
    BY <1>7, ResultFacts
  <2> QED BY <2>1, <2>2, AdvanceLeavesNothing DEF NothingIsReady
<1>8. ASSUME NEW p \in Pipelines, ReplaceStages(p)
      PROVE  /\ hpc' # "awaiting"
             /\ \A q \in active' \ failed' : ReadyJobs(q, completed)' = {}
  <2>1. UNCHANGED completed /\ (p \notin failed => p \in active)
    BY <1>8, ReplaceFacts
  <2>2. CASE p \in failed
    BY <1>1, <1>8, <2>2 DEF ReplaceStages, NothingIsReady
  <2>3. CASE p \notin failed
    <3>1. Advance(p, completed', placement')
      BY <1>8, <2>1, <2>3 DEF ReplaceStages
    <3>2. GoJobs(p, completed, placement') = {}
      BY <2>1, <2>3 DEF GoJobs, NothingIsReady
    <3>3. hpc' = "replacing"
      BY <1>8, <2>3, <3>2 DEF ReplaceStages
    <3> QED BY <2>1, <3>1, <3>3, AdvanceLeavesNothing
  <2> QED BY <2>2, <2>3
<1>9. ASSUME NEW p \in Pipelines, ReplaceFails(p)
      PROVE  /\ hpc' # "awaiting"
             /\ \A q \in active' \ failed' : ReadyJobs(q, completed)' = {}
  BY <1>1, <1>9 DEF ReplaceFails, Abandon, NothingIsReady
<1> QED BY <1>2, <1>3, <1>4, <1>5, <1>6, <1>7, <1>8, <1>9
        DEF Next, BrokerStep, HealthStep, WorkerStep, FaultStep, FrameStep

\* A task that ends before it sent anything found its worker unregistered.
LEMMA OnlyStartUnregisteredEnds ==
  ASSUME IInv, [Next]_vars, NEW j \in Jobs,
         task[j] = "spawned", task'[j] = "ended"
  PROVE  StartUnregistered(j)
<1> USE DEF workerVars, pipeVars, healthVars, brokerVars
<1>1. ASSUME NEW p \in Pipelines, NEW done, NEW place, Advance(p, done, place)
      PROVE  task'[j] \in {task[j], "spawned"}
  BY <1>1 DEF Advance
<1>2. CASE FrameStep \/ \E w \in Workers : Deregister(w) \/ RemoveDead(w)
  BY <1>2, FrameFacts DEF Deregister, RemoveDead
<1>3. CASE \E m \in results : \/ ResultOfFailed(m) \/ ResultDelivers(m)
                              \/ ResultAdvances(m)
  BY <1>1, <1>3, ResultFacts DEF ResultOfFailed, ResultDelivers, ResultAdvances
<1>4. CASE \E p \in Pipelines : Publish(p) \/ ReplaceStages(p) \/ ReplaceFails(p)
  BY <1>1, <1>4 DEF Publish, ReplaceStages, ReplaceFails
<1>5. ASSUME NEW i \in Jobs,
             \/ StartDispatch(i) \/ StartUnregistered(i) \/ Redispatch(i)
             \/ DispatchFails(i) \/ RedispatchFails(i)
             \/ \E k \in {1, 2} : SendReturns(i, k)
      PROVE  StartUnregistered(j)
  <2>1. task' = [task EXCEPT ![i] = task'[i]] /\ j = i
    BY <1>5 DEF StartDispatch, StartUnregistered, Redispatch, DispatchFails,
                RedispatchFails, SendReturns, IInv, TypeOK
  <2> QED BY <1>5, <2>1 DEF StartDispatch, StartUnregistered, Redispatch,
             DispatchFails, RedispatchFails, SendReturns, IInv, TypeOK
<1> QED BY <1>2, <1>3, <1>4, <1>5
        DEF Next, BrokerStep, HealthStep, WorkerStep, FaultStep, FrameStep

\* A stage of a live pipeline whose dispatch task starts still has its worker:
\* what stands between the spawn and the start of a task is put right by the
\* recovery, as long as that may move every stage and never waits itself.
THEOREM SpawnedStageFindsWorkerHolds ==
  FunnelMode # "proceed" /\ ~BypassReplace /\ Spec => SpawnedStageFindsWorker
<1> SUFFICES ASSUME FunnelMode # "proceed", ~BypassReplace
             PROVE  Spec => SpawnedStageFindsWorker
  OBVIOUS
<1> DEFINE SInv == /\ IInv /\ RecoveryIsPending
                   /\ SpawnedIsFresh /\ NothingIsReady
<1>1. Init => RecoveryIsPending /\ SpawnedIsFresh /\ NothingIsReady
  BY DEF Init, RecoveryIsPending, SpawnedIsFresh, NothingIsReady
<1>2. SInv /\ [Next]_vars =>
        RecoveryIsPending' /\ SpawnedIsFresh' /\ NothingIsReady'
  BY RecoveryNext, SpawnedNext, ReadyNext DEF IInv
<1>3. ASSUME SInv, [Next]_vars, NEW j \in Jobs,
             task[j] = "spawned", task'[j] = "ended", j[1] \notin failed
      PROVE  FALSE
  <2>1. /\ placement[j] \notin registry
        /\ hpc \notin {"removing", "replacing"}
    BY <1>3, OnlyStartUnregisteredEnds DEF StartUnregistered, LoopFree
  <2>2. j \in dispatched /\ j \in JobsOf(j[1]) /\ j[1] \in Pipelines
    BY <1>3, JobFacts DEF IInv, StartedIsMarked
  <2>3. j \notin completed
    BY <1>3 DEF SpawnedIsFresh, Underway
  <2>4. j[1] \in active
    BY <1>3, <2>2, <2>3 DEF IInv, TypeOK, UnknownIsUntouched, FailureIsMarked,
       TableMatchesTraces, SuccessIsComplete
  <2> QED BY <1>3, <2>1, <2>2, <2>3, <2>4 DEF RecoveryIsPending, NothingIsReady
<1>4. SInv /\ [Next]_vars =>
        [\A j \in Jobs : (task[j] = "spawned" /\ task'[j] = "ended") =>
           j[1] \in failed]_vars
  BY <1>3
<1> QED BY <1>1, <1>2, <1>4, Invariance, PTL DEF Spec, SpawnedStageFindsWorker

=============================================================================
