---------------------------- MODULE Brokers_proofs ----------------------------
(***************************************************************************)
(* Proofs about what shares the engine of NeuralBroker: the StaticBroker,  *)
(* which keeps the same inductive invariant, what drives a live pipeline   *)
(* of either broker, and the load figures beside the engine.               *)
(***************************************************************************)
EXTENDS StaticBroker, BrokerLoad, NeuralBroker_proofs, FiniteSetTheorems

-----------------------------------------------------------------------------
(* The static broker: five steps of its own, all others are shared.         *)

\* The steps the StaticBroker takes in place of those of the NeuralBroker.
OwnStep ==
  \/ \E j \in Jobs : \/ StaticStartUnregistered(j) \/ StaticRedispatch(j)
                     \/ StaticDispatchFails(j)
  \/ \E w \in Workers : StaticDeregister(w)
  \/ \E p \in Pipelines : StaticReplaceFails(p)

\* Every other step is one of the NeuralBroker.
LEMMA StaticSteps == [StaticNext]_vars => [Next]_vars \/ OwnStep
BY DEF StaticNext, StaticPublish, StaticDispatch, StaticResult, StaticHealthStep,
       StaticEnvironment, OwnStep, Next, BrokerStep, HealthStep, FaultStep

\* An eviction takes a worker out of the registry and counts nothing up.
LEMMA EvictTypes ==
  ASSUME TypeOK, NEW w \in Workers \cup {None}, Evict(w)
  PROVE  /\ registry' \subseteq registry
         /\ failures' \in [Workers -> 0..MaxFailures]
BY NeuralBrokerAssumption DEF TypeOK, Evict

\* The steps of its own keep the types.
LEMMA OwnTypes ==
  ASSUME TypeOK, OwnStep
  PROVE  TypeOK'
<1> USE DEF TypeOK, workerVars, pipeVars, healthVars
<1>1. ASSUME NEW kind, Fault(kind)
      PROVE  faults' \in 0..MaxFaults
  BY <1>1, NeuralBrokerAssumption DEF Fault
<1>2. ASSUME NEW j \in Jobs, StaticStartUnregistered(j)
      PROVE  TypeOK'
  BY <1>2, JobFacts DEF StaticStartUnregistered, Abandon, CloseTrace
<1>3. ASSUME NEW j \in Jobs, StaticRedispatch(j)
      PROVE  TypeOK'
  <2>1. /\ registry' \subseteq registry
        /\ failures' \in [Workers -> 0..MaxFailures]
    BY <1>3, EvictTypes DEF StaticRedispatch
  <2>2. faults' \in 0..MaxFaults
    BY <1>1, <1>3 DEF StaticRedispatch, SendRaises
  <2>3. PICK w \in registry' : /\ placement' = [placement EXCEPT ![j] = w]
                               /\ calls' = Posted(j, 2, w)
    BY <1>3 DEF StaticRedispatch
  <2>4. [job |-> j, try |-> 2, node |-> w, ok |-> TRUE, phase |-> "sent"] \in Calls
    BY <2>1 DEF Calls
  <2>5. calls' \subseteq Calls /\ placement' \in [Jobs -> Workers \cup {None}]
    BY <2>1, <2>3, <2>4 DEF Posted
  <2> QED BY <1>3, <2>1, <2>2, <2>5 DEF StaticRedispatch
<1>4. ASSUME NEW j \in Jobs, StaticDispatchFails(j)
      PROVE  TypeOK'
  <2>1. /\ registry' \subseteq registry
        /\ failures' \in [Workers -> 0..MaxFailures]
    BY <1>4, EvictTypes DEF StaticDispatchFails
  <2>2. faults' \in 0..MaxFaults
    BY <1>1, <1>4 DEF StaticDispatchFails, SendRaises
  <2>3. j[1] \in Pipelines
    BY JobFacts
  <2> QED BY <1>4, <2>1, <2>2, <2>3 DEF StaticDispatchFails, Abandon
<1>5. ASSUME NEW w \in Workers, StaticDeregister(w)
      PROVE  TypeOK'
  BY <1>1, <1>5 DEF StaticDeregister
<1>6. ASSUME NEW p \in Pipelines, StaticReplaceFails(p)
      PROVE  TypeOK'
  <2>1. placement' \in [Jobs -> Workers \cup {None}]
    BY <1>6 DEF StaticReplaceFails
  <2> QED BY <1>6, <2>1 DEF StaticReplaceFails, Abandon, CloseTrace
<1> QED BY <1>2, <1>3, <1>4, <1>5, <1>6 DEF OwnStep

\* Every variable of the static broker keeps its type.
THEOREM StaticTypeCorrect == StaticSpec => []TypeOK
<1>1. Init => TypeOK
  BY InitInv DEF IInv
<1>2. TypeOK /\ [StaticNext]_vars => TypeOK'
  BY StaticSteps, NextTypes, OwnTypes
<1> QED BY <1>1, <1>2, PTL DEF StaticSpec

-----------------------------------------------------------------------------
(* What the static broker's own steps do to the tables.                     *)

\* The five steps, as the tables see them: the dispatch task of a job moves on
\* and its pipeline may be abandoned, with its trace closed only if the task
\* had not started; or the pipeline of a job the recovery cannot move fails.
LEMMA OwnFacts ==
  ASSUME IInv, OwnStep
  PROVE  /\ UNCHANGED <<results, completed, dispatched, skipped, waiting, expired,
                        handlers, hpc, hwaits>>
         /\ active' \subseteq active /\ failed \subseteq failed'
         /\ affected' \subseteq affected
         /\ \/ \E j \in Jobs :
                 /\ task[j] # "idle"
                 /\ \E phase \in {"resending", "ended"} :
                      task' = [task EXCEPT ![j] = phase]
                 /\ \A c \in calls' : c \in calls \/ c.job = j
                 /\ \/ UNCHANGED <<active, failed, outcome>>
                    \/ Abandon(j[1]) /\ outcome' = outcome
                    \/ Abandon(j[1]) /\ CloseTrace(j[1]) /\ task[j] = "spawned"
            \/ UNCHANGED <<task, calls, active, failed, outcome>>
            \/ /\ UNCHANGED <<task, calls>>
               /\ \E p \in affected : /\ DeadJobs(p) # {}
                                      /\ Abandon(p) /\ CloseTrace(p)
<1> USE DEF workerVars, pipeVars, healthVars
<1>1. ASSUME NEW j \in Jobs, StaticStartUnregistered(j)
      PROVE  /\ UNCHANGED <<results, calls, completed, dispatched, skipped, waiting,
                            expired, handlers, hpc, hwaits, affected>>
             /\ task[j] = "spawned" /\ task' = [task EXCEPT ![j] = "ended"]
             /\ Abandon(j[1]) /\ CloseTrace(j[1])
  BY <1>1 DEF StaticStartUnregistered
<1>2. ASSUME NEW j \in Jobs, StaticRedispatch(j) \/ StaticDispatchFails(j)
      PROVE  /\ UNCHANGED <<results, completed, dispatched, skipped, waiting,
                            expired, outcome, handlers, hpc, hwaits, affected>>
             /\ task[j] = "sending"
             /\ \E phase \in {"resending", "ended"} : task' = [task EXCEPT ![j] = phase]
             /\ \A c \in calls' : c \in calls \/ c.job = j
             /\ UNCHANGED <<active, failed>> \/ Abandon(j[1])
  <2>1. \A w : \A c \in Posted(j, 2, w) : c \in calls \/ c.job = j
    BY DEF Posted
  <2> QED BY <1>2, <2>1 DEF StaticRedispatch, StaticDispatchFails
<1>3. ASSUME NEW w \in Workers, StaticDeregister(w)
      PROVE  UNCHANGED <<results, calls, completed, dispatched, skipped, waiting,
                         expired, handlers, hpc, hwaits, affected, task, active,
                         failed, outcome>>
  BY <1>3 DEF StaticDeregister
<1>4. ASSUME NEW p \in Pipelines, StaticReplaceFails(p)
      PROVE  /\ UNCHANGED <<results, calls, completed, dispatched, skipped, waiting,
                            expired, handlers, hpc, hwaits, task>>
             /\ affected' = affected \ {p} /\ p \in affected /\ DeadJobs(p) # {}
             /\ Abandon(p) /\ CloseTrace(p)
  BY <1>4 DEF StaticReplaceFails, JobsToReplace
<1>5. \A p : Abandon(p) => active' \subseteq active /\ failed \subseteq failed'
  BY DEF Abandon
<1>6. CASE \E j \in Jobs : StaticStartUnregistered(j)
  BY <1>1, <1>5, <1>6
<1>7. CASE \E j \in Jobs : StaticRedispatch(j) \/ StaticDispatchFails(j)
  BY <1>2, <1>5, <1>7
<1>8. CASE \E w \in Workers : StaticDeregister(w)
  BY <1>3, <1>8
<1>9. CASE \E p \in Pipelines : StaticReplaceFails(p)
  BY <1>4, <1>5, <1>9
<1> QED BY <1>6, <1>7, <1>8, <1>9 DEF OwnStep

\* So they keep the inductive invariant of the NeuralBroker.  The trace that
\* StaticStartUnregistered closes without a look is never that of a success:
\* a task that has not started is that of a stage not yet completed.
LEMMA OwnInv ==
  ASSUME IInv, SpawnedIsFresh, OwnStep
  PROVE  IInv'
<1> USE DEF IInv
<1>1. TypeOK'
  BY OwnTypes
<1>2. /\ UNCHANGED <<results, completed, dispatched, skipped>>
      /\ active' \subseteq active /\ failed \subseteq failed'
      /\ affected' \subseteq affected
  BY OwnFacts
<1>3. \A c \in calls' : c.job \in dispatched
  BY OwnFacts DEF OnlyDispatchedRuns, StartedIsMarked
<1>4. StartedIsMarked'
  BY <1>2, OwnFacts DEF StartedIsMarked, TypeOK
<1>5. OnlyDispatchedRuns' /\ DispatchedHasInputs'
  BY <1>2, <1>3 DEF OnlyDispatchedRuns, DispatchedHasInputs, PredJobs
<1>6. \/ UNCHANGED <<active, failed, outcome>>
      \/ \E p \in Pipelines :
           /\ Abandon(p) /\ outcome[p] # "unknown"
           /\ outcome' = outcome \/ (CloseTrace(p) /\ outcome[p] # "success")
  <2>1. ASSUME NEW j \in Jobs, task[j] # "idle"
        PROVE  /\ j[1] \in Pipelines /\ outcome[j[1]] # "unknown"
               /\ task[j] = "spawned" => outcome[j[1]] # "success"
    <3>1. j \in dispatched /\ j[1] \in Pipelines /\ j \in JobsOf(j[1])
      BY <2>1, JobFacts DEF StartedIsMarked
    <3>2. task[j] = "spawned" => j \notin completed
      BY DEF SpawnedIsFresh, Underway
    <3> QED BY <3>1, <3>2 DEF UnknownIsUntouched, SuccessIsComplete
  <2>2. ASSUME NEW p \in affected, DeadJobs(p) # {}
        PROVE  p \in Pipelines /\ outcome[p] \notin {"unknown", "success"}
    BY <2>2, AffectedIsOpen
  <2> QED BY <2>1, <2>2, OwnFacts
<1>7. UnknownIsUntouched'
  BY <1>2, <1>6 DEF UnknownIsUntouched, Abandon, CloseTrace, TypeOK
<1>8. FailureIsMarked' /\ TableMatchesTraces'
  BY <1>6 DEF FailureIsMarked, TableMatchesTraces, Abandon, CloseTrace, TypeOK
<1>9. SuccessIsComplete'
  BY <1>2, <1>6 DEF SuccessIsComplete, CloseTrace, TypeOK
<1> QED BY <1>1, <1>4, <1>5, <1>7, <1>8, <1>9

\* They spawn no task, and what they send is of a task that has started.
LEMMA OwnSpawned ==
  ASSUME IInv, SpawnedIsFresh, OwnStep
  PROVE  SpawnedIsFresh'
<1> SUFFICES ASSUME NEW i \in Jobs, task'[i] = "spawned", i \in Underway'
             PROVE  FALSE
  BY DEF SpawnedIsFresh
<1>1. UNCHANGED <<results, completed>>
  BY OwnFacts
<1>2. task[i] = "spawned" /\ \A c \in calls' : c \in calls \/ c.job # i
  BY OwnFacts DEF IInv, TypeOK
<1>3. i \in Underway
  BY <1>1, <1>2 DEF Underway
<1> QED BY <1>2, <1>3 DEF SpawnedIsFresh

\* They complete no stage and leave the health loop where it stands.
LEMMA OwnReady ==
  ASSUME IInv, NothingIsReady, OwnStep
  PROVE  NothingIsReady'
BY OwnFacts DEF NothingIsReady, ReadyJobs, Unstarted

\* The inductive invariant of the static broker.
StaticInv == IInv /\ SpawnedIsFresh /\ NothingIsReady

LEMMA StaticInvariance == StaticSpec => []StaticInv
<1>1. Init => StaticInv
  BY InitInv DEF Init, StaticInv, SpawnedIsFresh, NothingIsReady
<1>2. ASSUME StaticInv, [StaticNext]_vars
      PROVE  StaticInv'
  <2>1. CASE [Next]_vars
    <3>1. TypeOK'
      BY <1>2, <2>1, NextTypes DEF StaticInv, IInv
    <3> QED BY <1>2, <2>1, <3>1, NextInv, SpawnedNext, ReadyNext DEF StaticInv
  <2>2. CASE OwnStep
    BY <1>2, <2>2, OwnInv, OwnSpawned, OwnReady DEF StaticInv
  <2> QED BY <1>2, <2>1, <2>2, StaticSteps
<1> QED BY <1>1, <1>2, PTL DEF StaticSpec

-----------------------------------------------------------------------------
(* What the static broker keeps of the NeuralBroker's safety.               *)

\* No worker holds a stage whose inputs are not all in.
THEOREM StaticNoEarlyExecution == StaticSpec => []NoEarlyExecution
<1>1. StaticInv => NoEarlyExecution
  BY DEF StaticInv, IInv, OnlyDispatchedRuns, DispatchedHasInputs, NoEarlyExecution
<1> QED BY <1>1, StaticInvariance, PTL

\* Table and traces agree, although of the ways a dispatch fails one closes the
\* trace and the others leave it open; and a success has every stage completed.
THEOREM StaticTableMatchesTraces ==
  StaticSpec => [](TableMatchesTraces /\ SuccessIsComplete)
<1>1. StaticInv => TableMatchesTraces /\ SuccessIsComplete
  BY DEF StaticInv, IInv
<1> QED BY <1>1, StaticInvariance, PTL

\* The static broker's own steps leave every recorded outcome alone.
LEMMA OwnKeepsOutcomes ==
  ASSUME StaticInv, OwnStep
  PROVE  KeepsOutcomes
<1>1. \/ outcome' = outcome
      \/ \E p \in Pipelines : CloseTrace(p) /\ outcome[p] # "success"
  <2>1. ASSUME NEW j \in Jobs, task[j] = "spawned"
        PROVE  j[1] \in Pipelines /\ outcome[j[1]] # "success"
    <3>1. j \in JobsOf(j[1]) /\ j[1] \in Pipelines /\ j \notin completed
      BY <2>1, JobFacts DEF StaticInv, SpawnedIsFresh, Underway
    <3> QED BY <3>1 DEF StaticInv, IInv, SuccessIsComplete
  <2>2. ASSUME NEW p \in affected, DeadJobs(p) # {}
        PROVE  p \in Pipelines /\ outcome[p] # "success"
    BY <2>2, AffectedIsOpen DEF StaticInv
  <2> QED BY <2>1, <2>2, OwnFacts DEF StaticInv
<1> QED BY <1>1 DEF KeepsOutcomes, CloseTrace, StaticInv, IInv, TypeOK

\* A trace closed as a success is never closed again as a failure, not even by
\* the unconditional close of a dispatch to an unregistered worker.
THEOREM StaticOutcomeIsFinal == StaticSpec => OutcomeIsFinal
<1>1. StaticInv /\ [StaticNext]_vars => [KeepsOutcomes]_vars
  BY StaticSteps, OutcomesKept, OwnKeepsOutcomes DEF StaticInv
<1> QED BY <1>1, StaticInvariance, PTL DEF StaticSpec, OutcomeIsFinal

\* No stage is handed to dispatch twice.
THEOREM StaticDispatchedOnce == StaticSpec => DispatchedOnce
<1>1. ASSUME StaticInv, OwnStep
      PROVE  DispatchesAtMostOnce
  BY <1>1, OwnFacts DEF DispatchesAtMostOnce, StaticInv, IInv, TypeOK
<1>2. StaticInv /\ [StaticNext]_vars => [DispatchesAtMostOnce]_vars
  BY <1>1, StaticSteps, TaskMoves, WaitsAreNew
     DEF StaticInv, DispatchesAtMostOnce, WaitsForNew
<1> QED BY <1>2, StaticInvariance, PTL DEF StaticSpec, DispatchedOnce

\* Outside proceed mode the static broker implements the same life cycle: each
\* step of its own fails a running pipeline or, in the abstract, does nothing.
THEOREM StaticImplementation ==
  FunnelMode # "proceed" /\ StaticSpec => ImplementsLifecycle
<1> SUFFICES ASSUME FunnelMode # "proceed"
             PROVE  StaticSpec => ImplementsLifecycle
  OBVIOUS
<1>1. ASSUME StaticInv, OwnStep
      PROVE  [Lifecycle!Next]_(Lifecycle!vars)
  <2>1. UNCHANGED <<completed, dispatched>>
    BY <1>1, OwnFacts DEF StaticInv
  <2>2. \/ outcome' = outcome
        \/ \E p \in Pipelines : outcome[p] # "unknown" /\ CloseTrace(p)
    <3>1. \A j \in Jobs : task[j] # "idle" =>
            j[1] \in Pipelines /\ outcome[j[1]] # "unknown"
      BY <1>1, JobFacts DEF StaticInv, IInv, StartedIsMarked, UnknownIsUntouched
    <3>2. \A p \in affected : DeadJobs(p) # {} =>
            p \in Pipelines /\ outcome[p] # "unknown"
      BY <1>1, AffectedIsOpen DEF StaticInv
    <3> QED BY <1>1, <3>1, <3>2, OwnFacts DEF StaticInv
  <2>3. outcome' = outcome => UNCHANGED Lifecycle!vars
    BY <2>1 DEF Lifecycle!vars, Life
  <2>4. ASSUME NEW p \in Pipelines, outcome[p] # "unknown", CloseTrace(p),
               outcome' # outcome
        PROVE  Lifecycle!Fail(p)
    <3>1. outcome[p] = "running"
      <4>1. outcome[p] \notin {"success", "failure"}
        BY <1>1, <2>4, OwnKeepsOutcomes DEF CloseTrace, KeepsOutcomes, StaticInv, IInv, TypeOK
      <4> QED BY <1>1, <2>4, <4>1 DEF StaticInv, IInv, TypeOK
    <3>2. Life[p] = "running"
      BY <3>1 DEF Life, LifeOf
    <3>3. Life' = [Life EXCEPT ![p] = "failed"]
      BY <1>1, <2>4, LifeChanges DEF CloseTrace, LifeOf, StaticInv
    <3> QED BY <2>1, <3>2, <3>3 DEF Lifecycle!Fail
  <2> QED BY <2>2, <2>3, <2>4 DEF Lifecycle!Next
<1>2. StaticInv /\ StaticInv' /\ [StaticNext]_vars =>
        [Lifecycle!Next]_(Lifecycle!vars)
  BY <1>1, StaticSteps, NextSimulation DEF StaticInv, IInv
<1> QED BY <1>2, StaticInvariance, InitSimulation, PTL
        DEF StaticSpec, ImplementsLifecycle, Lifecycle!Spec

-----------------------------------------------------------------------------
(* The second send of the static broker.                                    *)

\* A step other than a send leaves every request with the job, the try and the
\* worker it had.
OldCalls ==
  \A c \in calls' : \E d \in calls : c.job = d.job /\ c.try = d.try /\ c.node = d.node

\* The steps of the engine that send no request.
QuietStep ==
  \/ FrameStep
  \/ \E p \in Pipelines : Publish(p) \/ ReplaceStages(p) \/ ReplaceFails(p)
  \/ \E j \in Jobs : \/ StartUnregistered(j) \/ DispatchFails(j) \/ RedispatchFails(j)
                     \/ \E k \in {1, 2} : SendReturns(j, k)
  \/ \E m \in results : ResultOfFailed(m) \/ ResultDelivers(m) \/ ResultAdvances(m)
  \/ \E w \in Workers : Deregister(w) \/ RemoveDead(w)

\* Of the steps of the NeuralBroker two send; of those of the static broker one
\* of the two and, in OwnStep, its own form of the other.
LEMMA Senders ==
  /\ [Next]_vars => QuietStep \/ \E j \in Jobs : StartDispatch(j) \/ Redispatch(j)
  /\ [StaticNext]_vars => QuietStep \/ OwnStep \/ \E j \in Jobs : StartDispatch(j)
<1>1. [Next]_vars => QuietStep \/ \E j \in Jobs : StartDispatch(j) \/ Redispatch(j)
  BY DEF Next, BrokerStep, HealthStep, WorkerStep, FaultStep, QuietStep, FrameStep
<1>2. [StaticNext]_vars => QuietStep \/ OwnStep \/ \E j \in Jobs : StartDispatch(j)
  BY DEF StaticNext, StaticPublish, StaticDispatch, StaticResult, StaticHealthStep,
         StaticEnvironment, WorkerStep, OwnStep, QuietStep, FrameStep
<1> QED BY <1>1, <1>2

\* The others leave the requests alone, but for their phase and their outcome.
LEMMA QuietFacts ==
  ASSUME IInv, QuietStep
  PROVE  target' = target /\ OldCalls
<1> USE DEF workerVars, brokerVars, pipeVars, healthVars, roundVars
<1>1. calls' \subseteq calls => OldCalls
  BY DEF OldCalls
<1>2. ASSUME NEW c \in calls,
             \/ Execute(c) \/ FinishStage(c) \/ ReportAgain(c)
             \/ ReportGivenUp(c) \/ LoseCall(c)
      PROVE  target' = target /\ OldCalls
  <2>1. c \in [job : Jobs, try : {1, 2}, node : Workers, ok : BOOLEAN,
               phase : {"sent", "running", "report1", "report2", "returned"}]
    BY DEF IInv, TypeOK, Calls
  <2>2. ASSUME NEW phase, NEW ok
        PROVE  /\ [c EXCEPT !.phase = phase, !.ok = ok].job = c.job
               /\ [c EXCEPT !.phase = phase, !.ok = ok].try = c.try
               /\ [c EXCEPT !.phase = phase, !.ok = ok].node = c.node
    BY <2>1
  <2>3. ASSUME NEW phase, NEW ok, MoveCall(c, phase, ok)
        PROVE  OldCalls
    <3> DEFINE moved == [c EXCEPT !.phase = phase, !.ok = ok]
    <3>1. \A d \in calls' : d \in calls \/ d = moved
      BY <2>3 DEF MoveCall
    <3>2. moved.job = c.job /\ moved.try = c.try /\ moved.node = c.node
      BY <2>2
    <3> HIDE DEF moved
    <3> QED BY <3>1, <3>2 DEF OldCalls
  <2>4. target' = target
    BY <1>2 DEF Execute, FinishStage, ReportAgain, ReportGivenUp, LoseCall
  <2>5. CASE LoseCall(c)
    BY <1>1, <2>5 DEF LoseCall
  <2>6. CASE Execute(c) \/ FinishStage(c) \/ ReportAgain(c) \/ ReportGivenUp(c)
    BY <2>3, <2>6 DEF Execute, FinishStage, ReportAgain, ReportGivenUp
  <2> QED BY <1>2, <2>4, <2>5, <2>6
<1>3. ASSUME NEW h \in handlers, ResultAnswered(h)
      PROVE  target' = target /\ OldCalls
  <2>1. \A c \in calls : LET d == [c EXCEPT !.phase = "returned"]
                        IN  d.job = c.job /\ d.try = c.try /\ d.node = c.node
    BY DEF IInv, TypeOK, Calls
  <2>2. \A c \in calls' : \E d \in calls : c = d \/ c = [d EXCEPT !.phase = "returned"]
    BY <1>3, Zenon DEF ResultAnswered
  <2>3. target' = target
    BY <1>3 DEF ResultAnswered
  <2> QED BY <2>1, <2>2, <2>3 DEF OldCalls
<1>4. CASE \/ \E m \in results : \/ LoseResult(m) \/ ResultUnknown(m)
                                \/ ResultOfFailed(m) \/ ResultDelivers(m)
                                \/ ResultAdvances(m)
           \/ \E p \in Pipelines : \/ Publish(p) \/ FunnelClock(p) \/ ReplaceNothing(p)
                                   \/ ReplaceStages(p) \/ ReplaceFails(p)
  <2>1. calls' = calls /\ target' = target
    BY <1>4 DEF LoseResult, ResultUnknown, ResultOfFailed, ResultDelivers,
       ResultAdvances, Publish, FunnelClock, ReplaceNothing, ReplaceStages, ReplaceFails
  <2> QED BY <1>1, <2>1
<1>5. CASE \E j \in Jobs : \/ StartUnregistered(j) \/ DispatchFails(j)
                          \/ RedispatchFails(j) \/ \E k \in {1, 2} : SendReturns(j, k)
  <2>1. calls' = calls /\ target' = target
    BY <1>5 DEF StartUnregistered, DispatchFails, RedispatchFails, SendReturns
  <2> QED BY <1>1, <2>1
<1>6. CASE \/ \E w \in Workers : \/ Crash(w) \/ Register(w) \/ ProbeAnswer(w)
                                \/ StartWithoutRegistration(w) \/ Listen(w)
                                \/ Deregister(w) \/ RemoveDead(w)
           \/ ProbeStart \/ ProbeJoin \/ HealthResumes \/ VictimDone
           \/ UNCHANGED vars
  <2>1. calls' \subseteq calls /\ target' = target
    BY <1>6 DEF Crash, Register, ProbeAnswer, StartWithoutRegistration, Listen,
       Deregister, RemoveDead, ProbeStart, ProbeJoin, HealthResumes, VictimDone, vars
  <2> QED BY <1>1, <2>1
<1> QED BY <1>2, <1>3, <1>4, <1>5, <1>6 DEF QuietStep, FrameStep

\* A second send never goes to the worker that failed the first, whoever
\* registers, leaves or is evicted around it.
THEOREM StaticResendAvoidsFailedWorker == StaticSpec => []ResendAvoidsFailedWorker
<1> USE DEF ResendAvoidsFailedWorker
<1>1. Init => ResendAvoidsFailedWorker
  BY DEF Init
<1>2. ASSUME StaticInv, ResendAvoidsFailedWorker, target' = target, OldCalls
      PROVE  ResendAvoidsFailedWorker'
  BY <1>2 DEF OldCalls
<1>3. ASSUME StaticInv, ResendAvoidsFailedWorker, NEW j \in Jobs, StartDispatch(j)
      PROVE  ResendAvoidsFailedWorker'
  <2>1. /\ \A c \in calls' : c \in calls \/ c.try = 1
        /\ target' = [target EXCEPT ![j] = placement[j]]
    BY <1>3 DEF StartDispatch, Posted
  <2>2. \A c \in calls : c.job # j
    BY <1>3 DEF StartDispatch, StaticInv, SpawnedIsFresh, Underway
  <2> QED BY <1>3, <2>1, <2>2 DEF StaticInv, IInv, TypeOK
<1>4. ASSUME StaticInv, ResendAvoidsFailedWorker, NEW j \in Jobs, StaticRedispatch(j)
      PROVE  ResendAvoidsFailedWorker'
  <2>1. PICK w \in registry' : calls' = Posted(j, 2, w)
    BY <1>4 DEF StaticRedispatch
  <2>2. w # target[j] /\ target' = target
    BY <1>4 DEF StaticRedispatch, Evict
  <2>3. \A c \in calls' : c \in calls \/ (c.job = j /\ c.node = w)
    BY <2>1 DEF Posted
  <2> QED BY <1>4, <2>2, <2>3
<1>5. ASSUME StaticInv, ResendAvoidsFailedWorker, OwnStep,
             ~\E j \in Jobs : StaticRedispatch(j)
      PROVE  ResendAvoidsFailedWorker'
  <2>1. UNCHANGED <<calls, target>>
    BY <1>5 DEF OwnStep, StaticStartUnregistered, StaticDispatchFails, StaticDeregister,
       StaticReplaceFails, workerVars, pipeVars
  <2> QED BY <1>5, <2>1
<1>6. StaticInv /\ ResendAvoidsFailedWorker /\ [StaticNext]_vars
        => ResendAvoidsFailedWorker'
  BY <1>2, <1>3, <1>4, <1>5, Senders, QuietFacts DEF StaticInv
<1> HIDE DEF ResendAvoidsFailedWorker
<1> QED BY <1>1, <1>6, StaticInvariance, PTL DEF StaticSpec

-----------------------------------------------------------------------------
(* What drives a live pipeline.                                             *)

Live == active \ failed
Reported == {"report1", "report2", "returned"}

\* A dispatched stage of a live pipeline that is not complete has a dispatch
\* under way, or its result is on the way.
StageIsDriven ==
  \A j \in dispatched \ completed :
    j[1] \in Live => \/ task[j] \notin {"idle", "ended"}
                     \/ \E m \in results : m.job = j

\* A request whose stage has been executed left a result that is on its way,
\* unless the broker has dealt with one already.
ReportIsUnderWay ==
  \A c \in calls :
    (c.phase \in Reported /\ c.job[1] \in Live /\ c.job \notin completed)
      => \E m \in results : m.job = c.job

\* A pipeline with all its stages complete does not stay in the table.
LiveIsIncomplete == \A p \in Live : ~AllDone(p, completed)

DrivenInv == StageIsDriven /\ ReportIsUnderWay /\ LiveIsIncomplete

\* Steps that complete and dispatch nothing and lose no result: no request
\* ends its report, and no task ends, but for one whose result is on the way
\* or whose pipeline is live no longer.
LEMMA DrivenFrame ==
  ASSUME TypeOK, DrivenInv, UNCHANGED <<completed, dispatched>>,
         Live' \subseteq Live, results \subseteq results',
         \A j \in Jobs : \/ task'[j] = task[j]
                         \/ task'[j] \notin {"idle", "ended"}
                         \/ j[1] \notin Live'
                         \/ \E m \in results' : m.job = j
                         \/ j \in completed,
         \A c \in calls' : \/ c.phase \notin Reported
                           \/ \E m \in results' : m.job = c.job
                           \/ \E d \in calls : d.job = c.job /\ d.phase \in Reported
  PROVE  DrivenInv'
<1> USE DEF DrivenInv
<1>1. StageIsDriven'
  BY DEF StageIsDriven, TypeOK
<1>2. ReportIsUnderWay'
  BY DEF ReportIsUnderWay
<1>3. LiveIsIncomplete'
  BY DEF LiveIsIncomplete, AllDone
<1> QED BY <1>1, <1>2, <1>3

\* A pipeline enters the table with a stage to dispatch, or a complete one: it
\* has stages, and none of them is complete.
LEMMA DrivenPublish ==
  ASSUME IInv, DrivenInv, NEW p \in Pipelines, Publish(p)
  PROVE  DrivenInv'
<1> USE DEF IInv, DrivenInv, workerVars, healthVars, Publish
<1>1. /\ JobsOf(p) \cap dispatched = {} /\ p \notin failed
      /\ JobsOf(p) \subseteq Jobs /\ JobsOf(p) # {}
      /\ \A j \in JobsOf(p) : j[1] = p
      /\ \A j \in Jobs : j \in JobsOf(j[1])
  <2>1. JobsOf(p) \cap dispatched = {} /\ p \notin failed
    BY DEF UnknownIsUntouched
  <2>2. PICK s : s \in Stages
    BY TemplateAssumption
  <2>3. <<p, s>> \in JobsOf(p)
    BY <2>2 DEF JobsOf
  <2> QED BY <2>1, <2>3, JobFacts
<1>2. Live' = Live \cup {p} /\ p \notin Live
  BY <1>1 DEF Live, UnknownIsUntouched
<1>3. /\ ReadyJobs(p, completed) \subseteq JobsOf(p)
      /\ completed \subseteq dispatched
  BY DEF ReadyJobs, Unstarted, OnlyDispatchedRuns
<1>4. \A j \in dispatched : j \in Jobs /\ j[1] # p
  BY <1>1 DEF TypeOK
<1>5. StageIsDriven'
  <2> SUFFICES ASSUME NEW j \in dispatched' \ completed', j[1] \in Live'
               PROVE  \/ task'[j] \notin {"idle", "ended"}
                      \/ \E m \in results' : m.job = j
    BY DEF StageIsDriven
  <2>1. CASE j \in ReadyJobs(p, completed)
    BY <1>1, <1>3, <2>1
  <2>2. CASE j \notin ReadyJobs(p, completed)
    <3>1. j \in dispatched /\ j \in Jobs /\ j[1] \in Live
      BY <1>2, <1>4, <2>2
    <3>2. task'[j] = task[j]
      BY <2>2, <3>1
    <3> QED BY <3>1, <3>2 DEF StageIsDriven
  <2> QED BY <2>1, <2>2
<1>6. ReportIsUnderWay'
  BY <1>2, <1>4 DEF ReportIsUnderWay, OnlyDispatchedRuns
<1>7. LiveIsIncomplete'
  BY <1>1, <1>2, <1>3 DEF LiveIsIncomplete, AllDone
<1> QED BY <1>5, <1>6, <1>7

\* A result the broker deals with completes its stage or fails the pipeline;
\* what the advance dispatches gets a task.
LEMMA DrivenResult ==
  ASSUME IInv, DrivenInv, NEW m \in results,
         ResultOfFailed(m) \/ ResultDelivers(m) \/ ResultAdvances(m)
  PROVE  DrivenInv'
<1> USE DEF IInv, DrivenInv, healthVars
<1> DEFINE p == m.job[1]
<1>1. /\ m.job \in dispatched /\ m.job \in JobsOf(p)
      /\ p \in Pipelines /\ p \in active
      /\ completed' = completed \/ completed' = completed \cup {m.job}
  BY ResultFacts
<1>2. results' = results \ {m} /\ calls' = calls
  BY DEF ResultOfFailed, ResultDelivers, ResultAdvances, Receive
<1>3. /\ Live' \subseteq Live
      /\ m.job \in completed' \/ p \notin Live'
      /\ AllDone(p, completed') => p \notin Live'
  <2>1. CASE ResultOfFailed(m)
    BY <2>1 DEF ResultOfFailed, FailedAfter, Live
  <2>2. CASE ResultDelivers(m)
    BY <2>2 DEF ResultDelivers, Live
  <2>3. CASE ResultAdvances(m)
    BY <2>3 DEF ResultAdvances, FailedAfter, DoneAfter, Advance, Live
  <2> QED BY <2>1, <2>2, <2>3
<1>4. \A j \in Jobs : \/ task'[j] = "spawned"
                      \/ task'[j] = task[j] /\ (j \in dispatched' => j \in dispatched)
  <2>1. CASE ResultOfFailed(m) \/ ResultDelivers(m)
    BY <2>1 DEF ResultOfFailed, ResultDelivers
  <2>2. CASE ResultAdvances(m)
    <3> DEFINE go == GoJobs(p, DoneAfter(m), placement)
    <3>1. /\ dispatched' = dispatched \cup go
          /\ \A j \in Jobs : task'[j] = IF j \in go THEN "spawned" ELSE task[j]
      BY <2>2 DEF ResultAdvances, Advance
    <3> HIDE DEF go
    <3> QED BY <3>1
  <2> QED BY <2>1, <2>2
<1>5. \A j : j \notin completed' /\ j[1] \in Live' =>
        ((\E n \in results : n.job = j) => \E n \in results' : n.job = j)
  BY <1>2, <1>3
<1>6. dispatched' \subseteq Jobs
  BY ResultTypes DEF TypeOK
<1>7. StageIsDriven'
  BY <1>1, <1>3, <1>4, <1>5, <1>6 DEF StageIsDriven
<1>8. ReportIsUnderWay'
  BY <1>1, <1>2, <1>3, <1>5 DEF ReportIsUnderWay
<1>9. LiveIsIncomplete'
  <2>1. ASSUME NEW q \in Live', q # p
        PROVE  ~AllDone(q, completed')
    <3>1. q \in Pipelines /\ q \in Live
      BY <1>3, <2>1 DEF Live, TypeOK
    <3>2. m.job \notin JobsOf(q)
      BY <2>1, <3>1, JobFacts
    <3> QED BY <1>1, <3>1, <3>2 DEF LiveIsIncomplete, AllDone
  <2> QED BY <1>3, <2>1 DEF LiveIsIncomplete
<1> QED BY <1>7, <1>8, <1>9

\* A worker that ends a stage leaves its result behind, and no request becomes
\* reported in any other way.
LEMMA DrivenWorker ==
  ASSUME IInv, DrivenInv, NEW c \in calls,
         \/ Execute(c) \/ FinishStage(c) \/ ReportAgain(c)
         \/ ReportGivenUp(c) \/ LoseCall(c)
  PROVE  DrivenInv'
<1> USE DEF brokerVars, pipeVars, healthVars
<1>1. /\ UNCHANGED <<completed, dispatched, active, failed, task>>
      /\ results \subseteq results'
  <2>1. \A num, ok : Report(c, num, ok) => results \subseteq results'
    BY DEF Report
  <2> QED BY <2>1 DEF Execute, FinishStage, ReportAgain, ReportGivenUp, LoseCall
<1>2. TypeOK /\ Live' \subseteq Live
  BY <1>1 DEF Live, IInv
<1>3. c \in [job : Jobs, try : {1, 2}, node : Workers, ok : BOOLEAN,
             phase : {"sent", "running", "report1", "report2", "returned"}]
  BY <1>2 DEF TypeOK, Calls
<1>4. ASSUME NEW phase, NEW ok
      PROVE  /\ [c EXCEPT !.phase = phase, !.ok = ok].job = c.job
             /\ [c EXCEPT !.phase = phase, !.ok = ok].phase = phase
  BY <1>3
<1>5. ASSUME NEW num, NEW ok, Report(c, num, ok)
      PROVE  \E m \in results' : m.job = c.job
  <2> DEFINE m == [job |-> c.job, try |-> c.try, num |-> num, node |-> c.node, ok |-> ok]
  <2>1. m \in results'
    BY <1>5 DEF Report
  <2>2. m.job = c.job
    OBVIOUS
  <2> HIDE DEF m
  <2> QED BY <2>1, <2>2
<1>6. ASSUME NEW phase, NEW ok, MoveCall(c, phase, ok),
             \/ phase \notin Reported
             \/ \E m \in results' : m.job = c.job
             \/ c.phase \in Reported
      PROVE  \A e \in calls' : \/ e.phase \notin Reported
                               \/ \E m \in results' : m.job = e.job
                               \/ \E d \in calls : d.job = e.job /\ d.phase \in Reported
  <2> DEFINE moved == [c EXCEPT !.phase = phase, !.ok = ok]
  <2>1. \A e \in calls' : e \in calls \/ e = moved
    BY <1>6 DEF MoveCall
  <2>2. moved.job = c.job /\ moved.phase = phase
    BY <1>4
  <2> HIDE DEF moved
  <2> QED BY <1>6, <2>1, <2>2
<1>7. \A e \in calls' : \/ e.phase \notin Reported
                        \/ \E m \in results' : m.job = e.job
                        \/ \E d \in calls : d.job = e.job /\ d.phase \in Reported
  <2>1. CASE Execute(c)
    BY <1>6, <2>1 DEF Execute, Reported
  <2>2. CASE FinishStage(c) \/ ReportAgain(c)
    BY <1>5, <1>6, <2>2 DEF FinishStage, ReportAgain
  <2>3. CASE ReportGivenUp(c)
    BY <1>6, <2>3 DEF ReportGivenUp, Reported
  <2>4. CASE LoseCall(c)
    BY <2>4 DEF LoseCall
  <2> QED BY <2>1, <2>2, <2>3, <2>4
<1> QED BY <1>1, <1>2, <1>7, DrivenFrame

\* An answer only reaches requests that have been reported.
LEMMA DrivenAnswer ==
  ASSUME IInv, DrivenInv, NEW h \in handlers, ResultAnswered(h)
  PROVE  DrivenInv'
<1>1. /\ UNCHANGED <<completed, dispatched, active, failed, task, results>>
      /\ TypeOK
  BY DEF ResultAnswered, brokerVars, pipeVars, IInv
<1>2. ASSUME NEW e \in calls'
      PROVE  \/ e.phase \notin Reported
             \/ \E d \in calls : d.job = e.job /\ d.phase \in Reported
  <2>1. PICK d \in calls :
          e = IF /\ d.job = h.job /\ d.try = h.try
                 /\ d.phase = IF h.num = 1 THEN "report1" ELSE "report2"
              THEN [d EXCEPT !.phase = "returned"]
              ELSE d
    BY Zenon DEF ResultAnswered
  <2>2. [d EXCEPT !.phase = "returned"].job = d.job
    BY <1>1 DEF TypeOK, Calls
  <2> QED BY <2>1, <2>2 DEF Reported
<1> QED BY <1>1, <1>2, DrivenFrame DEF Live

\* A task that ends has a request reported, or its pipeline is abandoned.
LEMMA DrivenDispatch ==
  ASSUME IInv, DrivenInv, NEW j \in Jobs,
         \/ StartDispatch(j) \/ StartUnregistered(j) \/ Redispatch(j)
         \/ DispatchFails(j) \/ RedispatchFails(j)
         \/ \E k \in {1, 2} : SendReturns(j, k)
  PROVE  DrivenInv'
<1> USE DEF workerVars, pipeVars, healthVars
<1>1. /\ UNCHANGED <<completed, dispatched, results>>
      /\ UNCHANGED <<active, failed>> \/ Abandon(j[1])
      /\ TypeOK
  BY DEF StartDispatch, StartUnregistered, Redispatch, DispatchFails,
         RedispatchFails, SendReturns, IInv
<1>2. Live' \subseteq Live
  BY <1>1 DEF Live, Abandon
<1>3. ASSUME NEW k \in {1, 2}, NEW w
      PROVE  \A c \in Posted(j, k, w) : c \in calls \/ c.phase = "sent"
  BY DEF Posted
<1>4. \A c \in calls' : c \in calls \/ c.phase = "sent"
  BY <1>3 DEF StartDispatch, StartUnregistered, Redispatch, DispatchFails,
              RedispatchFails, SendReturns
<1>5. \E phase \in {"sending", "resending", "ended"} :
        task' = [task EXCEPT ![j] = phase]
  BY DEF StartDispatch, StartUnregistered, Redispatch, DispatchFails,
         RedispatchFails, SendReturns
<1>6. \/ task'[j] \notin {"idle", "ended"}
      \/ j[1] \notin Live'
      \/ \E m \in results' : m.job = j
      \/ j \in completed
  <2>1. CASE StartDispatch(j) \/ Redispatch(j)
    BY <1>1, <2>1 DEF StartDispatch, Redispatch, TypeOK
  <2>2. CASE StartUnregistered(j) \/ DispatchFails(j) \/ RedispatchFails(j)
    <3>1. Abandon(j[1])
      BY <2>2 DEF StartUnregistered, DispatchFails, RedispatchFails
    <3> QED BY <3>1 DEF Abandon, Live
  <2>3. ASSUME NEW k \in {1, 2}, SendReturns(j, k)
        PROVE  \/ j[1] \notin Live'
               \/ \E m \in results' : m.job = j
               \/ j \in completed
    <3>1. PICK c \in calls : c.job = j /\ c.phase = "returned"
      BY <2>3 DEF SendReturns, Pending
    <3> QED BY <1>1, <1>2, <3>1 DEF DrivenInv, ReportIsUnderWay, Reported
  <2> QED BY <2>1, <2>2, <2>3
<1>7. \A i \in Jobs : i # j => task'[i] = task[i]
  BY <1>1, <1>5 DEF TypeOK
<1> QED BY <1>1, <1>2, <1>4, <1>6, <1>7, DrivenFrame DEF Reported

\* With nothing ready to dispatch the recovery only moves stages; a pipeline it
\* gives up is live no longer.
LEMMA DrivenReplace ==
  ASSUME IInv, NothingIsReady, DrivenInv, FunnelMode # "proceed",
         NEW p \in Pipelines, ReplaceStages(p) \/ ReplaceFails(p)
  PROVE  DrivenInv'
<1> USE DEF workerVars
<1>1. /\ UNCHANGED <<completed, results, calls>> /\ TypeOK
      /\ p \notin failed => p \in active
  BY ReplaceFacts DEF ReplaceStages, ReplaceFails, IInv
<1>2. UNCHANGED <<dispatched, task>> /\ Live' \subseteq Live
  <2>1. CASE ReplaceFails(p)
    BY <2>1 DEF ReplaceFails, Abandon, Live
  <2>2. CASE ReplaceStages(p) /\ p \in failed
    BY <2>2 DEF ReplaceStages, Live
  <2>3. CASE ReplaceStages(p) /\ p \notin failed
    <3>1. Advance(p, completed, placement')
      BY <2>3 DEF ReplaceStages
    <3>2. GoJobs(p, completed, placement') = {}
      BY <1>1, <2>3 DEF GoJobs, NothingIsReady
    <3>3. dispatched' = dispatched /\ Live' \subseteq Live
      BY <3>1, <3>2 DEF Advance, Live
    <3>4. task' = [j \in Jobs |-> task[j]]
      BY <3>1, <3>2 DEF Advance
    <3> QED BY <1>1, <3>3, <3>4 DEF TypeOK
  <2> QED BY <2>1, <2>2, <2>3
<1> QED BY <1>1, <1>2, DrivenFrame

\* The steps that touch neither requests nor results nor tasks.
LEMMA DrivenElsewhere ==
  ASSUME IInv, DrivenInv,
         UNCHANGED <<completed, dispatched, task>>, Live' \subseteq Live,
         results \subseteq results', calls' \subseteq calls
  PROVE  DrivenInv'
BY DrivenFrame DEF IInv

\* No result gets lost, so every step of the NeuralBroker keeps what drives its
\* live pipelines.
LEMMA DrivenNext ==
  ASSUME IInv, NothingIsReady, DrivenInv, FunnelMode # "proceed",
         "loss" \notin Faults, [Next]_vars
  PROVE  DrivenInv'
<1> USE DEF workerVars, brokerVars, pipeVars, healthVars, roundVars
<1>1. ASSUME UNCHANGED <<completed, dispatched, task, results>>,
             calls' \subseteq calls, active' \subseteq active, failed \subseteq failed'
      PROVE  DrivenInv'
  BY <1>1, DrivenElsewhere DEF Live
<1>2. CASE \/ \E w \in Workers : \/ Crash(w) \/ Register(w) \/ ProbeAnswer(w)
                                 \/ StartWithoutRegistration(w) \/ Listen(w)
                                 \/ Deregister(w) \/ RemoveDead(w)
           \/ \E p \in Pipelines : FunnelClock(p) \/ ReplaceNothing(p)
  BY <1>1, <1>2 DEF Crash, Register, ProbeAnswer, StartWithoutRegistration, Listen,
     Deregister, RemoveDead, FunnelClock, ReplaceNothing
<1>3. CASE ProbeStart \/ ProbeJoin \/ HealthResumes \/ VictimDone \/ UNCHANGED vars
  BY <1>1, <1>3 DEF ProbeStart, ProbeJoin, HealthResumes, VictimDone, vars
<1>4. CASE \E m \in results : LoseResult(m)
  BY <1>4 DEF LoseResult, Fault
<1>5. ASSUME NEW m \in results, ResultUnknown(m)
      PROVE  DrivenInv'
  <2>1. /\ UNCHANGED <<completed, dispatched, task, calls, active, failed>>
        /\ results' = results \ {m} /\ m.job[1] \notin Live
    BY <1>5 DEF ResultUnknown, Receive, InTable, Live
  <2>2. Live' = Live
    BY <2>1 DEF Live
  <2>3. StageIsDriven' /\ ReportIsUnderWay' /\ LiveIsIncomplete'
    BY <2>1, <2>2 DEF DrivenInv, StageIsDriven, ReportIsUnderWay, LiveIsIncomplete,
                      AllDone
  <2> QED BY <2>3 DEF DrivenInv
<1>6. CASE \E c \in calls : \/ Execute(c) \/ FinishStage(c) \/ ReportAgain(c)
                            \/ ReportGivenUp(c) \/ LoseCall(c)
  BY <1>6, DrivenWorker
<1>7. CASE \E h \in handlers : ResultAnswered(h)
  BY <1>7, DrivenAnswer
<1>8. CASE \E p \in Pipelines : Publish(p) \/ ReplaceStages(p) \/ ReplaceFails(p)
  BY <1>8, DrivenPublish, DrivenReplace
<1>9. CASE \E m \in results : ResultOfFailed(m) \/ ResultDelivers(m) \/ ResultAdvances(m)
  BY <1>9, DrivenResult
<1>10. CASE \E j \in Jobs : \/ StartDispatch(j) \/ StartUnregistered(j) \/ Redispatch(j)
                            \/ DispatchFails(j) \/ RedispatchFails(j)
                            \/ \E k \in {1, 2} : SendReturns(j, k)
  BY <1>10, DrivenDispatch
<1> QED BY <1>2, <1>3, <1>4, <1>5, <1>6, <1>7, <1>8, <1>9, <1>10
        DEF Next, BrokerStep, HealthStep, WorkerStep, FaultStep

\* Nor do the static broker's own: the task they end is that of a pipeline they
\* abandon.
LEMMA DrivenOwn ==
  ASSUME IInv, DrivenInv, OwnStep
  PROVE  DrivenInv'
<1> USE DEF workerVars, pipeVars, healthVars
<1>1. /\ UNCHANGED <<completed, dispatched, results>> /\ TypeOK
      /\ Live' \subseteq Live
  BY OwnFacts DEF Live, IInv
<1>2. \A c \in calls' : c \in calls \/ c.phase = "sent"
  <2>1. \A j, w : \A c \in Posted(j, 2, w) : c \in calls \/ c.phase = "sent"
    BY DEF Posted
  <2> QED BY <2>1 DEF OwnStep, StaticStartUnregistered, StaticRedispatch,
             StaticDispatchFails, StaticDeregister, StaticReplaceFails
<1>3. \A j \in Jobs : \/ task'[j] = task[j]
                      \/ task'[j] \notin {"idle", "ended"}
                      \/ j[1] \notin Live'
  <2>1. ASSUME NEW i \in Jobs, StaticRedispatch(i)
        PROVE  \A j \in Jobs : task'[j] = task[j] \/ task'[j] = "resending"
    BY <1>1, <2>1 DEF StaticRedispatch, TypeOK
  <2>2. ASSUME NEW i \in Jobs, StaticStartUnregistered(i) \/ StaticDispatchFails(i)
        PROVE  \A j \in Jobs : task'[j] = task[j] \/ j[1] \notin Live'
    <3>1. task' = [task EXCEPT ![i] = "ended"] /\ Abandon(i[1])
      BY <2>2 DEF StaticStartUnregistered, StaticDispatchFails
    <3> QED BY <1>1, <3>1 DEF Abandon, Live, TypeOK
  <2>3. CASE \/ \E w \in Workers : StaticDeregister(w)
             \/ \E p \in Pipelines : StaticReplaceFails(p)
    BY <2>3 DEF StaticDeregister, StaticReplaceFails
  <2> QED BY <2>1, <2>2, <2>3 DEF OwnStep
<1> QED BY <1>1, <1>2, <1>3, DrivenFrame DEF Reported

\* A live pipeline is driven: among its incomplete stages there is one whose
\* inputs are all in, since its graph has no cycle; an advance has dispatched
\* that one, so it has a task that goes on or a result that is on its way.
LEMMA DrivenIsLive ==
  ASSUME IInv, NothingIsReady, DrivenInv, FunnelMode # "proceed"
  PROVE  LivePipelineIsDriven
<1> SUFFICES ASSUME NEW p \in active \ failed
             PROVE  \/ \E j \in JobsOf(p) : task[j] \notin {"idle", "ended"}
                    \/ \E m \in results : m.job[1] = p
  BY DEF LivePipelineIsDriven
<1>1. p \in Pipelines /\ ~(JobsOf(p) \subseteq completed)
  BY DEF IInv, TypeOK, DrivenInv, LiveIsIncomplete, Live, AllDone
<1> DEFINE S == {s \in Stages : <<p, s>> \notin completed}
<1>2. S # {} /\ S \in SUBSET Stages
  BY <1>1 DEF JobsOf
<1>3. PICK s \in S : Preds[s] \cap S = {}
  BY <1>2, TemplateAssumption
<1> DEFINE j == <<p, s>>
<1>4. j \in JobsOf(p) /\ j \notin completed /\ j[1] = p
  BY <1>3 DEF JobsOf
<1>5. PredJobs(j) \subseteq completed
  <2>1. \A t \in Preds[s] : t \in Stages
    BY NeuralBrokerAssumption, <1>3
  <2> QED BY <1>3, <2>1 DEF PredJobs
<1>6. j \in dispatched
  <2>1. j \notin ReadyJobs(p, completed)
    BY DEF NothingIsReady
  <2> QED BY <1>4, <1>5, <2>1 DEF ReadyJobs, Unstarted, IInv, DispatchedHasInputs
<1>7. task[j] \notin {"idle", "ended"} \/ \E m \in results : m.job = j
  <2> HIDE DEF j
  <2> QED BY <1>4, <1>6 DEF DrivenInv, StageIsDriven, Live
<1> QED BY <1>4, <1>7

\* As long as no result gets lost every live pipeline of the NeuralBroker has a
\* dispatch under way or a result on its way: none is stuck in the table.
THEOREM LivePipelineIsDrivenHolds ==
  FunnelMode # "proceed" /\ "loss" \notin Faults /\ Spec => []LivePipelineIsDriven
<1> SUFFICES ASSUME FunnelMode # "proceed", "loss" \notin Faults
             PROVE  Spec => []LivePipelineIsDriven
  OBVIOUS
<1>1. Init => NothingIsReady /\ DrivenInv
  BY DEF Init, NothingIsReady, DrivenInv, StageIsDriven, ReportIsUnderWay,
         LiveIsIncomplete, Live
<1>2. IInv /\ NothingIsReady /\ DrivenInv /\ [Next]_vars => NothingIsReady' /\ DrivenInv'
  BY ReadyNext, DrivenNext
<1>3. IInv /\ NothingIsReady /\ DrivenInv => LivePipelineIsDriven
  BY DrivenIsLive
<1> QED BY <1>1, <1>2, <1>3, Invariance, PTL DEF Spec

\* The same of the static broker, whatever it evicts.
THEOREM StaticLivePipelineIsDriven ==
  FunnelMode # "proceed" /\ "loss" \notin Faults /\ StaticSpec => []LivePipelineIsDriven
<1> SUFFICES ASSUME FunnelMode # "proceed", "loss" \notin Faults
             PROVE  StaticSpec => []LivePipelineIsDriven
  OBVIOUS
<1>1. Init => DrivenInv
  BY DEF Init, DrivenInv, StageIsDriven, ReportIsUnderWay, LiveIsIncomplete, Live
<1>2. StaticInv /\ DrivenInv /\ [StaticNext]_vars => DrivenInv'
  BY StaticSteps, DrivenNext, DrivenOwn DEF StaticInv
<1>3. StaticInv /\ DrivenInv => LivePipelineIsDriven
  BY DrivenIsLive DEF StaticInv
<1> QED BY <1>1, <1>2, <1>3, StaticInvariance, PTL DEF StaticSpec

-----------------------------------------------------------------------------
(* The load figures.                                                        *)

\* Every step of the loads is a step of the NeuralBroker.
LEMMA LoadIsNext == [LoadNext]_<<vars, loadVars>> => [Next]_vars
BY DEF LoadNext, DispatchLoad, ResultLoad, RegistryLoad, HealthLoad, WorkerLoad, SameLoad,
       Next, BrokerStep, HealthStep, WorkerStep, FaultStep

LEMMA LoadInvariance == LoadSpec => [](IInv /\ SpawnedIsFresh)
<1>1. Init => IInv /\ SpawnedIsFresh
  BY InitInv DEF Init, SpawnedIsFresh
<1>2. IInv /\ SpawnedIsFresh /\ [LoadNext]_<<vars, loadVars>> => (IInv /\ SpawnedIsFresh)'
  BY LoadIsNext, NextTypes, NextInv, SpawnedNext DEF IInv
<1> QED BY <1>1, <1>2, PTL DEF LoadSpec

\* A job is handed to the workers at most once per try, and for a second time
\* only by a dispatch that has failed before.
OneCallEach ==
  /\ \A c, d \in calls : c.job = d.job /\ c.try = d.try => c = d
  /\ \A c \in calls : c.try = 2 => task[c.job] \in {"resending", "ended"}

\* The requests a worker executes.
Running(w) == {c \in calls : c.node = w /\ c.phase = "running"}

\* A request that moves keeps its job, its try and its worker.
LEMMA MoveKeeps ==
  ASSUME TypeOK, NEW c \in calls, NEW phase, NEW ok
  PROVE  /\ [c EXCEPT !.phase = phase, !.ok = ok].job = c.job
         /\ [c EXCEPT !.phase = phase, !.ok = ok].try = c.try
         /\ [c EXCEPT !.phase = phase, !.ok = ok].node = c.node
         /\ [c EXCEPT !.phase = phase, !.ok = ok].phase = phase
         /\ [c EXCEPT !.phase = "returned"].job = c.job
         /\ [c EXCEPT !.phase = "returned"].try = c.try
         /\ [c EXCEPT !.phase = "returned"].node = c.node
         /\ [c EXCEPT !.phase = "returned"].phase = "returned"
<1>1. c \in [job : Jobs, try : {1, 2}, node : Workers, ok : BOOLEAN,
             phase : {"sent", "running", "report1", "report2", "returned"}]
  BY DEF TypeOK, Calls
<1> QED BY <1>1

\* What a step of a worker does to the requests, as a set of moves.
LEMMA MoveFacts ==
  ASSUME TypeOK, OneCallEach, NEW c \in calls, NEW phase, NEW ok, MoveCall(c, phase, ok)
  PROVE  \E moved : /\ calls' = (calls \ {c}) \cup {moved}
                    /\ moved.job = c.job /\ moved.try = c.try /\ moved.node = c.node
                    /\ moved.phase = phase
                    /\ moved \in calls => moved = c
<1> DEFINE moved == [c EXCEPT !.phase = phase, !.ok = ok]
<1>1. calls' = (calls \ {c}) \cup {moved}
  BY DEF MoveCall
<1>2. /\ moved.job = c.job /\ moved.try = c.try /\ moved.node = c.node
      /\ moved.phase = phase
  BY MoveKeeps
<1>3. moved \in calls => moved = c
  BY <1>2 DEF OneCallEach
<1> HIDE DEF moved
<1> QED BY <1>1, <1>2, <1>3

\* A send adds at most one request.
LEMMA PostedFacts ==
  ASSUME NEW j, NEW k, NEW w
  PROVE  \E new : /\ Posted(j, k, w) \subseteq calls \cup {new}
                  /\ new.job = j /\ new.try = k /\ new.phase = "sent"
<1> DEFINE new == [job |-> j, try |-> k, node |-> w, ok |-> TRUE, phase |-> "sent"]
<1>1. Posted(j, k, w) \subseteq calls \cup {new}
  BY DEF Posted
<1>2. new.job = j /\ new.try = k /\ new.phase = "sent"
  OBVIOUS
<1> HIDE DEF new
<1> QED BY <1>1, <1>2

\* An answer returns the requests that report the attempt it is for.
LEMMA AnswerFacts ==
  ASSUME NEW h \in handlers, ResultAnswered(h)
  PROVE  LET answers(c) == /\ c.job = h.job /\ c.try = h.try
                           /\ c.phase = IF h.num = 1 THEN "report1" ELSE "report2"
         IN  calls' = {IF answers(c) THEN [c EXCEPT !.phase = "returned"] ELSE c :
                         c \in calls}
BY Zenon DEF ResultAnswered

\* No step gives a job two requests of one try: a first send is that of a task
\* that has sent nothing, a second one that of a task that has sent once.
LEMMA OneCallNext ==
  ASSUME IInv, SpawnedIsFresh, OneCallEach, [Next]_vars
  PROVE  OneCallEach'
<1> USE DEF IInv, workerVars, brokerVars, pipeVars, healthVars, roundVars
<1>1. \A j \in Jobs : task[j] \in {"resending", "ended"} => task'[j] \in {"resending", "ended"}
  <2>1. ASSUME NEW j \in Jobs,
               \/ \E i \in Jobs : \/ StartDispatch(i) \/ StartUnregistered(i)
                                  \/ Redispatch(i) \/ DispatchFails(i)
                                  \/ RedispatchFails(i)
                                  \/ \E k \in {1, 2} : SendReturns(i, k),
               task[j] \in {"resending", "ended"}
        PROVE  task'[j] \in {"resending", "ended"}
    BY <2>1 DEF TypeOK, StartDispatch, StartUnregistered, Redispatch, DispatchFails,
                RedispatchFails, SendReturns
  <2>2. ASSUME NEW p \in Pipelines, NEW done, NEW place, Advance(p, done, place),
               NEW j \in Jobs, task[j] # "idle"
        PROVE  task'[j] = task[j]
    BY <2>2, GoJobsFacts DEF Advance, StartedIsMarked
  <2>3. CASE FrameStep \/ \E w \in Workers : Deregister(w) \/ RemoveDead(w)
    BY <2>3, FrameFacts DEF Deregister, RemoveDead
  <2>4. CASE \E m \in results : ResultOfFailed(m) \/ ResultDelivers(m) \/ ResultAdvances(m)
    BY <2>2, <2>4, ResultFacts DEF ResultOfFailed, ResultDelivers, ResultAdvances
  <2>5. CASE \E p \in Pipelines : ReplaceStages(p) \/ ReplaceFails(p)
    BY <2>2, <2>5 DEF ReplaceStages, ReplaceFails
  <2>6. CASE \E p \in Pipelines : Publish(p)
    BY <2>6 DEF Publish, ReadyJobs, Unstarted, StartedIsMarked
  <2> QED BY <2>1, <2>3, <2>4, <2>5, <2>6
          DEF Next, BrokerStep, HealthStep, WorkerStep, FaultStep, FrameStep
<1>2. \A c \in calls : c.job \in Jobs
  BY DEF TypeOK, Calls
<1>3. ASSUME calls' \subseteq calls
      PROVE  OneCallEach'
  BY <1>1, <1>2, <1>3 DEF OneCallEach
<1>4. ASSUME NEW c \in calls, \/ Execute(c) \/ FinishStage(c) \/ ReportAgain(c)
                              \/ ReportGivenUp(c)
      PROVE  OneCallEach'
  <2>1. PICK phase, ok : MoveCall(c, phase, ok)
    BY <1>4 DEF Execute, FinishStage, ReportAgain, ReportGivenUp
  <2>2. PICK moved : /\ calls' = (calls \ {c}) \cup {moved}
                     /\ moved.job = c.job /\ moved.try = c.try
    BY <2>1, MoveFacts
  <2> QED BY <1>1, <1>2, <2>2 DEF OneCallEach
<1>5. ASSUME NEW h \in handlers, ResultAnswered(h)
      PROVE  OneCallEach'
  <2>1. PICK f \in [calls -> calls'] :
          /\ \A e \in calls' : \E d \in calls : e = f[d]
          /\ \A d \in calls : f[d].job = d.job /\ f[d].try = d.try
    <3> DEFINE answers(c) == /\ c.job = h.job /\ c.try = h.try
                             /\ c.phase = IF h.num = 1 THEN "report1" ELSE "report2"
               move(c) == IF answers(c) THEN [c EXCEPT !.phase = "returned"] ELSE c
               f == [c \in calls |-> move(c)]
    <3>1. calls' = {move(c) : c \in calls}
      BY <1>5, AnswerFacts
    <3>2. \A c \in calls : move(c).job = c.job /\ move(c).try = c.try
      BY MoveKeeps
    <3> HIDE DEF move
    <3>3. f \in [calls -> calls']
      BY <3>1
    <3>4. \A e \in calls' : \E d \in calls : e = f[d]
      BY <3>1
    <3> QED BY <3>2, <3>3, <3>4
  <2> QED BY <1>1, <1>2, <2>1 DEF OneCallEach
<1>6. ASSUME NEW j \in Jobs, StartDispatch(j)
      PROVE  OneCallEach'
  <2>1. PICK new : /\ calls' \subseteq calls \cup {new}
                   /\ new.job = j /\ new.try = 1
    BY <1>6, PostedFacts DEF StartDispatch
  <2>2. \A c \in calls : c.job # j
    BY <1>6 DEF StartDispatch, SpawnedIsFresh, Underway
  <2> QED BY <1>1, <1>2, <2>1, <2>2 DEF OneCallEach
<1>7. ASSUME NEW j \in Jobs, Redispatch(j)
      PROVE  OneCallEach'
  <2>1. PICK new : /\ calls' \subseteq calls \cup {new}
                   /\ new.job = j /\ new.try = 2
    BY <1>7, PostedFacts DEF Redispatch
  <2>2. /\ \A c \in calls : ~(c.job = j /\ c.try = 2)
        /\ task'[j] = "resending"
    BY <1>7 DEF Redispatch, OneCallEach, TypeOK
  <2> QED BY <1>1, <1>2, <2>1, <2>2 DEF OneCallEach
<1>8. CASE \E c \in calls : LoseCall(c)
  BY <1>3, <1>8 DEF LoseCall
<1>9. CASE \/ \E m \in results : \/ LoseResult(m) \/ ResultUnknown(m)
                                 \/ ResultOfFailed(m) \/ ResultDelivers(m)
                                 \/ ResultAdvances(m)
           \/ \E p \in Pipelines : \/ Publish(p) \/ FunnelClock(p) \/ ReplaceNothing(p)
                                   \/ ReplaceStages(p) \/ ReplaceFails(p)
  BY <1>3, <1>9 DEF LoseResult, ResultUnknown, ResultOfFailed, ResultDelivers,
     ResultAdvances, Publish, FunnelClock, ReplaceNothing, ReplaceStages, ReplaceFails
<1>10. CASE \E j \in Jobs : \/ StartUnregistered(j) \/ DispatchFails(j)
                            \/ RedispatchFails(j) \/ \E k \in {1, 2} : SendReturns(j, k)
  BY <1>3, <1>10 DEF StartUnregistered, DispatchFails, RedispatchFails, SendReturns
<1>11. CASE \/ \E w \in Workers : \/ Crash(w) \/ Register(w) \/ ProbeAnswer(w)
                                  \/ StartWithoutRegistration(w) \/ Listen(w)
                                  \/ Deregister(w) \/ RemoveDead(w)
            \/ ProbeStart \/ ProbeJoin \/ HealthResumes \/ VictimDone
            \/ UNCHANGED vars
  BY <1>3, <1>11 DEF Crash, Register, ProbeAnswer, StartWithoutRegistration, Listen,
     Deregister, RemoveDead, ProbeStart, ProbeJoin, HealthResumes, VictimDone, vars
<1> QED BY <1>4, <1>5, <1>6, <1>7, <1>8, <1>9, <1>10, <1>11
        DEF Next, BrokerStep, HealthStep, WorkerStep, FaultStep

\* The figure of a worker is at most the number of requests it executes: a stage
\* that starts at full capacity is not counted, and counted off all the same.
OwnIsBacked ==
  \A w \in Workers : /\ IsFiniteSet(Running(w))
                     /\ own[w] \in 0..Capacity
                     /\ own[w] <= Cardinality(Running(w))

\* Requests enter and leave the executed ones when a stage starts and ends.
LEMMA RunningMoves ==
  ASSUME IInv, OneCallEach, NEW c \in calls, NEW w \in Workers
  PROVE  /\ Execute(c) => \E new : /\ Running(c.node)' = Running(c.node) \cup {new}
                                   /\ new \notin Running(c.node)
         /\ FinishStage(c) => /\ Running(c.node)' = Running(c.node) \ {c}
                              /\ c \in Running(c.node)
         /\ (Execute(c) \/ FinishStage(c)) /\ w # c.node => Running(w)' = Running(w)
         /\ ReportAgain(c) \/ ReportGivenUp(c) \/ LoseCall(c) => Running(w)' = Running(w)
<1> USE DEF Running
<1>1. ASSUME NEW phase, NEW ok, MoveCall(c, phase, ok)
      PROVE  \E moved : /\ calls' = (calls \ {c}) \cup {moved}
                        /\ moved.node = c.node /\ moved.phase = phase
                        /\ moved \in calls => moved = c
  BY <1>1, MoveFacts DEF IInv
<1>2. ASSUME Execute(c)
      PROVE  /\ w # c.node => Running(w)' = Running(w)
             /\ \E new : /\ Running(c.node)' = Running(c.node) \cup {new}
                         /\ new \notin Running(c.node)
  <2>1. c.phase = "sent" /\ MoveCall(c, "running", c.ok)
    BY <1>2 DEF Execute
  <2> QED BY <1>1, <2>1
<1>3. ASSUME FinishStage(c)
      PROVE  /\ w # c.node => Running(w)' = Running(w)
             /\ Running(c.node)' = Running(c.node) \ {c}
             /\ c \in Running(c.node)
  <2>1. c.phase = "running" /\ \E ok : MoveCall(c, "report1", ok)
    BY <1>3 DEF FinishStage
  <2> QED BY <1>1, <2>1
<1>4. ASSUME ReportAgain(c) \/ ReportGivenUp(c)
      PROVE  Running(w)' = Running(w)
  <2>1. /\ c.phase \in {"report1", "report2"}
        /\ \E phase \in {"report2", "returned"} : MoveCall(c, phase, c.ok)
    BY <1>4 DEF ReportAgain, ReportGivenUp
  <2> QED BY <1>1, <2>1
<1>5. ASSUME LoseCall(c)
      PROVE  Running(w)' = Running(w)
  BY <1>5 DEF LoseCall
<1> QED BY <1>2, <1>3, <1>4, <1>5

\* No other step touches them, but for a crash.
LEMMA RunningStays ==
  ASSUME IInv, NEW w \in Workers,
         \/ \E j \in Jobs : StartDispatch(j) \/ Redispatch(j)
         \/ \E h \in handlers : ResultAnswered(h)
         \/ \E v \in Workers : v # w /\ Crash(v)
         \/ calls' = calls
  PROVE  Running(w)' = Running(w)
<1> USE DEF Running
<1>1. ASSUME NEW j \in Jobs, NEW k, NEW v, calls' = Posted(j, k, v)
      PROVE  Running(w)' = Running(w)
  <2>1. PICK new : Posted(j, k, v) \subseteq calls \cup {new} /\ new.phase = "sent"
    BY PostedFacts
  <2>2. calls \subseteq Posted(j, k, v)
    BY DEF Posted
  <2> QED BY <1>1, <2>1, <2>2
<1>2. CASE \E j \in Jobs : StartDispatch(j) \/ Redispatch(j)
  BY <1>1, <1>2 DEF StartDispatch, Redispatch
<1>3. ASSUME NEW h \in handlers, ResultAnswered(h)
      PROVE  Running(w)' = Running(w)
  <2> DEFINE answers(c) == /\ c.job = h.job /\ c.try = h.try
                           /\ c.phase = IF h.num = 1 THEN "report1" ELSE "report2"
             move(c) == IF answers(c) THEN [c EXCEPT !.phase = "returned"] ELSE c
  <2>1. calls' = {move(c) : c \in calls}
    BY <1>3, AnswerFacts
  <2>2. \A c \in calls : /\ move(c) # c => move(c).phase = "returned"
                         /\ c.phase = "running" => move(c) = c
    BY MoveKeeps DEF IInv
  <2> HIDE DEF move
  <2> QED BY <2>1, <2>2
<1>4. ASSUME NEW v \in Workers, v # w, Crash(v)
      PROVE  Running(w)' = Running(w)
  BY <1>4 DEF Crash
<1> QED BY <1>2, <1>3, <1>4

\* The figures go with the stages: one more when one starts, one less when one
\* ends, none when a process starts or is killed.
LEMMA OwnNext ==
  ASSUME IInv, OneCallEach, OwnIsBacked, own \in [Workers -> 0..Capacity],
         [LoadNext]_<<vars, loadVars>>
  PROVE  OwnIsBacked' /\ own' \in [Workers -> 0..Capacity]
<1> USE CapacityAssumption DEF loadVars, workerLoad, brokerLoad
<1>1. ASSUME UNCHANGED own, \A w \in Workers : Running(w)' = Running(w)
      PROVE  OwnIsBacked' /\ own' \in [Workers -> 0..Capacity]
  BY <1>1 DEF OwnIsBacked
<1>2. ASSUME NEW w \in Workers, own' = [own EXCEPT ![w] = 0], IsFiniteSet(Running(w)'),
             \A v \in Workers : v # w => Running(v)' = Running(v)
      PROVE  OwnIsBacked' /\ own' \in [Workers -> 0..Capacity]
  <2>1. Cardinality(Running(w)') \in Nat
    BY <1>2, FS_CardinalityType
  <2> QED BY <1>2, <2>1 DEF OwnIsBacked
<1>3. ASSUME NEW c \in calls, Execute(c), Occupy(c.node)
      PROVE  OwnIsBacked' /\ own' \in [Workers -> 0..Capacity]
  <2>1. c.node \in Workers
    BY DEF IInv, TypeOK, Calls
  <2>2. PICK new : Running(c.node)' = Running(c.node) \cup {new} /\ new \notin Running(c.node)
    BY <1>3, <2>1, RunningMoves
  <2>3. IsFiniteSet(Running(c.node)) /\ Cardinality(Running(c.node)) \in Nat
    BY <2>1, FS_CardinalityType DEF OwnIsBacked
  <2>4. /\ IsFiniteSet(Running(c.node)')
        /\ Cardinality(Running(c.node)') = Cardinality(Running(c.node)) + 1
    BY <2>2, <2>3, FS_AddElement
  <2>5. \A w \in Workers : w # c.node => Running(w)' = Running(w)
    BY <1>3, RunningMoves
  <2>6. own' = [own EXCEPT ![c.node] = IF @ < Capacity THEN @ + 1 ELSE @]
    BY <1>3 DEF Occupy
  <2>7. own'[c.node] \in 0..Capacity /\ own'[c.node] <= Cardinality(Running(c.node)')
    BY <2>1, <2>3, <2>4, <2>6 DEF OwnIsBacked
  <2>8. own' \in [Workers -> 0..Capacity] /\ \A w \in Workers : w # c.node => own'[w] = own[w]
    BY <2>1, <2>6
  <2> QED BY <2>4, <2>5, <2>7, <2>8 DEF OwnIsBacked
<1>4. ASSUME NEW c \in calls, FinishStage(c), Vacate(c.node)
      PROVE  OwnIsBacked' /\ own' \in [Workers -> 0..Capacity]
  <2>1. c.node \in Workers
    BY DEF IInv, TypeOK, Calls
  <2>2. Running(c.node)' = Running(c.node) \ {c} /\ c \in Running(c.node)
    BY <1>4, <2>1, RunningMoves
  <2>3. IsFiniteSet(Running(c.node)) /\ Cardinality(Running(c.node)) \in Nat
    BY <2>1, FS_CardinalityType DEF OwnIsBacked
  <2>4. /\ IsFiniteSet(Running(c.node)')
        /\ Cardinality(Running(c.node)') = Cardinality(Running(c.node)) - 1
        /\ Cardinality(Running(c.node)') \in Nat
    BY <2>2, <2>3, FS_RemoveElement, FS_CardinalityType
  <2>5. \A w \in Workers : w # c.node => Running(w)' = Running(w)
    BY <1>4, RunningMoves
  <2>6. own' = [own EXCEPT ![c.node] = Less(@)]
    BY <1>4 DEF Vacate
  <2>7. own'[c.node] \in 0..Capacity /\ own'[c.node] <= Cardinality(Running(c.node)')
    BY <2>1, <2>3, <2>4, <2>6 DEF OwnIsBacked, Less
  <2>8. own' \in [Workers -> 0..Capacity] /\ \A w \in Workers : w # c.node => own'[w] = own[w]
    BY <2>1, <2>6, <2>7
  <2> QED BY <2>4, <2>5, <2>7, <2>8 DEF OwnIsBacked
<1>5. CASE DispatchLoad
  <2>1. UNCHANGED own
    BY <1>5 DEF DispatchLoad, Reserve, Release
  <2>2. \/ \E j \in Jobs : StartDispatch(j)
        \/ calls' = calls
    BY <1>5 DEF DispatchLoad, DispatchFails, RedispatchFails, workerVars
  <2> QED BY <1>1, <2>1, <2>2, RunningStays
<1>6. CASE ResultLoad \/ HealthLoad
  <2>1. UNCHANGED <<own, calls>>
    BY <1>6 DEF ResultLoad, HealthLoad, Release, Reply, Sync, ResultOfFailed, ResultDelivers,
       ResultAdvances, ProbeAnswer, ProbeJoin, workerVars
  <2> QED BY <1>1, <2>1, RunningStays
<1>7. ASSUME NEW w \in Workers, Register(w) \/ StartWithoutRegistration(w), Started(w)
      PROVE  OwnIsBacked' /\ own' \in [Workers -> 0..Capacity]
  <2>1. calls' = calls
    BY <1>7 DEF Register, StartWithoutRegistration
  <2>2. \A v \in Workers : Running(v)' = Running(v)
    BY <2>1, RunningStays
  <2>3. IsFiniteSet(Running(w)') /\ own' = [own EXCEPT ![w] = 0]
    BY <1>7, <2>2 DEF OwnIsBacked, Started
  <2> QED BY <1>2, <2>2, <2>3
<1>8. ASSUME NEW w \in Workers, Crash(w), Started(w)
      PROVE  OwnIsBacked' /\ own' \in [Workers -> 0..Capacity]
  <2>1. Running(w)' = {}
    BY <1>8 DEF Crash, Running
  <2>2. IsFiniteSet(Running(w)') /\ own' = [own EXCEPT ![w] = 0]
    BY <1>8, <2>1, FS_EmptySet DEF Started
  <2> QED BY <1>2, <1>8, <2>2, RunningStays
<1>9. ASSUME NEW w \in Workers, Deregister(w) \/ RemoveDead(w), UNCHANGED workerLoad
      PROVE  OwnIsBacked' /\ own' \in [Workers -> 0..Capacity]
  <2>1. UNCHANGED <<own, calls>>
    BY <1>9 DEF Deregister, RemoveDead, workerVars
  <2> QED BY <1>1, <2>1, RunningStays
<1>10. CASE SameLoad
  <2>1. UNCHANGED own
    BY <1>10 DEF SameLoad
  <2>2. \/ calls' = calls
        \/ \E j \in Jobs : Redispatch(j)
        \/ \E h \in handlers : ResultAnswered(h)
        \/ \E c \in calls : ReportAgain(c) \/ ReportGivenUp(c) \/ LoseCall(c)
    BY <1>10 DEF SameLoad, Publish, FunnelClock, ReplaceNothing, ReplaceStages, ReplaceFails,
       StartUnregistered, SendReturns, ResultUnknown, LoseResult, Listen, ProbeStart,
       HealthResumes, VictimDone, workerVars
  <2> QED BY <1>1, <2>1, <2>2, RunningStays, RunningMoves
<1>11. CASE UNCHANGED <<vars, loadVars>>
  <2>1. UNCHANGED <<own, calls>>
    BY <1>11 DEF vars
  <2> QED BY <1>1, <2>1, RunningStays
<1> QED BY <1>3, <1>4, <1>5, <1>6, <1>7, <1>8, <1>9, <1>10, <1>11
        DEF LoadNext, RegistryLoad, WorkerLoad

\* Jobs whose first send has been made: each was reserved once.
Sent == {j \in Jobs : task[j] \notin {"idle", "spawned"}}

\* A figure of the broker is a report and what was reserved since, at most.
Bounded(figure) ==
  /\ figure \in [Workers -> Nat]
  /\ \A w \in Workers : figure[w] <= Capacity + Cardinality(Sent)

FiguresAreBounded ==
  /\ reported \in [Workers -> 0..Capacity]
  /\ Bounded(load)
  /\ Bounded(nodeLoad)

\* A first send is one more job, and no job is taken back.
LEMMA SentGrows ==
  ASSUME IInv, [Next]_vars
  PROVE  /\ IsFiniteSet(Sent) /\ Cardinality(Sent) \in Nat
         /\ Cardinality(Sent)' \in Nat /\ Cardinality(Sent) <= Cardinality(Sent)'
         /\ \A j \in Jobs : StartDispatch(j) => Cardinality(Sent)' = Cardinality(Sent) + 1
<1>1. /\ IsFiniteSet(Sent) /\ Cardinality(Sent) \in Nat
      /\ IsFiniteSet(Sent') /\ Cardinality(Sent') \in Nat
  <2>1. Sent \in SUBSET Jobs /\ Sent' \in SUBSET Jobs
    BY DEF Sent
  <2> QED BY <2>1, CapacityAssumption, FS_Subset, FS_CardinalityType
<1>2. Sent \in SUBSET Sent'
  BY TaskMoves DEF Sent
<1>3. Cardinality(Sent) <= Cardinality(Sent')
  BY <1>1, <1>2, FS_Subset
<1>4. ASSUME NEW j \in Jobs, StartDispatch(j)
      PROVE  Cardinality(Sent') = Cardinality(Sent) + 1
  <2>1. Sent' = Sent \cup {j} /\ j \notin Sent
    BY <1>4 DEF StartDispatch, Sent, IInv, TypeOK
  <2> QED BY <1>1, <2>1, FS_AddElement
<1> QED BY <1>1, <1>3, <1>4

\* Every figure stays within its bound: a reservation comes with a first send,
\* a release or a rebuild only lowers a figure, a synchronisation puts a report.
LEMMA FiguresNext ==
  ASSUME IInv, FiguresAreBounded, own \in [Workers -> 0..Capacity],
         [LoadNext]_<<vars, loadVars>>
  PROVE  FiguresAreBounded'
<1> USE CapacityAssumption DEF loadVars, workerLoad, brokerLoad
<1>1. /\ Cardinality(Sent) \in Nat /\ Cardinality(Sent)' \in Nat
      /\ Cardinality(Sent) <= Cardinality(Sent)'
      /\ \A j \in Jobs : StartDispatch(j) => Cardinality(Sent)' = Cardinality(Sent) + 1
  BY LoadIsNext, SentGrows
<1>2. ASSUME UNCHANGED load
      PROVE  Bounded(load)'
  BY <1>1, <1>2 DEF Bounded, FiguresAreBounded
<1>3. ASSUME UNCHANGED nodeLoad
      PROVE  Bounded(nodeLoad)'
  BY <1>1, <1>3 DEF Bounded, FiguresAreBounded
<1>4. ASSUME NEW n \in Nat, NEW w, Adjust(w, n), n <= Capacity + Cardinality(Sent)'
      PROVE  Bounded(load)' /\ Bounded(nodeLoad)'
  <2>1. CASE w \in registry
    <3>1. w \in Workers
      BY <2>1 DEF IInv, TypeOK
    <3>2. load' = [load EXCEPT ![w] = n] /\ nodeLoad' = [nodeLoad EXCEPT ![w] = n]
      BY <1>4, <2>1 DEF Adjust
    <3> QED BY <1>1, <1>4, <3>1, <3>2 DEF Bounded, FiguresAreBounded
  <2>2. CASE w \notin registry
    BY <1>2, <1>3, <1>4, <2>2 DEF Adjust
  <2> QED BY <2>1, <2>2
<1>5. ASSUME NEW w \in Workers \cup {None}, Release(w)
      PROVE  FiguresAreBounded'
  <2>1. CASE w \in registry
    <3>1. w \in Workers
      BY <2>1 DEF IInv, TypeOK
    <3>2. Less(load[w]) \in Nat /\ Less(load[w]) <= Capacity + Cardinality(Sent)'
      BY <1>1, <3>1 DEF Less, Bounded, FiguresAreBounded
    <3> QED BY <1>4, <1>5, <3>2 DEF Release, FiguresAreBounded
  <2>2. CASE w \notin registry
    <3>1. UNCHANGED loadVars
      BY <1>5, <2>2 DEF Release, Adjust
    <3> QED BY <1>2, <1>3, <3>1 DEF FiguresAreBounded
  <2> QED BY <2>1, <2>2
<1>6. ASSUME NEW w \in Workers, Rebuild(w), UNCHANGED reported
      PROVE  FiguresAreBounded'
  <2>1. load' = [load EXCEPT ![w] = 0] /\ nodeLoad' = load'
    BY <1>6 DEF Rebuild
  <2> QED BY <1>1, <1>6, <2>1 DEF Bounded, FiguresAreBounded
<1>7. CASE DispatchLoad
  <2>1. ASSUME NEW j \in Jobs, StartDispatch(j), Reserve(placement[j])
        PROVE  FiguresAreBounded'
    <3>1. placement[j] \in Workers
      BY <2>1 DEF StartDispatch, IInv, TypeOK
    <3>2. /\ load[placement[j]] + 1 \in Nat
          /\ load[placement[j]] + 1 <= Capacity + Cardinality(Sent)'
      BY <1>1, <2>1, <3>1 DEF Bounded, FiguresAreBounded
    <3> QED BY <1>4, <2>1, <3>2 DEF Reserve, FiguresAreBounded
  <2>2. \A j \in Jobs : target[j] \in Workers \cup {None}
    BY DEF IInv, TypeOK
  <2> QED BY <1>5, <1>7, <2>1, <2>2 DEF DispatchLoad
<1>8. CASE ResultLoad
  <2>1. \A m \in results : m.node \in Workers
    BY DEF IInv, TypeOK, Results
  <2> QED BY <1>5, <1>8, <2>1 DEF ResultLoad
<1>9. CASE RegistryLoad
  <2>1. ASSUME NEW w \in Workers, UNCHANGED brokerLoad, UNCHANGED workerLoad
        PROVE  FiguresAreBounded'
    BY <1>2, <1>3, <2>1 DEF FiguresAreBounded
  <2> QED BY <1>6, <1>9, <2>1 DEF RegistryLoad, Started
<1>10. CASE HealthLoad
  <2>1. ASSUME NEW w \in Workers, Reply(w)
        PROVE  FiguresAreBounded'
    <3>1. reported' \in [Workers -> 0..Capacity] /\ UNCHANGED brokerLoad
      BY <2>1 DEF Reply, FiguresAreBounded
    <3> QED BY <1>2, <1>3, <3>1 DEF FiguresAreBounded
  <2>2. ASSUME Sync
        PROVE  FiguresAreBounded'
    <3>1. /\ UNCHANGED <<reported, nodeLoad>>
          /\ load' = [w \in Workers |-> IF probe[w] = "healthy" /\ w \in registry
                                        THEN reported[w] ELSE load[w]]
      BY <2>2 DEF Sync
    <3>2. Bounded(load)'
      BY <1>1, <3>1 DEF Bounded, FiguresAreBounded
    <3> QED BY <1>3, <3>1, <3>2 DEF FiguresAreBounded
  <2> QED BY <1>10, <2>1, <2>2 DEF HealthLoad
<1>11. CASE WorkerLoad
  <2>1. UNCHANGED <<reported, brokerLoad>>
    BY <1>11 DEF WorkerLoad, Occupy, Vacate, Started
  <2> QED BY <1>2, <1>3, <2>1 DEF FiguresAreBounded
<1>12. CASE SameLoad \/ UNCHANGED <<vars, loadVars>>
  <2>1. UNCHANGED <<reported, brokerLoad>>
    BY <1>12 DEF SameLoad
  <2> QED BY <1>2, <1>3, <2>1 DEF FiguresAreBounded
<1> QED BY <1>7, <1>8, <1>9, <1>10, <1>11, <1>12 DEF LoadNext

\* The load figures keep their ranges, however often a stage is executed on how
\* many workers, and a worker that executes nothing reports no load, also after
\* it was asked for more than its capacity.
THEOREM LoadFiguresAreSound == LoadSpec => [](LoadTypeOK /\ IdleWorkerIsUnloaded)
<1> DEFINE LInv == /\ own \in [Workers -> 0..Capacity]
                   /\ OneCallEach /\ OwnIsBacked /\ FiguresAreBounded
<1>1. Init /\ LoadInit => LInv
  <2> SUFFICES ASSUME Init, LoadInit
               PROVE  LInv
    OBVIOUS
  <2>1. OneCallEach
    BY DEF Init, OneCallEach
  <2>2. \A w \in Workers : Running(w) = {}
    BY DEF Init, Running
  <2>3. Sent = {}
    BY DEF Init, Sent
  <2>4. IsFiniteSet({}) /\ Cardinality({}) = 0
    BY FS_EmptySet
  <2> QED BY <2>1, <2>2, <2>3, <2>4, CapacityAssumption
          DEF LoadInit, OwnIsBacked, FiguresAreBounded, Bounded
<1>2. IInv /\ SpawnedIsFresh /\ LInv /\ [LoadNext]_<<vars, loadVars>> => LInv'
  BY LoadIsNext, OneCallNext, OwnNext, FiguresNext
<1>3. IInv /\ LInv => LoadTypeOK /\ IdleWorkerIsUnloaded
  <2> SUFFICES ASSUME IInv, LInv
               PROVE  LoadTypeOK /\ IdleWorkerIsUnloaded
    OBVIOUS
  <2>1. ASSUME NEW w \in Workers, \A c \in calls : c.node = w => c.phase # "running"
        PROVE  own[w] = 0
    <3>1. Running(w) = {}
      BY <2>1 DEF Running
    <3>2. own[w] \in 0..Capacity /\ own[w] <= Cardinality({})
      BY <3>1 DEF OwnIsBacked
    <3> QED BY <3>2, FS_EmptySet, CapacityAssumption
  <2>2. IdleWorkerIsUnloaded
    BY <2>1 DEF IdleWorkerIsUnloaded
  <2>3. /\ Cardinality(Sent) \in Nat /\ Cardinality(Jobs) \in Nat
        /\ Cardinality(Sent) <= Cardinality(Jobs)
    <3>1. Sent \in SUBSET Jobs
      BY DEF Sent
    <3> QED BY <3>1, CapacityAssumption, FS_Subset, FS_CardinalityType
  <2>4. ASSUME NEW figure, Bounded(figure)
        PROVE  figure \in [Workers -> 0..MaxLoad]
    <3>1. \A w \in Workers : figure[w] \in 0..MaxLoad
      BY <2>3, <2>4, CapacityAssumption DEF Bounded, MaxLoad
    <3> QED BY <2>4, <3>1 DEF Bounded
  <2>5. LoadTypeOK
    BY <2>4 DEF LoadTypeOK, FiguresAreBounded
  <2> QED BY <2>2, <2>5
<1> QED BY <1>1, <1>2, <1>3, LoadInvariance, PTL DEF LoadSpec


=============================================================================
