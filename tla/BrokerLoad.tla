------------------------------ MODULE BrokerLoad ------------------------------
(***************************************************************************)
(* The load figures beside the pipeline engine: what a worker says of      *)
(* itself, what the registry holds of it (the price signal reads that) and *)
(* the copy in the topology (the solver's capacity check reads that one).  *)
(*                                                                         *)
(* Every step is a step of NeuralBroker together with what the same code   *)
(* does to the figures.  Every stage demands one unit.                     *)
(***************************************************************************)
EXTENDS NeuralBroker

CONSTANT Capacity   \* of every worker

ASSUME CapacityAssumption ==
  /\ Capacity \in Nat \ {0}
  /\ IsFiniteSet(Jobs)

VARIABLES
  own,        \* own[w]: the worker process's _current_load
  reported,   \* the own load in the answers of this round of probes
  load,       \* WorkerInfo.current_load, 0 for a worker not in the registry
  nodeLoad    \* current_load of its ExecutionUnit in _topology, likewise

workerLoad == <<own, reported>>
brokerLoad == <<load, nodeLoad>>
loadVars == <<own, reported, load, nodeLoad>>

\* A report is at most the capacity, and every job is reserved at most once.
MaxLoad == Capacity + Cardinality(Jobs)

LoadTypeOK ==
  /\ own \in [Workers -> 0..Capacity]
  /\ reported \in [Workers -> 0..Capacity]
  /\ load \in [Workers -> 0..MaxLoad]
  /\ nodeLoad \in [Workers -> 0..MaxLoad]

LoadInit ==
  /\ own = [w \in Workers |-> 0]
  /\ reported = [w \in Workers |-> 0]
  /\ load = [w \in Workers |-> 0]
  /\ nodeLoad = [w \in Workers |-> 0]

\* Subtraction that stops at 0.
Less(n) == IF n = 0 THEN 0 ELSE n - 1

-----------------------------------------------------------------------------
(* The broker: _update_worker_load and _rebuild_topology.                   *)

\* Both figures of a registered worker become n.
Adjust(w, n) ==
  IF w \in registry
  THEN /\ load' = [load EXCEPT ![w] = n]
       /\ nodeLoad' = [nodeLoad EXCEPT ![w] = n]
  ELSE UNCHANGED brokerLoad

Reserve(w) == Adjust(w, load[w] + 1) /\ UNCHANGED workerLoad
Release(w) == Adjust(w, Less(load[w])) /\ UNCHANGED workerLoad

\* The topology is rebuilt when the registry changes: w enters or leaves it
\* with no load, the other nodes get the figures of the registry.
Rebuild(w) ==
  /\ load' = [load EXCEPT ![w] = 0]
  /\ nodeLoad' = load'

\* A new or restarted process starts without load.
Started(w) ==
  /\ own' = [own EXCEPT ![w] = 0]
  /\ UNCHANGED reported

\* The health loop puts the reports of the healthy into the registry; the
\* topology keeps its own figures.
Sync_NotStored == UNCHANGED loadVars
Sync ==
  /\ load' = [w \in Workers |-> IF probe[w] = "healthy" /\ w \in registry
                                THEN reported[w] ELSE load[w]]
  /\ UNCHANGED <<nodeLoad, workerLoad>>

\* A probe is answered: the reply carries the worker's own figure.
Reply(w) ==
  /\ reported' = IF probe'[w] = "healthy" THEN [reported EXCEPT ![w] = own[w]]
                                          ELSE reported
  /\ UNCHANGED <<own, brokerLoad>>

-----------------------------------------------------------------------------
(* The worker: execute_stage.                                               *)

Occupy(w) ==
  /\ own' = [own EXCEPT ![w] = IF @ < Capacity THEN @ + 1 ELSE @]
  /\ UNCHANGED <<reported, brokerLoad>>

Vacate_OnlyBelowCapacity(w) ==
  /\ own' = [own EXCEPT ![w] = IF @ < Capacity THEN Less(@) ELSE @]
  /\ UNCHANGED <<reported, brokerLoad>>
Vacate(w) ==
  /\ own' = [own EXCEPT ![w] = Less(@)]
  /\ UNCHANGED <<reported, brokerLoad>>

-----------------------------------------------------------------------------
(* Which step touches which figure.                                         *)

\* _dispatch_stage reserves before the first send.  A re-dispatch moves the
\* stage and leaves the reservation; only a failure for good releases it.
DispatchLoad ==
  \E j \in Jobs :
    \/ StartDispatch(j) /\ Reserve(placement[j])
    \/ DispatchFails(j) /\ Release(target[j])
    \/ RedispatchFails(j) /\ Release(target[j])

\* The result handler releases on the worker that reports, unless the pipeline
\* has left the table.
ResultLoad ==
  \E m \in results :
    /\ ResultOfFailed(m) \/ ResultDelivers(m) \/ ResultAdvances(m)
    /\ Release(m.node)

RegistryLoad ==
  \E w \in Workers :
    \/ Register(w) /\ Rebuild(w) /\ Started(w)
    \/ Deregister(w) /\ Rebuild(w) /\ UNCHANGED workerLoad
    \/ /\ RemoveDead(w)
       /\ IF w \in registry THEN Rebuild(w) ELSE UNCHANGED brokerLoad
       /\ UNCHANGED workerLoad

HealthLoad ==
  \/ \E w \in Workers : ProbeAnswer(w) /\ Reply(w)
  \/ ProbeJoin /\ Sync

WorkerLoad ==
  \/ \E c \in calls : \/ Execute(c) /\ Occupy(c.node)
                      \/ FinishStage(c) /\ Vacate(c.node)
  \/ \E w \in Workers : /\ StartWithoutRegistration(w) \/ Crash(w)
                        /\ Started(w)
                        /\ UNCHANGED brokerLoad

\* All other steps.
SameLoad ==
  /\ \/ \E p \in Pipelines : \/ Publish(p) \/ FunnelClock(p)
                             \/ ReplaceNothing(p) \/ ReplaceStages(p)
                             \/ ReplaceFails(p)
     \/ \E j \in Jobs : \/ StartUnregistered(j) \/ Redispatch(j)
                        \/ \E k \in {1, 2} : SendReturns(j, k)
     \/ \E m \in results : ResultUnknown(m) \/ LoseResult(m)
     \/ \E h \in handlers : ResultAnswered(h)
     \/ \E c \in calls : ReportAgain(c) \/ ReportGivenUp(c) \/ LoseCall(c)
     \/ \E w \in Workers : Listen(w)
     \/ ProbeStart \/ HealthResumes \/ VictimDone
  /\ UNCHANGED loadVars

LoadNext ==
  \/ DispatchLoad \/ ResultLoad \/ RegistryLoad \/ HealthLoad
  \/ WorkerLoad \/ SameLoad

LoadSpec == Init /\ LoadInit /\ [][LoadNext]_<<vars, loadVars>>

\* The figures never hold a step of the engine up, so its fairness will do.
FairLoadSpec == LoadSpec /\ Fairness

-----------------------------------------------------------------------------
(* Properties.                                                              *)

\* Nothing of any pipeline is under way: no dispatch, unanswered request,
\* result or handler.
Quiet ==
  /\ \A c \in calls : c.phase = "returned"
  /\ results = {} /\ handlers = {}
  /\ \A j \in Jobs : task[j] \in {"idle", "ended"}

\* A worker that runs no stage says so, also after it was over capacity, where
\* execute_stage clamps the figure at either end.
IdleWorkerIsUnloaded ==
  \A w \in Workers :
    (\A c \in calls : c.node = w => c.phase # "running") => own[w] = 0

\* The reservation made at dispatch is released by the result handler: when
\* nothing is under way, the solver sees every registered worker unloaded.
ReservationsAreReleased ==
  Quiet => \A w \in registry : nodeLoad[w] = 0

\* Whatever reservations were left behind, the health loop corrects what the
\* price signal reads once nothing is under way.
HealthLoopHealsLoad ==
  \A w \in Workers :
    (Quiet /\ w \in registry /\ Up(w)) ~> (load[w] = 0 \/ ~Quiet \/ ~Up(w))

=============================================================================
