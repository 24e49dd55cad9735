---------------------------- MODULE StaticBroker ----------------------------
(***************************************************************************)
(* The pipeline engine of the baseline StaticBroker.  It shares BaseBroker *)
(* and most of its behaviour with the NeuralBroker; what differs is here:  *)
(* a dispatch to an unregistered worker closes the trace, a worker whose   *)
(* dispatch fails is evicted at once and only the stage in hand is moved,  *)
(* a deregistration fails no pipeline, and a recovery may move some stages *)
(* before it finds that one has no eligible worker.  Slices are abstracted *)
(* to that: a pick returns any registered worker, or raises.               *)
(***************************************************************************)
EXTENDS NeuralBroker

CloseTrace(p) == outcome' = [outcome EXCEPT ![p] = "failure"]

StaticStartUnregistered(j) ==
  /\ LoopFree
  /\ task[j] = "spawned"
  /\ placement[j] \notin registry
  /\ task' = [task EXCEPT ![j] = "ended"]
  /\ Abandon(j[1])
  /\ CloseTrace(j[1])
  /\ UNCHANGED <<workerVars, faults, registry, failures, placement, completed,
                 dispatched, skipped, waiting, expired, target, handlers, healthVars>>

\* Broken variant: the worker keeps its place until the health loop finds it dead.
Evict_NotAtAll(w) == UNCHANGED <<registry, failures>>

\* The worker of the failed send leaves the registry, if it is still there.
Evict(w) ==
  /\ registry' = registry \ {w}
  /\ failures' = IF w \in registry THEN [failures EXCEPT ![w] = 0] ELSE failures

StaticRedispatch(j) ==
  /\ LoopFree
  /\ task[j] = "sending"
  /\ SendRaises(j, 1)
  /\ Evict(target[j])
  /\ \E w \in registry' :
       /\ placement' = [placement EXCEPT ![j] = w]
       /\ calls' = Posted(j, 2, w)
  /\ task' = [task EXCEPT ![j] = "resending"]
  /\ UNCHANGED <<process, results, active, failed, completed, dispatched, skipped, waiting,
                 expired, outcome, target, handlers, healthVars>>

\* Nobody left, or nobody eligible.  The trace stays open.
StaticDispatchFails(j) ==
  /\ LoopFree
  /\ task[j] = "sending"
  /\ SendRaises(j, 1)
  /\ Evict(target[j])
  /\ task' = [task EXCEPT ![j] = "ended"]
  /\ Abandon(j[1])
  /\ UNCHANGED <<workerVars, placement, completed, dispatched, skipped, waiting, expired,
                 outcome, target, handlers, healthVars>>

StaticDeregister(w) ==
  /\ LoopFree
  /\ w \in registry
  /\ Fault("deregister")
  /\ registry' = registry \ {w}
  /\ UNCHANGED <<workerVars, failures, pipeVars, task, target, handlers, healthVars>>

\* The stages are moved one by one until one finds no worker.
StaticReplaceFails(p) ==
  /\ hpc = "replacing"
  /\ p \in affected
  /\ JobsToReplace(p) # {}
  /\ affected' = affected \ {p}
  /\ \E moved \in (SUBSET JobsToReplace(p)) \ {JobsToReplace(p)} :
       \E plan \in [moved -> registry] :
         placement' = [j \in Jobs |-> IF j \in moved THEN plan[j] ELSE placement[j]]
  /\ Abandon(p)
  /\ CloseTrace(p)
  /\ UNCHANGED <<workerVars, faults, registry, failures, completed, dispatched, skipped,
                 waiting, expired, task, target, handlers, hpc, probe, doomed, victim, hwaits>>

-----------------------------------------------------------------------------
(* The handlers, each with what it shares with the NeuralBroker.           *)

\* POST /publish of BaseBroker, and the clock its funnels are compared with.
StaticPublish(p) == Publish(p) \/ FunnelClock(p)

\* _dispatch_stage of the static broker.
StaticDispatch(j) ==
  \/ StartDispatch(j) \/ StaticStartUnregistered(j)
  \/ \E k \in {1, 2} : SendReturns(j, k)
  \/ StaticRedispatch(j) \/ StaticDispatchFails(j) \/ RedispatchFails(j)

\* _handle_result and the _dispatch_ready_stages it awaits.
StaticResult ==
  \/ \E m \in results : \/ ResultUnknown(m) \/ ResultOfFailed(m)
                        \/ ResultDelivers(m) \/ ResultAdvances(m)
  \/ \E h \in handlers : ResultAnswered(h)

\* _health_check_loop, _remove_dead_worker and _replace_failed_stages.
StaticHealthStep ==
  \/ ProbeStart \/ ProbeJoin \/ HealthResumes \/ VictimDone
  \/ \E w \in Workers : ProbeAnswer(w) \/ RemoveDead(w)
  \/ \E p \in Pipelines : ReplaceNothing(p) \/ ReplaceStages(p) \/ StaticReplaceFails(p)

StaticEnvironment ==
  \/ \E w \in Workers : StaticDeregister(w) \/ Crash(w) \/ StartWithoutRegistration(w)
  \/ \E c \in calls : LoseCall(c)
  \/ \E m \in results : LoseResult(m)
  \/ WorkerStep

StaticNext ==
  \/ \E p \in Pipelines : StaticPublish(p)
  \/ \E j \in Jobs : StaticDispatch(j)
  \/ StaticResult
  \/ StaticHealthStep
  \/ StaticEnvironment

StaticSpec == Init /\ [][StaticNext]_vars

\* As for the NeuralBroker, where the two do the same.
StaticStartTask(j) == StartDispatch(j) \/ StaticStartUnregistered(j)
StaticFailTask(j) == StaticRedispatch(j) \/ StaticDispatchFails(j)

StaticFairness ==
  /\ WF_vars(ServeResult) /\ WF_vars(ResumeHandler)
  /\ \A j \in Jobs :
       /\ WF_vars(StaticStartTask(j)) /\ WF_vars(ResumeTask(j)) /\ WF_vars(Work(j))
       /\ WF_vars(StaticFailTask(j)) /\ WF_vars(RedispatchFails(j))
  /\ \A p \in Pipelines : WF_vars(FunnelClock(p))
  /\ \A w \in Workers : WF_vars(Listen(w))
  /\ WF_vars(StaticHealthStep)

StaticFairSpec == StaticSpec /\ StaticFairness

-----------------------------------------------------------------------------
\* A stage is never sent a second time to the worker that failed it, also when
\* that worker registers again or was deregistered before: it is out of the
\* registry, and out of the cycles, before the second pick (static_broker.py:427).
ResendAvoidsFailedWorker ==
  \A c \in calls : c.try = 2 => c.node # target[c.job]
=============================================================================
