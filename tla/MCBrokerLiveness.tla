-------------------------- MODULE MCBrokerLiveness --------------------------
(***************************************************************************)
(* Fair brokers for TLC, one per behaviour: the neural and the static one  *)
(* with a chain of two stages, and the load figures of one stage.          *)
(***************************************************************************)
EXTENDS MCNeuralBroker, BrokerLoad

CONSTANT AnyFault   \* all kinds of faults

VARIABLE broker   \* "neural", "static" or "loads"; never changes

Static == INSTANCE StaticBroker
Loads == INSTANCE BrokerLoad WITH Stages <- {a}, Preds <- SinglePreds, Faults <- AnyFault

FairInit ==
  /\ LoadInit
  /\ \/ broker \in {"neural", "static"} /\ Init
     \/ broker = "loads" /\ Loads!Init

FairNext ==
  /\ UNCHANGED broker
  /\ \/ broker = "neural" /\ Next /\ UNCHANGED loadVars
     \/ broker = "static" /\ Static!StaticNext /\ UNCHANGED loadVars
     \/ broker = "loads" /\ Loads!LoadNext

\* The fairness of each of the three, as long as it is the one that runs: Fairness
\* and StaticFairness, joined where the two brokers take the same steps.
Engine == broker \in {"neural", "static"}

EngineFairness ==
  /\ WF_vars(Engine /\ ServeResult) /\ WF_vars(Engine /\ ResumeHandler)
  /\ \A j \in Jobs :
       /\ WF_vars(\/ broker = "neural" /\ StartTask(j)
                  \/ broker = "static" /\ Static!StaticStartTask(j))
       /\ WF_vars(\/ broker = "neural" /\ FailTask(j)
                  \/ broker = "static" /\ Static!StaticFailTask(j))
       /\ WF_vars(Engine /\ ResumeTask(j)) /\ WF_vars(Engine /\ Work(j))
       /\ WF_vars(Engine /\ RedispatchFails(j))
  /\ \A p \in Pipelines : WF_vars(Engine /\ FunnelClock(p))
  /\ \A w \in Workers : WF_vars(Engine /\ Listen(w))
  /\ WF_vars(\/ broker = "neural" /\ HealthStep
             \/ broker = "static" /\ Static!StaticHealthStep)

LoadFairness ==
  /\ WF_vars(broker = "loads" /\ Loads!ServeResult)
  /\ WF_vars(broker = "loads" /\ Loads!ResumeHandler)
  /\ \A j \in Loads!Jobs :
       /\ WF_vars(broker = "loads" /\ Loads!StartTask(j))
       /\ WF_vars(broker = "loads" /\ Loads!ResumeTask(j))
       /\ WF_vars(broker = "loads" /\ Loads!FailTask(j))
       /\ WF_vars(broker = "loads" /\ Loads!RedispatchFails(j))
       /\ WF_vars(broker = "loads" /\ Loads!Work(j))
  /\ \A w \in Workers : WF_vars(broker = "loads" /\ Loads!Listen(w))
  /\ WF_vars(broker = "loads" /\ Loads!HealthStep)

FairBrokers ==
  /\ FairInit /\ [][FairNext]_<<broker, vars, loadVars>>
  /\ EngineFairness /\ LoadFairness

-----------------------------------------------------------------------------
\* PipelinesSettle, with either broker.
EitherBrokerSettles == broker # "loads" => PipelinesSettle

\* DispatchesEnd, with either broker.
EitherBrokerAnswers == broker # "loads" => DispatchesEnd

\* DeadWorkerIsRemoved, with either broker.
EitherBrokerRemovesDead == broker # "loads" => DeadWorkerIsRemoved

\* HealthLoopHealsLoad under any fault.
LoadsAreHealed == broker = "loads" => Loads!HealthLoopHealsLoad
=============================================================================
