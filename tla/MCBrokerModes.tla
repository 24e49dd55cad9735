---------------------------- MODULE MCBrokerModes ----------------------------
(***************************************************************************)
(* The engine in the modes an experiment runs it in, one per behaviour:    *)
(* a funnel that aborts its pipeline when an input is dead (the instance   *)
(* this module extends), funnels that wait, two pipelines of one stage     *)
(* that share workers, the static broker, and one stage with the load      *)
(* figures, which the other modes leave alone.                             *)
(***************************************************************************)
EXTENDS MCNeuralBroker, BrokerLoad

CONSTANT AnyFault   \* all kinds of faults

VARIABLE mode   \* never changes

Pair == INSTANCE NeuralBroker WITH
  Pipelines <- {p1, p2}, Stages <- {a}, Preds <- SinglePreds, FunnelMode <- "wait",
  BypassReplace <- FALSE, Faults <- {"crash", "deregister"}, MaxFaults <- 2

Wait == INSTANCE NeuralBroker WITH Preds <- NestedPreds3, FunnelMode <- "wait"

Static == INSTANCE StaticBroker WITH
  Stages <- {a, b}, Preds <- ChainPreds2, FunnelMode <- "wait",
  BypassReplace <- FALSE, Faults <- {"crash", "timeout", "deregister", "restart"}, MaxFaults <- 2

Loads == INSTANCE BrokerLoad WITH
  Stages <- {a}, Preds <- SinglePreds, FunnelMode <- "wait", BypassReplace <- FALSE,
  MaxFailures <- 2, Faults <- AnyFault, MaxFaults <- 2

ModesInit ==
  /\ LoadInit
  /\ \/ mode = "abort" /\ Init
     \/ mode = "pair" /\ Pair!Init
     \/ mode = "wait" /\ Wait!Init
     \/ mode = "static" /\ Static!Init
     \/ mode = "loads" /\ Loads!Init

ModesNext ==
  /\ UNCHANGED mode
  /\ \/ mode = "abort" /\ Next /\ UNCHANGED loadVars
     \/ mode = "pair" /\ Pair!Next /\ UNCHANGED loadVars
     \/ mode = "wait" /\ Wait!Next /\ UNCHANGED loadVars
     \/ mode = "static" /\ Static!StaticNext /\ UNCHANGED loadVars
     \/ mode = "loads" /\ Loads!LoadNext

ModesSpec == ModesInit /\ [][ModesNext]_<<mode, vars, loadVars>>

-----------------------------------------------------------------------------
\* NoEarlyExecution of every mode whose stages have inputs.
OrderInEveryMode ==
  /\ mode = "abort" => NoEarlyExecution
  /\ mode = "wait" => Wait!NoEarlyExecution
  /\ mode = "static" => Static!NoEarlyExecution

\* LivePipelineIsDriven of every mode in which no result gets lost.
DrivenInEveryMode ==
  /\ mode = "pair" => Pair!LivePipelineIsDriven
  /\ mode = "abort" => LivePipelineIsDriven
  /\ mode = "wait" => Wait!LivePipelineIsDriven
  /\ mode = "static" => Static!LivePipelineIsDriven

\* OutcomeIsFinal and DispatchedOnce of every mode.
StepsInEveryMode ==
  [][/\ mode = "pair" => Pair!KeepsOutcomes /\ Pair!DispatchesAtMostOnce
     /\ mode = "abort" => KeepsOutcomes /\ DispatchesAtMostOnce
     /\ mode = "wait" => Wait!KeepsOutcomes /\ Wait!DispatchesAtMostOnce
     /\ mode = "static" => Static!KeepsOutcomes /\ Static!DispatchesAtMostOnce]_<<mode, vars, loadVars>>

\* RecoveryIsComplete with two pipelines on the workers that leave, and
\* TableMatchesTraces of the static broker, where some failures close the trace
\* and others leave it open.
RecordsInEveryMode ==
  /\ mode = "pair" => Pair!RecoveryIsComplete
  /\ mode = "static" => Static!TableMatchesTraces

\* LoadTypeOK and IdleWorkerIsUnloaded: under any two faults the figures stay in
\* their ranges, and a worker that runs nothing reports no load.
LoadsAreSound == mode = "loads" => Loads!LoadTypeOK /\ Loads!IdleWorkerIsUnloaded

\* ResendAvoidsFailedWorker of the static broker.
StaticResendsElsewhere == mode = "static" => Static!ResendAvoidsFailedWorker
=============================================================================
