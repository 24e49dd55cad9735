\* one pipeline of two stages, any two faults of any kind
SPECIFICATION Spec
CONSTANTS
  w1 = w1
  w2 = w2
  p1 = p1
  p2 = p2
  a = a
  b = b
  c = c
  None = None
  Workers = {w1, w2}
  Pipelines = {p1}
  Stages = {a, b}
  Preds <- ChainPreds2
  FunnelMode = "wait"
  BypassReplace = FALSE
  MaxFailures = 1
  Faults = {"crash", "timeout", "loss", "error", "deregister", "restart", "slow", "unregistered"}
  MaxFaults = 2
SYMMETRY Symmetry
\* the system may come to rest: all pipelines settled, nobody left to register
CHECK_DEADLOCK FALSE
INVARIANTS
  TypeOK
  NoEarlyExecution
  TableMatchesTraces
  SuccessIsComplete
  RecoveryIsComplete
PROPERTIES
  OutcomeIsFinal
  DispatchedOnce
  SpawnedStageFindsWorker
  ImplementsLifecycle
