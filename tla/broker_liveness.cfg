\* liveness of either broker when a worker is killed
SPECIFICATION FairBrokers
CONSTANTS
  w1 = w1
  w2 = w2
  p1 = p1
  p2 = p2
  a = a
  b = b
  c = c
  None = None
  Workers = {w1, w2}
  Pipelines = {p1}
  Stages = {a, b}
  Preds <- ChainPreds2
  FunnelMode = "wait"
  BypassReplace = FALSE
  MaxFailures = 2
  Faults = {"crash"}
  MaxFaults = 1
  Capacity = 1
  AnyFault = {"crash", "timeout", "loss", "error", "deregister", "restart", "slow", "unregistered"}
\* the system may come to rest: all pipelines settled, nobody left to register
CHECK_DEADLOCK FALSE
PROPERTIES
  EitherBrokerSettles
  EitherBrokerAnswers
  EitherBrokerRemovesDead
  LoadsAreHealed
