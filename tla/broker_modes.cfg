\* the engine in five modes; the constants are those of the abort mode, where with
\* bypass no other worker takes over a dead input, and the funnel is consulted
SPECIFICATION ModesSpec
CONSTANTS
  w1 = w1
  w2 = w2
  p1 = p1
  p2 = p2
  a = a
  b = b
  c = c
  None = None
  Workers = {w1, w2}
  Pipelines = {p1}
  Stages = {a, b, c}
  Preds <- FunnelPreds3
  FunnelMode = "abort"
  BypassReplace = TRUE
  MaxFailures = 1
  Faults = {"crash"}
  MaxFaults = 1
  Capacity = 1
  AnyFault = {"crash", "timeout", "loss", "error", "deregister", "restart", "slow", "unregistered"}
SYMMETRY SymmetryP
\* the system may come to rest: all pipelines settled, nobody left to register
CHECK_DEADLOCK FALSE
INVARIANTS
  OrderInEveryMode
  DrivenInEveryMode
  RecordsInEveryMode
  StaticResendsElsewhere
  LoadsAreSound
PROPERTIES
  StepsInEveryMode
