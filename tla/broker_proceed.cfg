\* a funnel that proceeds without its dead inputs, and a health loop that dispatches
SPECIFICATION Spec
CONSTANTS
  w1 = w1
  w2 = w2
  p1 = p1
  p2 = p2
  a = a
  b = b
  c = c
  None = None
  Workers = {w1, w2}
  Pipelines = {p1}
  Stages = {a, b, c}
  Preds <- FunnelPreds3
  FunnelMode = "proceed"
  BypassReplace = TRUE
  MaxFailures = 1
  Faults = {"crash"}
  MaxFaults = 1
\* the system may come to rest: all pipelines settled, nobody left to register
CHECK_DEADLOCK FALSE
PROPERTIES
  StepsRepeatNothing
