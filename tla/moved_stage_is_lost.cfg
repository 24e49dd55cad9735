\* the stages the recovery moves are not dispatched
SPECIFICATION Spec
CONSTANTS
  w1 = w1
  w2 = w2
  p1 = p1
  p2 = p2
  a = a
  b = b
  c = c
  None = None
  Workers = {w1, w2}
  Pipelines = {p1}
  Stages = {a}
  Preds <- SinglePreds
  FunnelMode = "wait"
  BypassReplace = FALSE
  MaxFailures = 1
  Faults = {"crash", "loss"}
  MaxFaults = 3
\* the system may come to rest: all pipelines settled, nobody left to register
CHECK_DEADLOCK FALSE
PROPERTIES
  MovedStageIsDispatched
