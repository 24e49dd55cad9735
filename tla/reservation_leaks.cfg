\* one stage of two fails: the reservation of the other one is never released
SPECIFICATION LoadSpec
CONSTANTS
  w1 = w1
  w2 = w2
  p1 = p1
  a = a
  b = b
  None = None
  Workers = {w1}
  Pipelines = {p1}
  Stages = {a, b}
  Preds <- ParallelPreds2
  FunnelMode = "wait"
  BypassReplace = FALSE
  MaxFailures = 2
  Faults = {"error"}
  MaxFaults = 1
  Capacity = 2
\* the system may come to rest: all pipelines settled, nobody left to register
CHECK_DEADLOCK FALSE
INVARIANT
  ReservationsAreReleased
