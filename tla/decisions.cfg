SPECIFICATION DecisionsSpec
CONSTANTS
  s1 = s1
  s2 = s2
  s3 = s3
  s4 = s4
  StageNames = {s1, s2, s3, s4}
  NewStages <- Builder
  NewBounds = {2}
  MaxEdges = 4
  None = None
  Problems <- AllProblems
  Unit = 400
  Infinity = 1000000
  Units = {1, 2, 3}
  SliceOf <- WorkerSlices
  Requests = {"any", "URLLC"}
  Flat = "flat"
  Anything = "any"
  MaxPicks = 4
  Cases <- AllCases
SYMMETRY Symmetry
\* a graph with all its edges, and a placement that is done, are the end
CHECK_DEADLOCK FALSE
INVARIANTS
  PipelineGraphIsSound
  NeverOvercommits
  GreedyIsFeasible
  PlacedWhereAllowed
  DpIsOptimal
  BudgetCoversPlacement
  RoundRobinIsEven
  SubscribersAreReachable
