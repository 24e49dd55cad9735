\* the parts around the engine, one per behaviour
SPECIFICATION ServicesSpec
CONSTANTS
  d1 = d1
  d2 = d2
  d3 = d3
  Brokers = {d1, d2}
  Peers <- MutualPeers
  Capacities = {0, 1}
  MaxPeerFailures = 2
  ProbeInterval = 3
  MaxClock = 2
  MaxFaults = 3
  c1 = c1
  c2 = c2
  l1 = l1
  Containers = {c1, c2}
  Links = {l1}
  Scenarios <- OverlappingScenarios
  MaxErrors = 1
  r1 = r1
  r2 = r2
  Submissions = {r1, r2}
  Domains = {d1, d2, d3}
  Home = d1
  PeersOf <- Star
  MaxPublishes = 1
  MaxTimeouts = 1
  m1 = m1
  m2 = m2
  m3 = m3
  Messages = {m1, m2, m3}
  Subscribed = {m1, m2}
  NoCommit = NoCommit
  MaxConcurrent = 1
  MaxCrashes = 1
  j1 = j1
  j2 = j2
  u1 = u1
  u2 = u2
  u3 = u3
  Shards <- PeerShards
  Coordinator = d1
  Units = {u1, u2, u3}
  OwnerOf <- Owners
  Jobs = {j1, j2}
  Length = 2
  MaxMishaps = 1
  n1 = n1
  n2 = n2
  ChainLength = 3
  ExecNodes = {n1, n2}
  NodeDomain <- TwoDomains
  MaxResends = 1
\* every part comes to its end, or to a bound
CHECK_DEADLOCK FALSE
INVARIANTS
  HealthIsEarned
  CleanupRestores
  OutagesAreMeasured
  NoForwardingLoop
  RunsMatchAnswers
  LossHasCause
  PeersStayKnown
  FiguresFitTheRun
PROPERTIES
  SummaryNeverGoesBack
  PeersConverge
  ReachablePeerIsHealthy
  ServicesComeToAnEnd
