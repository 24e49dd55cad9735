\* what a peer learns of the load; the clock's bound may stop the system
SPECIFICATION FairSpec
CONSTANTS
  d1 = d1
  d2 = d2
  Brokers = {d1, d2}
  Peers <- OneWayPeers
  Capacities = {0, 1}
  MaxPeerFailures = 2
  ProbeInterval = 2
  MaxClock = 1
  MaxFaults = 0
CHECK_DEADLOCK FALSE
PROPERTIES
  PeersLearnCapacity
