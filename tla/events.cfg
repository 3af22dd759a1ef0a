CONSTANTS
  Session = {s1}
  Project = {p1}
  MaxSequence = 3
  MaxEventReplay = 2
  MinRetainedEventCount = 1
  MaxConnections = 2
  MaxConnectionsPerProject = 1
  MaxPendingAuthorizations = 1
SPECIFICATION FairSpec
INVARIANTS ReplayExact NoLostWake
PROPERTIES EventsArrive
CHECK_DEADLOCK FALSE
