CONSTANTS
  Call = {a1, a2, a3}
  Project = {p1, p2}
  Signal = {s1}
  NoSignal = NoSignal
  MaxChildren = 2
  MaxChildrenPerProject = 1
  MaxActive <- Actives
  MaxQueued <- Waiters
  QueueMax = 3
  QueueMaxPerProject = 2
SPECIFICATION FairSpec
INVARIANTS QueueExact
PROPERTIES GrantsInOrder CloseResolves
CHECK_DEADLOCK FALSE
