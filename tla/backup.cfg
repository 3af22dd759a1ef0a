SPECIFICATION Spec
CONSTANTS
  MaxVersion = 2
  MaxBuild = 1
  MaxFaults = 2
INVARIANTS PublishedExact EndedLeavesNothing
PROPERTIES OperationSettles
CHECK_DEADLOCK FALSE
