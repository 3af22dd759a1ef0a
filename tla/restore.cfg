SPECIFICATION Spec
CONSTANTS
  DevelopmentPrincipals = {"d4"}
  Projects = {"p", "q"}
  Sources <- MCSources
  MayRetire = {"q"}
  MaxStops = 2
  MaxRestores = 2
  MaxCancels = 1
INVARIANTS WholeOrNothing AnswersKept
PROPERTIES RestoreSettles
CHECK_DEADLOCK FALSE
