SPECIFICATION Spec
CONSTANTS
  Attempts = {a1}
  Reporters = {host, guest}
  Callers = {c1}
  Uploads = {u1, u2}
  Reconciler = pass
  NoAttempt = none
  MaxFaults = 1
INVARIANTS RowsTellTheTruth SetAsideForCause
PROPERTIES SettlementEnds
CHECK_DEADLOCK FALSE
