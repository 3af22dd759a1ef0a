\* One Project ID, its creator and another Member, two recovery workers beside the
\* creator's own calls, and a crash or failed step anywhere.
CONSTANTS
  Principals = {p1, p2}
  Callers = {p1}
  Workers = {w1, w2}
  Nobody = Nobody
  LaneLimit = 1
  MaxPlans = 1
  MaxFaults = 1
SPECIFICATION FairSpec
INVARIANTS ServedWhole DeletionSurvivesContent RecoveryNeverContradicted
PROPERTIES LifecycleSettles
\* A Project that was never asked for, or is gone for good, leaves nothing to do.
CHECK_DEADLOCK FALSE
