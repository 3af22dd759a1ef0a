SPECIFICATION FairSpec
CONSTANTS
  a = a  b = b  c = c
  o1 = o1  v1 = v1
  i1 = i1  i2 = i2  w1 = w1  rec = rec
  Member = {a, b, c}
  Founder = {a, b}
  FirstManager = a
  Author = {c}
  Invitation = {v1}
  Offer = {o1}
  Intent = {i1, i2}
  Worker = {w1, rec}
  Reconciler = rec
  MaxMembers = 2
  MaxPerProject = 1
  NoWorker = NoWorker  NoOffer = NoOffer
  NoJournal = NoJournal  NoCall = NoCall
  MaxGeneration = 3
  MaxFaults = 1
INVARIANTS AlwaysManaged RowsFollowMembership PreparedExitsSettle
PROPERTIES MembershipSettles
CHECK_DEADLOCK FALSE
