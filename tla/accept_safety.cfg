SPECIFICATION PublishedSpec
CONSTANTS
  w1 = w1  w2 = w2  rec = rec
  m1 = m1  m2 = m2  k1 = k1  k2 = k2
  r1 = r1  r2 = r2  t1 = t1  c1 = c1  c2 = c2  c3 = c3  o1 = o1  o2 = o2
  Worker = {w1, w2, rec}
  Reconciler = rec
  Member = {m1, m2}
  Manager = {m1}
  Key = {k1}
  Request = {r1, r2}
  Ticket = {t1}
  Change = {c1, c2, c3}
  Op = {o1, o2}
  Conflict = {{c1, c2}}
  MaxPerProject = 1
  NoWorker = NoWorker  NoOp = NoOp  NoOid = NoOid
  NoJournal = NoJournal  NoRequest = NoRequest  NoInput = NoInput
  MaxOps = 3
  MaxFaults = 2
SYMMETRY OpSymmetry
INVARIANTS MainAgreement JournalFenced AcceptedOnce
PROPERTIES MainMovesByJournal ImplementsAtomicAccept
CHECK_DEADLOCK FALSE
