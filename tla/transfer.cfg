SPECIFICATION FairSpec
CONSTANTS
  Client = {c1}
  Reconciler = reconciler
  Transfer = {t1}
  Member = {host, alice}
  Host = host
  SourceKey = {k1, k2}
  NoWorker = NoWorker
  NoKey = NoKey
  MaxFaults = 1
INVARIANTS SingleAuthority ClaimsKept CheckpointCurrent EvidenceFollowsTransfer
PROPERTIES ForwardOnly TransferEnds
