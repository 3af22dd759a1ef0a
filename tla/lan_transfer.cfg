SPECIFICATION Spec
CONSTANTS
  Host = host
  Other = {alice}
  HostPrincipal = hp
  Principal = {hp, ap, bp}
  Nobody = nobody
  Manifest = manifest
  Artifact = {manifest, bundle}
  Upload = {u1}
  MaxBatch = 2
  MaxFaults = 1
INVARIANTS SingleAuthority FenceIsSafe CancelledLeavesNothing
PROPERTIES ForwardOnly TransferSettles
CHECK_DEADLOCK FALSE
