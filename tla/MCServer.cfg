CONSTANTS
  Call = {c1, c2, c3}
  Principal = {alice}
  Health = Health
  None = None
  GlobalMax = 2
  PerMax = 1
SPECIFICATION FairSpec
INVARIANTS
  LeasesMatchCalls
  ForcedStopReachesAll
  NoSilentAuditLoss
PROPERTY
  ShutdownReturns
CHECK_DEADLOCK FALSE
