CONSTANTS
  Proc = {p1, p2}
  Pid = {q1}
  None = None
  Unruly = {p1}
SPECIFICATION FairSpec
INVARIANTS
  SignalsOwnGroup
  TerminatedGroupIsKilled
  OverflowNeverSucceeds
  CleanupLeavesNothing
PROPERTY
  WaitAndCleanupReturn
CHECK_DEADLOCK FALSE
