CONSTANTS
  Title = {"t1", "t2"}
  Body = {"b1", "b2"}
  User = {"u1", "u2"}
  Label = {"l1", "l2"}
  Assignable = {"u1"}
  RepoLabel = {"l1", "l2"}
  None = None
  Requests <- MCRequests
  MaxEdits = 2
SPECIFICATION Spec
CHECK_DEADLOCK FALSE
INVARIANTS UserIsNotMisled AuditIsTruthful SuccessHolds PlanSuffices
PROPERTY OnlyTheRequested
