SPECIFICATION Spec
CONSTANTS
  Commands <- MCCommands
  MaxItems = 5
  MaxChanges = 2
  PageSize = 2
  MaxPages = 2
INVARIANTS ViewsMissNothing TransitionIsReal TeaAndServiceAgree
PROPERTIES WriteContract
CHECK_DEADLOCK FALSE
