SPECIFICATION Spec
CONSTANTS
  Commands <- MCCommands
  Labels <- MCLabels
  LabelSeqs <- MCLabelSeqs
  MaxItems = 5
  MaxChanges = 1
  Sizes = {0, 2, 4, 8, 9}
  PageSize = 2
  MaxIssuePages = 3
  MaxCommentPages = 2
  MaxLabelPages = 2
  MaxCheckPages = 4
  MaxCheckRecords = 6
  LabelLimit = 3
INVARIANTS KindsStayApart ListsMissNothing ClientAndServiceAgree
PROPERTIES WriteContract LabelsAreKept
CHECK_DEADLOCK FALSE
