CONSTANTS
  Limit = 2
  MaxSize = 4
SPECIFICATION HTTPFairSpec
INVARIANT EndIsTrue
PROPERTY NothingStaysOpen
CHECK_DEADLOCK FALSE
