CONSTANTS
  Limit = 2
  MaxSize = 4
SPECIFICATION HTTPFairSpec
INVARIANT CancellationIsTheCallers
CHECK_DEADLOCK FALSE
