CONSTANTS
  MaxFrames = 2
  MaxChunks = 2
SPECIFICATION FairSpec
CHECK_DEADLOCK FALSE
INVARIANTS OkMeansTold CompletedMeansDelivered RefusedPushStaysHere AuditPair
PROPERTIES NothingLeaks
