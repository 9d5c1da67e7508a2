CONSTANTS
  Timeout = 2
  Ordinary <- MCOrdinary
  Symbols = 2
  GroupCounts = {2, 3}
  RetentionCap = 2
  Interrupts = TRUE
SPECIFICATION Spec
INVARIANTS TypeOK SuccessIsTrustworthy NoWorkerLeft MarkerIsLast PublishedOnlyIfVerified ExitCodeIsTrue
PROPERTY RunEnds
CHECK_DEADLOCK FALSE
