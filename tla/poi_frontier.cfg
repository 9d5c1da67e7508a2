CONSTANTS
  Config <- MCConfig
  WindowStart <- MCWindowStart
  WindowEnd <- MCWindowEnd
  Feed <- MCFeed
SPECIFICATION Spec
INVARIANT FrontierIsBatch
PROPERTY RelayedIsDifference
CHECK_DEADLOCK FALSE
