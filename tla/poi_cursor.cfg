CONSTANTS
  ReclaimWindow = 2
  DisplacementWindow = 3
  Views <- WalkViews
  MaxHistory = 6
SPECIFICATION FeedSpec
INVARIANTS FeedTypeOK ResultIsBatch BoundedReplay DormantMaySleep
PROPERTIES CommittedIsFinal RepaintOnlyInOpenWindow
CHECK_DEADLOCK FALSE
