CONSTANTS
  Config <- MCConfig
  Feed <- MCFeed
  Openings <- InsertedOpenings
  Extra = 2
SPECIFICATION Spec
INVARIANT ClustersAreBatch
CHECK_DEADLOCK FALSE
