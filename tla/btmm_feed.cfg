CONSTANTS
  WindowBars = 2
  FormationTimeframe = TRUE
  EvaluateReaction <- MCEvaluateReaction
  Views <- MCViews
  Availabilities = {1, 2}
  Invalidations <- BothEvents
  Snapshots <- MCSnapshots
  MaxLength = 4
SPECIFICATION FeedSpec
INVARIANTS FeedTypeOK ResultIsBatch FastForwardIsAdvance
PROPERTY RewrittenOnlyByLateEvidence
CHECK_DEADLOCK FALSE
