CONSTANTS
  WindowBars = 2
  FormationTimeframe = TRUE
  EvaluateReaction <- MCEvaluateReaction
  Poi = {p}
  PoiSpecs <- SoonSpecs
  Candles <- OneZone
  EventTypes = {}
  Reviews <- BlockedReview
  Allow = {"late evidence"}
  MaxCandles = 5
SPECIFICATION Spec
INVARIANT NoAssertionFails
CHECK_DEADLOCK FALSE
