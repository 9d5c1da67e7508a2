CONSTANTS
  WindowBars = 2
  FormationTimeframe = TRUE
  EvaluateReaction <- MCEvaluateReaction
  Poi = {p}
  PoiSpecs <- SoonSpecs
  Candles <- OneZone
  EventTypes <- BothEvents
  Reviews = {}
  Allow = {"second events"}
  MaxCandles = 4
SPECIFICATION Spec
INVARIANT ReadIsBatch
CHECK_DEADLOCK FALSE
