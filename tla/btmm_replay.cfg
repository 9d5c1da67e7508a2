CONSTANTS
  WindowBars = 2
  FormationTimeframe = TRUE
  EvaluateReaction <- MCEvaluateReaction
  Poi = {p}
  PoiSpecs <- TwoSpecs
  Candles <- TwoZones
  EventTypes <- BothEvents
  Reviews <- AlignedReview
  Allow <- Rare
  MaxCandles = 4
SPECIFICATION Spec
INVARIANTS TypeOK FastForwardIsSafe NoAssertionFails NothingUnpublished
PROPERTIES ReadIsBatchAtCandle WokenUnlessFrozen
CHECK_DEADLOCK FALSE
