CONSTANTS
  ReclaimWindow = 2
  DisplacementWindow = 1
  Poi = {p}
  PoiSpecs <- MCSpecs
  Candles <- MCCandles
  MaxCandles = 4
SPECIFICATION Spec
INVARIANTS TypeOK FastForwardIsSafe RegistriesMatchCursors PublishedIsBatch
PROPERTY ImplementsEveryCursor
CHECK_DEADLOCK FALSE
