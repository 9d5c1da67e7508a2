CONSTANTS
  Ids = {a, b, c}
  Zones <- MCZones
  Bars <- MCBars
  AtrMul = 2
  HeightMul = 1
  Scale = 2
  MinTick = 1
SPECIFICATION IndexSpec
INVARIANTS IndexTypeOK WakeIsExact
