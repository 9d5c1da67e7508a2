CONSTANTS
  Config <- MCConfig
  Feed <- MCFeed
  Openings <- MCOpenings
  Extra = 3
SPECIFICATION Spec
INVARIANTS
  TypeOK
  MeasurementsAreBatch
  StructureIsBatch
  CheckpointsConsistent
  LevelsAreBatchWhileSwingsGrow
PROPERTY
  TransitionsOnlyAppended
CHECK_DEADLOCK FALSE
