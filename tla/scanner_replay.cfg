CONSTANTS
  Timeframes <- MCTimeframes
  BtmmEligible <- MCBtmmEligible
  Evidence <- MCEvidence
  Requirements <- MCRequirements
  None = None
  Inputs <- MCInputs
SPECIFICATION RunSpec
INVARIANT ReplayIsBatch
PROPERTY ImplementsScannerBatch
CHECK_DEADLOCK FALSE
