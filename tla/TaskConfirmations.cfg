\* Three controls, one of them retired in a legacy file; segments of one id.
SPECIFICATION FairSpec
CONSTANTS
  None = None  Other = Other
  Ids = {1, 2, 3}
  LegacyIds = {1}
  SegmentCapacity = 1
  Restage = TRUE
  Retains = {0, 1}
  MaxStages = 3
  MaxBreaks = 2
INVARIANTS
  DispatchSound
  LedgerVerifies
PROPERTIES
  DecisionFinal
  CleanupFinishes
CHECK_DEADLOCK FALSE
