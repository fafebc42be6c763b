SPECIFICATION Spec
CONSTANTS
  SE = {1, 2, 4, 5}
  FloorDb = 2
  ThresholdDb = 4
  TargetDb = 5
  MarginDb = 1
  Debounce = 1
  Recovery = 2
  BlockLen = 2
  Capacity = 1
  Isolated = TRUE
  Gaps = {1, 2}
  MaxTime = 8
INVARIANTS
  ReleasedBlocksUntouched
  SustainedBreachBlocks
  HealthyLinkRecovers
PROPERTIES
  NoEarlyUnblock
