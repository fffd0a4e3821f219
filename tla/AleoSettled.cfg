SPECIFICATION Spec
CONSTANTS
  Ids = {1, 2, 3}
  Placements <- PublicSplits
  Micro = 1
  MaxFaults = 0
  PoolCap = 1
  ChannelCap = 1
  MaxCancels = 0
INVARIANTS
  SettledMeansSettled
CHECK_DEADLOCK FALSE
