SPECIFICATION Spec
CONSTANTS
  Ids = {1, 2}
  Placements <- PublicPair
  Micro = 1
  MaxFaults = 1
  PoolCap = 1
  ChannelCap = 1
  MaxCancels = 0
INVARIANTS
  PaidOnce
CHECK_DEADLOCK FALSE
