SPECIFICATION Spec
CONSTANTS
  Ids = {1, 2}
  Placements <- PublicPair
  Micro = 1
  MaxFaults = 0
  PoolCap = 1
  ChannelCap = 1
  MaxCancels = 1
PROPERTIES
  RefundedNeverTrades
CHECK_DEADLOCK FALSE
