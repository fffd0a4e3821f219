SPECIFICATION Spec
CONSTANTS
  Ids = {1, 2, 3}
  Placements <- PrivateSplits
  Micro = 1
  MaxFaults = 1
  PoolCap = 1
  ChannelCap = 1
  MaxCancels = 1
INVARIANTS
  PaidOnce
  RefundedOrPaid
  OneSettlementPerTrade
CHECK_DEADLOCK FALSE
