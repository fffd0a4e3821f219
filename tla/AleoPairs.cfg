SPECIFICATION FairSpec
CONSTANTS
  Ids = {1, 2}
  Placements <- Pairs
  Micro = 1
  MaxFaults = 1
  PoolCap = 1
  ChannelCap = 1
  MaxCancels = 1
INVARIANTS
  TypeOK
  OrderIsInOnePlace
  RecordNeverAhead
  CanceledPublicIsOnChain
PROPERTIES
  StatusIsFinal
  EngineIsUsedAsMatching
  AcceptedIsMatched
CHECK_DEADLOCK FALSE
