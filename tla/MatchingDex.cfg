SPECIFICATION Spec
CONSTANTS
  Ids = {1, 2, 3}
  u1 = u1
  u2 = u2
  Users <- MCUsers
  Requests <- EveryTypeRequests
  BatchLists <- MCBatchLists
  Lot = 2
  RateUnit = 10
  MonotoneSeq = FALSE
INVARIANTS
  IInv
  LimitNeverHalts
CHECK_DEADLOCK FALSE
