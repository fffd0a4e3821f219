SPECIFICATION FairSpec
CONSTANTS
  Ids = {1, 2, 3, 4}
  u1 = u1
  u2 = u2
  Users <- MCUsers
  Requests <- FokRequests
  BatchLists <- MCBatchLists
  Lot = 2
  RateUnit = 10
  MonotoneSeq = TRUE
INVARIANTS CircuitBound FokAllOrNothing FokPriceRespected TakerInv
PROPERTIES EveryOrderAnswered
CHECK_DEADLOCK FALSE
