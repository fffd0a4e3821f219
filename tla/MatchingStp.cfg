SPECIFICATION Spec
CONSTANTS
  Ids = {1, 2, 3}
  u1 = u1
  u2 = u2
  Users <- MCUsers
  Requests <- StpRequests
  BatchLists = {}
  Lot = 1
  RateUnit = 10
  MonotoneSeq = TRUE
INVARIANTS
  BookNotCrossed
  BookIsWhatWasTold
  LimitPriceRespected
  AmountConserved
  TakerGetsWhatMakersGive
  NoFatal
CHECK_DEADLOCK FALSE
