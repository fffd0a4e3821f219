CONSTANTS
  MaxId = 3
  Bounds <- Scenarios
  BatchSize = 2
  History = 2
SPECIFICATION Spec
INVARIANTS IInv WindowIsWritten QuotesCountOnce SnapshotBehindRedis
PROPERTIES OneLog HaltsForAReason StartIsDecided
CHECK_DEADLOCK FALSE
