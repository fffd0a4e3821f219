CONSTANTS
  Symbols = {"btc"}
  Blocks <- SomeBlocks
  OrderCap = 1
  MaxBlocks = 2
  Workers = {1, 2}
  BatchSize = 2
  BatchCap = 1
  MaxFaults = 2
SPECIFICATION FairSpec
INVARIANTS NoGapNoRepeat ResultsInOnePlace
PROPERTY EveryOrderIsTried
CHECK_DEADLOCK FALSE
