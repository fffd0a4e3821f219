CONSTANTS
  Types <- FixedTypes
  Starts <- FixedStarts
  Step <- FixedStep
  Fills <- FourFills
  Day = 2
  Forward = 2
  Keep = 3
  MaxTime = 3
  MaxResults = 2
  MaxLag = 1
  MaxCrashes = 2
  MaxFailures = 1
SPECIFICATION Spec
INVARIANTS TypeOK DetailIsTheDay RedisCountsOnce KlinesAreTheFills KeptUntilSaved
CHECK_DEADLOCK FALSE
