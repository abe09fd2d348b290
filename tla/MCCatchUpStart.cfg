SPECIFICATION Spec
CONSTANTS
  NumWorkers = 2
  ChanSize = 2
  EpochFrom = 1
  Stable = 4
  BatchSize = 2
  InitialDb <- EmptyDb
  MaxFailures = 1
CHECK_DEADLOCK FALSE
INVARIANT StartsFromTheStart
