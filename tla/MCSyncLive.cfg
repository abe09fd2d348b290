SPECIFICATION SyncersSpec
CONSTANTS
  g = g
  a1 = a1
  a2 = a2
  b1 = b1
  b2 = b2
  s1 = s1
  s2 = s2
  Orphan = Orphan
  None = None
  Block = {g, a1, a2, b1, b2}
  Genesis = g
  Parent <- Fork
  LastEpoch = 2
  FromEpoch = 0
  Part = {p1, p2}
  MaxPops = 3
  NumWorkers = 2
  ChanSize = 2
  EpochFrom = 1
  Stable = 5
  BatchSize = 2
  InitialDb <- FirstEpoch
  MaxFailures = 1
  NumClients = 2
  MaxHeight = 2
  SplitAt = 0
  FromBlock = 0
  MaxSyncBlocks = 2
  Capacity = 2
  MaxAllowedLag = 1
  Threshold = 2
  Remind = 1
  Methods <- ReceiptMethods
  TxCount <- Transactions
  MaxMoves = 1
  MaxFaults = 1
CHECK_DEADLOCK FALSE
INVARIANTS
  TypeOK
  GuardedReads
  EpochsAreConsecutive
  StoredIsChain
PROPERTIES
  GetLogsReturns
  CoreCatchesUp
  CatchUpEnds
  HealthyNodeIsReached
