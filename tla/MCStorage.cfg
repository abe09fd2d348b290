SPECIFICATION StorageSpec
CONSTANTS
  LastBn = 3
  LastIndex = 2
  MaxLogs = 2
  MaxBatch = 2
  VolumeSize = 2
  MaxArchive = 1
  MaxPops = 2
  Nil = Nil
INVARIANTS
  TypeOK
  CountsMatch
  Routed
  ReadsComplete
  SeedingIsSafe
  ContractLogsAreExact
  QueriesAreComplete
CHECK_DEADLOCK FALSE
