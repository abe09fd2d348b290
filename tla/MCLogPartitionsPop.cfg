SPECIFICATION Spec
CONSTANTS
  LastBn = 3
  LastIndex = 2
  MaxLogs = 2
  MaxBatch = 2
  VolumeSize = 2
  MaxArchive = 1
  MaxPops = 2
  Nil = Nil
INVARIANT PopsSucceed
