SPECIFICATION Spec
CONSTANTS
  g = g
  a1 = a1
  a2 = a2
  a3 = a3
  b1 = b1
  b2 = b2
  b3 = b3
  Block = {g, a1, a2, a3, b2, b3}
  None = None
  Genesis = g
  Parent <- ForkAtTwo
  LastEpoch = 3
  FromEpoch = 0
  Syncer = {s1, s2}
  Orphan = Orphan
  MaxSyncEpochs = 2
  WinCapacity = 2
  Mishaps = {}
  MaxReorgs = 2
  MaxFaults = 2
INVARIANTS
  TypeOK
  StoreIsChain
  RoundsExclude
  WindowAgrees
  NoNeedlessPop
PROPERTIES
  StoreIsStack
