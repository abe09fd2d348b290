SPECIFICATION Spec
CONSTANTS
  g = g
  a1 = a1
  a2 = a2
  b1 = b1
  b2 = b2
  a3 = a3
  b3 = b3
  Block = {g, a1, a2, b1, b2}
  None = None
  Genesis = g
  Parent <- ForkAtOne
  LastEpoch = 2
  FromEpoch = 0
  Syncer = {s1, s2}
  Orphan = Orphan
  MaxSyncEpochs = 1
  WinCapacity = 1
  Mishaps = {"lease"}
  MaxReorgs = 1
  MaxFaults = 0
INVARIANTS
  StoreIsChain
