SPECIFICATION ServicesSpec
CONSTANTS
  None = None
  PoolNodes = {"n1", "n2"}
  PoolGroups = {"g1", "g2"}
  PoolConf <- ConfiguredNodes
  Failures = 1
  Successes = 1
  FallBehind = 0
  MaxHead = 1
  MaxOps = 3
  Senders = {"s1", "s2"}
  Workers = {"w1"}
  Serving = "n0"
  GroupNodes = {"n0", "n1"}
  RelayNodes = {"u1", "u2"}
  BufferSize = 1
  MaxFaults = 1
  Requesters = {"r1", "r2"}
  Values = {"v1"}
  TTL = 1
  MaxChanges = 1
  MaxFailures = 1
CHECK_DEADLOCK FALSE
INVARIANTS
  SharedNodesAreCounted
  OnlyAcceptedTravel
  KnownKeysAreFound
PROPERTIES
  RingsFollowHealth
  RelayDelivers
  ChangesArrive
