SPECIFICATION GatewaySpec
CONSTANTS
  None = None
  Nothing = Nothing
  StrategyIds = {1, 2}
  StrategyNames = {"default", "vip1"}
  Rules = {1, 2}
  DefaultStrategy = "default"
  VipStrategy = "vip1"
  Keyed <- KeysOfStrategies
  Vips = {"vip"}
  Limited = {"anon", "keyed", "vip"}
  MaxStrategyChanges = 3
  ListIds = {1, 2}
  ListNames = {"default", "vip1"}
  Origins = {"o1", "o2"}
  Agents = {"a1", "a2"}
  Contracts = {"c1", "c2"}
  Lists <- SomeLists
  Asked <- SomeRequests
  KeyInfos <- KeysOfLists
  MaxListChanges = 3
  ReuseNames = FALSE
  CacheCallers = {"c1", "c2"}
  CacheNodes = {"n1"}
  Timeout = 1
  MaxTime = 2
  MaxVersion = 1
  MaxFailures = 1
  Callers = {"c1", "c2"}
  Nodes = {"n1", "n2"}
  Initial <- GroupsAtStart
  Varying = {"vip"}
  Failover <- FailoverNodes
  UserNode = "u"
  Quota = 1
  MaxChanges = 3
  MaxFaults = 1
CHECK_DEADLOCK FALSE
INVARIANTS
  RatesFollowRules
  AccessFollowsLists
  ResponsesAreRecent
  QuotaHolds
PROPERTY
  RoutesAreCurrent
