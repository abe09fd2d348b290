SPECIFICATION NotificationsSpec
CONSTANTS
  None = None
  Clients = {"s1", "s2"}
  Kinds <- AllKinds
  Wants <- WantedItems
  Reverts = {1}
  ChanSize = 1
  MaxItems = 2
  MaxLoops = 2
  Root = Root
  Nil = Nil
  Marker = Marker
CHECK_DEADLOCK FALSE
INVARIANTS
  FiltersDeliver
  SubscriptionsDeliver
  FeesAreOrdered
