------------------------------- MODULE Routing -------------------------------
(***************************************************************************)
(* How a request finds its full node (node/router.go, client.go,           *)
(* cfxclient.go, ethclient.go, rpc/server_middleware.go): the group of the *)
(* request, the chain of routers (the node manager's RPC service, the      *)
(* local hash ring that polls it, the configured failover), the cache of   *)
(* clients; and the quota on queries of pruned logs (rpc/throttle,         *)
(* rpc/handler/cfx_logs_pruned.go), whose counters are redis keys that     *)
(* expire.  A hash ring locates any of its members.                        *)
(***************************************************************************)
EXTENDS Integers, FiniteSets, Functions

CONSTANTS
  Callers, Nodes,
  Initial,        \* [Groups -> SUBSET Nodes]: the nodes of the groups at the start
  Varying,        \* the groups whose nodes change
  Failover,       \* [Groups -> Nodes \cup {None}]: configured failover
  UserNode,       \* the full node of a user with a node of their own
  Quota,          \* thresholdGetLogs
  MaxChanges,     \* bound: changes of groups, ring and service, and queries of pruned logs
  MaxFaults,      \* bound: failed connections, lost replies of redis and expired keys
  None

VARIABLES
  space,          \* "cfx" or "eth"
  nodes, ring,    \* the node manager: nodes and healthy nodes of its groups
  up,             \* its RPC service answers
  polled,         \* the nodes of each group in the last answer that listed it
  local,          \* the local router: [group -> [nodes, ring]]
  clients,        \* the clients created: pairs of a group and a node
  req,            \* [Callers -> [pc, group, node]]
  count,          \* the counters in redis, of the keys that exist
  unrefs,         \* UnrefAsync routines that have not run: [nodes -> Nat]
  lapsed,         \* a counter expired while a query was running
  repeated,       \* decrements of a key that were applied and repeated: [nodes -> Nat]
  changes, faults

vars == <<space, nodes, ring, up, polled, local, clients, req, count, unrefs, lapsed, repeated,
          changes, faults>>
manager == <<nodes, ring, up>>
throttle == <<count, unrefs, lapsed, repeated>>

Groups == {"http", "logs", "filter", "vip", "archives"}
Idle == [pc |-> "idle", group |-> None, node |-> None]
Keys == Nodes \cup {UserNode}

-----------------------------------------------------------------------------
(* The node manager, as the router sees it *)

Change == changes < MaxChanges /\ changes' = changes + 1

AddNode(g, n) ==
  /\ Change /\ n \notin nodes[g]
  /\ nodes' = [nodes EXCEPT ![g] = @ \cup {n}]
  /\ ring' = [ring EXCEPT ![g] = @ \cup {n}]
  /\ UNCHANGED <<space, up, polled, local, clients, req, faults>> /\ UNCHANGED throttle

RemoveNode(g, n) ==
  /\ Change /\ n \in nodes[g]
  /\ nodes' = [nodes EXCEPT ![g] = @ \ {n}]
  /\ ring' = [ring EXCEPT ![g] = @ \ {n}]
  /\ UNCHANGED <<space, up, polled, local, clients, req, faults>> /\ UNCHANGED throttle

ToggleHealth(g, n) ==
  /\ Change /\ n \in nodes[g]
  /\ ring' = [ring EXCEPT ![g] = IF n \in @ THEN @ \ {n} ELSE @ \cup {n}]
  /\ UNCHANGED <<space, nodes, up, polled, local, clients, req, faults>> /\ UNCHANGED throttle

ToggleService ==
  /\ Change /\ up' = ~up
  /\ UNCHANGED <<space, nodes, ring, polled, local, clients, req, faults>> /\ UNCHANGED throttle

\* api.ListAll: a group without a node has no manager.
listAll == Restrict(nodes, {g \in Groups : nodes[g] # {}})

\* api.Route and Manager.Route.
ManagerRoute(g) == IF up THEN ring[g] ELSE {}

-----------------------------------------------------------------------------
(* The local router *)

newLocalNodeGroup(urls) == [nodes |-> urls, ring |-> urls]

\* Mutant: the ring keeps the nodes that are removed.
updatedGroupKeeping(item, urls) == [nodes |-> urls, ring |-> item.ring \cup urls]

\* The nodes that are new are added, then the ones that are gone removed.
updatedGroup(item, urls) ==
  LET added == urls \ item.nodes
      removed == (item.nodes \cup added) \ urls
  IN  [nodes |-> (item.nodes \cup added) \ removed, ring |-> (item.ring \cup added) \ removed]

\* update: the groups that were listed; any other keeps its nodes.
update(l, listed) ==
  [g \in DOMAIN l \cup DOMAIN listed |->
     IF g \notin DOMAIN listed THEN l[g]
     ELSE IF g \notin DOMAIN l THEN newLocalNodeGroup(listed[g])
     ELSE updatedGroup(l[g], listed[g])]

\* pollOnce changes nothing when the service is down.
pollOnce ==
  /\ up
  /\ local' = update(local, listAll)
  /\ polled' = [g \in DOMAIN polled \cup DOMAIN listAll |->
                  IF g \in DOMAIN listAll THEN listAll[g] ELSE polled[g]]
  /\ UNCHANGED <<space, clients, req, changes, faults>> /\ UNCHANGED manager /\ UNCHANGED throttle

LocalRoute(g) == IF g \in DOMAIN local THEN local[g].ring ELSE {}
ListNodesByGroup(g) == IF g \in DOMAIN local THEN local[g].nodes ELSE {}

-----------------------------------------------------------------------------
(* The chain of routers: the nodes that a key of the group may be routed to *)
Route(g) ==
  IF ManagerRoute(g) # {} THEN ManagerRoute(g)
  ELSE IF LocalRoute(g) # {} THEN LocalRoute(g)
  ELSE {Failover[g]} \ {None}

\* getClient, first half: no node, or the node to get a client of.
getClient(c, g) ==
  \/ /\ Route(g) = {}
     /\ req' = [req EXCEPT ![c] = Idle]
  \/ \E n \in Route(g) : req' = [req EXCEPT ![c] = [pc |-> "routed", group |-> g, node |-> n]]

\* The group of a method; authenticated requests may have a group of their own.
ethGroup(method) == CASE method = "getLogs" -> {"logs"} [] method = "filter" -> {"filter"} [] OTHER -> {"http", "vip"}
cfxGroup(method) == CASE method = "getLogs" -> {"logs"} [] method = "filter" -> {"filter"} [] OTHER -> {"http", "vip"}

getEthClientFromProviderWithContext(c, method) ==
  /\ space = "eth" /\ req[c].pc = "idle"
  /\ \E g \in ethGroup(method) : getClient(c, g)
  /\ UNCHANGED <<space, polled, local, clients, changes, faults>> /\ UNCHANGED manager /\ UNCHANGED throttle

getCfxClientFromProviderWithContext(c, method) ==
  /\ space = "cfx" /\ req[c].pc = "idle"
  /\ \E g \in cfxGroup(method) : getClient(c, g)
  /\ UNCHANGED <<space, polled, local, clients, changes, faults>> /\ UNCHANGED manager /\ UNCHANGED throttle

\* getOrRegisterClient: the client of the group and node, created once.
getOrRegisterClient(c) ==
  /\ req[c].pc = "routed"
  /\ clients' = clients \cup {<<req[c].group, req[c].node>>}
  /\ req' = [req EXCEPT ![c] = IF @.group = "archives"
                                THEN [pc |-> "throttle", group |-> req[c].group, node |-> req[c].node]
                                ELSE Idle]
  /\ UNCHANGED <<space, polled, local, changes, faults>> /\ UNCHANGED manager /\ UNCHANGED throttle

\* "bad full node connection"
connectionFails(c) ==
  /\ req[c].pc = "routed" /\ <<req[c].group, req[c].node>> \notin clients
  /\ faults < MaxFaults /\ faults' = faults + 1
  /\ req' = [req EXCEPT ![c] = Idle]
  /\ UNCHANGED <<space, polled, local, clients, changes>> /\ UNCHANGED manager /\ UNCHANGED throttle

\* Clients of all nodes of the group, for the relay and the gas station.
RegisterAll(g) ==
  /\ \E n \in ListNodesByGroup(g) : <<g, n>> \notin clients
  /\ clients' = clients \cup {<<g, n>> : n \in ListNodesByGroup(g)}
  /\ UNCHANGED <<space, polled, local, req, changes, faults>> /\ UNCHANGED manager /\ UNCHANGED throttle

cfxGetClientsByGroup(g) == space = "cfx" /\ RegisterAll(g)
ethGetClientsByGroup(g) == space = "eth" /\ RegisterAll(g)

-----------------------------------------------------------------------------
(* Pruned logs *)

\* GetLogs: the archive nodes, or the node of the user.
prunedGetLogs(c) ==
  /\ space = "cfx" /\ req[c].pc = "idle" /\ Change
  /\ getClient(c, "archives")
  /\ UNCHANGED <<space, polled, local, clients, faults>> /\ UNCHANGED manager /\ UNCHANGED throttle

getLogsByUser(c) ==
  /\ space = "cfx" /\ req[c].pc = "idle" /\ Change
  /\ req' = [req EXCEPT ![c] = [pc |-> "throttle", group |-> None, node |-> UserNode]]
  /\ UNCHANGED <<space, polled, local, clients, faults>> /\ UNCHANGED manager /\ UNCHANGED throttle

Count(n) == IF n \in DOMAIN count THEN count[n] ELSE 0
SetCount(n, v) == [k \in DOMAIN count \cup {n} |-> IF k = n THEN v ELSE count[k]]

\* Mutant: the quota is checked before the counter is increased.
withinQuotaBefore(n) == Count(n) <= Quota
withinQuota(n) == Count(n) + 1 <= Quota

\* Ref counts the query in, and out again when there is no quota.
Ref(c) ==
  LET n == req[c].node
  IN  /\ req[c].pc = "throttle"
      /\ count' = SetCount(n, Count(n) + 1)
      /\ IF withinQuota(n)
         THEN req' = [req EXCEPT ![c].pc = "running"] /\ UNCHANGED unrefs
         ELSE req' = [req EXCEPT ![c] = Idle] /\ unrefs' = [unrefs EXCEPT ![n] = @ + 1]
      /\ UNCHANGED <<space, polled, local, clients, lapsed, repeated, changes, faults>> /\ UNCHANGED manager

\* The reply of redis is lost, before or after the counter was increased.
RefFails(c) ==
  LET n == req[c].node
  IN  /\ req[c].pc = "throttle" /\ faults < MaxFaults /\ faults' = faults + 1
      /\ \/ count' = SetCount(n, Count(n) + 1)
         \/ UNCHANGED count
      /\ req' = [req EXCEPT ![c] = Idle]
      /\ UNCHANGED <<space, polled, local, clients, unrefs, lapsed, repeated, changes>> /\ UNCHANGED manager

\* getLogsThrottled ends, in a result or an error.
getLogsThrottled(c) ==
  /\ req[c].pc = "running"
  /\ unrefs' = [unrefs EXCEPT ![req[c].node] = @ + 1]
  /\ req' = [req EXCEPT ![c] = Idle]
  /\ UNCHANGED <<space, polled, local, clients, count, lapsed, repeated, changes, faults>> /\ UNCHANGED manager

\* The last round of SafeUnref: redis answers.  A key that does not exist becomes -1.
SafeUnref(n) ==
  /\ unrefs[n] > 0
  /\ unrefs' = [unrefs EXCEPT ![n] = @ - 1]
  /\ count' = SetCount(n, Count(n) - 1)
  /\ UNCHANGED <<space, polled, local, clients, req, lapsed, repeated, changes, faults>> /\ UNCHANGED manager

\* A round of SafeUnref whose reply is lost after the counter was decreased: the
\* next one decreases it again.  (Without the decrease a round changes nothing.)
SafeUnrefAgain(n) ==
  /\ unrefs[n] > 0 /\ faults < MaxFaults /\ faults' = faults + 1
  /\ count' = SetCount(n, Count(n) - 1)
  /\ repeated' = [repeated EXCEPT ![n] = @ + 1]
  /\ UNCHANGED <<space, polled, local, clients, req, unrefs, lapsed, changes>> /\ UNCHANGED manager

Running(n) == {c \in Callers : req[c].pc = "running" /\ req[c].node = n}

\* The key expires a minute after the last Ref, and what was repeated on it with it.
Expire(n) ==
  /\ n \in DOMAIN count /\ faults < MaxFaults /\ faults' = faults + 1
  /\ count' = Restrict(count, DOMAIN count \ {n})
  /\ lapsed' = (lapsed \/ Running(n) # {} \/ unrefs[n] > 0)
  /\ repeated' = [repeated EXCEPT ![n] = 0]
  /\ UNCHANGED <<space, polled, local, clients, req, unrefs, changes>> /\ UNCHANGED manager

-----------------------------------------------------------------------------
\* NewLocalRouterFromNodeRPC polls once.
Init ==
  /\ space \in {"cfx", "eth"}
  /\ nodes = Initial /\ ring = Initial /\ up = TRUE
  /\ polled = listAll /\ local = update([g \in {} |-> {}], listAll)
  /\ clients = {} /\ req = [c \in Callers |-> Idle]
  /\ count = [n \in {} |-> 0] /\ unrefs = [n \in Keys |-> 0] /\ lapsed = FALSE
  /\ repeated = [n \in Keys |-> 0]
  /\ changes = 0 /\ faults = 0

Next ==
  \/ \E g \in Varying, n \in Nodes : AddNode(g, n)
  \/ \E g \in Varying, n \in Nodes : RemoveNode(g, n)
  \/ \E g \in Varying, n \in Nodes : ToggleHealth(g, n)
  \/ ToggleService
  \/ pollOnce
  \/ \E c \in Callers, m \in {"getLogs", "filter", "other"} : getEthClientFromProviderWithContext(c, m)
  \/ \E c \in Callers, m \in {"getLogs", "filter", "other"} : getCfxClientFromProviderWithContext(c, m)
  \/ \E c \in Callers : getOrRegisterClient(c)
  \/ \E c \in Callers : connectionFails(c)
  \/ \E g \in Varying : cfxGetClientsByGroup(g)
  \/ \E g \in Varying : ethGetClientsByGroup(g)
  \/ \E c \in Callers : prunedGetLogs(c)
  \/ \E c \in Callers : getLogsByUser(c)
  \/ \E c \in Callers : Ref(c)
  \/ \E c \in Callers : RefFails(c)
  \/ \E c \in Callers : getLogsThrottled(c)
  \/ \E n \in Keys : SafeUnref(n)
  \/ \E n \in Keys : SafeUnrefAgain(n)
  \/ \E n \in Keys : Expire(n)

Spec == Init /\ [][Next]_vars

-----------------------------------------------------------------------------
(* The types of the router's state. *)
TypeOK ==
  /\ ring \in [Groups -> SUBSET Nodes] /\ \A g \in Groups : ring[g] \subseteq nodes[g]
  /\ DOMAIN local \subseteq Groups /\ clients \subseteq Groups \X Nodes
  /\ \A c \in Callers : req[c].pc \in {"idle", "routed", "throttle", "running"}

(* A request is routed to a node that is in its group now, that was in it  *)
(* when the local router was last told of the group, or to the failover:   *)
(* a node that was removed gets no request after the next poll, unless it  *)
(* was the last one of its group, which is not listed then.                *)
RoutedToCurrent ==
  \A c \in Callers :
    req[c].pc = "idle" /\ req'[c].pc = "routed" =>
      LET g == req'[c].group
          n == req'[c].node
      IN  \/ n \in nodes[g]
          \/ g \in DOMAIN polled /\ n \in polled[g]
          \/ n = Failover[g]

(* As long as no counter expires while a query holds it, the queries of    *)
(* pruned logs that run on a node exceed Quota by at most the decrements   *)
(* that SafeUnref repeated on the key: each lets in one query too many,    *)
(* until the key expires, and nothing else does.                           *)
QuotaHolds == ~lapsed => \A n \in Keys : Cardinality(Running(n)) <= Quota + repeated[n]

(* Refuted: SafeUnref decreases again what was decreased with a lost reply, *)
(* so that the quota itself is exceeded although no counter expired.        *)
QuotaIsExact == ~lapsed => \A n \in Keys : Cardinality(Running(n)) <= Quota
=============================================================================
