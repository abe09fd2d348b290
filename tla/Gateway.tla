------------------------------- MODULE Gateway -------------------------------
(***************************************************************************)
(* What a request passes on its way to the full nodes: the cached          *)
(* responses and the routing, with their parameters.                       *)
(***************************************************************************)
EXTENDS Integers, FiniteSets

CONSTANTS
  CacheCallers, CacheNodes, Timeout, MaxTime, MaxVersion, MaxFailures,
  Callers, Nodes, Initial, Varying, Failover, UserNode, Quota, MaxChanges, MaxFaults,
  None

VARIABLE part   \* the component that runs

VARIABLES rc_method, rc_now, rc_version, rc_at, rc_lru, rc_store, rc_owner, rc_call,
  rc_result, rc_failures

VARIABLES rt_space, rt_nodes, rt_ring, rt_up, rt_polled, rt_local, rt_clients, rt_req,
  rt_count, rt_unrefs, rt_lapsed, rt_repeated, rt_changes, rt_faults

rcVars == <<rc_method, rc_now, rc_version, rc_at, rc_lru, rc_store, rc_owner,
           rc_call, rc_result, rc_failures>>

rtVars == <<rt_space, rt_nodes, rt_ring, rt_up, rt_polled, rt_local,
           rt_clients, rt_req, rt_count, rt_unrefs, rt_lapsed, rt_repeated,
           rt_changes, rt_faults>>

RC == INSTANCE RpcCache WITH
  Callers <- CacheCallers, Nodes <- CacheNodes, method <- rc_method, now <- rc_now,
  version <- rc_version, at <- rc_at, lru <- rc_lru, store <- rc_store,
  owner <- rc_owner, call <- rc_call, result <- rc_result,
  failures <- rc_failures

RT == INSTANCE Routing WITH
  space <- rt_space, nodes <- rt_nodes,
  ring <- rt_ring, up <- rt_up, polled <- rt_polled, local <- rt_local,
  clients <- rt_clients, req <- rt_req, count <- rt_count,
  unrefs <- rt_unrefs, lapsed <- rt_lapsed, repeated <- rt_repeated,
  changes <- rt_changes, faults <- rt_faults

\* What the code takes for granted: expirations and the quota are numbers, and
\* every group has finitely many callers, nodes of its own and a failover or none.
ASSUME ResponsesAssumption ==
  Timeout \in Nat /\ MaxTime \in Nat /\ MaxVersion \in Nat /\ MaxFailures \in Nat

ASSUME RoutingAssumption ==
  /\ IsFiniteSet(Callers) /\ Quota \in Nat
  /\ Initial \in [RT!Groups -> SUBSET Nodes] /\ Varying \subseteq RT!Groups
  /\ Failover \in [RT!Groups -> Nodes \cup {None}]

-----------------------------------------------------------------------------
\* A cached response is at most the timeout older than the call that gets it, and
\* no caller gets the failure of another one, but for the JSON-RPC errors of
\* eth_call (getOrUpdateAt, CallWithFunc).
ResponsesAreRecent ==
  part = "responses" => RC!TypeOK /\ RC!ResponsesAreRecent /\ RC!FailuresAreNotShared
\* As long as no counter expires while a query holds it, a node runs at most one
\* query of pruned logs beyond its quota for each decrement of its counter that was
\* repeated after a lost reply (RefCounter.Ref, SafeUnref).
QuotaHolds == part = "routes" => RT!TypeOK /\ RT!QuotaHolds
\* No step routes a request to a node that had left the group when the local
\* router last polled it, but to the failover (LocalRouter.update, Route).
RoutesAreCurrent == [][part = "routes" => RT!RoutedToCurrent]_rtVars
=============================================================================
