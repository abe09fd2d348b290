------------------------------ MODULE Services ------------------------------
(***************************************************************************)
(* The services in which something has to happen in the end, one at a      *)
(* time: the pool of full nodes, the relay of transactions and the caches  *)
(* of the configuration.  The behaviours are those of the three            *)
(* specifications: the variable part says which one runs, and the others   *)
(* do not start.                                                           *)
(***************************************************************************)
EXTENDS Integers, Sequences, FiniteSets

CONSTANTS
  PoolNodes, PoolGroups, PoolConf, Failures, Successes, FallBehind, MaxHead, MaxOps,
  Senders, Workers, Serving, GroupNodes, RelayNodes, BufferSize, MaxFaults,
  Requesters, Values, TTL, MaxChanges, MaxFailures,
  None

\* What the code takes for granted: the configuration names finitely many nodes
\* in finitely many groups, and thresholds, sizes and lifespans are numbers.
ASSUME PoolAssumption ==
  /\ IsFiniteSet(PoolNodes) /\ IsFiniteSet(PoolGroups)
  /\ PoolConf \in [PoolGroups -> SUBSET PoolNodes]
  /\ Failures \in Nat /\ Successes \in Nat /\ FallBehind \in Nat
  /\ MaxHead \in Nat /\ MaxOps \in Nat

ASSUME RelayAssumption == BufferSize \in Nat /\ MaxFaults \in Nat

ASSUME CacheAssumption == TTL \in Nat /\ MaxChanges \in Nat /\ MaxFailures \in Nat

VARIABLE part

VARIABLES np_cond, np_head, np_pool, np_managers, np_mgr, np_tick, np_saved, np_ops
npVars == <<np_cond, np_head, np_pool, np_managers, np_mgr, np_tick, np_saved, np_ops>>

VARIABLES tr_space, tr_relayTxn, tr_pc, tr_left, tr_txnQueue, tr_job, tr_clients,
  tr_tried, tr_got, tr_accepted, tr_faults
trVars == <<tr_space, tr_relayTxn, tr_pc, tr_left, tr_txnQueue, tr_job, tr_clients,
           tr_tried, tr_got, tr_accepted, tr_faults>>

VARIABLES kc_cache, kc_db, kc_pc, kc_loaded, kc_reply, kc_use, kc_quiet, kc_removed,
  kc_changes, kc_failures
kcVars == <<kc_cache, kc_db, kc_pc, kc_loaded, kc_reply, kc_use, kc_quiet, kc_removed,
           kc_changes, kc_failures>>

NP == INSTANCE NodePool WITH
  Nodes <- PoolNodes, Groups <- PoolGroups, Conf <- PoolConf, cond <- np_cond,
  head <- np_head, pool <- np_pool, managers <- np_managers, mgr <- np_mgr,
  tick <- np_tick, saved <- np_saved, ops <- np_ops

TR == INSTANCE TxnRelay WITH
  space <- tr_space, relayTxn <- tr_relayTxn, pc <- tr_pc,
  left <- tr_left, txnQueue <- tr_txnQueue, job <- tr_job,
  clients <- tr_clients, tried <- tr_tried, got <- tr_got,
  accepted <- tr_accepted, faults <- tr_faults

KC == INSTANCE KeyCache WITH
  cache <- kc_cache, db <- kc_db,
  pc <- kc_pc, loaded <- kc_loaded, reply <- kc_reply, use <- kc_use,
  quiet <- kc_quiet, removed <- kc_removed, changes <- kc_changes,
  failures <- kc_failures

-----------------------------------------------------------------------------
ServicesInit ==
  /\ part \in {"pool", "relay", "cache"}
  /\ NP!Init /\ TR!Init /\ KC!Init
  /\ part # "relay" => tr_space = "eth" /\ tr_relayTxn
  /\ part # "cache" => kc_use = "route group" /\ kc_db = None

Pool == part = "pool" /\ NP!Next /\ UNCHANGED <<part, trVars, kcVars>>
Relay == part = "relay" /\ TR!Next /\ UNCHANGED <<part, npVars, kcVars>>
Cache == part = "cache" /\ KC!Next /\ UNCHANGED <<part, npVars, trVars>>

ServicesNext == Pool \/ Relay \/ Cache

\* The fairness of each specification, for the part that runs.
PoolFair ==
  \A n \in PoolNodes :
    /\ WF_npVars(part = "pool" /\ NP!Monitor(n))
    /\ \A g \in PoolGroups : SF_npVars(part = "pool" /\ NP!Remind(n, g))

RelayFair ==
  /\ \A s \in Senders : WF_trVars(part = "relay" /\ TR!Sender(s))
  /\ \A w \in Workers : WF_trVars(part = "relay" /\ TR!Worker(w))

CacheFair ==
  /\ WF_kcVars(part = "cache" /\ KC!Tick)
  /\ \A r \in Requesters : WF_kcVars(part = "cache" /\ KC!Request(r))

ServicesSpec ==
  /\ ServicesInit
  /\ [][ServicesNext]_<<part, npVars, trVars, kcVars>>
  /\ PoolFair /\ RelayFair /\ CacheFair
-----------------------------------------------------------------------------
\* The groups that share a full node are counted (nodePool.add, nodePool.del).
SharedNodesAreCounted == part = "pool" => NP!TypeOK /\ NP!SharedNodesAreCounted

\* The hash rings follow the health of the full nodes (updateHealth): a node that
\* stays down leaves the rings, one that stays healthy is on them.
RingsFollowHealth == NP!FailingNodesLeave /\ NP!HealthyNodesReturn

\* A transaction travels only if the serving node took it (SendRawTxn returns at
\* its error), and the workers of the relay hold nothing else.
OnlyAcceptedTravel == part = "relay" => TR!TypeOK /\ TR!OnlyAcceptedTravel

\* A transaction in the queue of the relay is tried at all of its nodes, whatever
\* fails at some of them (relay, process), and whoever sends one is answered,
\* also a sender that waits for room in the queue (Relay checks the length first
\* and then sends).
RelayDelivers == TR!RelayedEverywhere /\ (part = "relay" => TR!SendersReturn)

\* A key that the database holds is taken for missing only for a while after a
\* query that failed (populateCache caches nil, cacheLoad extends it).
KnownKeysAreFound == part = "cache" => KC!TypeOK /\ KC!KnownKeysAreFound
\* A change of a key or of a route arrives at every request in the end, although
\* cacheLoad extends the life of what has expired.
ChangesArrive == part = "cache" => KC!ChangesArrive
=============================================================================
