----------------------------- MODULE MCSyncLive -----------------------------
(***************************************************************************)
(* The synchronisers and a reader of what they store, one at a time in     *)
(* small instances: the core space syncers that compete for the lease, the *)
(* fast catch-up, the eth syncer, and a getLogs call beside the writer of  *)
(* the store.  The behaviours are those of the four specifications: the    *)
(* variable part says which one runs, and the others do not start.         *)
(***************************************************************************)
EXTENDS MCReorgGuard, Syncers

CONSTANTS s1, s2, Orphan

VARIABLES ha_chain, ha_db, ha_lock, ha_status, ha_monitor, ha_pc, ha_from, ha_to,
  ha_slice, ha_popTo, ha_win, ha_reorgs, ha_faults
haVars == <<ha_chain, ha_db, ha_lock, ha_status, ha_monitor, ha_pc, ha_from, ha_to,
           ha_slice, ha_popTo, ha_win, ha_reorgs, ha_faults>>

\* Every client of the eth synchroniser offers the same ways to get receipts,
\* and blocks at height 2 are empty.
ReceiptMethods == [n \in 0 .. 1 |-> {2, 3}]
Transactions(h) == IF h[2] = 2 THEN 0 ELSE 1

\* The core space syncers and the reader share the chain g - a1 - a2 and its fork.
HA == INSTANCE HASync WITH
  Block <- Block, None <- None, Genesis <- Genesis, Parent <- Parent,
  LastEpoch <- LastEpoch, FromEpoch <- FromEpoch, Syncer <- {s1, s2},
  Orphan <- Orphan, MaxSyncEpochs <- 2, WinCapacity <- 2,
  Mishaps <- {}, MaxReorgs <- 1, MaxFaults <- 1, chain <- ha_chain,
  db <- ha_db, lock <- ha_lock, status <- ha_status, monitor <- ha_monitor,
  pc <- ha_pc, from <- ha_from, to <- ha_to, slice <- ha_slice,
  popTo <- ha_popTo, win <- ha_win, reorgs <- ha_reorgs, faults <- ha_faults

\* A store of the catch-up that holds the first epoch.
FirstEpoch == <<1>>

-----------------------------------------------------------------------------
SyncersInit ==
  /\ part \in {"core", "catch up", "eth", "reads"}
  /\ Init /\ HA!Init /\ CU!Init
  /\ ES!Init /\ (part # "eth" => \A n \in 0 .. 1 : es_node[n].height = 0)

Core == part = "core" /\ HA!LossyNext /\ UNCHANGED <<part, vars, cuVars, esVars>>
Catchup == part = "catch up" /\ CU!Next /\ UNCHANGED <<part, vars, haVars, esVars>>
Eth == part = "eth" /\ ES!Next /\ UNCHANGED <<part, vars, haVars, cuVars>>
Reads == part = "reads" /\ Next /\ UNCHANGED <<part, haVars, cuVars, esVars>>

SyncersNext == Core \/ Catchup \/ Eth \/ Reads

\* The fairness of each specification, for the part that runs.
CoreFair ==
  /\ WF_haVars(part = "core" /\ HA!GrowChain)
  /\ WF_haVars(part = "core" /\ HA!OrphanExpires)
  /\ \A s \in {s1, s2} :
       /\ WF_haVars(part = "core" /\ HA!LeaseExpires(s))
       /\ WF_haVars(part = "core" /\ HA!Start(s))
       /\ WF_haVars(part = "core" /\ HA!Elect(s))
       /\ WF_haVars(part = "core" /\ HA!SyncStep(s))

CatchupFair ==
  /\ WF_cuVars(part = "catch up" /\ CU!Loop)
  /\ WF_cuVars(part = "catch up" /\ CU!Collector)
  /\ \A w \in 1 .. 2 : WF_cuVars(part = "catch up" /\ CU!Worker(w))

EthFair ==
  /\ WF_esVars(part = "eth" /\ ES!Syncer)
  /\ WF_esVars(part = "eth" /\ ES!checkOnce)
  /\ WF_esVars(part = "eth" /\ ES!onElected)
  /\ WF_esVars(part = "eth" /\ ES!onOusted)

ReadsFair == WF_vars(part = "reads" /\ Step)

SyncersSpec ==
  /\ SyncersInit /\ [][SyncersNext]_<<part, vars, haVars, cuVars, esVars>>
  /\ CoreFair /\ CatchupFair /\ EthFair /\ ReadsFair
-----------------------------------------------------------------------------
\* However rounds of DatabaseSyncer fail and leaders change, the store reaches
\* the latest confirmed epoch of the full node and stays there.
CoreCatchesUp == part = "core" => HA!CatchesUp

\* If no batch fails to be stored for another reason than its epochs, Sync of
\* the catch-up reaches the last stable epoch and returns.
CatchUpEnds == part = "catch up" => CU!CatchesUp

\* When the nodes have settled, the monitor leads EthSyncer to a node that
\* does not lag, and the store gets as far as that node.
HealthyNodeIsReached == part = "eth" => ES!HealthyNodeIsReached
=============================================================================
