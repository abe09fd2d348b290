------------------------------- MODULE Syncers -------------------------------
(***************************************************************************)
(* The epoch-by-epoch catch-up of the core space and the syncer of the eth *)
(* space, with their parameters.                                           *)
(***************************************************************************)
EXTENDS Integers, Sequences

CONSTANTS
  NumWorkers, ChanSize, EpochFrom, Stable, BatchSize, InitialDb, MaxFailures,
  NumClients, MaxHeight, SplitAt, FromBlock, MaxSyncBlocks, Capacity, MaxAllowedLag,
  Threshold, Remind, Methods, TxCount(_), MaxMoves, MaxFaults

VARIABLE part   \* the component that runs

VARIABLES cu_db, cu_pc, cu_range, cu_worker, cu_chan, cu_collector, cu_cancelled,
  cu_failures

VARIABLES es_node, es_db, es_win, es_w3cIdx, es_round, es_method, es_lease,
  es_elected, es_mon, es_settled, es_moves, es_faults

cuVars == <<cu_db, cu_pc, cu_range, cu_worker, cu_chan, cu_collector, cu_cancelled,
           cu_failures>>

esVars == <<es_node, es_db, es_win, es_w3cIdx, es_round, es_method, es_lease,
           es_elected, es_mon, es_settled, es_moves, es_faults>>

CU == INSTANCE CatchUp WITH
  db <- cu_db, pc <- cu_pc, range <- cu_range, worker <- cu_worker, chan <- cu_chan,
  collector <- cu_collector, cancelled <- cu_cancelled, failures <- cu_failures

ES == INSTANCE EthSync WITH
  node <- es_node, db <- es_db, win <- es_win, w3cIdx <- es_w3cIdx, round <- es_round,
  method <- es_method, lease <- es_lease, elected <- es_elected, mon <- es_mon,
  settled <- es_settled, moves <- es_moves, faults <- es_faults

\* What the configuration and the database give: numbers, at least one worker,
\* and epochs that are consecutive at the start.
ASSUME CatchUpAssumption ==
  /\ NumWorkers \in Nat \ {0} /\ ChanSize \in Nat /\ MaxFailures \in Nat
  /\ EpochFrom \in Nat /\ Stable \in Int /\ BatchSize \in Int
  /\ InitialDb \in Seq(Int) /\ \A k \in DOMAIN InitialDb : InitialDb[k] = InitialDb[1] + k - 1

\* At least one client, each with a way to get receipts, and rounds and a window
\* of at least one block.
ASSUME EthSyncAssumption ==
  /\ NumClients \in Nat \ {0} /\ MaxHeight \in Nat /\ FromBlock \in 0 .. MaxHeight
  /\ SplitAt \in Nat /\ MaxSyncBlocks \in Nat \ {0} /\ Capacity \in Nat \ {0}
  /\ Threshold \in Nat /\ Remind \in Nat \ {0}
  /\ Methods \in [ES!Clients -> (SUBSET (1 .. 3)) \ {{}}]

-----------------------------------------------------------------------------
\* The epochs that persist stores are consecutive, whatever results of an
\* earlier round the channels of the workers still hold.
EpochsAreConsecutive == part = "catch up" => CU!TypeOK /\ CU!EpochsAreConsecutive
\* The blocks pushBlocks stores are one chain, each the parent of the next,
\* through reorgRevert, node switches and receipts of other blocks.
StoredIsChain == part = "eth" => ES!TypeOK /\ ES!StoredIsChain
=============================================================================
