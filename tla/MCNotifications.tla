----------------------------- MODULE MCNotifications ------------------------
(***************************************************************************)
(* What follows the chain for users of the RPC service, one part at a time *)
(* in small instances: the virtual log filters, the subscriptions and the  *)
(* gas station.  The behaviours are those of the three specifications: the *)
(* variable part says which one runs, and the others do not start.         *)
(***************************************************************************)
EXTENDS Notifications

CONSTANTS Root, Nil, Marker

VARIABLES vf_space, vf_tip, vf_pending, vf_installed, vf_moves, vf_shutdown, vf_wpc,
  vf_batch, vf_chain, vf_cursor, vf_store, vf_managed, vf_fpc, vf_got,
  vf_view, vf_start, vf_seen, vf_due, vf_base, vf_excused

vfVars == <<vf_space, vf_tip, vf_pending, vf_installed, vf_moves, vf_shutdown,
           vf_wpc, vf_batch, vf_chain, vf_cursor, vf_store, vf_managed,
           vf_fpc, vf_got, vf_view, vf_start, vf_seen, vf_due, vf_base,
           vf_excused>>

VARIABLES gs_space, gs_nodes, gs_clients, gs_cliIndex, gs_from, gs_hashes, gs_window,
  gs_ranges, gs_status, gs_skipped, gs_moves

gsVars == <<gs_space, gs_nodes, gs_clients, gs_cliIndex, gs_from, gs_hashes,
           gs_window, gs_ranges, gs_status, gs_skipped, gs_moves>>

SideBlock == <<"side", 0>>
NoTip == -1

\* Transactions: blocks of one plain transaction and blocks of three.
Txn(exec, tip, fee) == [exec |-> exec, tip |-> tip, maxFee |-> fee]
Transactions ==
  [h \in {SideBlock} \cup ({"a", "b"} \X (0 .. 4)) |->
     CASE h = SideBlock -> <<Txn(TRUE, 3, 9), Txn(FALSE, 7, 9), Txn(TRUE, NoTip, 2)>>
       [] h # SideBlock /\ h[2] % 2 = 0 -> <<Txn(TRUE, NoTip, 0)>>
       [] OTHER -> <<Txn(TRUE, 2, 3), Txn(TRUE, NoTip, 7), Txn(TRUE, 4, 9)>>]

VF == INSTANCE VirtualFilter WITH
  Spaces <- {"eth", "cfx"}, Blocks <- {"a", "b", "c", "b2"},
  Parent <- [a |-> Root, b |-> "a", c |-> "b", b2 |-> "a"],
  Height <- [a |-> 1, b |-> 2, c |-> 3, b2 |-> 2], Filters <- {"f1"},
  Crit <- [f1 |-> {"b", "c", "b2"}], CacheSize <- 1, MaxPending <- 3,
  MaxMoves <- 4, DeepReorgs <- FALSE, space <- vf_space, tip <- vf_tip,
  pending <- vf_pending, installed <- vf_installed, moves <- vf_moves,
  shutdown <- vf_shutdown, wpc <- vf_wpc, batch <- vf_batch,
  chain <- vf_chain, cursor <- vf_cursor, store <- vf_store,
  managed <- vf_managed, fpc <- vf_fpc, got <- vf_got, view <- vf_view,
  start <- vf_start, seen <- vf_seen, due <- vf_due, base <- vf_base,
  excused <- vf_excused

GS == INSTANCE GasStation WITH
  Clients <- <<"n1", "n2">>, MaxHeight <- 4, SplitAt <- 0,
  SideEpoch <- [a |-> 1, b |-> 2], HistoricalPeekCount <- 2,
  MaxCachedBlockHashEpochs <- 2, Txs <- Transactions, Gasless <- {<<"b", 1>>, <<"a", 2>>},
  MaxMoves <- 3, space <- gs_space, nodes <- gs_nodes, clients <- gs_clients,
  cliIndex <- gs_cliIndex, from <- gs_from, hashes <- gs_hashes,
  window <- gs_window, ranges <- gs_ranges, status <- gs_status,
  skipped <- gs_skipped, moves <- gs_moves
\* The contexts of the subscriptions, and two clients, one with a filter.
AllKinds == {"cfxHeads", "cfxEpochs", "cfxLogs", "ethHeads", "ethLogs"}
WantedItems == [s1 |-> 1 .. 2, s2 |-> {2}]
-----------------------------------------------------------------------------
NotificationsInit ==
  /\ part \in {"filters", "subscriptions", "gas"}
  /\ VF!Init /\ (part # "filters" => vf_space = "eth")
  /\ Init /\ (part # "subscriptions" => kind = "ethLogs")
  /\ GS!Init /\ (part # "gas" => /\ gs_space = "eth" /\ gs_cliIndex = 0
                                 /\ \A n \in {"n1", "n2"} : gs_nodes[n].height = 2)

Filters == part = "filters" /\ VF!Next
         /\ UNCHANGED <<part, vars, gsVars>>
Subscriptions == part = "subscriptions" /\ Next
         /\ UNCHANGED <<part, vfVars, gsVars>>
Gas == part = "gas" /\ GS!Next
         /\ UNCHANGED <<part, vfVars, vars>>

NotificationsNext == Filters \/ Subscriptions \/ Gas

NotificationsSpec ==
  NotificationsInit /\ [][NotificationsNext]_<<part, vfVars, vars, gsVars>>

-----------------------------------------------------------------------------
\* After a poll of its filter the client believes in no log that a reorg has
\* removed, and in the EVM space it has every log since it installed the filter,
\* also those evicted from memory and read back (traverse, ethLogFilter.fetch).
FiltersDeliver ==
  part = "filters" => VF!TypeOK /\ VF!NoStaleLogs /\ VF!NoLostEthLogs
\* The blocks the gas station computes from are those of the epochs it can still
\* take back and, after blocks without a gas limit, older ones, each once and in
\* order; what it suggests grows with the urgency, within the fees it has seen
\* (handleReorg, Push, Calculate).
FeesAreOrdered ==
  part = "gas" => GS!TypeOK /\ GS!WindowIsOnOneChain /\ GS!SuggestionsAreOrdered
=============================================================================
