------------------------------- MODULE EthSync -------------------------------
(***************************************************************************)
(* The syncer of the eth space (sync/sync_eth.go) with the queries of      *)
(* store/eth_data.go and the monitor (sync/monitor/monitor.go) that makes  *)
(* it leave a full node which fails or no longer grows.  The leadership is *)
(* seen from this process: its lease, the status of its leader manager,    *)
(* and the writes of another leader while the lease is not held.           *)
(*                                                                         *)
(* Two forks "a" and "b" share the blocks up to SplitAt; the hash of a     *)
(* block is <<fork, number>>.                                              *)
(***************************************************************************)
EXTENDS Integers, Sequences

CONSTANTS
  NumClients,       \* the full nodes w3cs, counted from 0
  MaxHeight,        \* bound: height of the forks
  SplitAt,          \* the last block the forks share
  FromBlock,        \* config: the first block to synchronise
  MaxSyncBlocks,    \* config: blocks of a round
  Capacity,         \* of the pivot window
  MaxAllowedLag, Threshold, Remind,   \* config of the monitor
  Methods,          \* [clients -> sets of receipt methods they offer]
  TxCount(_),       \* the number of transactions of a block
  MaxMoves,         \* bound: switches of nodes and writes of the other leader
  MaxFaults         \* bound: failures of nodes and losses of the lease

VARIABLES
  node,      \* [clients -> [fork, height, up]]
  db,        \* the store: sequence of [hash, rcpts] of consecutive blocks
  win,       \* epochPivotWin: the hashes of consecutive blocks, by number
  w3cIdx,    \* the selected client
  round,     \* syncOnce: [pc, client, from, size, batch, block]
  method,    \* receipt method detected, 0 before the detection
  lease,     \* the lock in the database is held by this process
  elected,   \* electionStatus = StatusElected
  mon,       \* Monitor: [running, height, advanced, failures]
  settled,   \* the last round found nothing to do or failed
  moves, faults

vars == <<node, db, win, w3cIdx, round, method, lease, elected, mon, settled, moves, faults>>

Clients == 0..(NumClients - 1)
Forks == {"a", "b"}
BlockReceipts == 1
ParityReceipts == 2
TxnReceipt == 3

Pivot(k, n) == <<IF n <= SplitAt THEN "a" ELSE k, n>>
ParentHash(h) == Pivot(h[1], h[2] - 1)
NoHash == <<"none", 0>>
Idle == [pc |-> "idle", client |-> 0, from |-> 0, size |-> 0, batch |-> <<>>, block |-> NoHash]
\* What the store holds of a block of a fork: it, and its own receipts.
Data(h) == [hash |-> h, rcpts |-> IF TxCount(h) = 0 THEN NoHash ELSE h]
Chain(k, last) == [i \in 1..(last - FromBlock + 1) |-> Data(Pivot(k, FromBlock + i - 1))]

-----------------------------------------------------------------------------
\* The pivot window.
NoWindow == [n \in {} |-> NoHash]

\* Push, block by block.  The first one must be the child of the latest block in
\* the window, or else the window is reset; the others follow it by the continuity
\* of the batch.  The oldest blocks leave at the capacity.
Push(w, from, batch) ==
  LET to == from + Len(batch) - 1
      fits == \/ DOMAIN w = {}
              \/ /\ from - 1 \in DOMAIN w /\ \A n \in DOMAIN w : n < from
                 /\ w[from - 1] = ParentHash(batch[1].hash)
  IN  IF fits THEN [n \in {m \in DOMAIN w \cup (from..to) : m > to - Capacity} |->
                      IF n < from THEN w[n] ELSE batch[n - from + 1].hash]
      ELSE NoWindow

Popn(w, until) == [n \in {m \in DOMAIN w : m < until} |-> w[n]]

-----------------------------------------------------------------------------
\* The monitor.  A tick comes every MaxStalledDuration: the height grew within
\* that time if it grew since the last tick.
Update(height) ==
  mon' = [mon EXCEPT !.advanced = @ \/ height > mon.height, !.height = height]

Start == mon' = [mon EXCEPT !.running = TRUE, !.height = 0, !.advanced = FALSE]

Up == {n \in Clients : node[n].up}

\* Mutant: the height of the selected client instead of the highest one.
getLatestHeightOwn == IF node[w3cIdx].up THEN node[w3cIdx].height ELSE -1

\* The highest of the clients that answer, -1 for an error: none is above 0 and one
\* does not answer.
getLatestHeight ==
  LET above == {n \in Up : node[n].height > 0}
  IN  CASE above # {} -> CHOOSE h \in {node[n].height : n \in above} : \A n \in above : node[n].height <= h
        [] above = {} /\ Up = DOMAIN node -> 0
        [] OTHER -> -1

OnStateChange == w3cIdx' = (w3cIdx + 1) % NumClients

\* The counter of the health library tells when the threshold of failures is
\* reached and then reminds of it.
onFailure ==
  LET f == mon.failures + 1
      told == f = Threshold \/ f = Threshold + Remind
  IN  /\ mon' = [mon EXCEPT !.failures = IF f = Threshold + Remind THEN Threshold ELSE f,
                            !.advanced = FALSE]
      /\ IF told /\ NumClients > 1 THEN OnStateChange ELSE UNCHANGED w3cIdx

onSuccess ==
  /\ mon' = [mon EXCEPT !.failures = 0, !.advanced = FALSE]
  /\ UNCHANGED w3cIdx

Stalled == ~mon.advanced /\ mon.height + MaxAllowedLag - 1 < getLatestHeight

\* The period is far longer than the rounds the syncer needs to get what the
\* selected client has: a leader is settled when the tick comes.
checkOnce ==
  /\ mon.running
  /\ elected /\ lease => settled
  /\ IF getLatestHeight = -1 \/ Stalled THEN onFailure ELSE onSuccess
  /\ settled' = FALSE
  /\ UNCHANGED <<node, db, win, round, method, lease, elected, moves, faults>>

-----------------------------------------------------------------------------
\* Leadership.
onLeadershipChanged == win' = NoWindow

OnElected == Start /\ onLeadershipChanged

\* The lock is taken again only between the rounds.
onElected ==
  /\ ~lease /\ ~elected /\ round.pc = "idle"
  /\ lease' = TRUE /\ elected' = TRUE
  /\ OnElected
  /\ settled' = FALSE
  /\ UNCHANGED <<node, db, w3cIdx, round, method, moves, faults>>

LoseLease ==
  /\ lease /\ faults < MaxFaults
  /\ lease' = FALSE
  /\ faults' = faults + 1
  /\ UNCHANGED <<node, db, win, w3cIdx, round, method, elected, mon, settled, moves>>

\* onOusted calls the callbacks registered for elected, not those for ousted
\* (Monitor.Stop is one of these).
onOusted ==
  /\ ~lease /\ elected
  /\ elected' = FALSE
  /\ OnElected
  /\ UNCHANGED <<node, db, w3cIdx, round, method, lease, settled, moves, faults>>

\* Another leader has popped and pushed blocks.
OtherWrites(k, last) ==
  /\ ~lease /\ moves < MaxMoves
  /\ db' = Chain(k, last)
  /\ moves' = moves + 1
  /\ UNCHANGED <<node, win, w3cIdx, round, method, lease, elected, mon, settled, faults>>

-----------------------------------------------------------------------------
\* One round of the syncer.
loadLastSyncBlock == IF db = <<>> THEN FromBlock ELSE db[Len(db)].hash[2] + 1

nextBlockTo(from, recent) ==
  LET to == IF from + MaxSyncBlocks - 1 < recent THEN from + MaxSyncBlocks - 1 ELSE recent
  IN  to - from + 1

doTicker ==
  /\ round.pc = "idle" /\ elected
  /\ LET recent == node[w3cIdx].height
         from == loadLastSyncBlock
     IN  IF ~node[w3cIdx].up \/ from > recent
         THEN settled' = TRUE /\ UNCHANGED round
         ELSE /\ round' = [Idle EXCEPT !.pc = "block", !.client = w3cIdx, !.from = from,
                                       !.size = nextBlockTo(from, recent)]
              /\ UNCHANGED settled
  /\ UNCHANGED <<node, db, win, w3cIdx, method, lease, elected, mon, moves, faults>>

Number == round.from + Len(round.batch)
\* The block and the receipts are asked for by number, one after the other.
Here == Pivot(node[round.client].fork, Number)

queryBlock ==
  /\ round.pc = "block"
  /\ IF node[round.client].up
     THEN round' = [round EXCEPT !.pc = "receipts", !.block = Here] /\ UNCHANGED settled
     ELSE round' = Idle /\ settled' = TRUE
  /\ UNCHANGED <<node, db, win, w3cIdx, method, lease, elected, mon, moves, faults>>

\* The first method that the client offers, found out once for all clients.
Detect ==
  IF method # 0 THEN method
  ELSE CHOOSE m \in Methods[round.client] : \A x \in Methods[round.client] : m <= x

\* Mutant: receipts are taken as they come.
verifyEthTxnReceiptNever == TRUE

verifyEthTxnReceipt == TxCount(round.block) = 0 \/ Here = round.block

\* A transaction is asked for by its hash, one receipt each.
CountsDiffer == Detect # TxnReceipt /\ TxCount(Here) # TxCount(round.block)

queryFails ==
  \/ ~node[round.client].up
  \/ Detect \notin Methods[round.client]
  \/ CountsDiffer

\* The hash of the last block stored: from the window, else from the store.
getStoreLatestBlockHash ==
  LET n == round.from - 1
  IN  CASE round.from = 0 -> NoHash
        [] round.from # 0 /\ n \in DOMAIN win -> win[n]
        [] round.from # 0 /\ n \notin DOMAIN win ->
             IF n - FromBlock + 1 \in DOMAIN db THEN db[n - FromBlock + 1].hash ELSE NoHash

Finished(batch) == IF batch = <<>> THEN Idle ELSE [round EXCEPT !.pc = "push", !.batch = batch]

\* Mutant: a block that does not follow the previous one is not noticed.
IsContinuousToNever == TRUE

IsContinuousTo == ParentHash(round.block) = round.batch[Len(round.batch)].hash

Queried ==
  LET data == [hash |-> round.block, rcpts |-> IF TxCount(round.block) = 0 THEN NoHash ELSE Here]
      batch == Append(round.batch, data)
      latest == getStoreLatestBlockHash
  IN  CASE round.batch = <<>> /\ latest # NoHash /\ ParentHash(round.block) # latest ->
             [round EXCEPT !.pc = "revert"]
        [] round.batch # <<>> /\ ~IsContinuousTo -> Finished(SubSeq(round.batch, 1, Len(round.batch) - 1))
        [] OTHER -> IF Len(batch) = round.size THEN Finished(batch)
                    ELSE [round EXCEPT !.pc = "block", !.batch = batch]

queryReceipts ==
  /\ round.pc = "receipts"
  /\ method' = IF node[round.client].up THEN Detect ELSE method
  /\ CASE queryFails -> round' = Idle /\ settled' = TRUE
       [] ~queryFails /\ ~verifyEthTxnReceipt -> round' = Finished(round.batch) /\ settled' = FALSE
       [] OTHER -> round' = Queried /\ settled' = FALSE
  /\ UNCHANGED <<node, db, win, w3cIdx, lease, elected, mon, moves, faults>>

Extend == lease /\ elected

pushBlocks ==
  /\ round.pc = "push"
  /\ IF Extend
     THEN /\ db' = db \o round.batch
          /\ win' = Push(win, round.from, round.batch)
          /\ Update(round.from + Len(round.batch))
     ELSE UNCHANGED <<db, win, mon>>
  /\ round' = Idle
  /\ settled' = FALSE
  /\ UNCHANGED <<node, w3cIdx, method, lease, elected, moves, faults>>

\* The genesis block is not reverted: the round fails.
reorgRevert ==
  /\ round.pc = "revert"
  /\ LET revertTo == round.from - 1
     IN  IF Extend /\ revertTo # 0
         THEN /\ db' = SubSeq(db, 1, revertTo - FromBlock)
              /\ win' = Popn(win, revertTo)
         ELSE UNCHANGED <<db, win>>
  /\ round' = Idle
  /\ settled' = (round.from = 1)
  /\ UNCHANGED <<node, w3cIdx, method, lease, elected, mon, moves, faults>>

-----------------------------------------------------------------------------
\* The full nodes.
Grow(n) ==
  /\ node[n].up /\ node[n].height < MaxHeight
  /\ node' = [node EXCEPT ![n].height = @ + 1]
  /\ UNCHANGED <<db, win, w3cIdx, round, method, lease, elected, mon, settled, moves, faults>>

Switch(n) ==
  /\ node[n].up /\ moves < MaxMoves
  /\ node' = [node EXCEPT ![n].fork = IF @ = "a" THEN "b" ELSE "a"]
  /\ moves' = moves + 1
  /\ UNCHANGED <<db, win, w3cIdx, round, method, lease, elected, mon, settled, faults>>

Toggle(n) ==
  /\ faults < MaxFaults
  /\ node' = [node EXCEPT ![n].up = ~@]
  /\ faults' = faults + 1
  /\ UNCHANGED <<db, win, w3cIdx, round, method, lease, elected, mon, settled, moves>>

Init ==
  /\ node \in [Clients -> [fork : {"a"}, height : {FromBlock, MaxHeight}, up : {TRUE}]]
  /\ db = <<>> /\ win = NoWindow
  /\ w3cIdx = 0 /\ round = Idle /\ method = 0
  /\ lease = FALSE /\ elected = FALSE
  /\ mon = [running |-> FALSE, height |-> 0, advanced |-> FALSE, failures |-> 0]
  /\ settled = FALSE /\ moves = 0 /\ faults = 0

Syncer == doTicker \/ queryBlock \/ queryReceipts \/ pushBlocks \/ reorgRevert

Next ==
  \/ doTicker \/ queryBlock \/ queryReceipts \/ pushBlocks \/ reorgRevert
  \/ checkOnce \/ onElected \/ onOusted \/ LoseLease
  \/ \E k \in Forks, last \in FromBlock..MaxHeight : OtherWrites(k, last)
  \/ \E n \in Clients : Grow(n) \/ Switch(n) \/ Toggle(n)

\* The loop of Sync, the ticks of the monitor and the campaign go on.
Fairness == WF_vars(Syncer) /\ WF_vars(checkOnce) /\ WF_vars(onElected) /\ WF_vars(onOusted)

Spec == Init /\ [][Next]_vars /\ Fairness

-----------------------------------------------------------------------------
Hashes == Forks \X (0..MaxHeight)

TypeOK ==
  /\ node \in [Clients -> [fork : Forks, height : 0..MaxHeight, up : BOOLEAN]]
  /\ db \in Seq([hash : Hashes, rcpts : Hashes \cup {NoHash}])
  /\ win \in [DOMAIN win -> Hashes] /\ \A m, n \in DOMAIN win : n - m < Capacity
  /\ w3cIdx \in Clients /\ method \in 0..3
  /\ round.pc \in {"idle", "block", "receipts", "push", "revert"}
  /\ mon.failures \in 0..(Threshold + Remind)

\* The blocks stored form one chain and every block is stored with its own
\* receipts, whatever forks the full nodes change to between the queries of a
\* round, whichever client is selected, and whoever wrote before (syncOnce).
StoredIsChain ==
  \E k \in Forks : \A i \in 1..Len(db) : db[i] = Data(Pivot(k, FromBlock + i - 1))

\* As long as some full node answers, the store gets to within MaxAllowedLag of
\* all that answer: the monitor makes the syncer leave a client that is down
\* or that stopped growing while the others go on (checkOnce, OnStateChange).
\* Blocks reverted since count as stored: reorgRevert does not update the monitor.
HealthyNodeIsReached ==
  LET Caught == \A n \in Up : \/ loadLastSyncBlock - 1 + MaxAllowedLag >= node[n].height
                              \/ mon.height - 1 + MaxAllowedLag >= node[n].height
  IN  <>[](Up # {}) => <>[]Caught

\* A process that is not the leader runs no monitor (onOusted, Monitor.Stop).
FollowersAreNotMonitored == mon.running => elected
=============================================================================
