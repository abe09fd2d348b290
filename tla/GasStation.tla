----------------------------- MODULE GasStation -----------------------------
(***************************************************************************)
(* The gas station (rpc/handler/*gasstation.go): it follows the newest     *)
(* epochs (core space) or blocks (eth space) of a cluster of full nodes,   *)
(* keeps the priority fees of the last blocks in a window, and suggests    *)
(* fees from it.  The nodes may be on different forks and at different     *)
(* heights, switch forks, and fail.                                        *)
(*                                                                         *)
(* Two forks "a" and "b" share the epochs up to SplitAt.  The pivot block  *)
(* of an epoch is <<fork, epoch>>.  In the core space one more block, the  *)
(* side block, is in epoch SideEpoch[fork], before the pivot block: after  *)
(* a switch it is found again in another epoch, with another number.       *)
(***************************************************************************)
EXTENDS Integers, Sequences, FiniteSets, SequencesExt

CONSTANTS
  Clients,                 \* full nodes of the group, a sequence of model values
  MaxHeight,               \* bound: height of the forks
  SplitAt,                 \* the last epoch the forks share
  SideEpoch,               \* [{"a", "b"} -> epochs]
  HistoricalPeekCount,     \* config: capacity of the window, epochs to peek
  MaxCachedBlockHashEpochs,
  Txs,                     \* [block hashes -> sequences of transactions]
  Gasless,                 \* block hashes without a gas limit
  MaxMoves                 \* bound: moves of the nodes, faults and refreshes

VARIABLES
  space,      \* "cfx" or "eth"
  nodes,      \* [ToSet(Clients) -> [fork, height]]
  clients,    \* h.clients
  cliIndex,   \* h.cliIndex, from 0
  from,       \* h.fromEpoch or h.fromBlock
  hashes,     \* blockHashList: sequence of sequences of hashes
  window,     \* feeChain: sequence of [number, hash, baseFee, tips]
  ranges,     \* historical ranges of base and priority fees
  status,     \* "ok" or "unavailable"
  skipped,    \* a block without a gas limit was handled: it is not in the window
  moves

vars == <<space, nodes, clients, cliIndex, from, hashes, window, ranges, status, skipped, moves>>
station == <<clients, cliIndex, from, hashes, window, ranges, status, skipped>>

Unset == -1
Side == <<"side", 0>>
Pivot(k, e) == <<IF e <= SplitAt THEN "a" ELSE k, e>>
HasSide(k, e) == space = "cfx" /\ SideEpoch[k] = e
\* The hashes of the blocks of an epoch, the pivot block last.  fetchBlocks
\* reads them and the blocks in several calls and fails when the pivot block
\* changes in between: what it returns is the epoch at one moment.
fetchBlocks(k, e) == IF HasSide(k, e) THEN <<Side, Pivot(k, e)>> ELSE <<Pivot(k, e)>>

\* Block numbers count the side block, which comes before its pivot block.
NumberOf(k, e, hash) ==
  LET before == IF space = "cfx" /\ SideEpoch[k] <= e THEN 1 ELSE 0
  IN  IF hash = Side THEN e ELSE e + before

BaseFee(hash) == IF hash = Side THEN 1 ELSE 1 + (hash[2] % 2)
MinOf(S) == CHOOSE x \in S : \A y \in S : x <= y
MaxOf(S) == CHOOSE x \in S : \A y \in S : y <= x

-----------------------------------------------------------------------------
(* The window: gasstation.go *)

\* A transaction is [exec, tip, maxFee]: executed in the block or not, the
\* priority fee and the fee (Unset when absent).  BlockPriorityFee.Append sorts.
cfxTips(hash) ==
  LET fee(t) == IF t.tip # Unset THEN t.tip ELSE t.maxFee - BaseFee(hash)
      taken == SelectSeq(Txs[hash], LAMBDA t : t.exec /\ (t.tip # Unset \/ t.maxFee >= BaseFee(hash)))
  IN  SortSeq([i \in DOMAIN taken |-> fee(taken[i])], <)

\* A transaction that was not executed has no fee in the eth space.
ethTips(hash) ==
  LET fee(t) == IF t.tip # Unset THEN t.tip ELSE t.maxFee - BaseFee(hash)
      taken == SelectSeq(Txs[hash], LAMBDA t : t.tip # Unset \/ t.maxFee >= BaseFee(hash))
  IN  SortSeq([i \in DOMAIN taken |-> fee(taken[i])], <)

\* insertBlock: after the last block with a smaller number.
insertBlock(w, b) ==
  LET before == {i \in DOMAIN w : w[i].number < b.number}
      at == IF before = {} THEN 0 ELSE MaxOf(before)
  IN  SubSeq(w, 1, at) \o <<b>> \o SubSeq(w, at + 1, Len(w))

Widen(range, lo, hi) ==
  IF range = <<>> THEN <<lo, hi>> ELSE <<MinOf({range[1], lo}), MaxOf({range[2], hi})>>

updateHistoricalBaseFeeRange(range, b) == Widen(range, b.baseFee, b.baseFee)
updateHistoricalPriorityFeeRange(range, b) ==
  IF b.tips = <<>> THEN range ELSE Widen(range, b.tips[1], b.tips[Len(b.tips)])

\* PriorityFeeWindow.Push: the oldest blocks leave a full window.
Push(s, b) ==
  IF \E i \in DOMAIN s.window : s.window[i].hash = b.hash THEN s
  ELSE LET w == insertBlock(s.window, b)
           over == IF Len(w) > HistoricalPeekCount THEN Len(w) - HistoricalPeekCount ELSE 0
       IN  [window |-> SubSeq(w, over + 1, Len(w)),
            ranges |-> [base |-> updateHistoricalBaseFeeRange(s.ranges.base, b),
                        tip  |-> updateHistoricalPriorityFeeRange(s.ranges.tip, b)]]

RemoveBlocks(w, gone) == SelectSeq(w, LAMBDA b : b.hash \notin ToSet(gone))

\* Mutant: the high percentiles count from the wrong end.
PercentileOff(b, p) ==
  LET n == Len(b.tips)
      index == IF p > 50 THEN 1 ELSE (p * n + 99) \div 100
  IN  b.tips[IF index > n THEN n ELSE index]

\* The p-th percentile of the tips of a block.
Percentile(b, p) ==
  LET n == Len(b.tips)
      index == IF p = 0 THEN 1 ELSE (p * n + 99) \div 100
  IN  b.tips[IF index > n THEN n ELSE index]

calculateAvgPriorityFee(p) ==
  LET fees == SelectSeq(window, LAMBDA b : b.tips # <<>>)
  IN  IF fees = <<>> THEN Unset
      ELSE FoldLeft(LAMBDA acc, b : acc + Percentile(b, p), 0, fees) \div Len(fees)

calculateLatestPriorityFeeRange ==
  FoldLeft(LAMBDA acc, b : IF b.tips = <<>> THEN acc ELSE Widen(acc, b.tips[1], b.tips[Len(b.tips)]),
           <<>>, window)

determineTrend(prev, latest) ==
  CASE prev < latest -> "up" [] prev > latest -> "down" [] OTHER -> "flat"

Median0(b) == IF b.tips = <<>> THEN 0 ELSE Percentile(b, 50)

calculateFeeTrend ==
  IF Len(window) < 2 THEN [tip |-> "up", base |-> "up"]
  ELSE LET prev == window[Len(window) - 1]
           latest == window[Len(window)]
       IN  [tip |-> determineTrend(Median0(prev), Median0(latest)),
            base |-> determineTrend(prev.baseFee, latest.baseFee)]

\* The average fee of each of the three levels, Unset when no block of the window
\* has a transaction.
Percentiles == <<1, 50, 99>>
calculateAvgPriorityFees == [i \in 1..3 |-> calculateAvgPriorityFee(Percentiles[i])]

Calculate ==
  [avg |-> calculateAvgPriorityFees, latest |-> calculateLatestPriorityFeeRange,
   ranges |-> ranges, trend |-> calculateFeeTrend]

checkStatus == status = "ok"

assembleSuggestedGasFees(baseFee, stats) ==
  [maxPriorityFee |-> stats.avg, maxFee |-> [i \in 1..3 |-> baseFee + stats.avg[i]],
   latest |-> stats.latest, ranges |-> stats.ranges, trend |-> stats.trend]

\* What node c suggests itself when the window has nothing to estimate from.
OracleFee == 1
OrOracle(stats) == IF stats.avg[1] = Unset THEN [stats EXCEPT !.avg = [i \in 1..3 |-> OracleFee]] ELSE stats

cfxSuggest(c) == assembleSuggestedGasFees(BaseFee(Pivot(nodes[c].fork, nodes[c].height)), OrOracle(Calculate))
ethSuggest(c) == assembleSuggestedGasFees(BaseFee(Pivot(nodes[c].fork, nodes[c].height)), OrOracle(Calculate))
Suggest(c) == IF space = "cfx" THEN cfxSuggest(c) ELSE ethSuggest(c)

-----------------------------------------------------------------------------
(* Following the chain: cfx_gasstation.go, eth_gasstation.go *)

cfxHandleBlock(s, k, e, hash) ==
  IF hash \in Gasless THEN s ELSE Push(s, [number |-> NumberOf(k, e, hash), hash |-> hash, baseFee |-> BaseFee(hash), tips |-> cfxTips(hash)])
ethHandleBlock(s, k, e, hash) ==
  IF hash \in Gasless THEN s ELSE Push(s, [number |-> e, hash |-> hash, baseFee |-> BaseFee(hash), tips |-> ethTips(hash)])

prevEpochPivotBlockHash == IF hashes = <<>> THEN <<>> ELSE LET last == hashes[Len(hashes)] IN last[Len(last)]
pushHashes(hs) ==
  LET all == Append(hashes, hs)
  IN  IF Len(all) > MaxCachedBlockHashEpochs THEN Tail(all) ELSE all

pop(hs) == SubSeq(hs, 1, Len(hs) - 1)

\* Mutant: only the pivot block leaves the window.
cfxHandleReorgPivot(w) == SelectSeq(w, LAMBDA b : b.hash # prevEpochPivotBlockHash)

\* The blocks of the last epoch leave the window.
cfxHandleReorg(w) == RemoveBlocks(w, hashes[Len(hashes)])
ethHandleReorg(w) == SelectSeq(w, LAMBDA b : b.hash # hashes[Len(hashes)][1])

caughtUp(c) == from > nodes[c].height

\* One epoch or block of node c: nothing new, a reorg, or a block to handle.
trySync(c, handle(_, _, _, _), handleReorg(_)) ==
  LET k == nodes[c].fork
      eh == fetchBlocks(k, from)
  IN  CASE caughtUp(c) -> UNCHANGED <<from, hashes, window, ranges, skipped>>
        [] ~caughtUp(c) /\ hashes # <<>> /\ prevEpochPivotBlockHash # Pivot(k, from - 1) ->
             /\ window' = handleReorg(window)
             /\ hashes' = pop(hashes)
             /\ from' = from - 1
             /\ UNCHANGED <<ranges, skipped>>
        [] OTHER ->
             /\ \E s \in {FoldLeft(LAMBDA acc, hash : handle(acc, k, from, hash),
                                   [window |-> window, ranges |-> ranges], eh)} :
                  window' = s.window /\ ranges' = s.ranges
             /\ hashes' = pushHashes(eh)
             /\ skipped' = (skipped \/ ToSet(eh) \cap Gasless # {})
             /\ from' = from + 1

cfxTrySync(c) == trySync(c, cfxHandleBlock, cfxHandleReorg)
ethTrySync(c) == trySync(c, ethHandleBlock, ethHandleReorg)

\* The index of the n-th node sync tries.
Tried(n) == (cliIndex + n - 1) % Len(clients)

\* sync: the first n - 1 nodes fail with an io error or a pivot switch between
\* two calls; the n-th answers.  The main client becomes the one that answered.
sync(n) ==
  /\ clients # <<>> /\ n <= Len(clients)
  /\ moves + (n - 1) <= MaxMoves
  /\ cliIndex' = Tried(n)
  /\ status' = "ok"
  /\ moves' = moves + (n - 1)
  /\ UNCHANGED <<space, nodes, clients>>

cfxSync(n) == space = "cfx" /\ sync(n) /\ cfxTrySync(clients[1 + Tried(n)])
ethSync(n) == space = "eth" /\ sync(n) /\ ethTrySync(clients[1 + Tried(n)])

\* All nodes fail, or there is none.
syncFails ==
  /\ moves < MaxMoves \/ clients = <<>>
  /\ status' = "unavailable"
  /\ moves' = IF clients = <<>> THEN moves ELSE moves + 1
  /\ cliIndex' = IF clients = <<>> THEN cliIndex ELSE Tried(1)
  /\ UNCHANGED <<space, nodes, clients, from, hashes, window, ranges, skipped>>

\* A json-rpc error counts as an answer.
syncRefused(n) ==
  /\ clients # <<>> /\ n <= Len(clients) /\ moves < MaxMoves
  /\ cliIndex' = Tried(n)
  /\ status' = "ok"
  /\ moves' = moves + 1
  /\ UNCHANGED <<space, nodes, clients, from, hashes, window, ranges, skipped>>

refreshClusterNodes ==
  /\ moves < MaxMoves
  /\ \E cs \in {<<>>, Clients, Tail(Clients)} :
       /\ cs # clients
       /\ clients' = cs
  /\ moves' = moves + 1
  /\ UNCHANGED <<space, nodes, cliIndex, from, hashes, window, ranges, status, skipped>>

-----------------------------------------------------------------------------
(* The nodes *)

Grow(c) ==
  /\ nodes[c].height < MaxHeight
  /\ nodes' = [nodes EXCEPT ![c].height = @ + 1]
  /\ UNCHANGED <<space, moves>> /\ UNCHANGED station

Switch(c, k) ==
  /\ k # nodes[c].fork /\ moves < MaxMoves
  /\ nodes' = [nodes EXCEPT ![c].fork = k]
  /\ moves' = moves + 1
  /\ UNCHANGED space /\ UNCHANGED station

\* A random node is the main one; it is at least as high as the epochs to peek
\* (the subtraction would wrap around).
Init ==
  /\ space \in {"cfx", "eth"}
  /\ nodes \in [ToSet(Clients) -> [fork : {"a"}, height : {HistoricalPeekCount, HistoricalPeekCount + 1}]]
  /\ clients = Clients /\ cliIndex \in 0..(Len(Clients) - 1)
  /\ from = nodes[Clients[cliIndex + 1]].height - HistoricalPeekCount
  /\ hashes = <<>> /\ window = <<>> /\ ranges = [base |-> <<>>, tip |-> <<>>]
  /\ status = "ok" /\ skipped = FALSE /\ moves = 0

Next ==
  \/ \E n \in 1..Len(clients) : cfxSync(n)
  \/ \E n \in 1..Len(clients) : ethSync(n)
  \/ \E n \in 1..Len(clients) : syncRefused(n)
  \/ syncFails
  \/ refreshClusterNodes
  \/ \E c \in ToSet(Clients) : Grow(c)
  \/ \E c \in ToSet(Clients), k \in {"a", "b"} : Switch(c, k)

Spec == Init /\ [][Next]_vars

-----------------------------------------------------------------------------
(* The types of the station. *)
TypeOK ==
  /\ status \in {"ok", "unavailable"} /\ from \in 0..(MaxHeight + 1)
  /\ cliIndex \in 0..(Len(Clients) - 1)
  /\ Len(window) <= HistoricalPeekCount /\ Len(hashes) <= MaxCachedBlockHashEpochs

Kept(hash) == \E j \in DOMAIN hashes : hash \in ToSet(hashes[j])
EpochOf(b) == IF b.hash = Side THEN b.number ELSE b.hash[2]

(* The epochs whose hashes are kept form one chain that ends right before  *)
(* the next epoch to fetch.  The window is in ascending order, has each    *)
(* block once, and holds blocks of these epochs only: no block of an       *)
(* abandoned fork remains after the reorg was noticed, whichever nodes     *)
(* answered in between.  Once a block without a gas limit was handled,     *)
(* which takes the place of an epoch and none of the window, older blocks  *)
(* may be left, but never one of the epochs that are kept or to come.      *)
WindowIsOnOneChain ==
  /\ \E k \in {"a", "b"} :
       \A i \in DOMAIN hashes : hashes[i] = fetchBlocks(k, from - 1 - (Len(hashes) - i))
  /\ \A i, j \in DOMAIN window : i < j =>
       window[i].number <= window[j].number /\ window[i].hash # window[j].hash
  /\ \A i \in DOMAIN window :
       Kept(window[i].hash) \/ (skipped /\ EpochOf(window[i]) < from - Len(hashes))

(* Refuted: with blocks without a gas limit the window reaches back beyond *)
(* the hashes that are kept, and a reorg of all of these leaves a block of *)
(* the abandoned fork in it, beside those of the new one.                  *)
WindowIsOfOneFork ==
  \E k \in {"a", "b"} : \A i \in DOMAIN window : window[i].hash \in {Side, Pivot(k, EpochOf(window[i]))}

(* The suggestion for a higher level of urgency is never smaller, and when *)
(* the window has transactions all are within the fees of the window,      *)
(* which are within the historical range.                                  *)
SuggestionsAreOrdered ==
  \A c \in ToSet(Clients) : checkStatus =>
    LET s == Suggest(c)
    IN  /\ \A i \in 1..2 : s.maxPriorityFee[i] <= s.maxPriorityFee[i + 1] /\ s.maxFee[i] <= s.maxFee[i + 1]
        /\ s.latest # <<>> =>
             /\ s.latest[1] <= s.maxPriorityFee[1] /\ s.maxPriorityFee[3] <= s.latest[2]
             /\ s.ranges.tip[1] <= s.latest[1] /\ s.latest[2] <= s.ranges.tip[2]
=============================================================================
