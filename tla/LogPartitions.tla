---------------------------- MODULE LogPartitions ----------------------------
(***************************************************************************)
(* Event logs partitioned by block number (store/mysql/store_log.go and    *)
(* store_common_partition_bn.go): a writer that pushes blocks onto and     *)
(* pops them from the latest partition, a pruner that drops the oldest     *)
(* partitions (store_pruner.go), and a reader that searches for the        *)
(* partitions of a block range and then queries them one by one.           *)
(*                                                                         *)
(* The rows of table bn_partitions are the router: index, count and block  *)
(* range of every partition.  The logs of a block are in one table; an     *)
(* epoch has one block, as every epoch of the EVM space has.               *)
(***************************************************************************)
EXTENDS Integers, FiniteSets, FiniteSetsExt

CONSTANTS
  LastBn,       \* bound: the last block number
  LastIndex,    \* bound: the last partition index
  MaxLogs,      \* bound: the logs of a block
  MaxBatch,     \* syncConfig.MaxEpochs
  VolumeSize,   \* bnPartitionedLogVolumeSize
  MaxArchive,   \* config.MaxBnRangedArchiveLogPartitions
  MaxPops,      \* bound: pops
  Nil           \* NULL, or nothing

ASSUME LogPartitionsAssumption ==
  /\ LastBn \in Nat /\ LastIndex \in Nat /\ MaxLogs \in Nat /\ MaxPops \in Nat
  /\ MaxBatch \in Nat \ {0} /\ VolumeSize \in Nat \ {0} /\ MaxArchive \in Nat
  /\ Nil \notin Int

Bn == 0 .. LastBn
Index == 0 .. LastIndex

\* The rows of the logs of the blocks in s, and how many there are.
RowsOf(n, s) == {l \in s \X (1 .. MaxLogs) : l[2] <= n[l[1]]}
SumLogs(n, s) == Cardinality(RowsOf(n, s))

VARIABLES
  height,   \* the latest stored block (table epoch_block_map), -1 for none
  nlogs,    \* the number of logs of every stored block
  oldest, latest,  \* the indexes of the partitions are oldest .. latest
  count,    \* Count of every partition
  bnMin, bnMax,    \* BnMin and BnMax of every partition, Nil for NULL
  table,    \* the partition whose table holds the logs of a block, or Nil
  tables,   \* the partition tables that exist
  ready,    \* the writer has prepared the partition it is about to write
  observed, \* the pruner knows of a new partition
  pruning,  \* the last index of a prune in progress, or Nil
  dropping, \* the index whose row is deleted and whose table is not yet
  pc,       \* the next step of the reader
  lo, hi,   \* the block range it searches
  parts,    \* the partitions it has yet to query
  res,      \* the blocks whose logs it has found
  calm,     \* history: nothing was popped or pruned since the search began
  pops

router == <<oldest, latest, count, bnMin, bnMax>>
blocks == <<height, nlogs, table>>
pruner == <<observed, pruning, dropping>>
reader == <<pc, lo, hi, parts, res>>
vars == <<router, blocks, tables, ready, pruner, reader, calm, pops>>

Partition == oldest .. latest

TypeOK ==
  /\ height \in -1 .. LastBn
  /\ nlogs \in [Bn -> 0 .. MaxLogs]
  /\ oldest \in 0 .. LastIndex + 1 /\ latest \in -1 .. LastIndex
  /\ count \in [Index -> Nat]
  /\ bnMin \in [Index -> Bn \cup {Nil}] /\ bnMax \in [Index -> Bn \cup {Nil}]
  /\ table \in [Bn -> Index \cup {Nil}]
  /\ tables \subseteq Index
  /\ ready \in BOOLEAN /\ observed \in BOOLEAN /\ calm \in BOOLEAN
  /\ pruning \in Index \cup {Nil} /\ dropping \in Index \cup {Nil}
  /\ pc \in {"idle", "range", "search", "query", "done"}
  /\ lo \in Bn /\ hi \in Bn
  /\ parts \subseteq Index
  /\ res \subseteq Bn
  /\ pops \in 0 .. MaxPops

Init ==
  /\ height = -1
  /\ nlogs = [b \in Bn |-> 0]
  /\ oldest = 0 /\ latest = -1
  /\ count = [i \in Index |-> 0]
  /\ bnMin = [i \in Index |-> Nil] /\ bnMax = [i \in Index |-> Nil]
  /\ table = [b \in Bn |-> Nil]
  /\ tables = {}
  /\ ready = FALSE /\ observed = FALSE /\ calm = TRUE
  /\ pruning = Nil /\ dropping = Nil
  /\ pc = "idle" /\ lo = 0 /\ hi = 0 /\ parts = {} /\ res = {}
  /\ pops = 0
-----------------------------------------------------------------------------
(* The writer.                                                             *)

\* autoPartition: the latest partition, or a new one when there is none or
\* the latest is full.  Table and row are created outside the transaction
\* that follows, and the pruner is told.
preparePartition ==
  /\ ~ready
  /\ height < LastBn
  /\ ready' = TRUE
  /\ IF latest < oldest \/ count[latest] >= VolumeSize
     THEN /\ latest < LastIndex
          /\ latest' = latest + 1
          /\ tables' = tables \cup {latest + 1}
          /\ observed' = TRUE
     ELSE UNCHANGED <<latest, tables, observed>>
  /\ UNCHANGED <<oldest, count, bnMin, bnMax, blocks, pruning, dropping, reader, calm, pops>>

\* Mutant of expandBnRange: the end of the batch counted as exclusive.
ExpandTooFar(from, to) ==
  /\ bnMin' = [bnMin EXCEPT ![latest] = IF @ = Nil THEN from ELSE @]
  /\ bnMax' = [bnMax EXCEPT ![latest] = to + 1]

expandBnRange(from, to) ==
  /\ bnMin' = [bnMin EXCEPT ![latest] = IF @ = Nil THEN from ELSE @]
  /\ bnMax' = [bnMax EXCEPT ![latest] = to]

\* Add, in one transaction: expandBnRange, the rows, deltaUpdateCount.
Add ==
  /\ ready
  /\ ready' = FALSE
  /\ \E n \in 1 .. MaxBatch :
       /\ height + n <= LastBn
       /\ \E logs \in [height + 1 .. height + n -> 0 .. MaxLogs] :
            LET new == DOMAIN logs
            IN  /\ nlogs' = [b \in Bn |-> IF b \in new THEN logs[b] ELSE nlogs[b]]
                /\ table' = [b \in Bn |-> IF b \in new /\ logs[b] > 0 THEN latest ELSE table[b]]
                /\ count' = [count EXCEPT ![latest] = @ + SumLogs(logs, new)]
       /\ expandBnRange(height + 1, height + n)
       /\ height' = height + n
  /\ UNCHANGED <<oldest, latest, tables, pruner, reader, calm, pops>>

\* The transaction rolls back.
AddFails ==
  /\ ready
  /\ ready' = FALSE
  /\ UNCHANGED <<router, blocks, tables, pruner, reader, calm, pops>>

\* The loop of shrinkBnRange: from the latest partition down to the first whose
\* range is below b; partitions without a range are skipped.
Shrunk(b) == {i \in Partition : bnMax[i] # Nil /\ bnMax[i] >= b
                                /\ \A j \in i .. latest : bnMax[j] # Nil => bnMax[j] >= b}

\* Mutant of shrinkBnRange: a partition emptied by a pop keeps its bn_min.
ShrinkKeepsMin(b) ==
  /\ bnMin' = bnMin
  /\ bnMax' = [i \in Index |-> IF i \in Shrunk(b) THEN b - 1 ELSE bnMax[i]]

shrinkBnRange(b) ==
  /\ bnMin' = [i \in Index |-> IF i \in Shrunk(b) /\ bnMin[i] >= b THEN Nil ELSE bnMin[i]]
  /\ bnMax' = [i \in Index |-> IF i \notin Shrunk(b) THEN bnMax[i]
                               ELSE IF bnMin[i] >= b THEN Nil ELSE b - 1]

\* The logs that Popn deletes from the table of partition i.
Deleted(i, b) == {c \in Bn : c >= b /\ table[c] = i}

\* Mutant of deltaUpdateCount: the counts keep the logs that were popped.
UpdateNoCount(b) == UNCHANGED count

\* deltaUpdateCount accepts the latest partition only, unless nothing changes.
PopOk(b) == \A i \in Shrunk(b) : Deleted(i, b) # {} => i = latest

deltaUpdateCount(b) ==
  count' = [i \in Index |-> IF i \in Shrunk(b)
                            THEN Max({0, count[i] - SumLogs(nlogs, Deleted(i, b))})
                            ELSE count[i]]

\* Popn, in the transaction of the pop: an error of deltaUpdateCount rolls all
\* of it back.
Popn ==
  /\ ~ready
  /\ pops < MaxPops
  /\ pops' = pops + 1
  /\ \E b \in 1 .. height :
       /\ PopOk(b)
       /\ shrinkBnRange(b)
       /\ deltaUpdateCount(b)
       /\ table' = [c \in Bn |-> IF c >= b /\ table[c] \in Shrunk(b) THEN Nil ELSE table[c]]
       /\ nlogs' = [c \in Bn |-> IF c >= b THEN 0 ELSE nlogs[c]]
       /\ height' = b - 1
  /\ calm' = FALSE
  /\ UNCHANGED <<oldest, latest, tables, ready, pruner, reader>>
-----------------------------------------------------------------------------
(* The pruner: pruneArchivePartitions, one shrinkPartition after another.  *)

Prune ==
  /\ observed
  /\ pruning = Nil
  /\ pruning' = latest
  /\ UNCHANGED <<router, blocks, tables, ready, observed, dropping, reader, calm, pops>>

\* shrinkPartition deletes the row of the oldest partition,
PruneRow ==
  /\ pruning # Nil /\ dropping = Nil
  /\ pruning - oldest > MaxArchive
  /\ dropping' = oldest
  /\ oldest' = oldest + 1
  /\ calm' = FALSE
  /\ UNCHANGED <<latest, count, bnMin, bnMax, blocks, tables, ready, observed, pruning, reader, pops>>

\* and then drops its table.
PruneTable ==
  /\ dropping # Nil
  /\ tables' = tables \ {dropping}
  /\ table' = [b \in Bn |-> IF table[b] = dropping THEN Nil ELSE table[b]]
  /\ dropping' = Nil
  /\ UNCHANGED <<router, height, nlogs, ready, observed, pruning, reader, calm, pops>>

\* A failure to drop it is logged and forgotten.
PruneTableFails ==
  /\ dropping # Nil
  /\ dropping' = Nil
  /\ UNCHANGED <<router, blocks, tables, ready, observed, pruning, reader, calm, pops>>

PruneEnd ==
  /\ pruning # Nil /\ dropping = Nil
  /\ pruning - oldest <= MaxArchive
  /\ pruning' = Nil
  /\ observed' = FALSE
  /\ UNCHANGED <<router, blocks, tables, ready, dropping, reader, calm, pops>>

\* The process of the writer and the pruner starts again.
Restart ==
  /\ ready \/ observed
  /\ ready' = FALSE
  /\ observed' = FALSE /\ pruning' = Nil /\ dropping' = Nil
  /\ UNCHANGED <<router, blocks, tables, reader, calm, pops>>
-----------------------------------------------------------------------------
(* The reader: searchPartitions and the queries of logStore.GetLogs.       *)

\* The handler asks the database for stored blocks only (splitLogFilter).
GetLogs ==
  /\ pc = "idle"
  /\ height >= 0
  /\ hi' \in 0 .. height
  /\ lo' \in 0 .. hi'
  /\ pc' = "range"
  /\ parts' = {} /\ res' = {}
  /\ calm' = TRUE
  /\ UNCHANGED <<router, blocks, tables, ready, pruner, pops>>

Leave == pc' = "idle" /\ lo' = 0 /\ hi' = 0 /\ parts' = {} /\ res' = {}

Unmoved == UNCHANGED <<router, blocks, tables, ready, pruner, calm, pops>>

\* bnRange: MIN(bn_min) and MAX(bn_max), which ignore NULLs.
HasRange(i) == i \in Partition /\ bnMin[i] # Nil
IsStart(s) == \E i \in Partition : bnMin[i] = s /\ \A j \in Partition : HasRange(j) => s <= bnMin[j]
IsEnd(e) == \E i \in Partition : bnMax[i] = e /\ \A j \in Partition : HasRange(j) => bnMax[j] <= e

\* What searchPartitions makes of the range of all partitions: already pruned,
\* not there, or to be searched.
searchRange ==
  /\ pc = "range"
  /\ \/ (\A i \in Partition : ~HasRange(i)) /\ pc' = "done" /\ UNCHANGED <<lo, hi, parts, res>>
     \/ \E s, e \in Bn :
          /\ IsStart(s) /\ IsEnd(e)
          /\ \/ (hi < s \/ (lo < s /\ hi > s)) /\ Leave
             \/ hi >= s /\ lo > e /\ pc' = "done" /\ UNCHANGED <<lo, hi, parts, res>>
             \/ hi >= s /\ lo <= e /\ ~(lo < s /\ hi > s) /\ pc' = "search" /\ UNCHANGED <<lo, hi, parts, res>>
  /\ Unmoved

\* Mutant of Overlaps: a partition that ends where the range begins is missed.
OverlapsBarely(i) == HasRange(i) /\ bnMin[i] <= hi /\ bnMax[i] > lo

Overlaps(i) == HasRange(i) /\ bnMin[i] <= hi /\ bnMax[i] >= lo

searchOverlapPartitions ==
  /\ pc = "search"
  /\ parts' = {i \in Partition : Overlaps(i)}
  /\ pc' = IF parts' = {} THEN "done" ELSE "query"
  /\ UNCHANGED <<lo, hi, res>>
  /\ Unmoved

\* One query per partition in the order of their indexes; it fails when the
\* table has been dropped.
QueryPart ==
  /\ pc = "query"
  /\ \E i \in parts :
       /\ \A j \in parts : i <= j
       /\ IF i \in tables
          THEN /\ res' = res \cup {b \in lo .. hi : table[b] = i}
               /\ parts' = parts \ {i}
               /\ pc' = IF parts' = {} THEN "done" ELSE "query"
               /\ UNCHANGED <<lo, hi>>
          ELSE Leave
  /\ Unmoved

Return == pc = "done" /\ Leave /\ Unmoved

Next ==
  \/ preparePartition \/ Add \/ AddFails \/ Popn
  \/ Prune \/ PruneRow \/ PruneTable \/ PruneTableFails \/ PruneEnd \/ Restart
  \/ GetLogs \/ searchRange \/ searchOverlapPartitions \/ QueryPart \/ Return

Spec == Init /\ [][Next]_vars
-----------------------------------------------------------------------------
\* The count that decides when a partition is full is the number of logs in
\* its table, whatever was rolled back, popped or pruned (deltaUpdateCount).
CountsMatch ==
  \A i \in Partition : count[i] = SumLogs(nlogs, {b \in Bn : table[b] = i})

\* The router leads to every log: a log is in the range of the partition whose
\* table holds it, and the ranges are disjoint and ordered like the indexes.
Routed ==
  /\ \A b \in Bn : table[b] \in Partition =>
       HasRange(table[b]) /\ bnMin[table[b]] <= b /\ b <= bnMax[table[b]]
  /\ \A i, j \in Partition : i < j /\ HasRange(i) /\ HasRange(j) => bnMax[i] < bnMin[j]

FoundAll == res = {b \in lo .. hi : nlogs[b] > 0}

\* A search that ends without error has found all logs of its range, if the
\* range begins within the partitions or reaches beyond their first block.
ReadsComplete ==
  pc = "done" /\ calm /\ (\E s \in Bn : IsStart(s) /\ (s <= lo \/ s < hi)) => FoundAll

\* "If the search block range overlaps with any area before the block range
\* covered by all entity partitions, it will regard the entity data for the
\* search block range as already pruned and raise an error": no search that
\* ends without error misses a log.
PrunedIsReported == pc = "done" /\ calm => FoundAll

\* "Popn pops event logs until the specific epoch from db store": it succeeds
\* for every stored epoch.
PopsSucceed == ~ready => \A b \in 1 .. height : PopOk(b)
=============================================================================
