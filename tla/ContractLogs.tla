---------------------------- MODULE ContractLogs ----------------------------
(***************************************************************************)
(* The event logs kept per contract (store/mysql): the table of contracts  *)
(* with their statistics, the address indexed tables that several          *)
(* contracts share by the hash of their address, and the separate table a  *)
(* contract gets once it holds thresholdBigContractLogCount logs.  The     *)
(* synchroniser pushes and pops epochs; a reader of the RPC service asks   *)
(* for the logs of some contracts meanwhile, one statement at a time.      *)
(*                                                                         *)
(* An epoch has one block and a contract at most one log in it, so a log   *)
(* is the pair <<contract, epoch>> and block numbers are epoch numbers.    *)
(* A big contract stays in its initial partition: how partitions grow is   *)
(* the subject of LogPartitions.  Contract ids are never reused and absent *)
(* ones are not cached, so the id caches of ContractStore are transparent. *)
(***************************************************************************)
EXTENDS Integers, Sequences, FiniteSets, SequencesExt

CONSTANTS
  Contracts,      \* addresses
  Table,          \* [Contracts -> tables]: getPartitionByAddress
  Threshold,      \* thresholdBigContractLogCount
  MaxLogLimit,    \* store.MaxLogLimit
  MaxEpochs,      \* bound: length of the chain
  MaxBatch,       \* bound: epochs of one Pushn
  MaxPops,        \* bound: pivot switches
  Ranges          \* bound: the block ranges asked for, pairs of epochs

VARIABLES
  chain,    \* the epochs stored: a sequence of sets of contracts with a log
  db,       \* the tables, a record (see InitialTables)
  pops,     \* pivot switches so far (the reorg version)
  rd        \* the reader: see Idle

vars == <<chain, db, pops, rd>>

Logs(e0, batch) == UNION {{<<c, e0 + i - 1>> : c \in batch[i]} : i \in DOMAIN batch}
ChainLogs == Logs(0, chain)
Of(c, logs) == {l \in logs : l[1] = c}
Within(from, to, logs) == {l \in logs : l[2] \in from..to}
NoBlock == -1

InitialTables ==
  [known |-> {},                                            \* contracts
   count |-> [c \in Contracts |-> 0],                       \* log_count
   lue   |-> [c \in Contracts |-> 0],                       \* latest_updated_epoch
   ai    |-> {},                                            \* addr_logs_*
   part  |-> [c \in Contracts |-> [made |-> FALSE, count |-> 0, max |-> NoBlock]],
   big   |-> {}]                                            \* contract logs

AtLeast0(n) == IF n < 0 THEN 0 ELSE n
MaxOf(S) == CHOOSE x \in S : \A y \in S : y <= x

-----------------------------------------------------------------------------
(* store_contract.go *)

AddContract(d, cs) == [d EXCEPT !.known = @ \cup cs]

UpdateContractStats(d, c, delta, epoch) ==
  [d EXCEPT !.lue[c] = epoch, !.count[c] = AtLeast0(@ + delta)]

GetUpdatedContractsSinceEpoch(d, epoch) == {c \in d.known : d.lue[c] >= epoch}

-----------------------------------------------------------------------------
(* store_common_partition_bn.go, for the one partition of a big contract.  *)
(* bn_min is 0 from the migration on, or NULL with bn_max.                 *)

autoPartition(d, c) == [d EXCEPT !.part[c].made = TRUE]
expandBnRange(d, c, to) == [d EXCEPT !.part[c].max = to]
deltaUpdateCount(d, c, delta) == [d EXCEPT !.part[c].count = AtLeast0(@ + delta)]

-----------------------------------------------------------------------------
(* store_log_big_contract.go *)

\* Mutant of migrate: the rows are copied and stay.
migrateKeeping(d, c) ==
  LET rows == Of(c, d.ai)
      bnMax == IF rows = {} THEN 0 ELSE MaxOf({l[2] : l \in rows})
  IN  deltaUpdateCount(expandBnRange([d EXCEPT !.big = @ \cup rows], c, bnMax),
                       c, Cardinality(rows))

migrate(d, c) ==
  LET rows == Of(c, d.ai)
      bnMax == IF rows = {} THEN 0 ELSE MaxOf({l[2] : l \in rows})
      moved == [d EXCEPT !.ai = @ \ rows, !.big = @ \cup rows]
  IN  deltaUpdateCount(expandBnRange(moved, c, bnMax), c, Cardinality(rows))

\* Not qualified contracts are left alone; a partition without data means that
\* the logs of the contract are still in the address indexed table.
preparePartitions(d, cs) ==
  FoldLeft(LAMBDA acc, c :
             IF acc.count[c] < Threshold THEN acc
             ELSE LET made == autoPartition(acc, c)
                  IN  IF made.part[c].count > 0 THEN made ELSE migrate(made, c),
           d, SetToSeq(cs))

BigContractIds(d, cs) == {c \in cs : d.count[c] >= Threshold}

\* bigContractLogStore.Add: the block range grows for every big contract of
\* the batch, the statistics for those with logs.
AddBig(d, e0, batch, ids) ==
  FoldLeft(LAMBDA acc, c :
             LET rows == Of(c, Logs(e0, batch))
                 put == [expandBnRange(acc, c, e0 + Len(batch) - 1) EXCEPT !.big = @ \cup rows]
             IN  IF rows = {} THEN put
                 ELSE UpdateContractStats(deltaUpdateCount(put, c, Cardinality(rows)),
                                          c, Cardinality(rows), MaxOf({l[2] : l \in rows})),
           d, SetToSeq(ids))

\* shrinkBnRange answers the partitions that reach bn or beyond.
shrinkBnRange(d, c, bn) ==
  IF d.part[c].max = NoBlock \/ d.part[c].max < bn THEN d
  ELSE [d EXCEPT !.part[c].max = IF bn = 0 THEN NoBlock ELSE bn - 1]

PopBig(d, updated, from) ==
  FoldLeft(LAMBDA acc, c :
             IF ~acc.part[c].made THEN acc
             ELSE LET shrunk == shrinkBnRange(acc, c, from)
                      rows == IF shrunk = acc THEN {} ELSE {l \in Of(c, acc.big) : l[2] >= from}
                      gone == [shrunk EXCEPT !.big = @ \ rows]
                  IN  UpdateContractStats(deltaUpdateCount(gone, c, -Cardinality(rows)),
                                          c, -Cardinality(rows), from),
           d, SetToSeq(updated))

IsBigContract(d, c) == d.part[c].made /\ d.part[c].count > 0

\* searchPartitions and the query of the one partition.
GetContractLogs(d, c, from, to) ==
  IF d.part[c].max = NoBlock \/ d.part[c].max < from THEN {}
  ELSE Within(from, to, Of(c, d.big))

-----------------------------------------------------------------------------
(* store_log_addr.go *)

convertToPartitionedLogs(e, cs, ids) == {<<c, e>> : c \in cs \ ids}

AddAddressIndexedLogs(d, e, cs, ids) ==
  LET rows == convertToPartitionedLogs(e, cs, ids)
  IN  FoldLeft(LAMBDA acc, l : UpdateContractStats(acc, l[1], 1, e),
               [d EXCEPT !.ai = @ \cup rows], SetToSeq(rows))

\* Mutant of DeleteAddressIndexedLogs: the rows of the first epoch popped are kept.
DeleteAfter(d, from, order) ==
  FoldLeft(LAMBDA acc, c :
             LET rows == {l \in acc.ai : Table[l[1]] = Table[c] /\ l[2] > from}
             IN  UpdateContractStats([acc EXCEPT !.ai = @ \ rows],
                                     c, -Cardinality(rows), from),
           d, order)

\* The rows of a table are deleted for the first of its contracts in `order`
\* and counted as that contract's.
DeleteAddressIndexedLogs(d, from, order) ==
  FoldLeft(LAMBDA acc, c :
             LET rows == {l \in acc.ai : Table[l[1]] = Table[c] /\ l[2] >= from}
             IN  UpdateContractStats([acc EXCEPT !.ai = @ \ rows],
                                     c, -Cardinality(rows), from),
           d, order)

GetAddressIndexedLogs(d, c, from, to) == Within(from, to, Of(c, d.ai))

-----------------------------------------------------------------------------
(* store.go *)

\* What is committed before the transaction of PushnWithFinalizer begins.
Prepared(d, cs) == preparePartitions(AddContract(d, cs), cs)

\* The transaction itself, for the log tables.
Saved(d, e0, batch, ids) ==
  AddBig(FoldLeft(LAMBDA acc, i : AddAddressIndexedLogs(acc, e0 + i - 1, batch[i], ids),
                  d, [i \in DOMAIN batch |-> i]),
         e0, batch, ids)

Touched(batch) == UNION {batch[i] : i \in DOMAIN batch}

\* A query in progress notices that logs were moved while it ran.
Notices(d) == [rd EXCEPT !.moved = @ \/ (rd.at # "idle" /\ d.ai # db.ai)]

PushnWithFinalizer(batch) ==
  /\ Len(chain) + Len(batch) <= MaxEpochs
  /\ LET d == Prepared(db, Touched(batch))
     IN  /\ db' = Saved(d, Len(chain), batch, BigContractIds(db, Touched(batch)))
         /\ rd' = Notices(d)
  /\ chain' = chain \o batch
  /\ UNCHANGED pops

\* The transaction is rolled back: the contracts and the migration remain.
PushFails(batch) ==
  /\ Len(chain) + Len(batch) <= MaxEpochs
  /\ db' = Prepared(db, Touched(batch))
  /\ db' # db
  /\ rd' = Notices(db')
  /\ UNCHANGED <<chain, pops>>

PopnWithFinalizer(from) ==
  /\ from < Len(chain)
  /\ pops < MaxPops
  /\ LET updated == GetUpdatedContractsSinceEpoch(db, from)
     IN  \E order \in SetToSeqs(updated) :
           db' = PopBig(DeleteAddressIndexedLogs(db, from, order), updated, from)
  /\ chain' = SubSeq(chain, 1, from)
  /\ pops' = pops + 1
  /\ UNCHANGED rd

\* GetLogs, one statement per step.
Idle == [at |-> "idle", todo |-> {}, cur |-> {}, isBig |-> FALSE, from |-> 0, to |-> 0,
         result |-> <<>>, moved |-> FALSE, pops |-> 0, before |-> {}, limit |-> NoBlock]

Begin(cs, from, to) ==
  /\ rd.at = "idle"
  /\ rd' = [Idle EXCEPT !.at = "next", !.todo = cs, !.from = from, !.to = to,
                        !.pops = pops, !.before = Within(from, to, {l \in ChainLogs : l[1] \in cs})]
  /\ UNCHANGED <<chain, db, pops>>

CheckContract(c) ==
  /\ rd.at = "next" /\ c \in rd.todo
  /\ rd' = IF c \notin db.known THEN [rd EXCEPT !.todo = @ \ {c}]
           ELSE [rd EXCEPT !.at = "read", !.todo = @ \ {c}, !.cur = {c},
                           !.isBig = IsBigContract(db, c)]
  /\ UNCHANGED <<chain, db, pops>>

ByBlock(rows) == SetToSortSeq(rows, LAMBDA k, l : k[2] < l[2])

\* newSuggestedFilterResultSetTooLargeError: the last block of the range
\* suggested, or NoBlock when the log that exceeds is in the first block.
TooLarge(from, result) ==
  LET exceeding == result[MaxLogLimit + 1][2]
  IN  IF exceeding > from THEN exceeding - 1 ELSE NoBlock

\* The bound is checked on the result of the contract and on all of them; the
\* results are sorted as a whole when they came from an address indexed table.
ReadContract ==
  /\ rd.at = "read"
  /\ LET c == CHOOSE x \in Contracts : x \in rd.cur
         rows == ByBlock(IF rd.isBig THEN GetContractLogs(db, c, rd.from, rd.to)
                         ELSE GetAddressIndexedLogs(db, c, rd.from, rd.to))
         all == rd.result \o rows
         sorted == SortSeq(all, LAMBDA k, l : k[2] < l[2])
     IN  rd' = IF rd.isBig /\ Len(rows) > MaxLogLimit
               THEN [rd EXCEPT !.at = "too large", !.result = rows, !.limit = TooLarge(rd.from, rows)]
               ELSE IF Len(all) > MaxLogLimit
               THEN [rd EXCEPT !.at = "too large", !.result = all,
                               !.limit = TooLarge(rd.from, IF rd.isBig THEN all ELSE sorted)]
               ELSE [rd EXCEPT !.at = "next", !.cur = {}, !.result = all]
  /\ UNCHANGED <<chain, db, pops>>

Answer ==
  /\ rd.at = "next" /\ rd.todo = {}
  /\ rd' = [rd EXCEPT !.at = "answered"]
  /\ UNCHANGED <<chain, db, pops>>

Leave ==
  /\ rd.at \in {"answered", "too large"}
  /\ rd' = Idle
  /\ UNCHANGED <<chain, db, pops>>

Batches == UNION {[1..n -> SUBSET Contracts] : n \in 1..MaxBatch}

Init ==
  /\ chain = <<>> /\ db = InitialTables /\ pops = 0 /\ rd = Idle

Next ==
  \/ \E batch \in Batches : PushnWithFinalizer(batch) \/ PushFails(batch)
  \/ \E from \in 0..(MaxEpochs - 1) : PopnWithFinalizer(from)
  \/ \E cs \in SUBSET Contracts \ {{}}, r \in Ranges :
       r[2] < Len(chain) /\ Begin(cs, r[1], r[2])
  \/ \E c \in Contracts : CheckContract(c)
  \/ ReadContract \/ Answer \/ Leave

Spec == Init /\ [][Next]_vars

-----------------------------------------------------------------------------
AllLogs == Contracts \X (0..(MaxEpochs - 1))

(* The types of the tables and of the reader's state. *)
TypeOK ==
  /\ chain \in Seq(SUBSET Contracts) /\ Len(chain) <= MaxEpochs
  /\ pops \in 0..MaxPops
  /\ db.ai \subseteq AllLogs /\ db.big \subseteq AllLogs /\ db.known \subseteq Contracts
  /\ rd.at \in {"idle", "next", "read", "answered", "too large"}

(* The two kinds of tables together hold exactly the logs of the epochs    *)
(* stored, each log once, and a partition's count is the number of its     *)
(* rows: migrations, failed pushes and pops included.                      *)
LogsAreStoredOnce ==
  /\ db.ai \cup db.big = ChainLogs
  /\ db.ai \cap db.big = {}
  /\ \A c \in Contracts : db.part[c].count = Cardinality(Of(c, db.big))

(* An answer that no reorg interrupted has the logs of the range, none     *)
(* twice and none that is not on the chain.  It misses none that was there *)
(* when the query began as long as nothing was popped and no contract was  *)
(* migrated while the query ran.                                           *)
AnswersAreExact ==
  rd.at = "answered" /\ rd.pops = pops =>
    /\ ToSet(rd.result) \subseteq Within(rd.from, rd.to, ChainLogs)
    /\ Len(rd.result) = Cardinality(ToSet(rd.result))
    /\ pops = 0 /\ ~rd.moved => rd.before \subseteq ToSet(rd.result)

(* A range suggested because a result set is too large is not empty, is    *)
(* smaller than the range asked for, and the logs found in it so far are   *)
(* within the limit: following suggestions makes progress.                 *)
SuggestionsFit ==
  rd.at = "too large" /\ rd.limit # NoBlock =>
    /\ rd.limit \in rd.from..(rd.to - 1)
    /\ Cardinality(Within(rd.from, rd.limit, ToSet(rd.result))) <= MaxLogLimit

(* The address indexed tables hold no log of a big contract                *)
(* ("AddAddressIndexedLogs adds event logs of specified epoch (with that   *)
(* of big contract ignored)"): what IsBigContract answers to a query and   *)
(* the count that decides where Pushn writes agree.                        *)
BigLogsLeaveTheIndex ==
  \A c \in Contracts : IsBigContract(db, c) => Of(c, db.ai) = {}
=============================================================================
