------------------------------ MODULE LogQuery ------------------------------
(***************************************************************************)
(* One getLogs request, from the filter of the user to the answer: the     *)
(* kind of filter, its normalisation and validation (rpc/log_filter.go),   *)
(* its split into a part for the database and one for the full node, the   *)
(* size checks of the database query (store/mysql/store_log_filter.go) and *)
(* the range suggested when an answer would be too large (rpc/handler).    *)
(* The answer is compared with the logs the chain has in the range.        *)
(*                                                                         *)
(* A chain is a sequence of blocks [epoch, logs]; a log is [b, i, hit,     *)
(* size]: block, position, whether it matches the topics, bytes.  Blocks   *)
(* are numbered from 0.  Core space has several blocks per epoch and eth   *)
(* space one.  The chain does not move during a request (ReorgGuard lets   *)
(* it move) and the logs are in one partition (LogPartitions splits them). *)
(***************************************************************************)
EXTENDS Integers, Sequences, FiniteSets, SequencesExt

CONSTANTS
  Chains,              \* [space |-> , blocks |-> ] records
  Filters,             \* the filters asked for (see NoFilter)
  MaxLogLimit,         \* store.MaxLogLimit
  MaxLogQuerySetSize,  \* maxLogQuerySetSize
  MaxLogRange,         \* store.MaxLogEpochRange, store.MaxLogBlockRange
  MaxHashes,           \* store.MaxLogBlockHashesSize
  MaxBytes,            \* maxGetLogsResponseBytes
  Hardfork             \* hardforkBlockNumber of the eth space

VARIABLES
  chain,    \* the chain, a member of Chains
  stored,   \* number of its epochs in the database
  f,        \* the filter, normalised as the request proceeds
  q         \* the request: see Asked

vars == <<chain, stored, f, q>>

Absent == -1        \* a field that is absent
Latest == -2     \* the newest epoch or block, by name
Unknown == -3    \* the hash of a block the full node does not know
None == [unit |-> "none", from |-> 0, to |-> 0]

\* types.LogFilter and web3 FilterQuery: hashes are the numbers of the blocks.
NoFilter == [fe |-> Absent, te |-> Absent, fb |-> Absent, tb |-> Absent, hashes |-> <<>>, topics |-> FALSE]

Block(n) == chain.blocks[n + 1]
Top == Len(chain.blocks) - 1
TopEpoch == Block(Top).epoch
EpochBlocks(e) == {n \in 0..Top : Block(n).epoch = e}
MinOf(S) == CHOOSE x \in S : \A y \in S : x <= y
MaxOf(S) == CHOOSE x \in S : \A y \in S : y <= x
LogsIn(from, to) ==
  FoldLeft(LAMBDA acc, n : acc \o Block(n).logs, <<>>,
           [i \in 1..(IF from > to THEN 0 ELSE to - from + 1) |-> from + i - 1])
Hits(logs) == IF f.topics THEN SelectSeq(logs, LAMBDA l : l.hit) ELSE logs
Bytes(logs) == FoldLeft(LAMBDA acc, l : acc + l.size, 0, logs)

Asked == [at |-> "asked", flag |-> "none", dbs |-> <<>>, fn |-> NoFilter, useFn |-> FALSE,
          logs |-> <<>>, error |-> "none", hint |-> None]
Fail(error, hint) == q' = [q EXCEPT !.at = "done", !.logs = <<>>, !.error = error, !.hint = hint]

-----------------------------------------------------------------------------
(* rpc/log_filter.go, util/blockchain.go *)

Given(n) == n # Absent

\* The filter types are mutually exclusive; none given means the default.
ParseLogFilterType ==
  LET types == {t \in {"epoch", "block", "hash"} :
                  CASE t = "epoch" -> Given(f.fe) \/ Given(f.te)
                    [] t = "block" -> Given(f.fb) \/ Given(f.tb)
                    [] t = "hash"  -> f.hashes # <<>>}
  IN  IF types = {} THEN {"epoch"} ELSE types

ParseEthLogFilterType ==
  LET types == {t \in {"block", "hash"} :
                  CASE t = "block" -> Given(f.fb) \/ Given(f.tb)
                    [] t = "hash"  -> f.hashes # <<>>}
  IN  IF types = {} THEN {"block"} ELSE types

ConvertToNumberedEpoch(e) == IF e = Latest THEN TopEpoch ELSE e

\* Blocks before the hard fork stand for the hard fork.
NormalizeEthBlockNumber(n) ==
  CASE n > Hardfork -> n
    [] n \in 0..Hardfork -> Hardfork
    [] n = Latest -> Top

Or(n, default) == IF n = Absent THEN default ELSE n

dedupLogFilter(g) ==
  [g EXCEPT !.hashes = FoldLeft(LAMBDA acc, h : IF h \in ToSet(acc) THEN acc ELSE Append(acc, h),
                                <<>>, @)]

NormalizeLogFilter(type) ==
  dedupLogFilter(IF type # "epoch" THEN f
                 ELSE [f EXCEPT !.fe = ConvertToNumberedEpoch(Or(@, Latest)),
                                !.te = ConvertToNumberedEpoch(Or(@, Latest))])

NormalizeEthLogFilter(type) ==
  IF type # "block" THEN f
  ELSE [f EXCEPT !.fb = NormalizeEthBlockNumber(Or(@, Latest)),
                 !.tb = NormalizeEthBlockNumber(Or(@, Latest))]

ValidateLogFilter(type, g) ==
  CASE type = "hash"  -> Len(g.hashes) <= MaxHashes
    [] type = "block" -> Given(g.fb) /\ Given(g.tb) /\ g.fb <= g.tb
    [] type = "epoch" -> g.fe <= g.te

ValidateEthLogFilter(type, g) == type = "block" => g.fb <= g.tb

\* cfxAPI.getLogs and ethAPI.getLogs up to the log handler; before the hard
\* fork the eth space has no logs.
Accept(types, normalized, valid, before) ==
  /\ q.at = "asked"
  /\ IF Cardinality(types) > 1 \/ ~valid
     THEN Fail("invalid filter", None) /\ UNCHANGED f
     ELSE /\ f' = normalized
          /\ q' = [q EXCEPT !.at = IF before THEN "done" ELSE "split",
                            !.flag = CHOOSE t \in types : TRUE]
  /\ UNCHANGED <<chain, stored>>

Type(types) == CHOOSE t \in types : TRUE

CfxGetLogs ==
  /\ chain.space = "cfx"
  /\ LET g == NormalizeLogFilter(Type(ParseLogFilterType))
     IN  Accept(ParseLogFilterType, g, ValidateLogFilter(Type(ParseLogFilterType), g), FALSE)

EthGetLogs ==
  /\ chain.space = "eth"
  /\ LET g == NormalizeEthLogFilter(Type(ParseEthLogFilterType))
     IN  Accept(ParseEthLogFilterType, g, ValidateEthLogFilter(Type(ParseEthLogFilterType), g),
                Given(g.tb) /\ g.tb <= Hardfork)

-----------------------------------------------------------------------------
(* The split: a database filter is a pair of block numbers.                *)

MaxEpoch == stored - 1
BlockRangeOf(e) == [from |-> MinOf(EpochBlocks(e)), to |-> MaxOf(EpochBlocks(e))]
AllFullnode == <<<<>>, f, TRUE>>

splitLogFilterByBlockHashes ==
  LET known == SelectSeq(f.hashes, LAMBDA h : Block(h).epoch <= MaxEpoch)
      other == SelectSeq(f.hashes, LAMBDA h : Block(h).epoch > MaxEpoch)
      sorted == SortSeq(known, LAMBDA g, h : g < h)
  IN  <<[i \in DOMAIN sorted |-> <<sorted[i], sorted[i]>>],
        [NoFilter EXCEPT !.hashes = other, !.topics = f.topics], other # <<>>>>

\* Mutant of splitLogFilterByBlockRange: the full node's part starts one late.
splitLogFilterByBlockRangeLate(maxBlock) ==
  CASE f.fb > maxBlock -> AllFullnode
    [] f.fb <= maxBlock /\ f.tb <= maxBlock -> <<<<<<f.fb, f.tb>>>>, NoFilter, FALSE>>
    [] OTHER -> <<<<<<f.fb, maxBlock>>>>, [f EXCEPT !.fb = maxBlock + 2], TRUE>>

splitLogFilterByBlockRange(maxBlock) ==
  CASE f.fb > maxBlock -> AllFullnode
    [] f.fb <= maxBlock /\ f.tb <= maxBlock -> <<<<<<f.fb, f.tb>>>>, NoFilter, FALSE>>
    [] OTHER -> <<<<<<f.fb, maxBlock>>>>, [f EXCEPT !.fb = maxBlock + 1], TRUE>>

splitLogFilterByEpochRange(maxBlock) ==
  CASE f.fe > MaxEpoch -> AllFullnode
    [] f.fe <= MaxEpoch /\ f.te <= MaxEpoch ->
         <<<<<<BlockRangeOf(f.fe).from, BlockRangeOf(f.te).to>>>>, NoFilter, FALSE>>
    [] OTHER -> <<<<<<BlockRangeOf(f.fe).from, maxBlock>>>>, [f EXCEPT !.fe = MaxEpoch + 1], TRUE>>

splitLogFilter ==
  CASE stored = 0 -> AllFullnode
    [] stored > 0 /\ q.flag = "hash" -> splitLogFilterByBlockHashes
    [] stored > 0 /\ q.flag = "block" -> splitLogFilterByBlockRange(BlockRangeOf(MaxEpoch).to)
    [] OTHER -> splitLogFilterByEpochRange(BlockRangeOf(MaxEpoch).to)

splitEthLogFilterByBlockHash ==
  IF f.hashes[1] > MaxEpoch THEN AllFullnode
  ELSE <<<<<<f.hashes[1], f.hashes[1]>>>>, NoFilter, FALSE>>

splitEthLogFilterByBlockRange ==
  CASE f.fb > MaxEpoch -> AllFullnode
    [] f.fb <= MaxEpoch /\ f.tb <= MaxEpoch -> <<<<<<f.fb, f.tb>>>>, NoFilter, FALSE>>
    [] OTHER -> <<<<<<f.fb, MaxEpoch>>>>, [f EXCEPT !.fb = MaxEpoch + 1], TRUE>>

splitEthLogFilter ==
  CASE stored = 0 -> AllFullnode
    [] stored > 0 /\ q.flag = "hash" -> splitEthLogFilterByBlockHash
    [] OTHER -> splitEthLogFilterByBlockRange

\* A hash the full node does not know ends the request, when it is looked up.
Split(space, s) ==
  /\ q.at = "split" /\ chain.space = space
  /\ IF stored > 0 /\ Unknown \in ToSet(f.hashes)
     THEN Fail("unknown block", None)
     ELSE q' = [q EXCEPT !.at = "db", !.dbs = s[1], !.fn = s[2], !.useFn = s[3]]
  /\ UNCHANGED <<chain, stored, f>>

CfxSplit == Split("cfx", IF Unknown \in ToSet(f.hashes) THEN AllFullnode ELSE splitLogFilter)
EthSplit == Split("eth", IF Unknown \in ToSet(f.hashes) THEN AllFullnode ELSE splitEthLogFilter)

\* Whether the filter can be narrowed down.
CfxRequireBoundChecks ==
  CASE q.flag = "epoch" -> f.fe # f.te
    [] q.flag = "block" -> f.fb < f.tb
    [] q.flag = "hash"  -> Len(f.hashes) > 1

EthRequiresBoundChecks == q.flag = "block" /\ f.fb < f.tb

RequireBoundChecks ==
  IF chain.space = "cfx" THEN CfxRequireBoundChecks ELSE EthRequiresBoundChecks

-----------------------------------------------------------------------------
(* store/mysql/store_log_filter.go.  The ids of the rows are consecutive   *)
(* in the order of the blocks, so the estimate is the number of the rows.  *)

calculateQuerySetSize(from, to) == Len(LogsIn(from, to))

\* The end of the range suggested and the epoch of the block that exceeds.
Suggested(from, exceeding) ==
  IF exceeding.b > from
  THEN [unit |-> "block", from |-> from, to |-> exceeding.b - 1]
  ELSE None

\* Mutant of suggestBlockRange: the block that exceeds the limit is part of the suggestion.
suggestInclusive(from, to, limit) ==
  IF from >= to THEN None
  ELSE [unit |-> "block", from |-> from, to |-> LogsIn(from, Top)[limit + 1].b]

suggestBlockRange(from, to, limit) ==
  IF from >= to THEN None ELSE Suggested(from, LogsIn(from, Top)[limit + 1])

validateCount(from, to) ==
  LET rows == Hits(LogsIn(from, to))
  IN  IF Len(rows) <= MaxLogLimit THEN <<"none", None>>
      ELSE <<"result set", Suggested(from, rows[MaxLogLimit + 1])>>

validateQuerySetSize(from, to) ==
  LET n == calculateQuerySetSize(from, to)
  IN  CASE n > MaxLogQuerySetSize /\ f.topics ->
             <<"query set", suggestBlockRange(from, to, MaxLogQuerySetSize)>>
        [] n > MaxLogLimit /\ ~f.topics ->
             <<"result set", suggestBlockRange(from, to, MaxLogLimit)>>
        [] n > MaxLogLimit /\ n <= MaxLogQuerySetSize /\ f.topics -> validateCount(from, to)
        [] OTHER -> <<"none", None>>

find(from, to) == LET rows == Hits(LogsIn(from, to))
                  IN  IF Len(rows) <= MaxLogLimit + 1 THEN rows ELSE SubSeq(rows, 1, MaxLogLimit + 1)

-----------------------------------------------------------------------------
(* rpc/handler *)

\* newSuggestedFilterOversizedError, for the log that exceeds.  Number 0 stands
\* for "not found" in the core space.
CfxOversized(exceeding) ==
  LET unit == IF q.flag = "epoch" THEN "epoch" ELSE "block"
      n == IF unit = "epoch" THEN Block(exceeding.b).epoch ELSE exceeding.b
      from == IF unit = "epoch" THEN f.fe ELSE f.fb
  IN  IF q.flag = "hash" \/ n <= from THEN None
      ELSE [unit |-> unit, from |-> from, to |-> n - 1]

EthOversized(exceeding) ==
  IF Given(f.fb) /\ exceeding.b > f.fb
  THEN [unit |-> "block", from |-> f.fb, to |-> exceeding.b - 1] ELSE None

Oversized(exceeding) ==
  IF chain.space = "cfx" THEN CfxOversized(exceeding) ELSE EthOversized(exceeding)

\* ClosestEpochUpToBlock, at most the epoch of the block that exceeds.
convertSuggestedFilterOversizedError(hint) ==
  LET maxEnd == Block(hint.to + 1).epoch
      ends == {e \in 0..MaxEpoch : e <= maxEnd /\ BlockRangeOf(e).to <= hint.to}
  IN  IF maxEnd = 0 \/ ends = {} \/ MaxOf(ends) < f.fe THEN None
      ELSE [unit |-> "epoch", from |-> f.fe, to |-> MaxOf(ends)]

\* The first log whose bytes exceed the size of a response, if any.
OverBytes(sofar, more) ==
  {i \in DOMAIN more : Bytes(sofar) + Bytes(SubSeq(more, 1, i)) > MaxBytes}

Timeout == Fail("timeout", None)

Collect(more) ==
  IF RequireBoundChecks /\ OverBytes(q.logs, more) # {}
  THEN Fail("response size", Oversized(more[MinOf(OverBytes(q.logs, more))]))
  ELSE q' = [q EXCEPT !.logs = @ \o more, !.dbs = IF @ = <<>> THEN @ ELSE Tail(@),
                      !.at = IF q.dbs = <<>> THEN "check" ELSE "db"]

\* One database filter of getLogsReorgGuard.
QueryDatabase ==
  /\ q.at = "db" /\ q.dbs # <<>>
  /\ LET from == Head(q.dbs)[1]
         to == Head(q.dbs)[2]
         verdict == IF RequireBoundChecks THEN validateQuerySetSize(from, to) ELSE <<"none", None>>
     IN  \/ /\ verdict[1] # "none"
            /\ Fail(verdict[1], IF q.flag = "epoch" /\ verdict[2] # None
                                THEN convertSuggestedFilterOversizedError(verdict[2])
                                ELSE verdict[2])
         \/ verdict[1] = "none" /\ Collect(find(from, to))
         \/ RequireBoundChecks /\ Timeout
  /\ UNCHANGED <<chain, stored, f>>

\* The range that the full node is asked for at most.
Bounded(unit, from, to) ==
  IF to - from + 1 > MaxLogRange
  THEN [unit |-> unit, from |-> from, to |-> from + MaxLogRange - 1]
  ELSE None

checkFullnodeLogFilter ==
  CASE Given(q.fn.fe) -> Bounded("epoch", q.fn.fe, q.fn.te)
    [] Given(q.fn.fb) -> Bounded("block", q.fn.fb, q.fn.tb)
    [] OTHER -> None

checkFnEthLogFilter ==
  IF Given(q.fn.fb) THEN Bounded("block", q.fn.fb, q.fn.tb) ELSE None

\* What the full node answers for its part of the filter.
FullnodeLogs ==
  CASE q.fn.hashes # <<>> ->
         FoldLeft(LAMBDA acc, n : acc \o Hits(Block(n).logs), <<>>,
                  SortSeq(q.fn.hashes, LAMBDA g, h : g < h))
    [] Given(q.fn.fe) -> Hits(SelectSeq(LogsIn(0, Top), LAMBDA l : Block(l.b).epoch \in q.fn.fe..q.fn.te))
    [] OTHER -> Hits(LogsIn(q.fn.fb, q.fn.tb))

QueryFullnode(check) ==
  /\ q.at = "db" /\ q.dbs = <<>> /\ q.useFn
  /\ \/ Timeout
     \/ check # None /\ Fail("query set", check)
     \/ /\ check = None
        /\ IF Unknown \in ToSet(q.fn.hashes) THEN Fail("unknown block", None) ELSE Collect(FullnodeLogs)
  /\ UNCHANGED <<chain, stored, f>>

\* The result set as a whole.
CheckResult ==
  /\ q.at = "check" \/ (q.at = "db" /\ q.dbs = <<>> /\ ~q.useFn)
  /\ IF RequireBoundChecks /\ Len(q.logs) > MaxLogLimit
     THEN Fail("result set", Oversized(q.logs[MaxLogLimit + 1]))
     ELSE q' = [q EXCEPT !.at = "done"]
  /\ UNCHANGED <<chain, stored, f>>

\* getLogsReorgGuard of the two handlers, once the filter is split.
CfxLogs ==
  /\ chain.space = "cfx"
  /\ QueryDatabase \/ QueryFullnode(checkFullnodeLogFilter) \/ CheckResult

EthLogs ==
  /\ chain.space = "eth"
  /\ QueryDatabase \/ QueryFullnode(checkFnEthLogFilter) \/ CheckResult

Init ==
  /\ chain \in Chains /\ f \in Filters /\ q = Asked
  /\ stored \in 0..(TopEpoch + 1)
  /\ IF chain.space = "eth" THEN ~Given(f.fe) /\ ~Given(f.te) /\ Len(f.hashes) <= 1
     ELSE Latest \notin {f.fb, f.tb}

Next ==
  \/ CfxGetLogs \/ EthGetLogs
  \/ CfxSplit \/ EthSplit
  \/ CfxLogs \/ EthLogs

Spec == Init /\ [][Next]_vars

-----------------------------------------------------------------------------
(* The types of the request. *)
TypeOK ==
  /\ q.at \in {"asked", "split", "db", "check", "done"}
  /\ q.flag \in {"none", "epoch", "block", "hash"}
  /\ q.error \in {"none", "invalid filter", "unknown block", "timeout", "query set",
                  "result set", "response size"}
  /\ q.hint.unit \in {"none", "epoch", "block"}

\* The logs the chain has for the (normalised) filter, in order.
Reference ==
  CASE q.flag = "hash"  -> FoldLeft(LAMBDA acc, n : acc \o Hits(Block(n).logs), <<>>,
                                    SetToSortSeq(ToSet(f.hashes), LAMBDA g, h : g < h))
    [] q.flag = "block" -> Hits(LogsIn(f.fb, f.tb))
    [] q.flag = "epoch" -> Hits(SelectSeq(LogsIn(0, Top), LAMBDA l : Block(l.b).epoch \in f.fe..f.te))

(* An answer has exactly the logs of the range, in order, wherever the     *)
(* range is cut between the database and the full node.                    *)
AnswersAreComplete ==
  q.at = "done" /\ q.error = "none" /\ RequireBoundChecks => q.logs = Reference

(* The same for the filters of one block or epoch, which have no bound     *)
(* ("log context information for diagnostic purposes if the result exceeds *)
(* limits").                                                               *)
UnboundedAnswersAreComplete ==
  q.at = "done" /\ q.error = "none" => q.logs = Reference

(* A request is refused for its size only when the range has more than the *)
(* limits allow, and a range suggested for it is within the range asked    *)
(* for, ends before it, and has an answer within the limits.               *)
SuggestionsHelp ==
  /\ q.at = "done" /\ q.error = "result set" => Len(Reference) > MaxLogLimit
  /\ q.at = "done" /\ q.error = "response size" => Bytes(Reference) > MaxBytes
  /\ q.at = "done" /\ q.hint # None =>
    LET last == IF q.hint.unit = "epoch" THEN f.te ELSE f.tb
        first == IF q.hint.unit = "epoch" THEN f.fe ELSE f.fb
        logs == IF q.hint.unit = "block" THEN Hits(LogsIn(q.hint.from, q.hint.to))
                ELSE Hits(SelectSeq(LogsIn(0, Top), LAMBDA l : Block(l.b).epoch \in q.hint.from..q.hint.to))
    IN  /\ first <= q.hint.from /\ q.hint.from <= q.hint.to /\ q.hint.to < last
        /\ q.error = "result set" => Len(logs) <= MaxLogLimit
        /\ q.error = "response size" => Bytes(logs) <= MaxBytes
=============================================================================
