----------------------------- MODULE ReorgGuard -----------------------------
(***************************************************************************)
(* A getLogs call (rpc/handler/cfx_logs.go) beside the writer of the store *)
(* (store/mysql/store.go).                                                 *)
(*                                                                         *)
(* The call reads the database several times: the largest epoch, the block *)
(* ranges of up to three epochs, then the logs, in one query per part.     *)
(* None of these reads share a transaction.  The reorg version, read       *)
(* before the first of them and after the last, is to tell whether a pop   *)
(* came in between, in which case the call starts again.  A pop increments *)
(* the version by a statement outside its own transaction.                 *)
(*                                                                         *)
(* The block stored for an epoch stands for its logs, and every epoch has  *)
(* logs in every part.                                                     *)
(***************************************************************************)
EXTENDS Epochs

CONSTANTS
  Part,     \* the database queries of a call: contracts, block hashes
  MaxPops   \* bound: pops

ASSUME ReorgGuardAssumption == Part # {} /\ MaxPops \in Nat /\ None \notin Epoch

VARIABLES
  db,       \* the committed epochs
  version,  \* the committed reorg version
  popFrom,  \* epochUntil of the open pop transaction, or None
  bumped,   \* whether that transaction has incremented the version
  pc,       \* the next step of the call
  lo, hi,   \* its epoch range
  byEpoch,  \* given as epochs or as block numbers
  last,     \* lastReorgVersion
  top,      \* the last epoch to read from the database, or None
  todo,     \* the parts not yet queried
  res,      \* the result of each part
  clean     \* history: no pop was about to commit when last was read

store == <<db, version, popFrom, bumped>>
call == <<lo, hi, byEpoch, last, clean>>
vars == <<store, pc, call, top, todo, res>>

NoResult == [p \in Part |-> NoEpochs]

TypeOK ==
  /\ db \in Map
  /\ version \in 0 .. MaxPops
  /\ popFrom \in Epoch \cup {None}
  /\ bumped \in BOOLEAN
  /\ pc \in {"idle", "max", "range", "from", "to", "query", "fullnode", "verify", "done"}
  /\ lo \in Epoch /\ hi \in Epoch /\ byEpoch \in BOOLEAN
  /\ last \in 0 .. MaxPops
  /\ top \in Epoch \cup {None}
  /\ todo \subseteq Part
  /\ res \in [Part -> Map]
  /\ clean \in BOOLEAN

Init ==
  /\ db = NoEpochs
  /\ version = 0
  /\ popFrom = None
  /\ bumped = FALSE
  /\ pc = "idle"
  /\ lo = 0 /\ hi = 0 /\ byEpoch = FALSE
  /\ last = 0
  /\ top = None
  /\ todo = {}
  /\ res = NoResult
  /\ clean = TRUE
-----------------------------------------------------------------------------
(* The writer, the leader of the syncers: one transaction at a time.       *)

\* PushnWithFinalizer commits the next epoch (a larger batch reads the same
\* as several of these).
Push ==
  /\ popFrom = None
  /\ \E e \in Epoch, b \in Block :
       /\ IF db = NoEpochs THEN e = FromEpoch
          ELSE MaxEpoch(db, e - 1) /\ Parent[b] = db[e - 1]
       /\ db' = [db EXCEPT ![e] = b]
  /\ UNCHANGED <<version, popFrom, bumped, pc, call, top, todo, res>>

\* PopnWithFinalizer finds epochs to remove and removes them in a transaction.
\* Its callers never pop the genesis epoch.
Pop ==
  /\ popFrom = None
  /\ version < MaxPops
  /\ popFrom' \in {e \in Epoch \ {0} : db[e] # None}
  /\ bumped' = FALSE
  /\ UNCHANGED <<db, version, pc, call, top, todo, res>>

\* Mutant of createOrUpdateReorgVersion: one pop may raise the version again.
BumpAgain ==
  /\ popFrom # None
  /\ version' = version + 1
  /\ bumped' = TRUE
  /\ UNCHANGED <<db, popFrom, pc, call, top, todo, res>>

\* createOrUpdateReorgVersion is given the transaction but uses the database:
\* the new version is visible at once.
createOrUpdateReorgVersion ==
  /\ popFrom # None
  /\ ~bumped
  /\ version' = version + 1
  /\ bumped' = TRUE
  /\ UNCHANGED <<db, popFrom, pc, call, top, todo, res>>

PopCommit ==
  /\ popFrom # None
  /\ bumped
  /\ db' = Remove(db, popFrom, LastEpoch)
  /\ popFrom' = None
  /\ bumped' = FALSE
  /\ UNCHANGED <<version, pc, call, top, todo, res>>

\* A statement or the finalizer fails, or the process dies.
PopRollback ==
  /\ popFrom # None
  /\ popFrom' = None
  /\ bumped' = FALSE
  /\ UNCHANGED <<db, version, pc, call, top, todo, res>>

Write == Push \/ Pop \/ createOrUpdateReorgVersion \/ PopCommit \/ PopRollback
-----------------------------------------------------------------------------
(* The call.                                                               *)

Goto(label) == pc' = label /\ UNCHANGED store

\* lastReorgVersion is recorded, before the first read or for another round.
RecordVersion ==
  /\ last' = version
  /\ clean' = ~bumped
  /\ top' = None
  /\ todo' = Part
  /\ res' = NoResult

GetLogs ==
  /\ pc = "idle"
  /\ lo' \in Epoch
  /\ hi' \in lo' .. LastEpoch
  /\ byEpoch' \in BOOLEAN
  /\ RecordVersion
  /\ Goto("max")

\* Nothing to read from the database: the whole filter goes to the full node.
AllFullnode == Goto("fullnode") /\ top' = None

\* splitLogFilter: MAX(epoch).
ReadMax ==
  /\ pc = "max"
  /\ \/ db = NoEpochs /\ AllFullnode
     \/ MaxEpoch(db, top') /\ Goto("range")
  /\ UNCHANGED <<call, todo, res>>

\* splitLogFilter: BlockRange(maxEpoch), and splitLogFilterByBlockRange.
ReadRange ==
  /\ pc = "range"
  /\ \/ (db[top] = None \/ lo > top) /\ AllFullnode
     \/ db[top] # None /\ lo <= top /\ byEpoch /\ Goto("from") /\ top' = top
     \/ db[top] # None /\ lo <= top /\ ~byEpoch /\ Goto("query")
        /\ top' = IF hi <= top THEN hi ELSE top
  /\ UNCHANGED <<call, todo, res>>

\* splitLogFilterByEpochRange: BlockRange(epochFrom).
ReadFrom ==
  /\ pc = "from"
  /\ \/ db[lo] = None /\ AllFullnode
     \/ db[lo] # None /\ Goto(IF hi <= top THEN "to" ELSE "query") /\ top' = top
  /\ UNCHANGED <<call, todo, res>>

\* splitLogFilterByEpochRange: BlockRange(epochTo).
ReadTo ==
  /\ pc = "to"
  /\ \/ db[hi] = None /\ AllFullnode
     \/ db[hi] # None /\ Goto("query") /\ top' = hi
  /\ UNCHANGED <<call, todo, res>>

\* One database query; after the last one the rest of the range is asked of
\* the full node.
Query ==
  /\ pc = "query"
  /\ \E p \in todo :
       /\ res' = [res EXCEPT ![p] = [e \in Epoch |-> IF e \in lo .. top THEN db[e] ELSE None]]
       /\ todo' = todo \ {p}
  /\ Goto(IF todo' # {} THEN "query" ELSE IF hi > top THEN "fullnode" ELSE "verify")
  /\ UNCHANGED <<call, top>>

Fullnode ==
  /\ pc = "fullnode"
  /\ Goto("verify")
  /\ UNCHANGED <<call, top, todo, res>>

\* Mutant of Verify: the version is not read again.
VerifyNothing ==
  /\ pc = "verify"
  /\ Goto("done")
  /\ UNCHANGED <<call, top, todo, res>>

\* Mutant of Verify: lastReorgVersion keeps its first value.
VerifyKeepsLast ==
  /\ pc = "verify"
  /\ \/ version = last /\ Goto("done") /\ UNCHANGED <<top, todo, res>>
     \/ version # last /\ Goto("max") /\ top' = None /\ todo' = Part /\ res' = NoResult
  /\ UNCHANGED call

\* The version again: the same, or another round.
Verify ==
  /\ pc = "verify"
  /\ \/ version = last /\ Goto("done") /\ UNCHANGED <<last, clean, top, todo, res>>
     \/ version # last /\ Goto("max") /\ RecordVersion
  /\ UNCHANGED <<lo, hi, byEpoch>>

\* The call is over, and what it held is gone.
Leave ==
  /\ Goto("idle")
  /\ lo' = 0 /\ hi' = 0 /\ byEpoch' = FALSE /\ last' = 0 /\ clean' = TRUE
  /\ top' = None /\ todo' = {} /\ res' = NoResult

\* The logs are returned; or a read fails, or the time is up.
Return == pc = "done" /\ Leave

Abort == pc \notin {"idle", "done"} /\ Leave

Step == ReadMax \/ ReadRange \/ ReadFrom \/ ReadTo \/ Query \/ Fullnode \/ Verify \/ Return

Next == Write \/ GetLogs \/ Step \/ Abort

Spec == Init /\ [][Next]_vars

\* A call goes on; calls, writes and failures need not happen.
FairSpec == Spec /\ WF_vars(Step)
-----------------------------------------------------------------------------
\* The parts of the result agree, are complete, and are one chain.
Consistent ==
  top # None =>
    \A p, q \in Part, e \in lo .. top :
      /\ res[p][e] = res[q][e]
      /\ e >= FromEpoch => res[p][e] # None
      /\ e > lo /\ e > FromEpoch => Parent[res[p][e]] = res[p][e - 1]

\* A call whose last version was read while no pop stood between its version
\* and its commit returns one consistent view of the store, however many pops
\* and pushes happen during its reads: GetLogs compares versions, not data.
GuardedReads == pc = "done" /\ clean => Consistent

\* "record the reorg version before query to ensure data consistence": what
\* GetLogs returns is consistent, always.
ReadsAreConsistent == pc = "done" => Consistent

\* The loop of GetLogs ends once the pops do: every call returns.
GetLogsReturns == (pc # "idle") ~> (pc = "idle")
=============================================================================
