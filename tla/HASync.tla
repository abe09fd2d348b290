------------------------------- MODULE HASync -------------------------------
(***************************************************************************)
(* High-availability synchronisation of one database: several processes    *)
(* run a DatabaseSyncer against the same MySQL store, and the one that     *)
(* holds the election lock copies the pivot chain of the full node into it *)
(* (sync/sync_db.go, sync/election/leader_manager.go, sync/epoch_pivot.go, *)
(* and the transactions of store/mysql/store.go).                          *)
(*                                                                         *)
(* Each process has two goroutines.  Campaign takes and renews the lock    *)
(* (Elect, Renew, Oust).  Sync runs syncOnce in a loop; pc[s] is the next  *)
(* step of the current round:                                              *)
(*                                                                         *)
(*    await -> load -> query -> check -> query* -> push -> pushTx          *)
(*                                |         -> pushCommit -> window        *)
(*                                +-> pop -> popTx -> popCommit -> popWin  *)
(*                                                                         *)
(* A step ends where another process can come in between: at a call of the *)
(* full node, at a statement outside a transaction, between the finalizer  *)
(* of a transaction and its commit.                                        *)
(***************************************************************************)
EXTENDS Epochs

CONSTANTS
  Syncer,         \* the processes
  Orphan,         \* the lock identity of a process that is gone
  MaxSyncEpochs,  \* syncConfig.MaxEpochs
  WinCapacity,    \* syncPivotInfoWinCapacity
  Mishaps,        \* which of the mishaps below may happen
  MaxReorgs,      \* bound: changes of the pivot chain
  MaxFaults       \* bound: failed calls, crashes and restarts

(***************************************************************************)
(* Mishaps the syncer has no defence against, each switched on by a run of *)
(* its own (a third one, CommitReplyLost, is a step of LossyNext only):    *)
(*   "lease"  a lease runs out although its holder is elected or in the    *)
(*            middle of a round (the process was suspended, or a call of   *)
(*            the full node or the database took longer than the lease);   *)
(*   "start"  a process starts while another one is in a round.            *)
(***************************************************************************)
ASSUME HASyncAssumption ==
  /\ None \notin Syncer
  /\ Orphan \notin Syncer /\ Orphan # None
  /\ MaxSyncEpochs \in Nat \ {0}
  /\ WinCapacity \in Nat \ {0}
  /\ Mishaps \subseteq {"lease", "start"}
  /\ MaxReorgs \in Nat
  /\ MaxFaults \in Nat

VARIABLES
  chain,    \* the pivot chain of the full node up to the latest confirmed epoch
  db,       \* table epoch_block_map, the committed rows
  lock,     \* the owner of the election lock in the database
  status,   \* electionStatus of each process
  monitor,  \* whether the sync monitor of the process is running
  pc,       \* the next step of the sync goroutine
  from,     \* epochFrom
  to,       \* epochTo of the current round
  slice,    \* epochDataSlice
  popTo,    \* maxEpoch read by PopnWithFinalizer
  win,      \* epochPivotWin
  reorgs, faults

vars == <<chain, db, lock, status, monitor, pc, from, to, slice, popTo, win, reorgs, faults>>
election == <<lock, status, monitor>>
round == <<from, to, slice, popTo>>
env == <<chain, reorgs>>

Pc == {"down", "await", "load", "query", "check", "push", "pushTx", "pushCommit",
       "window", "pop", "popTx", "popCommit", "popWin"}

Status == {"none", "elected", "ousted"}

TypeOK ==
  /\ chain \in PivotChains
  /\ db \in Map
  /\ lock \in Syncer \cup {None, Orphan}
  /\ status \in [Syncer -> Status]
  /\ monitor \in [Syncer -> BOOLEAN]
  /\ pc \in [Syncer -> Pc]
  /\ from \in [Syncer -> 0 .. LastEpoch + 1]
  /\ to \in [Syncer -> Epoch]
  /\ slice \in [Syncer -> Seq(Block)]
  /\ popTo \in [Syncer -> Epoch]
  /\ win \in [Syncer -> Map]
  /\ reorgs \in 0 .. MaxReorgs
  /\ faults \in 0 .. MaxFaults

Busy(s) == pc[s] \notin {"down", "await"}

InTx(s) == pc[s] \in {"pushCommit", "popCommit"}

Init ==
  /\ chain = [NoEpochs EXCEPT ![0] = Genesis]
  /\ db = NoEpochs
  /\ lock = None
  /\ status = [s \in Syncer |-> "none"]
  /\ monitor = [s \in Syncer |-> FALSE]
  /\ pc = [s \in Syncer |-> "down"]
  /\ from = [s \in Syncer |-> FromEpoch]
  /\ to = [s \in Syncer |-> 0]
  /\ slice = [s \in Syncer |-> << >>]
  /\ popTo = [s \in Syncer |-> 0]
  /\ win = [s \in Syncer |-> NoEpochs]
  /\ reorgs = 0
  /\ faults = 0

-----------------------------------------------------------------------------
(* The full node, the database server, and the processes as a whole.       *)

\* The pivot chain gets a new latest epoch.
GrowChain ==
  /\ \E e \in Epoch, b \in Block :
       /\ MaxEpoch(chain, e - 1)
       /\ Parent[b] = chain[e - 1]
       /\ chain' = [chain EXCEPT ![e] = b]
  /\ UNCHANGED <<db, election, pc, round, win, reorgs, faults>>

\* The pivot chain loses its epochs from e on, to grow again along the same
\* or another branch.  A syncer that moves on to another full node sees the
\* same when that node is behind or on a fork.
RevertChain ==
  /\ reorgs < MaxReorgs
  /\ reorgs' = reorgs + 1
  /\ \E e \in Epoch \ {0} : chain[e] # None /\ chain' = Remove(chain, e, LastEpoch)
  /\ UNCHANGED <<db, election, pc, round, win, faults>>

\* The lease of s ends, in the database and by the clock of s.
LeaseExpires(s) ==
  /\ lock = s
  /\ "lease" \in Mishaps \/ (status[s] # "elected" /\ ~Busy(s))
  /\ lock' = None
  /\ UNCHANGED <<env, db, status, monitor, pc, round, win, faults>>

\* The lease of a process that is gone ends.
OrphanExpires ==
  /\ lock = Orphan
  /\ lock' = None
  /\ UNCHANGED <<env, db, status, monitor, pc, round, win, faults>>

\* e is the first reverted epoch ensureEpochRangeNotRerverted searches for:
\* the store has another block than the chain for it, but not for the one
\* before it.
FirstReverted(e) ==
  LET Reverted(f) == f \in Epoch \ {0} /\ db[f] # None /\ db[f] # chain[f]
  IN  Reverted(e) /\ ~Reverted(e - 1)

\* Mutant of Start: of the reverted epochs only the first one is removed.
StartPopsOne(s) ==
  /\ pc[s] = "down"
  /\ \A t \in Syncer : ~Busy(t)
  /\ \/ \E e \in Epoch : FirstReverted(e) /\ db' = Remove(db, e, e)
     \/ (\A e \in Epoch : ~FirstReverted(e)) /\ db' = db
  /\ pc' = [pc EXCEPT ![s] = "await"]
  /\ UNCHANGED <<env, election, round, win, faults>>

\* MustNewDatabaseSyncer: ensureStoreEpochDataOk pops what has been reverted,
\* outside any election, then epochFrom is loaded.  The process exits when the
\* full node does not know the latest stored epoch.
Start(s) ==
  /\ pc[s] = "down"
  /\ "start" \in Mishaps \/ \A t \in Syncer : ~Busy(t)
  /\ \A t \in Syncer : ~InTx(t)
  /\ \A e \in Epoch : MaxEpoch(db, e) => chain[e] # None
  /\ \/ /\ \A e \in Epoch : MaxEpoch(db, e) => db[e] = chain[e] \/ e = 0
        /\ db' = db
     \/ /\ \E e \in Epoch : MaxEpoch(db, e) /\ db[e] # chain[e]
        /\ \E e \in Epoch : FirstReverted(e) /\ db' = Remove(db, e, LastEpoch)
  /\ pc' = [pc EXCEPT ![s] = "await"]
  /\ \E e \in 0 .. LastEpoch + 1 :
       /\ IF db' = NoEpochs THEN e = FromEpoch ELSE MaxEpoch(db', e - 1)
       /\ from' = [from EXCEPT ![s] = e]
  /\ UNCHANGED <<env, election, to, slice, popTo, win, faults>>

\* The memory of a process is gone.
Gone(s) ==
  /\ pc' = [pc EXCEPT ![s] = "down"]
  /\ status' = [status EXCEPT ![s] = "none"]
  /\ monitor' = [monitor EXCEPT ![s] = FALSE]
  /\ from' = [from EXCEPT ![s] = FromEpoch]
  /\ to' = [to EXCEPT ![s] = 0]
  /\ slice' = [slice EXCEPT ![s] = << >>]
  /\ popTo' = [popTo EXCEPT ![s] = 0]
  /\ win' = [win EXCEPT ![s] = NoEpochs]

\* The process dies at any point.  An open transaction rolls back, but the
\* lock stays until its lease is over: the next process has another identity.
Crash(s) ==
  /\ pc[s] # "down"
  /\ faults < MaxFaults
  /\ faults' = faults + 1
  /\ Gone(s)
  /\ lock' = IF lock = s THEN Orphan ELSE lock
  /\ UNCHANGED <<env, db>>

\* Sync returns between two rounds and its deferred Stop releases the lock.
Stop(s) ==
  /\ pc[s] = "await"
  /\ faults < MaxFaults
  /\ faults' = faults + 1
  /\ Gone(s)
  /\ lock' = IF lock = s THEN None ELSE lock
  /\ UNCHANGED <<env, db>>
-----------------------------------------------------------------------------
(* sync/election: the Campaign goroutine and the finalizer Extend.         *)

\* Mutant of acquireLock: the owner of the lock is not looked at.
StealLock(s) == lock' = s

\* acquireLock succeeds: the lock is free, or held under the same identity.
acquireLock(s) == lock \in {None, s} /\ lock' = s

\* Mutant of Elect: onLeadershipChanged keeps the pivot window.
ElectKeepsWindow(s) ==
  /\ pc[s] # "down"
  /\ status[s] # "elected"
  /\ acquireLock(s)
  /\ monitor' = [monitor EXCEPT ![s] = TRUE]
  /\ status' = [status EXCEPT ![s] = "elected"]
  /\ UNCHANGED <<env, db, pc, round, win, faults>>

\* retryLock gets the lock, and onElected runs the elected callbacks: the
\* monitor starts and onLeadershipChanged empties the pivot window.
Elect(s) ==
  /\ pc[s] # "down"
  /\ status[s] # "elected"
  /\ acquireLock(s)
  /\ monitor' = [monitor EXCEPT ![s] = TRUE]
  /\ win' = [win EXCEPT ![s] = NoEpochs]
  /\ status' = [status EXCEPT ![s] = "elected"]
  /\ UNCHANGED <<env, db, pc, round, faults>>

\* renewLock renews the lease, also one that has run out in the meantime.
Renew(s) ==
  /\ status[s] = "elected"
  /\ acquireLock(s)
  /\ UNCHANGED <<env, db, status, monitor, pc, round, win, faults>>

\* The callbacks that onOusted runs: the ones registered for elected.
onOustedCallbacks(s) ==
  /\ monitor' = [monitor EXCEPT ![s] = TRUE]
  /\ win' = [win EXCEPT ![s] = NoEpochs]

\* renewLock finds another owner, or the call fails; onOusted follows.
Oust(s) ==
  /\ status[s] = "elected"
  /\ \/ lock \notin {None, s} /\ faults' = faults
     \/ faults < MaxFaults /\ faults' = faults + 1
  /\ status' = [status EXCEPT ![s] = "ousted"]
  /\ onOustedCallbacks(s)
  /\ UNCHANGED <<env, db, lock, pc, round>>

\* The lock is acquired in the database but the reply is lost: retryLock
\* backs off and tries again.
AcquireReplyLost(s) ==
  /\ pc[s] # "down"
  /\ status[s] # "elected"
  /\ faults < MaxFaults
  /\ faults' = faults + 1
  /\ acquireLock(s)
  /\ UNCHANGED <<env, db, status, monitor, pc, round, win>>

\* The finalizer of every transaction of the leader.
Extend(s) == status[s] = "elected" /\ acquireLock(s)

-----------------------------------------------------------------------------
(* sync/sync_db.go: one round of syncOnce.                                 *)

Goto(s, label) == pc' = [pc EXCEPT ![s] = label]

\* A step that only moves on, or gives up the round.
Skip(s, label) == Goto(s, label) /\ UNCHANGED <<env, db, election, round, win>>

\* Await returns: elected, and the lease has not run out.
Await(s) ==
  /\ pc[s] = "await"
  /\ status[s] = "elected"
  /\ lock = s
  /\ Skip(s, "load")
  /\ UNCHANGED faults

\* The latest confirmed epoch, then loadLastSyncEpoch and nextEpochTo.
Load(s) ==
  /\ pc[s] = "load"
  /\ \E e \in 0 .. LastEpoch + 1, latest \in Epoch :
       /\ IF db = NoEpochs THEN e = FromEpoch ELSE MaxEpoch(db, e - 1)
       /\ MaxEpoch(chain, latest)
       /\ from' = [from EXCEPT ![s] = e]
       /\ IF e > latest
          THEN Goto(s, "await") /\ UNCHANGED <<to, slice>>
          ELSE /\ to' = [to EXCEPT ![s] = IF e + MaxSyncEpochs - 1 < latest
                                          THEN e + MaxSyncEpochs - 1 ELSE latest]
               /\ slice' = [slice EXCEPT ![s] = << >>]
               /\ Goto(s, "query")
  /\ UNCHANGED <<env, db, election, popTo, win, faults>>

\* What follows the query of an epoch: the next one or, after the last, the push.
AfterQuery(s, n) == IF from[s] + n > to[s] THEN "push" ELSE "query"

\* QueryEpochData succeeds.  The first epoch is yet to be compared with the
\* store; another one is compared with its predecessor in the slice, and a
\* mismatch drops the predecessor as well and ends the loop.
Query(s) ==
  /\ pc[s] = "query"
  /\ LET n == Len(slice[s])
         b == chain[from[s] + n]
     IN  /\ b # None
         /\ IF n = 0 \/ Parent[b] = slice[s][n]
            THEN /\ slice' = [slice EXCEPT ![s] = Append(@, b)]
                 /\ Goto(s, IF n = 0 THEN "check" ELSE AfterQuery(s, n + 1))
            ELSE /\ slice' = [slice EXCEPT ![s] = SubSeq(@, 1, n - 1)]
                 /\ Goto(s, IF n = 1 THEN "await" ELSE "push")
  /\ UNCHANGED <<env, db, election, from, to, popTo, win, faults>>

\* QueryEpochData finds the pivot switched half way (ErrEpochPivotSwitched)
\* and the loop ends with what it has.
QuerySwitched(s) ==
  /\ pc[s] = "query"
  /\ faults < MaxFaults
  /\ faults' = faults + 1
  /\ Skip(s, IF slice[s] = << >> THEN "await" ELSE "push")

\* The full node does not know the epoch (its chain has become shorter).
QueryMissing(s) ==
  /\ pc[s] = "query"
  /\ chain[from[s] + Len(slice[s])] = None
  /\ Skip(s, "await")
  /\ UNCHANGED faults

\* A call of the full node or of the database fails and syncOnce returns its
\* error; an open transaction rolls back.
Fail(s) ==
  /\ pc[s] \in {"load", "query", "check", "push", "pushTx", "pushCommit",
                "pop", "popTx", "popCommit"}
  /\ faults < MaxFaults
  /\ faults' = faults + 1
  /\ Skip(s, "await")

\* Mutant of LatestPivotHash: the window is read one epoch too low.
LatestPivotHashOffByOne(s) ==
  IF from[s] > 1 /\ win[s][from[s] - 2] # None THEN win[s][from[s] - 2]
  ELSE IF from[s] > 0 THEN db[from[s] - 1] ELSE None

\* getStoreLatestPivotHash: from the window first, else from the store.
LatestPivotHash(s) ==
  CASE from[s] = 0 -> None
    [] from[s] > 0 /\ win[s][from[s] - 1] # None -> win[s][from[s] - 1]
    [] OTHER -> db[from[s] - 1]

\* Mutants of Check: the hash is not compared; a mismatch does not revert.
CheckNothing(s) == pc[s] = "check" /\ Skip(s, AfterQuery(s, 1)) /\ UNCHANGED faults

CheckNeverReverts(s) ==
  /\ pc[s] = "check"
  /\ LET hash == LatestPivotHash(s)
     IN  Skip(s, IF hash = None \/ Parent[slice[s][1]] = hash THEN AfterQuery(s, 1) ELSE "await")
  /\ UNCHANGED faults

\* The first epoch must be the child of the latest one in the store, which is
\* reverted otherwise (and the genesis epoch never is).
Check(s) ==
  /\ pc[s] = "check"
  /\ LET hash == LatestPivotHash(s)
     IN  Skip(s, IF hash = None \/ Parent[slice[s][1]] = hash THEN AfterQuery(s, 1)
                 ELSE IF from[s] - 1 = 0 THEN "await" ELSE "pop")
  /\ UNCHANGED faults
-----------------------------------------------------------------------------
(* store/mysql/store.go: PushnWithFinalizer and PopnWithFinalizer.         *)

\* The row locks of an open transaction on the end of epoch_block_map make
\* every other writer wait.
Unlocked(s) == \A t \in Syncer \ {s} : ~InTx(t)

\* The continuity check reads MAX(epoch) before the transaction begins.
Push(s) ==
  /\ pc[s] = "push"
  /\ Skip(s, IF RequireContinuous(db, from[s]) THEN "pushTx" ELSE "await")
  /\ UNCHANGED faults

\* The rows are inserted, a duplicate epoch being an error, and the finalizer
\* extends the lease; without leadership the transaction rolls back.
PushTx(s) ==
  /\ pc[s] = "pushTx"
  /\ Unlocked(s)
  /\ LET duplicate == \E e \in from[s] .. from[s] + Len(slice[s]) - 1 : db[e] # None
     IN  \/ ~duplicate /\ Extend(s) /\ Goto(s, "pushCommit")
         \/ (duplicate \/ ~(status[s] = "elected" /\ lock \in {None, s}))
            /\ Goto(s, "await") /\ lock' = lock
  /\ UNCHANGED <<env, db, status, monitor, round, win, faults>>

PushCommit(s) ==
  /\ pc[s] = "pushCommit"
  /\ db' = Pushn(db, from[s], slice[s])
  /\ Goto(s, "window")
  /\ UNCHANGED <<env, election, round, win, faults>>

\* PopnWithFinalizer also reads MAX(epoch) before the transaction begins.
Pop(s) ==
  /\ pc[s] = "pop"
  /\ \/ /\ \E e \in Epoch : /\ MaxEpoch(db, e)
                            /\ e >= from[s] - 1
                            /\ popTo' = [popTo EXCEPT ![s] = e]
        /\ Goto(s, "popTx")
     \/ /\ \A e \in Epoch : e >= from[s] - 1 => db[e] = None
        /\ Goto(s, "popWin")
        /\ popTo' = popTo
  /\ UNCHANGED <<env, db, election, from, to, slice, win, faults>>

PopTx(s) ==
  /\ pc[s] = "popTx"
  /\ Unlocked(s)
  /\ \/ Extend(s) /\ Goto(s, "popCommit")
     \/ ~(status[s] = "elected" /\ lock \in {None, s}) /\ Goto(s, "await") /\ lock' = lock
  /\ UNCHANGED <<env, db, status, monitor, round, win, faults>>

PopCommit(s) ==
  /\ pc[s] = "popCommit"
  /\ db' = Remove(db, from[s] - 1, popTo[s])
  /\ Goto(s, "popWin")
  /\ UNCHANGED <<env, election, round, win, faults>>

\* The commit is done, but its reply is lost and syncOnce returns an error.
CommitReplyLost(s) ==
  /\ faults < MaxFaults
  /\ faults' = faults + 1
  /\ \/ pc[s] = "pushCommit" /\ db' = Pushn(db, from[s], slice[s])
     \/ pc[s] = "popCommit" /\ db' = Remove(db, from[s] - 1, popTo[s])
  /\ Goto(s, "await")
  /\ UNCHANGED <<env, election, round, win>>

-----------------------------------------------------------------------------
(* sync/epoch_pivot.go: the pivot window after a push and after a pop.     *)

\* Push, block by block.  The first one must be the child of the latest block
\* in the window, or else the window is reset; the others follow it by the
\* continuity of the slice.  The oldest epochs leave at the capacity.
WinPush(w, e, batch) ==
  LET last == e + Len(batch) - 1
      fits == w = NoEpochs \/ (MaxEpoch(w, e - 1) /\ w[e - 1] = Parent[batch[1]])
  IN  IF fits THEN Remove(Pushn(w, e, batch), 0, last - WinCapacity) ELSE NoEpochs

\* Mutant of Window: epochFrom moves one epoch too far.
WindowOffByOne(s) ==
  /\ pc[s] = "window"
  /\ win' = [win EXCEPT ![s] = WinPush(@, from[s], slice[s])]
  /\ from' = [from EXCEPT ![s] = @ + Len(slice[s]) + 1]
  /\ Goto(s, "await")
  /\ UNCHANGED <<env, db, election, to, slice, popTo, faults>>

Window(s) ==
  /\ pc[s] = "window"
  /\ win' = [win EXCEPT ![s] = WinPush(@, from[s], slice[s])]
  /\ from' = [from EXCEPT ![s] = @ + Len(slice[s])]
  /\ Goto(s, "await")
  /\ UNCHANGED <<env, db, election, to, slice, popTo, faults>>

\* Popn, and epochFrom set back to the reverted epoch.
PopWin(s) ==
  /\ pc[s] = "popWin"
  /\ win' = [win EXCEPT ![s] = Remove(@, from[s] - 1, LastEpoch)]
  /\ from' = [from EXCEPT ![s] = @ - 1]
  /\ Goto(s, "await")
  /\ UNCHANGED <<env, db, election, to, slice, popTo, faults>>

-----------------------------------------------------------------------------
SyncStep(s) ==
  \/ Await(s) \/ Load(s) \/ Query(s) \/ QueryMissing(s) \/ Check(s)
  \/ Push(s) \/ PushTx(s) \/ PushCommit(s) \/ Window(s)
  \/ Pop(s) \/ PopTx(s) \/ PopCommit(s) \/ PopWin(s)

Next ==
  \/ GrowChain \/ RevertChain \/ OrphanExpires
  \/ \E s \in Syncer :
       \/ LeaseExpires(s) \/ Start(s) \/ Crash(s) \/ Stop(s)
       \/ Elect(s) \/ Renew(s) \/ Oust(s) \/ AcquireReplyLost(s)
       \/ SyncStep(s) \/ QuerySwitched(s) \/ Fail(s)

\* As Next, over a connection to the database that may break in a commit.
LossyNext == Next \/ \E s \in Syncer : CommitReplyLost(s)

Spec == Init /\ [][Next]_vars

(***************************************************************************)
(* Fairness: leases end, processes are restarted, and neither goroutine of *)
(* a running process stops for ever.  The chain grows; nothing has to fail *)
(* and the chain need not revert.                                          *)
(***************************************************************************)
Fairness ==
  /\ WF_vars(GrowChain)
  /\ WF_vars(OrphanExpires)
  /\ \A s \in Syncer :
       /\ WF_vars(LeaseExpires(s))
       /\ WF_vars(Start(s))
       /\ WF_vars(Elect(s))
       /\ WF_vars(SyncStep(s))

FairSpec == Spec /\ Fairness
-----------------------------------------------------------------------------
(* Properties.  Those of the store and of the rounds assume that none of   *)
(* the mishaps happens (Mishaps = {}, and Next instead of LossyNext): each *)
(* of them breaks StoreIsChain.                                            *)

\* The stored epochs are consecutive from the configured start and every one
\* of them is the child of the epoch before it.  syncOnce compares parent
\* hashes before it writes, with a cached hash, and PushnWithFinalizer checks
\* the epoch number outside its transaction: whatever the processes do in
\* between, what is committed must be continuous.
StoreIsChain == IsChain(db, FromEpoch)

\* At most one process is between Await and the end of its round: the lease
\* makes the rounds of different processes, and so the reads and writes of
\* syncOnce, exclusive.
RoundsExclude == \A s, t \in Syncer : Busy(s) /\ Busy(t) => s = t

\* The pivot window never contradicts the store: after crashes, lost replies
\* and changes of leadership, an epoch that is in both has the same hash in
\* both (but for the moment between a commit and the update of the window).
WindowAgrees ==
  \A s \in Syncer, e \in Epoch :
    /\ status[s] = "elected" \/ Busy(s)
    /\ pc[s] # "window"
    /\ win[s][e] # None /\ db[e] # None
    => win[s][e] = db[e]

\* A leader on its way to pop the latest epoch holds a block of the full node
\* that is not a child of that epoch: pivotSwitchRevert never throws away an
\* epoch that the data at hand does not contradict.
NoNeedlessPop ==
  \A s \in Syncer :
    pc[s] \in {"pop", "popTx", "popCommit"} => Parent[slice[s][1]] # db[from[s] - 1]

\* The store behaves as the stack of epochs that store.StackOperable promises.
Stack == INSTANCE EpochStack WITH
  Block <- Block, None <- None, Genesis <- Genesis, Parent <- Parent,
  LastEpoch <- LastEpoch, FromEpoch <- FromEpoch, db <- db
StoreIsStack == Stack!Spec

\* However rounds fail and leaders change, the store reaches the latest
\* confirmed epoch of the full node and stays there.
CatchesUp == <>[](\A e \in Epoch : chain[e] # None /\ e >= FromEpoch => db[e] # None)
=============================================================================
