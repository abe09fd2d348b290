-------------------------------- MODULE Boost --------------------------------
(***************************************************************************)
(* The boosted catch-up of the core space (sync/catchup/boost.go): workers *)
(* query ranges of epochs, the dispatch loop of the coordinator puts the   *)
(* results in order, splits and recalls failed ranges and assigns new      *)
(* ones, a persister writes them to the store, and a memory monitor stops  *)
(* workers and dispatch loop while memory is short.  The goroutine that    *)
(* starts them seeds the queue beside the dispatch loop already running,   *)
(* and both change nextAssignEpoch and recallTaskPq without a lock.        *)
(***************************************************************************)
EXTENDS Integers, Sequences, FiniteSets, Functions

CONSTANTS
  Workers,          \* the boost workers
  LastEpoch,        \* the last epoch to catch up with; the first is 1
  TaskQueueSize, ResultQueueSize, WriteBufferSize,
  DefaultTaskSize, MinTaskSize, MaxTaskSize,
  Threshold,        \* memoryHealthCfg.Threshold
  MaxErrs,          \* bound: queries that fail
  MaxFaults,        \* bound: failed writes, shutdowns and crashes
  MaxAlarms,        \* bound: times that memory becomes short
  Nil               \* no task

ASSUME BoostAssumption ==
  /\ LastEpoch \in Nat /\ TaskQueueSize \in Nat \ {0} /\ ResultQueueSize \in Nat \ {0}
  /\ WriteBufferSize \in Nat \ {0} /\ Threshold \in Nat \ {0}
  /\ MinTaskSize \in Nat \ {0} /\ MaxTaskSize \in Nat /\ MinTaskSize <= MaxTaskSize
  /\ DefaultTaskSize \in Nat \ {0}
  /\ MaxErrs \in Nat /\ MaxFaults \in Nat /\ MaxAlarms \in Nat
  /\ Nil \notin [from : Nat, to : Nat]

Epoch == 1 .. LastEpoch
Task == {t \in [from : Epoch, to : Epoch] : t.from <= t.to}

\* The epochs that a successful query of a task returns: all of its range.
queryEpochData(t) == t.from .. t.to

NumWorkers == Cardinality(Workers)

\* The goroutines that run assignTasks.
Assigners == {"run", "dispatch"}

VARIABLES
  stored,      \* the latest epoch in the store, 0 for none
  nextAssign,  \* nextAssignEpoch
  nextWrite,   \* nextWriteEpoch
  pending,     \* pendingTaskQueue
  recall,      \* recallTaskPq
  results,     \* taskResultQueue
  cache,       \* the epochs in epochDataStore
  chan,        \* epochResultChan
  wpc, wtask,  \* per worker: its next step, its task
  dpc, batch,  \* the dispatch loop: its next step, the results to process
  apc,         \* per assigner: the next step of assignTasks
  cnt,         \* its numPendingTasks
  todo,        \* the tasks it is about to add
  bump,        \* the nextAssignEpoch it is about to set, or 0
  seen,        \* recallTaskPq as run found it when it began to pop
  ppc,         \* the persister: "fetch" or "stopped"
  collected,   \* the epochs of its persistState
  cancelled,   \* the context of the round is done
  closed,      \* the backpressure channel is closed
  high,        \* consecutive checks that found memory short
  raced,       \* history: run's pop overlapped with a change by the dispatch loop
  errs, faults, alarms

queues == <<nextAssign, pending, recall>>
worker == <<wpc, wtask, results>>
dispatch == <<dpc, batch, cache, nextWrite>>
assign == <<apc, cnt, todo, bump, seen>>
persister == <<ppc, collected, stored>>
monitor == <<closed, high, alarms>>
vars == <<queues, worker, dispatch, assign, persister, chan, monitor, cancelled, raced, errs, faults>>

TypeOK ==
  /\ stored \in 0 .. LastEpoch /\ nextAssign \in 1 .. LastEpoch + 1 /\ nextWrite \in 1 .. LastEpoch + 1
  /\ pending \in Seq(Task) /\ Len(pending) <= TaskQueueSize
  /\ recall \in Seq(Task) /\ seen \in Seq(Task)
  /\ results \in Seq([task : Task, ok : BOOLEAN]) /\ Len(results) <= ResultQueueSize
  /\ batch \in Seq([task : Task, ok : BOOLEAN])
  /\ cache \subseteq Epoch
  /\ chan \in Seq(Epoch) /\ Len(chan) <= WriteBufferSize
  /\ wpc \in [Workers -> {"loop", "select", "busy", "stopped"}]
  /\ wtask \in [Workers -> Task \cup {Nil}] /\ \A w \in Workers : wpc[w] = "busy" <=> wtask[w] # Nil
  /\ dpc \in {"loop", "select", "each", "flush", "assign", "stopped"}
  /\ apc \in [Assigners -> {"off", "loop", "pop", "add", "bump"}]
  /\ cnt \in [Assigners -> Nat] /\ todo \in [Assigners -> Seq(Task)] /\ bump \in [Assigners -> 0 .. LastEpoch + 1]
  /\ ppc \in {"fetch", "stopped"} /\ collected \in Seq(Epoch)
  /\ cancelled \in BOOLEAN /\ closed \in BOOLEAN /\ raced \in BOOLEAN
  /\ high \in 0 .. Threshold
  /\ errs \in 0 .. MaxErrs /\ faults \in 0 .. MaxFaults /\ alarms \in 0 .. MaxAlarms
-----------------------------------------------------------------------------
Everywhere(S, x) == [s \in S |-> x]
Seeding == [a \in Assigners |-> IF a = "run" THEN "loop" ELSE "off"]

\* The first round.
Init ==
  /\ stored = 0
  /\ nextAssign = 1 /\ nextWrite = 1
  /\ pending = <<>> /\ recall = <<>> /\ results = <<>>
  /\ cache = {} /\ chan = <<>>
  /\ wpc = Everywhere(Workers, "select") /\ wtask = Everywhere(Workers, Nil)
  /\ dpc = "select" /\ batch = <<>> /\ apc = Seeding
  /\ cnt = Everywhere(Assigners, 0) /\ todo = Everywhere(Assigners, <<>>) /\ bump = Everywhere(Assigners, 0)
  /\ seen = <<>> /\ ppc = "fetch" /\ collected = <<>>
  /\ cancelled = FALSE /\ closed = FALSE /\ high = 0
  /\ raced = FALSE /\ errs = 0 /\ faults = 0 /\ alarms = 0

\* doSync starts the goroutines of a round over stored + 1 .. LastEpoch, with a
\* new coordinator and a new result channel.
StartRound ==
  /\ nextAssign' = stored + 1 /\ nextWrite' = stored + 1
  /\ pending' = <<>> /\ recall' = <<>> /\ results' = <<>>
  /\ cache' = {} /\ chan' = <<>>
  /\ wpc' = Everywhere(Workers, "select") /\ wtask' = Everywhere(Workers, Nil)
  /\ dpc' = "select" /\ batch' = <<>> /\ apc' = Seeding
  /\ cnt' = Everywhere(Assigners, 0) /\ todo' = Everywhere(Assigners, <<>>) /\ bump' = Everywhere(Assigners, 0)
  /\ seen' = <<>> /\ ppc' = "fetch" /\ collected' = <<>>
  /\ cancelled' = FALSE /\ closed' = FALSE /\ high' = 0 /\ raced' = FALSE
  /\ UNCHANGED <<stored, errs, alarms>>

AllStopped ==
  /\ \A w \in Workers : wpc[w] = "stopped"
  /\ dpc = "stopped" /\ apc["run"] = "off" /\ ppc = "stopped"

\* Sync: the next round, unless start > end; after a shutdown, that of the
\* process when it is started again.
NextRound ==
  /\ AllStopped
  /\ stored < LastEpoch
  /\ StartRound
  /\ UNCHANGED faults

\* The process ends at any point and is started again.
Crash ==
  /\ faults < MaxFaults
  /\ faults' = faults + 1
  /\ StartRound

\* The context that Sync was called with is done.
Shutdown ==
  /\ faults < MaxFaults /\ ~cancelled
  /\ faults' = faults + 1
  /\ cancelled' = TRUE
  /\ UNCHANGED <<queues, worker, dispatch, assign, persister, chan, monitor, raced, errs>>
-----------------------------------------------------------------------------
(* boostWorkerLoop.  The outer select always takes a closed backpressure   *)
(* channel or a done context ("loop"), the inner one, in which a goroutine *)
(* waits otherwise, may also receive ("select").                           *)

Top == IF closed \/ cancelled THEN "loop" ELSE "select"

WorkerSet(w, pc, t) == wpc' = [wpc EXCEPT ![w] = pc] /\ wtask' = [wtask EXCEPT ![w] = t]

WorkerLoop(w) ==
  /\ wpc[w] = "loop" /\ ~cancelled /\ ~closed
  /\ WorkerSet(w, "select", Nil)
  /\ UNCHANGED <<queues, results, dispatch, assign, persister, chan, monitor, cancelled, raced, errs, faults>>

WorkerPressed(w) ==
  /\ wpc[w] = "select" /\ closed
  /\ WorkerSet(w, "loop", Nil)
  /\ UNCHANGED <<queues, results, dispatch, assign, persister, chan, monitor, cancelled, raced, errs, faults>>

WorkerTake(w) ==
  /\ wpc[w] = "select" /\ pending # <<>>
  /\ WorkerSet(w, "busy", Head(pending))
  /\ pending' = Tail(pending)
  /\ UNCHANGED <<nextAssign, recall, results, dispatch, assign, persister, chan, monitor, cancelled, raced, errs, faults>>

\* A query succeeds or fails as a whole; the result is sent whatever has
\* become of the context.
WorkerSend(w) ==
  /\ wpc[w] = "busy" /\ Len(results) < ResultQueueSize
  /\ \/ results' = Append(results, [task |-> wtask[w], ok |-> TRUE]) /\ errs' = errs
     \/ /\ errs < MaxErrs
        /\ results' = Append(results, [task |-> wtask[w], ok |-> FALSE])
        /\ errs' = errs + 1
  /\ WorkerSet(w, Top, Nil)
  /\ UNCHANGED <<queues, dispatch, assign, persister, chan, monitor, cancelled, raced, faults>>

\* Mutant of WorkerStop: the inner select does not watch the context.
WorkerStopsOutside(w) ==
  /\ wpc[w] = "loop" /\ cancelled
  /\ WorkerSet(w, "stopped", Nil)
  /\ UNCHANGED <<queues, results, dispatch, assign, persister, chan, monitor, cancelled, raced, errs, faults>>

WorkerStop(w) ==
  /\ wpc[w] \in {"loop", "select"} /\ cancelled
  /\ WorkerSet(w, "stopped", Nil)
  /\ UNCHANGED <<queues, results, dispatch, assign, persister, chan, monitor, cancelled, raced, errs, faults>>
-----------------------------------------------------------------------------
(* assignTasks, called by run and by the dispatch loop.                    *)

\* Mutant of Halves: an upper half of one epoch is left out.
HalvesShort(t) ==
  LET mid == (t.from + t.to) \div 2
  IN  IF mid + 1 < t.to THEN <<[from |-> t.from, to |-> mid], [from |-> mid + 1, to |-> t.to]>>
      ELSE <<[from |-> t.from, to |-> mid]>>

\* The sub-tasks of a recalled task.
Halves(t) ==
  LET mid == (t.from + t.to) \div 2
  IN  IF mid + 1 <= t.to THEN <<[from |-> t.from, to |-> mid], [from |-> mid + 1, to |-> t.to]>>
      ELSE <<[from |-> t.from, to |-> mid]>>

\* The heap or batch without what is at i.
RemoveAt(s, i) == SubSeq(s, 1, i - 1) \o SubSeq(s, i + 1, Len(s))

\* The positions heap.Pop may take the task from.
Tops(h) == {i \in DOMAIN h : \A j \in DOMAIN h : h[i].from <= h[j].from}

\* The sizes a call may be made with: run's, or what estimateTaskSize returns.
TaskSizes(a) == IF a = "run" THEN {DefaultTaskSize} ELSE MinTaskSize .. MaxTaskSize

AssignSet(a, pc, n, ts, b) ==
  /\ apc' = [apc EXCEPT ![a] = pc] /\ cnt' = [cnt EXCEPT ![a] = n]
  /\ todo' = [todo EXCEPT ![a] = ts] /\ bump' = [bump EXCEPT ![a] = b]

\* The call returns, and the dispatch loop goes on with dp.
AssignReturn(a, dp) ==
  /\ AssignSet(a, "off", 0, <<>>, 0)
  /\ dpc' = IF a = "dispatch" THEN dp ELSE dpc

\* A recalled task comes first.  The dispatch loop pops it at once; run's pop
\* takes two steps, so that the dispatch loop may change the heap in between.
AssignRecall(a) ==
  /\ apc[a] = "loop" /\ cnt[a] < NumWorkers /\ recall # <<>>
  /\ IF a = "run"
     THEN AssignSet(a, "pop", cnt[a], <<>>, 0) /\ seen' = recall /\ UNCHANGED recall
     ELSE \E i \in Tops(recall) :
            /\ AssignSet(a, "add", cnt[a], Halves(recall[i]), 0)
            /\ recall' = RemoveAt(recall, i)
            /\ UNCHANGED seen
  /\ UNCHANGED <<nextAssign, pending, worker, dispatch, persister, chan, monitor, cancelled, raced, errs, faults>>

\* Without a change in between the pop is what it should be.  Otherwise the
\* goroutine that writes the slice last wins: the task stays, or what the
\* dispatch loop did is undone.
AssignPop ==
  /\ apc["run"] = "pop"
  /\ \E i \in Tops(seen) :
       /\ AssignSet("run", "add", cnt["run"], Halves(seen[i]), 0)
       /\ IF recall = seen
          THEN recall' = RemoveAt(seen, i) /\ UNCHANGED raced
          ELSE recall' \in {recall, RemoveAt(seen, i)} /\ raced' = TRUE
  /\ seen' = <<>>
  /\ UNCHANGED <<nextAssign, pending, worker, dispatch, persister, chan, monitor, cancelled, errs, faults>>

\* Mutant of AssignNew: the end of the range taken as exclusive.
AssignNewSkips(a) ==
  /\ apc[a] = "loop" /\ cnt[a] < NumWorkers /\ recall = <<>>
  /\ nextAssign <= LastEpoch
  /\ \E size \in TaskSizes(a) :
       LET end == IF nextAssign + size < LastEpoch THEN nextAssign + size ELSE LastEpoch
       IN  AssignSet(a, "add", cnt[a], <<[from |-> nextAssign, to |-> end]>>, end + 2)
  /\ UNCHANGED <<queues, worker, dispatch, seen, persister, chan, monitor, cancelled, raced, errs, faults>>

AssignNew(a) ==
  /\ apc[a] = "loop" /\ cnt[a] < NumWorkers /\ recall = <<>>
  /\ nextAssign <= LastEpoch
  /\ \E size \in TaskSizes(a) :
       LET end == IF nextAssign + size - 1 < LastEpoch THEN nextAssign + size - 1 ELSE LastEpoch
       IN  AssignSet(a, "add", cnt[a], <<[from |-> nextAssign, to |-> end]>>, end + 1)
  /\ UNCHANGED <<queues, worker, dispatch, seen, persister, chan, monitor, cancelled, raced, errs, faults>>

AssignEnd(a) ==
  /\ apc[a] = "loop"
  /\ cnt[a] >= NumWorkers \/ (recall = <<>> /\ nextAssign > LastEpoch)
  /\ AssignReturn(a, Top)
  /\ UNCHANGED <<queues, worker, batch, cache, nextWrite, seen, persister, chan, monitor, cancelled, raced, errs, faults>>

addPendingTask(a) ==
  /\ apc[a] = "add"
  /\ Len(pending) < TaskQueueSize
  /\ pending' = Append(pending, Head(todo[a]))
  /\ LET rest == Tail(todo[a])
         pc == IF rest # <<>> THEN "add" ELSE IF bump[a] # 0 THEN "bump" ELSE "loop"
     IN  AssignSet(a, pc, cnt[a] + 1, rest, bump[a])
  /\ UNCHANGED <<nextAssign, recall, worker, dispatch, seen, persister, chan, monitor, cancelled, raced, errs, faults>>

\* Mutant of AssignBump: nextAssignEpoch is raised by the size of the task.
AssignBumpAdds(a) ==
  /\ apc[a] = "bump"
  /\ nextAssign' = IF nextAssign + DefaultTaskSize <= LastEpoch THEN nextAssign + DefaultTaskSize ELSE LastEpoch + 1
  /\ AssignSet(a, "loop", cnt[a], <<>>, 0)
  /\ UNCHANGED <<pending, recall, worker, dispatch, seen, persister, chan, monitor, cancelled, raced, errs, faults>>

\* The range counts as assigned once its task is in the queue.
AssignBump(a) ==
  /\ apc[a] = "bump"
  /\ nextAssign' = bump[a]
  /\ AssignSet(a, "loop", cnt[a], <<>>, 0)
  /\ UNCHANGED <<pending, recall, worker, dispatch, seen, persister, chan, monitor, cancelled, raced, errs, faults>>

AssignStop(a) ==
  /\ apc[a] = "add" /\ cancelled
  /\ AssignReturn(a, "stopped")
  /\ UNCHANGED <<queues, worker, batch, cache, nextWrite, seen, persister, chan, monitor, cancelled, raced, errs, faults>>
-----------------------------------------------------------------------------
(* dispatchLoop.                                                           *)

DispatchLoop ==
  /\ dpc = "loop" /\ ~cancelled /\ ~closed
  /\ dpc' = "select"
  /\ UNCHANGED <<queues, worker, batch, cache, nextWrite, assign, persister, chan, monitor, cancelled, raced, errs, faults>>

DispatchPressed ==
  /\ dpc = "select" /\ closed
  /\ dpc' = "loop"
  /\ UNCHANGED <<queues, worker, batch, cache, nextWrite, assign, persister, chan, monitor, cancelled, raced, errs, faults>>

\* A batch: one result, and further ones while their number is below that of
\* the results left in the queue.
DispatchTake ==
  /\ dpc = "select" /\ results # <<>>
  /\ LET n == Len(results) \div 2 + 1
     IN  batch' = SubSeq(results, 1, n) /\ results' = SubSeq(results, n + 1, Len(results))
  /\ dpc' = "each"
  /\ UNCHANGED <<queues, wpc, wtask, cache, nextWrite, assign, persister, chan, monitor, cancelled, raced, errs, faults>>

\* collectEpochData sends until an epoch is missing.
Collect(e, c) == IF e \in c THEN "flush" ELSE "each"

\* Mutant of DispatchResult: a failed task is not recalled.
DispatchForgets ==
  /\ dpc = "each"
  /\ \E i \in DOMAIN batch :
       LET r == batch[i]
       IN  /\ \A j \in DOMAIN batch : r.task.from <= batch[j].task.from
           /\ batch' = RemoveAt(batch, i)
           /\ IF r.ok THEN cache' = cache \cup queryEpochData(r.task) /\ dpc' = Collect(nextWrite, cache')
              ELSE UNCHANGED <<cache, dpc>>
  /\ UNCHANGED <<queues, worker, nextWrite, assign, persister, chan, monitor, cancelled, raced, errs, faults>>

\* The results of the batch in the order of their tasks: a failed task is
\* recalled, the epochs of another are cached.
DispatchResult ==
  /\ dpc = "each"
  /\ \E i \in DOMAIN batch :
       LET r == batch[i]
       IN  /\ \A j \in DOMAIN batch : r.task.from <= batch[j].task.from
           /\ batch' = RemoveAt(batch, i)
           /\ IF r.ok THEN cache' = cache \cup queryEpochData(r.task) /\ dpc' = Collect(nextWrite, cache') /\ UNCHANGED recall
              ELSE recall' = Append(recall, r.task) /\ UNCHANGED <<cache, dpc>>
  /\ UNCHANGED <<nextAssign, pending, worker, nextWrite, assign, persister, chan, monitor, cancelled, raced, errs, faults>>

\* Mutant of Flush: whatever epoch is cached is sent.
FlushAny ==
  /\ dpc = "flush"
  /\ Len(chan) < WriteBufferSize
  /\ \E e \in cache : chan' = Append(chan, e) /\ cache' = cache \ {e}
  /\ nextWrite' = nextWrite + 1
  /\ dpc' = Collect(nextWrite', cache')
  /\ UNCHANGED <<queues, worker, batch, assign, persister, monitor, cancelled, raced, errs, faults>>

\* collectEpochData sends the epochs that are next in order.
Flush ==
  /\ dpc = "flush"
  /\ Len(chan) < WriteBufferSize
  /\ chan' = Append(chan, nextWrite)
  /\ cache' = cache \ {nextWrite}
  /\ nextWrite' = nextWrite + 1
  /\ dpc' = Collect(nextWrite', cache')
  /\ UNCHANGED <<queues, worker, batch, assign, persister, monitor, cancelled, raced, errs, faults>>

DispatchAssign ==
  /\ dpc = "each" /\ batch = <<>>
  /\ dpc' = "assign"
  /\ AssignSet("dispatch", "loop", Len(pending), <<>>, 0)
  /\ UNCHANGED <<queues, worker, batch, cache, nextWrite, seen, persister, chan, monitor, cancelled, raced, errs, faults>>

DispatchStop ==
  /\ dpc \in {"loop", "select", "flush"}
  /\ cancelled
  /\ dpc' = "stopped"
  /\ UNCHANGED <<queues, worker, batch, cache, nextWrite, assign, persister, chan, monitor, cancelled, raced, errs, faults>>
-----------------------------------------------------------------------------
(* fetchAndPersistResults; doSync cancels the round when it returns.       *)

Ended == ppc' = "stopped" /\ cancelled' = TRUE

\* The number of the epoch that is expected next.
Eno == stored + Len(collected) + 1

Fetch ==
  /\ ppc = "fetch" /\ chan # <<>> /\ Eno <= LastEpoch
  /\ chan' = Tail(chan)
  /\ IF Head(chan) = Eno
     THEN collected' = Append(collected, Head(chan)) /\ UNCHANGED <<ppc, cancelled>>
     ELSE Ended /\ UNCHANGED collected
  /\ UNCHANGED <<queues, worker, dispatch, assign, stored, monitor, raced, errs, faults>>

\* persist: after enough rows, when the timer forces it, or in the end.
Persist ==
  /\ ppc = "fetch" /\ collected # <<>>
  /\ stored' = stored + Len(collected)
  /\ collected' = <<>>
  /\ IF Eno > LastEpoch THEN Ended ELSE UNCHANGED <<ppc, cancelled>>
  /\ UNCHANGED <<queues, worker, dispatch, assign, chan, monitor, raced, errs, faults>>

\* The write or the renewal of leadership fails; of a lost connection one
\* cannot tell whether the write is in the store.
PersistFails ==
  /\ ppc = "fetch" /\ collected # <<>>
  /\ faults < MaxFaults
  /\ faults' = faults + 1
  /\ stored' \in {stored, stored + Len(collected)}
  /\ collected' = <<>>
  /\ Ended
  /\ UNCHANGED <<queues, worker, dispatch, assign, chan, monitor, raced, errs>>

PersisterStop ==
  /\ ppc = "fetch" /\ cancelled /\ Eno <= LastEpoch
  /\ Ended
  /\ UNCHANGED <<queues, worker, dispatch, assign, collected, stored, chan, monitor, raced, errs, faults>>
-----------------------------------------------------------------------------
(* memoryMonitorLoop.                                                      *)

MemoryShort ==
  /\ ~cancelled /\ high < Threshold
  /\ alarms < MaxAlarms
  /\ high' = high + 1
  /\ closed' = (high' = Threshold)
  /\ alarms' = IF closed' THEN alarms + 1 ELSE alarms
  /\ UNCHANGED <<queues, worker, dispatch, assign, persister, chan, cancelled, raced, errs, faults>>

MemoryFine ==
  /\ ~cancelled /\ high > 0
  /\ high' = 0
  /\ closed' = FALSE
  /\ UNCHANGED <<queues, worker, dispatch, assign, persister, chan, alarms, cancelled, raced, errs, faults>>

WorkerStep(w) ==
  WorkerLoop(w) \/ WorkerPressed(w) \/ WorkerTake(w) \/ WorkerSend(w) \/ WorkerStop(w)

AssignStep(a) ==
  \/ AssignRecall(a) \/ AssignNew(a) \/ AssignEnd(a)
  \/ addPendingTask(a) \/ AssignBump(a) \/ AssignStop(a)

DispatchStep ==
  \/ DispatchLoop \/ DispatchPressed \/ DispatchResult
  \/ Flush \/ DispatchAssign \/ DispatchStop
  \/ apc["run"] = "off" /\ DispatchTake

PersisterStep == Fetch \/ Persist \/ PersisterStop

\* The dispatch loop begins with the first results when run has seeded the
\* queue: a query of the full node takes much longer than the seeding.
Next ==
  \/ \E w \in Workers : WorkerStep(w)
  \/ \E a \in Assigners : AssignStep(a)
  \/ DispatchStep
  \/ PersisterStep \/ PersistFails
  \/ MemoryShort \/ MemoryFine
  \/ NextRound \/ Shutdown \/ Crash

\* Nothing but time keeps them in this order, though: a step in which the
\* dispatch loop may also begin while run is still seeding.
OverlapNext == Next \/ DispatchTake \/ AssignPop

\* Every goroutine goes on, and every query ends.
Fairness ==
  /\ \A w \in Workers : WF_vars(WorkerStep(w))
  /\ \A a \in Assigners : WF_vars(AssignStep(a))
  /\ WF_vars(DispatchStep) /\ WF_vars(PersisterStep)
  /\ WF_vars(NextRound)

Spec == Init /\ [][Next]_vars /\ Fairness

OverlapSpec == Init /\ [][OverlapNext]_vars
-----------------------------------------------------------------------------
\* What the tasks in hand cover, wherever they are.
Covered ==
  LET tasks == Range(pending) \cup Range(recall) \cup Range(todo["run"]) \cup Range(todo["dispatch"])
               \cup {r.task : r \in Range(results) \cup Range(batch)}
               \cup {wtask[w] : w \in {v \in Workers : wpc[v] = "busy"}}
               \cup (IF apc["run"] = "pop" THEN Range(seen) ELSE {})
  IN  cache \cup UNION {queryEpochData(t) : t \in tasks}

\* No epoch gets lost between the queues: of those below nextAssignEpoch, every
\* one that is not yet written is cached or covered by a task, although run and
\* the dispatch loop assign at the same time (unless they touch the heap of
\* recalled tasks at the same time).
NothingLost ==
  ~cancelled /\ ~raced => nextWrite .. nextAssign - 1 \subseteq Covered

\* The persister is given consecutive epochs from the one after the latest in
\* the store: the check of fetchAndPersistResults never fails.
DeliveredInOrder ==
  ppc = "fetch" => collected \o chan = [i \in 1 .. nextWrite - 1 - stored |-> stored + i]

\* When the context is done all goroutines of the round stop, so that doSync
\* returns.
RoundsReturn == cancelled ~> AllStopped \/ ~cancelled

\* The catch-up reaches the last epoch, whatever fails on the way, if memory is
\* not short for ever: the split and recalled tasks (assignTasks) and the new
\* rounds (Sync) fetch every epoch.
Finishes == <>[](~closed) => <>(stored = LastEpoch)
=============================================================================
