---------------------------- MODULE BoostProofs ----------------------------
(***************************************************************************)
(* The boosted catch-up delivers the epochs in order and loses none, for   *)
(* any number of workers and all sizes of queues and tasks, also when run  *)
(* and the dispatch loop overlap and break the heap of recalled tasks.     *)
(***************************************************************************)
EXTENDS Boost, TLAPS

\* What has been collected and what is in the channel continues the store, one
\* epoch after the other, up to the next one to be written.
Order ==
  /\ nextWrite = stored + Len(collected) + Len(chan) + 1
  /\ \A i \in 1 .. Len(collected) : collected[i] = stored + i
  /\ \A i \in 1 .. Len(chan) : chan[i] = stored + Len(collected) + i

OInv ==
  /\ stored \in Nat /\ nextWrite \in Nat
  /\ collected \in Seq(Nat) /\ chan \in Seq(Nat)
  /\ ppc = "fetch" => Order

\* The variables the invariant speaks of.
delivery == <<stored, nextWrite, collected, chan, ppc>>
-----------------------------------------------------------------------------
LEMMA InitOInv == Init => OInv
<1>. SUFFICES ASSUME Init PROVE OInv
  OBVIOUS
<1>1. stored = 0 /\ nextWrite = 1 /\ collected = <<>> /\ chan = <<>>
  BY Zenon DEF Init
<1>. QED  BY <1>1 DEF OInv, Order

\* The steps that leave the delivery alone.
LEMMA Undelivered ==
  ASSUME OInv, delivery' = delivery
  PROVE  OInv'
<1>1. stored' = stored /\ nextWrite' = nextWrite /\ collected' = collected /\ chan' = chan /\ ppc' = ppc
  BY Zenon DEF delivery
<1>. QED  BY <1>1, Zenon DEF OInv, Order

LEMMA WorkerSteps ==
  ASSUME NEW w \in Workers, WorkerStep(w)
  PROVE  delivery' = delivery
<1>. USE DEF delivery, persister, dispatch
<1>1. CASE WorkerLoop(w)
  BY <1>1, Zenon DEF WorkerLoop
<1>2. CASE WorkerPressed(w)
  BY <1>2, Zenon DEF WorkerPressed
<1>3. CASE WorkerTake(w)
  BY <1>3, Zenon DEF WorkerTake
<1>4. CASE WorkerSend(w)
  BY <1>4, Zenon DEF WorkerSend
<1>5. CASE WorkerStop(w)
  BY <1>5, Zenon DEF WorkerStop
<1>. QED  BY <1>1, <1>2, <1>3, <1>4, <1>5, Zenon DEF WorkerStep

LEMMA AssignSteps ==
  ASSUME AssignPop \/ \E a \in Assigners : AssignStep(a)
  PROVE  delivery' = delivery
<1>. USE DEF delivery, persister, dispatch
<1>1. CASE AssignPop
  BY <1>1, Zenon DEF AssignPop
<1>2. ASSUME NEW a \in Assigners, AssignStep(a) PROVE delivery' = delivery
  <2>1. CASE AssignRecall(a)
    BY <2>1, Zenon DEF AssignRecall
  <2>2. CASE AssignNew(a)
    BY <2>2, Zenon DEF AssignNew
  <2>3. CASE AssignEnd(a)
    BY <2>3, Zenon DEF AssignEnd
  <2>4. CASE addPendingTask(a)
    BY <2>4, Zenon DEF addPendingTask
  <2>5. CASE AssignBump(a)
    BY <2>5, Zenon DEF AssignBump
  <2>6. CASE AssignStop(a)
    BY <2>6, Zenon DEF AssignStop
  <2>. QED  BY <1>2, <2>1, <2>2, <2>3, <2>4, <2>5, <2>6, Zenon DEF AssignStep
<1>. QED  BY <1>1, <1>2, Zenon

\* The dispatch loop sends the next epoch, and nothing else.
LEMMA FlushStep ==
  ASSUME OInv, Flush
  PROVE  OInv'
<1>1. /\ chan' = Append(chan, nextWrite) /\ nextWrite' = nextWrite + 1
      /\ stored' = stored /\ collected' = collected /\ ppc' = ppc
  BY Zenon DEF Flush, persister
<1>2. stored \in Nat /\ nextWrite \in Nat /\ collected \in Seq(Nat) /\ chan \in Seq(Nat)
  BY Zenon DEF OInv
<1>3. chan' \in Seq(Nat) /\ nextWrite' \in Nat /\ Len(chan') = Len(chan) + 1
  BY <1>1, <1>2
<1>4. ASSUME ppc = "fetch" PROVE Order'
  <2>1. Order
    BY <1>4, Zenon DEF OInv
  <2>2. nextWrite' = stored' + Len(collected') + Len(chan') + 1
    BY <1>1, <1>2, <1>3, <2>1 DEF Order
  <2>3. ASSUME NEW i \in 1 .. Len(chan') PROVE chan'[i] = stored' + Len(collected') + i
    <3>1. \A j \in 1 .. Len(chan) : chan[j] = stored + Len(collected) + j
      BY <2>1, Zenon DEF Order
    <3>2. Len(chan) \in Nat /\ Len(collected) \in Nat
      BY ONLY <1>2
    <3>3. nextWrite = stored + Len(collected) + Len(chan) + 1
      BY <2>1, Zenon DEF Order
    <3>4. CASE i = Len(chan) + 1
      <4>1. chan'[i] = nextWrite
        BY ONLY <1>1, <1>2, <3>4
      <4>. QED  BY ONLY <1>1, <1>2, <3>2, <3>3, <3>4, <4>1
    <3>5. CASE i # Len(chan) + 1
      <4>1. i \in 1 .. Len(chan)
        BY ONLY <1>3, <3>2, <3>5, i \in 1 .. Len(chan')
      <4>2. chan'[i] = chan[i]
        BY ONLY <1>1, <1>2, <4>1
      <4>. QED  BY <1>1, <3>1, <4>1, <4>2, Zenon
    <3>. QED  BY <3>4, <3>5, Zenon
  <2>. QED  BY <1>1, <2>1, <2>2, <2>3, Zenon DEF Order
<1>. QED  BY <1>1, <1>2, <1>3, <1>4, Zenon DEF OInv

LEMMA DispatchSteps ==
  ASSUME OInv, DispatchStep \/ DispatchTake
  PROVE  OInv'
<1>. USE DEF delivery, persister
<1>1. CASE DispatchLoop
  BY <1>1, Undelivered, Zenon DEF DispatchLoop
<1>2. CASE DispatchPressed
  BY <1>2, Undelivered, Zenon DEF DispatchPressed
<1>3. CASE DispatchTake
  BY <1>3, Undelivered, Zenon DEF DispatchTake
<1>4. CASE DispatchResult
  BY <1>4, Undelivered, Zenon DEF DispatchResult
<1>5. CASE DispatchAssign
  BY <1>5, Undelivered, Zenon DEF DispatchAssign
<1>6. CASE DispatchStop
  BY <1>6, Undelivered, Zenon DEF DispatchStop
<1>7. CASE Flush
  BY <1>7, FlushStep, Zenon
<1>. QED  BY <1>1, <1>2, <1>3, <1>4, <1>5, <1>6, <1>7, Zenon DEF DispatchStep

\* The persister moves an epoch from the channel, writes what it has, or stops.
LEMMA PersisterSteps ==
  ASSUME OInv, PersisterStep \/ PersistFails
  PROVE  OInv'
<1>1. stored \in Nat /\ nextWrite \in Nat /\ collected \in Seq(Nat) /\ chan \in Seq(Nat)
  BY Zenon DEF OInv
<1>2. CASE Fetch
  <2>1. /\ ppc = "fetch" /\ chan # <<>> /\ chan' = Tail(chan)
        /\ nextWrite' = nextWrite /\ stored' = stored
    BY <1>2, Zenon DEF Fetch, dispatch
  <2>2. Order
    BY <2>1, Zenon DEF OInv
  <2>3. chan' \in Seq(Nat) /\ Len(chan') = Len(chan) - 1 /\ Head(chan) = chan[1] /\ Len(chan) >= 1 /\ Head(chan) \in Nat
    BY <1>1, <2>1
  <2>4. CASE collected' = Append(collected, Head(chan))
    <3>1. collected' \in Seq(Nat) /\ Len(collected') = Len(collected) + 1
      BY <1>1, <2>3, <2>4
    <3>2. nextWrite' = stored' + Len(collected') + Len(chan') + 1
      BY <1>1, <2>1, <2>2, <2>3, <3>1 DEF Order
    <3>3. ASSUME NEW i \in 1 .. Len(collected') PROVE collected'[i] = stored' + i
      <4>1. CASE i \in 1 .. Len(collected)
        <5>1. collected'[i] = collected[i]
          BY <1>1, <2>3, <2>4, <4>1
        <5>. QED  BY <2>1, <2>2, <4>1, <5>1, Zenon DEF Order
      <4>2. CASE i = Len(collected) + 1
        <5>1. collected'[i] = chan[1]
          BY <1>1, <2>3, <2>4, <4>2
        <5>2. chan[1] = stored + Len(collected) + 1
          BY <1>1, <2>2, <2>3 DEF Order
        <5>. QED  BY <1>1, <2>1, <4>2, <5>1, <5>2
      <4>. QED  BY <1>1, <3>1, <4>1, <4>2
    <3>4. \A i \in 1 .. Len(chan') : chan'[i] = stored' + Len(collected') + i
      BY <1>1, <2>1, <2>2, <2>3, <3>1 DEF Order
    <3>. QED  BY <1>1, <2>1, <2>3, <3>1, <3>2, <3>3, <3>4, Zenon DEF OInv, Order
  <2>5. CASE ppc' = "stopped" /\ collected' = collected
    <3>1. ppc' # "fetch"
      BY <2>5
    <3>. QED  BY <1>1, <2>1, <2>3, <2>5, <3>1, Zenon DEF OInv
  <2>. QED  BY <1>2, <2>4, <2>5, Zenon DEF Fetch, Ended
<1>3. CASE Persist
  <2>1. /\ ppc = "fetch" /\ stored' = stored + Len(collected) /\ collected' = <<>>
        /\ nextWrite' = nextWrite /\ chan' = chan
    BY <1>3, Zenon DEF Persist, dispatch
  <2>2. Order
    BY <2>1, Zenon DEF OInv
  <2>3. stored' \in Nat /\ collected' \in Seq(Nat) /\ Len(collected') = 0
    BY <1>1, <2>1
  <2>4. Order'
    BY <1>1, <2>1, <2>2, <2>3 DEF Order
  <2>. QED  BY <1>1, <2>1, <2>3, <2>4, Zenon DEF OInv
<1>4. CASE PersistFails \/ PersisterStop
  <2>1. /\ stored' = stored \/ stored' = stored + Len(collected)
        /\ collected' = <<>> \/ collected' = collected
        /\ nextWrite' = nextWrite /\ chan' = chan /\ ppc' = "stopped"
    <3>1. CASE PersistFails
      BY <3>1, Zenon DEF PersistFails, Ended, dispatch
    <3>2. CASE PersisterStop
      BY <3>2, Zenon DEF PersisterStop, Ended, dispatch
    <3>. QED  BY <1>4, <3>1, <3>2, Zenon
  <2>2. stored' \in Nat /\ collected' \in Seq(Nat) /\ ppc' # "fetch"
    <3>1. stored + Len(collected) \in Nat /\ <<>> \in Seq(Nat) /\ "stopped" # "fetch"
      BY <1>1
    <3>. QED  BY <1>1, <2>1, <3>1, Zenon
  <2>. QED  BY <1>1, <2>1, <2>2, Zenon DEF OInv
<1>. QED  BY <1>2, <1>3, <1>4, Zenon DEF PersisterStep

LEMMA NextOInv == OInv /\ [OverlapNext]_vars => OInv'
<1>. SUFFICES ASSUME OInv, [OverlapNext]_vars PROVE OInv'
  OBVIOUS
<1>1. CASE \E w \in Workers : WorkerStep(w)
  BY <1>1, WorkerSteps, Undelivered, Zenon
<1>2. CASE AssignPop \/ \E a \in Assigners : AssignStep(a)
  BY <1>2, AssignSteps, Undelivered, Zenon
<1>3. CASE DispatchStep \/ DispatchTake
  BY <1>3, DispatchSteps, Zenon
<1>4. CASE PersisterStep \/ PersistFails
  BY <1>4, PersisterSteps, Zenon
<1>5. CASE MemoryShort \/ MemoryFine \/ Shutdown
  BY <1>5, Undelivered, Zenon DEF MemoryShort, MemoryFine, Shutdown, delivery, persister, dispatch
<1>6. CASE NextRound \/ Crash
  <2>1. StartRound
    BY <1>6, Zenon DEF NextRound, Crash
  <2>2. stored' = stored /\ nextWrite' = stored + 1 /\ collected' = <<>> /\ chan' = <<>> /\ stored \in Nat
    BY <2>1, Zenon DEF StartRound, OInv
  <2>. QED  BY <2>2 DEF OInv, Order
<1>7. CASE UNCHANGED vars
  BY <1>7, Undelivered, Zenon DEF vars, delivery, persister, dispatch
<1>. QED  BY <1>1, <1>2, <1>3, <1>4, <1>5, <1>6, <1>7, Zenon DEF Next, OverlapNext

\* The invariant as an equality of sequences.
LEMMA OrderDelivers == OInv => DeliveredInOrder
<1>. SUFFICES ASSUME OInv, ppc = "fetch"
              PROVE  collected \o chan = [i \in 1 .. nextWrite - 1 - stored |-> stored + i]
  BY Zenon DEF DeliveredInOrder
<1>. DEFINE n == nextWrite - 1 - stored
            c == collected \o chan
<1>1. /\ stored \in Nat /\ nextWrite \in Nat /\ collected \in Seq(Nat) /\ chan \in Seq(Nat) /\ Order
  BY Zenon DEF OInv
<1>2. c \in Seq(Nat) /\ Len(c) = Len(collected) + Len(chan) /\ DOMAIN c = 1 .. Len(c)
  BY <1>1
<1>3. Len(c) = n
  BY <1>1, <1>2 DEF Order
<1>4. ASSUME NEW i \in 1 .. n PROVE c[i] = stored + i
  <2>1. CASE i \in 1 .. Len(collected)
    <3>1. c[i] = collected[i]
      BY <1>1, <2>1
    <3>. QED  BY <1>1, <2>1, <3>1, Zenon DEF Order
  <2>2. CASE i - Len(collected) \in 1 .. Len(chan)
    <3>1. c[i] = chan[i - Len(collected)]
      BY <1>1, <1>2, <1>3, <2>2
    <3>2. chan[i - Len(collected)] = stored + Len(collected) + (i - Len(collected))
      BY <1>1, <2>2, Zenon DEF Order
    <3>. QED  BY <1>1, <3>1, <3>2
  <2>3. i \in 1 .. Len(collected) \/ i - Len(collected) \in 1 .. Len(chan)
    BY <1>1, <1>2, <1>3
  <2>. QED  BY <2>1, <2>2, <2>3, Zenon
<1>. HIDE DEF c, n
<1>5. c = [i \in 1 .. Len(c) |-> c[i]]
  BY ONLY <1>2
<1>6. c = [i \in 1 .. n |-> stored + i]
  BY <1>2, <1>3, <1>4, <1>5, Zenon
<1>. QED  BY <1>6, Zenon DEF c, n

\* The behaviours in which the dispatch loop begins after the seeding are among
\* those in which it begins at any time.
LEMMA SpecOverlaps == Spec => OverlapSpec
<1>1. [Next]_vars => [OverlapNext]_vars
  BY Zenon DEF OverlapNext
<1>. QED  BY <1>1, PTL DEF Spec, OverlapSpec
-----------------------------------------------------------------------------
\* The persister is given consecutive epochs from the one after the latest in
\* the store, in whatever order workers answer, tasks are split and recalled
\* and rounds fail: fetchAndPersistResults never meets an unexpected epoch.
THEOREM OrderIsKept == (OverlapSpec \/ Spec) => []DeliveredInOrder
<1>. QED  BY InitOInv, NextOInv, OrderDelivers, SpecOverlaps, PTL DEF OverlapSpec
-----------------------------------------------------------------------------
(* No epoch gets lost between the queues.                                  *)

Result == [task : Task, ok : BOOLEAN]

\* The types by goroutine, the conjuncts of TypeOK.
QueuesOK ==
  /\ nextAssign \in 1 .. LastEpoch + 1
  /\ pending \in Seq(Task) /\ Len(pending) <= TaskQueueSize
  /\ recall \in Seq(Task)
WorkersOK ==
  /\ results \in Seq(Result) /\ Len(results) <= ResultQueueSize
  /\ wpc \in [Workers -> {"loop", "select", "busy", "stopped"}]
  /\ wtask \in [Workers -> Task \cup {Nil}] /\ \A w \in Workers : wpc[w] = "busy" <=> wtask[w] # Nil
DispatchOK ==
  /\ nextWrite \in 1 .. LastEpoch + 1
  /\ batch \in Seq(Result)
  /\ cache \subseteq Epoch
  /\ dpc \in {"loop", "select", "each", "flush", "assign", "stopped"}
AssignOK ==
  /\ apc \in [Assigners -> {"off", "loop", "pop", "add", "bump"}]
  /\ cnt \in [Assigners -> Nat] /\ todo \in [Assigners -> Seq(Task)] /\ bump \in [Assigners -> 0 .. LastEpoch + 1]
  /\ seen \in Seq(Task)
PersisterOK ==
  /\ stored \in 0 .. LastEpoch
  /\ ppc \in {"fetch", "stopped"} /\ collected \in Seq(Epoch)
  /\ chan \in Seq(Epoch) /\ Len(chan) <= WriteBufferSize
MonitorOK ==
  /\ closed \in BOOLEAN /\ high \in 0 .. Threshold /\ alarms \in 0 .. MaxAlarms
RoundOK ==
  /\ cancelled \in BOOLEAN /\ raced \in BOOLEAN
  /\ errs \in 0 .. MaxErrs /\ faults \in 0 .. MaxFaults

\* Where the goroutines are: a call of assignTasks has tasks to add only at
\* "add", a range to count as assigned at "bump"; the dispatch loop is in the
\* call exactly at "assign", has the epoch to send at "flush", and is done with
\* its batch before it waits for results again.
Adding == \A a \in Assigners : todo[a] # <<>> <=> apc[a] = "add"
Bumping == \A a \in Assigners : apc[a] = "bump" => bump[a] # 0
Calling == dpc = "assign" <=> apc["dispatch"] # "off"
Sending == dpc = "flush" => nextWrite \in cache
Batching == dpc \in {"loop", "select", "assign"} => batch = <<>>

\* What the tasks in hand cover, one epoch at a time.
HeldIn(s, e) == \E i \in DOMAIN s : e \in queryEpochData(s[i])
HeldInResults(s, e) == \E i \in DOMAIN s : e \in queryEpochData(s[i].task)
HeldByWorker(e) == \E w \in Workers : wpc[w] = "busy" /\ e \in queryEpochData(wtask[w])

Held(e) ==
  \/ e \in cache
  \/ HeldIn(pending, e) \/ HeldIn(recall, e) \/ \E a \in Assigners : HeldIn(todo[a], e)
  \/ HeldInResults(results, e) \/ HeldInResults(batch, e) \/ HeldByWorker(e)
  \/ apc["run"] = "pop" /\ HeldIn(seen, e)

\* The epochs that are assigned, or about to be, and not yet written.
Due(e) == nextWrite <= e /\ (e < nextAssign \/ \E a \in Assigners : e < bump[a])

Kept == ~cancelled /\ ~raced => \A e \in Epoch : Due(e) => Held(e)

Types == QueuesOK /\ WorkersOK /\ DispatchOK /\ AssignOK /\ PersisterOK /\ MonitorOK /\ RoundOK
Control == Adding /\ Bumping /\ Calling /\ Sending /\ Batching

TInv == Types /\ Control
-----------------------------------------------------------------------------
(* Sequences and tasks.                                                    *)

\* The elements of a concatenation.
LEMMA ConcatHolds ==
  ASSUME NEW S, NEW a \in Seq(S), NEW b \in Seq(S)
  PROVE  /\ a \o b \in Seq(S) /\ Len(a \o b) = Len(a) + Len(b)
         /\ \A k \in 1 .. Len(a) + Len(b) : (a \o b)[k] = IF k <= Len(a) THEN a[k] ELSE b[k - Len(a)]
OBVIOUS

\* Taking one element out of a heap or a batch leaves all others in it.
LEMMA RemoveAtKeeps ==
  ASSUME NEW S, NEW s \in Seq(S), NEW i \in DOMAIN s
  PROVE  /\ RemoveAt(s, i) \in Seq(S)
         /\ \A j \in DOMAIN s : j = i \/ \E k \in DOMAIN RemoveAt(s, i) : RemoveAt(s, i)[k] = s[j]
<1>. DEFINE a == SubSeq(s, 1, i - 1)
            b == SubSeq(s, i + 1, Len(s))
<1>1. i \in 1 .. Len(s) /\ Len(s) \in Nat /\ DOMAIN s = 1 .. Len(s)
  OBVIOUS
<1>2. a \in Seq(S) /\ Len(a) = i - 1 /\ \A j \in 1 .. i - 1 : a[j] = s[j]
  BY <1>1
<1>3. b \in Seq(S) /\ Len(b) = Len(s) - i /\ \A j \in 1 .. Len(s) - i : b[j] = s[i + j]
  BY <1>1, SMTT(60)
<1>. HIDE DEF a, b
<1>4. /\ a \o b \in Seq(S) /\ DOMAIN (a \o b) = 1 .. Len(s) - 1
      /\ \A k \in 1 .. Len(s) - 1 : (a \o b)[k] = IF k <= i - 1 THEN a[k] ELSE b[k - (i - 1)]
  <2>1. /\ a \o b \in Seq(S) /\ Len(a \o b) = Len(a) + Len(b)
        /\ \A k \in 1 .. Len(a) + Len(b) : (a \o b)[k] = IF k <= Len(a) THEN a[k] ELSE b[k - Len(a)]
    BY <1>2, <1>3, ConcatHolds, Zenon
  <2>2. DOMAIN (a \o b) = 1 .. Len(a \o b)
    BY <2>1
  <2>3. Len(a) + Len(b) = Len(s) - 1
    BY <1>1, <1>2, <1>3
  <2>. QED  BY <1>2, <2>1, <2>2, <2>3, Zenon
<1>5. ASSUME NEW j \in DOMAIN s, j # i
      PROVE  \E k \in DOMAIN (a \o b) : (a \o b)[k] = s[j]
  <2>1. CASE j < i
    <3>1. j \in 1 .. i - 1 /\ j \in 1 .. Len(s) - 1 /\ j <= i - 1
      BY ONLY <1>1, <2>1
    <3>2. (a \o b)[j] = s[j]
      BY <1>2, <1>4, <3>1, Zenon
    <3>. QED  BY <1>4, <3>1, <3>2, Zenon
  <2>2. CASE j > i
    <3>1. /\ j - 1 \in 1 .. Len(s) - 1 /\ ~(j - 1 <= i - 1)
          /\ j - i \in 1 .. Len(s) - i /\ (j - 1) - (i - 1) = j - i /\ i + (j - i) = j
      BY ONLY <1>1, <2>2, SMTT(60)
    <3>2. (a \o b)[j - 1] = b[j - i] /\ b[j - i] = s[i + (j - i)]
      BY <1>3, <1>4, <3>1, Zenon
    <3>. QED  BY <1>4, <3>1, <3>2, Zenon
  <2>. QED  BY <1>1, <1>5, <2>1, <2>2
<1>6. RemoveAt(s, i) = a \o b
  BY Zenon DEF RemoveAt, a, b
<1>. QED  BY <1>4, <1>5, <1>6, Zenon

LEMMA HeldRemoveAt ==
  ASSUME NEW s \in Seq(Task), NEW i \in DOMAIN s, NEW e, HeldIn(s, e)
  PROVE  e \in queryEpochData(s[i]) \/ HeldIn(RemoveAt(s, i), e)
  BY RemoveAtKeeps, ZenonT(60) DEF HeldIn

LEMMA HeldRemoveResultAt ==
  ASSUME NEW s \in Seq(Result), NEW i \in DOMAIN s, NEW e, HeldInResults(s, e)
  PROVE  e \in queryEpochData(s[i].task) \/ HeldInResults(RemoveAt(s, i), e)
<1>1. PICK j \in DOMAIN s : e \in queryEpochData(s[j].task)
  BY Zenon DEF HeldInResults
<1>2. j = i \/ \E k \in DOMAIN RemoveAt(s, i) : RemoveAt(s, i)[k] = s[j]
  BY RemoveAtKeeps, Zenon
<1>. QED  BY <1>1, <1>2 DEF HeldInResults

LEMMA AppendHolds ==
  ASSUME NEW S, NEW s \in Seq(S), NEW x \in S
  PROVE  /\ Append(s, x) \in Seq(S) /\ Len(Append(s, x)) = Len(s) + 1
         /\ \A i \in DOMAIN s : i \in DOMAIN Append(s, x) /\ Append(s, x)[i] = s[i]
         /\ \E i \in DOMAIN Append(s, x) : Append(s, x)[i] = x
<1>1. Len(s) + 1 \in DOMAIN Append(s, x) /\ Append(s, x)[Len(s) + 1] = x
  OBVIOUS
<1>2. \A i \in DOMAIN s : i \in DOMAIN Append(s, x) /\ Append(s, x)[i] = s[i]
  OBVIOUS
<1>3. Append(s, x) \in Seq(S) /\ Len(Append(s, x)) = Len(s) + 1
  OBVIOUS
<1>. QED  BY <1>1, <1>2, <1>3, Zenon

LEMMA TailHolds ==
  ASSUME NEW S, NEW s \in Seq(S), s # <<>>
  PROVE  /\ Head(s) \in S /\ Tail(s) \in Seq(S) /\ Len(Tail(s)) = Len(s) - 1
         /\ \A i \in DOMAIN s : s[i] = Head(s) \/ \E j \in DOMAIN Tail(s) : Tail(s)[j] = s[i]
<1>1. Head(s) \in S /\ Tail(s) \in Seq(S) /\ Len(Tail(s)) = Len(s) - 1
  OBVIOUS
<1>2. ASSUME NEW i \in DOMAIN s, i # 1 PROVE i - 1 \in DOMAIN Tail(s) /\ Tail(s)[i - 1] = s[i]
  BY <1>2
<1>3. s[1] = Head(s)
  OBVIOUS
<1>. QED  BY <1>1, <1>2, <1>3, Zenon

LEMMA HeldAppend ==
  ASSUME NEW s \in Seq(Task), NEW t \in Task, NEW e
  PROVE  /\ HeldIn(s, e) => HeldIn(Append(s, t), e)
         /\ e \in queryEpochData(t) => HeldIn(Append(s, t), e)
<1>1. /\ \A i \in DOMAIN s : i \in DOMAIN Append(s, t) /\ Append(s, t)[i] = s[i]
      /\ \E i \in DOMAIN Append(s, t) : Append(s, t)[i] = t
  BY AppendHolds
<1>. QED  BY <1>1, Zenon DEF HeldIn

LEMMA HeldAppendResult ==
  ASSUME NEW s \in Seq(Result), NEW r \in Result, NEW e
  PROVE  /\ HeldInResults(s, e) => HeldInResults(Append(s, r), e)
         /\ e \in queryEpochData(r.task) => HeldInResults(Append(s, r), e)
<1>1. /\ \A i \in DOMAIN s : i \in DOMAIN Append(s, r) /\ Append(s, r)[i] = s[i]
      /\ \E i \in DOMAIN Append(s, r) : Append(s, r)[i] = r
  BY AppendHolds
<1>. QED  BY <1>1, Zenon DEF HeldInResults

LEMMA HeldTail ==
  ASSUME NEW s \in Seq(Task), s # <<>>, NEW e, HeldIn(s, e)
  PROVE  e \in queryEpochData(Head(s)) \/ HeldIn(Tail(s), e)
  BY TailHolds, Zenon DEF HeldIn

\* The sub-tasks of a recalled task are tasks and cover it.
LEMMA HalvesCover ==
  ASSUME NEW t \in Task
  PROVE  /\ Halves(t) \in Seq(Task) /\ Halves(t) # <<>>
         /\ \A e \in queryEpochData(t) : HeldIn(Halves(t), e)
<1>. DEFINE mid == (t.from + t.to) \div 2
            low == [from |-> t.from, to |-> mid]
            up == [from |-> mid + 1, to |-> t.to]
<1>1. t.from \in 1 .. LastEpoch /\ t.to \in 1 .. LastEpoch /\ t.from <= t.to
  BY Zenon DEF Task, Epoch
<1>2. mid \in t.from .. t.to
  BY ONLY <1>1, BoostAssumption DEF BoostAssumption
<1>. HIDE DEF mid
<1>3. low \in Task
  BY ONLY <1>1, <1>2, BoostAssumption DEF Task, Epoch, BoostAssumption, low
<1>4. CASE mid + 1 <= t.to
  <2>1. up \in Task
    BY ONLY <1>1, <1>2, <1>4, BoostAssumption DEF Task, Epoch, BoostAssumption, up
  <2>2. Halves(t) = <<low, up>>
    BY <1>4, Zenon DEF Halves, mid, low, up
  <2>. HIDE DEF low, up
  <2>3. /\ <<low, up>> \in Seq(Task) /\ <<low, up>> # <<>>
        /\ 1 \in DOMAIN <<low, up>> /\ 2 \in DOMAIN <<low, up>>
        /\ <<low, up>>[1] = low /\ <<low, up>>[2] = up
    BY ONLY <1>3, <2>1
  <2>4. \A e \in queryEpochData(t) : e \in queryEpochData(low) \/ e \in queryEpochData(up)
    BY ONLY <1>1, <1>2 DEF queryEpochData, low, up
  <2>. QED  BY <2>2, <2>3, <2>4, Zenon DEF HeldIn
<1>5. CASE ~(mid + 1 <= t.to)
  <2>1. Halves(t) = <<low>>
    BY <1>5, Zenon DEF Halves, mid, low, up
  <2>2. \A e \in queryEpochData(t) : e \in queryEpochData(low)
    BY ONLY <1>1, <1>2, <1>5 DEF queryEpochData, low
  <2>. HIDE DEF low, up
  <2>3. <<low>> \in Seq(Task) /\ <<low>> # <<>> /\ 1 \in DOMAIN <<low>> /\ <<low>>[1] = low
    BY ONLY <1>3
  <2>. QED  BY <2>1, <2>2, <2>3, Zenon DEF HeldIn
<1>. QED  BY <1>4, <1>5, Zenon
-----------------------------------------------------------------------------
(* What is left alone.                                                     *)

LEMMA TypesByGroup == TypeOK <=> Types
  BY Zenon DEF TypeOK, Types, QueuesOK, WorkersOK, DispatchOK, AssignOK, PersisterOK, MonitorOK, RoundOK, Result

LEMMA QueuesStay == QueuesOK /\ UNCHANGED queues => QueuesOK'
  BY Zenon DEF QueuesOK, queues

LEMMA WorkersStay == WorkersOK /\ UNCHANGED worker => WorkersOK'
  BY Zenon DEF WorkersOK, worker

LEMMA DispatchStays == DispatchOK /\ UNCHANGED dispatch => DispatchOK'
  BY Zenon DEF DispatchOK, dispatch

LEMMA AssignStays == AssignOK /\ UNCHANGED assign => AssignOK'
  BY Zenon DEF AssignOK, assign

LEMMA PersisterStays == PersisterOK /\ UNCHANGED <<persister, chan>> => PersisterOK'
  BY Zenon DEF PersisterOK, persister

LEMMA MonitorStays == MonitorOK /\ UNCHANGED monitor => MonitorOK'
  BY Zenon DEF MonitorOK, monitor

LEMMA RoundStays == RoundOK /\ UNCHANGED <<cancelled, raced, errs, faults>> => RoundOK'
  BY Zenon DEF RoundOK

LEMMA ControlStays == Control /\ UNCHANGED <<dispatch, assign>> => Control'
  BY Zenon DEF Control, Adding, Bumping, Calling, Sending, Batching, dispatch, assign

\* A step keeps the epochs if it holds those that it makes due and loses none
\* that is held.
LEMMA KeptByStep ==
  ASSUME Kept,
         ~cancelled' /\ ~raced' => ~cancelled /\ ~raced,
         \A e \in Epoch : Due(e)' => Due(e) \/ Held(e)',
         \A e \in Epoch : Due(e)' /\ Held(e) => Held(e)'
  PROVE  Kept'
  BY Zenon DEF Kept

LEMMA DueStays ==
  ASSUME UNCHANGED <<nextWrite, nextAssign, bump>>
  PROVE  \A e \in Epoch : Due(e)' => Due(e)
  BY Zenon DEF Due

LEMMA HeldStays ==
  ASSUME UNCHANGED <<queues, worker, dispatch, assign>>, NEW e
  PROVE  Held(e) => Held(e)'
  BY Zenon DEF Held, HeldByWorker, queues, worker, dispatch, assign
-----------------------------------------------------------------------------
(* The workers.                                                            *)

LEMMA WorkerSetTypes ==
  ASSUME WorkersOK, NEW w \in Workers, NEW pc \in {"loop", "select", "busy", "stopped"}, NEW t \in Task \cup {Nil},
         pc = "busy" <=> t # Nil, WorkerSet(w, pc, t)
  PROVE  /\ wpc' \in [Workers -> {"loop", "select", "busy", "stopped"}]
         /\ wtask' \in [Workers -> Task \cup {Nil}]
         /\ \A v \in Workers : wpc'[v] = "busy" <=> wtask'[v] # Nil
         /\ wpc'[w] = pc /\ wtask'[w] = t
         /\ \A v \in Workers : v # w => wpc'[v] = wpc[v] /\ wtask'[v] = wtask[v]
<1>1. wpc' = [wpc EXCEPT ![w] = pc] /\ wtask' = [wtask EXCEPT ![w] = t]
  BY Zenon DEF WorkerSet
<1>2. /\ wpc \in [Workers -> {"loop", "select", "busy", "stopped"}] /\ wtask \in [Workers -> Task \cup {Nil}]
      /\ \A v \in Workers : wpc[v] = "busy" <=> wtask[v] # Nil
  BY Zenon DEF WorkersOK
<1>3. wpc'[w] = pc /\ wtask'[w] = t
  BY <1>1, <1>2, Zenon
<1>4. \A v \in Workers : v # w => wpc'[v] = wpc[v] /\ wtask'[v] = wtask[v]
  BY <1>1, <1>2, Zenon
<1>5. wpc' \in [Workers -> {"loop", "select", "busy", "stopped"}] /\ wtask' \in [Workers -> Task \cup {Nil}]
  BY <1>1, <1>2, Zenon
<1>. QED  BY <1>2, <1>3, <1>4, <1>5, Zenon

LEMMA NilIsNoTask == Nil \notin Task
<1>1. Task \subseteq [from : Nat, to : Nat]
  BY BoostAssumption DEF Task, Epoch, BoostAssumption
<1>. QED  BY <1>1, BoostAssumption, Zenon DEF BoostAssumption

\* A worker that has no task changes its place in the loop.
LEMMA WorkerMoves ==
  ASSUME TInv, Kept, NEW w \in Workers, WorkerLoop(w) \/ WorkerPressed(w) \/ WorkerStop(w)
  PROVE  TInv' /\ Kept'
<1>1. PICK pc \in {"loop", "select", "stopped"} : WorkerSet(w, pc, Nil)
  BY Zenon DEF WorkerLoop, WorkerPressed, WorkerStop
<1>2. wpc[w] \in {"loop", "select"}
  BY Zenon DEF WorkerLoop, WorkerPressed, WorkerStop
<1>3. UNCHANGED <<queues, results, dispatch, assign, persister, chan, monitor, cancelled, raced, errs, faults>>
  BY Zenon DEF WorkerLoop, WorkerPressed, WorkerStop
<1>4. WorkersOK /\ pc # "busy" /\ wpc[w] # "busy"
  BY <1>1, <1>2, Zenon DEF TInv, Types
<1>5. /\ wpc' \in [Workers -> {"loop", "select", "busy", "stopped"}]
      /\ wtask' \in [Workers -> Task \cup {Nil}]
      /\ \A v \in Workers : wpc'[v] = "busy" <=> wtask'[v] # Nil
      /\ \A v \in Workers : v # w => wpc'[v] = wpc[v] /\ wtask'[v] = wtask[v]
  BY <1>1, <1>4, WorkerSetTypes, ZenonT(60)
<1>6. WorkersOK'
  BY <1>3, <1>4, <1>5, Zenon DEF WorkersOK
<1>7. TInv'
  BY <1>3, <1>6, QueuesStay, DispatchStays, AssignStays, PersisterStays, MonitorStays, RoundStays, ControlStays, Zenon
     DEF TInv, Types
<1>8. ASSUME NEW e, Held(e) PROVE Held(e)'
  <2>1. HeldByWorker(e) => HeldByWorker(e)'
    BY <1>4, <1>5, Zenon DEF HeldByWorker
  <2>. QED  BY <1>3, <1>8, <2>1, Zenon DEF Held, queues, dispatch, assign
<1>9. Kept'
  BY <1>3, <1>8, KeptByStep, DueStays, Zenon DEF queues, dispatch, assign
<1>. QED  BY <1>7, <1>9

LEMMA WorkerTakes ==
  ASSUME TInv, Kept, NEW w \in Workers, WorkerTake(w)
  PROVE  TInv' /\ Kept'
<1>1. /\ wpc[w] = "select" /\ pending # <<>> /\ WorkerSet(w, "busy", Head(pending)) /\ pending' = Tail(pending)
      /\ UNCHANGED <<nextAssign, recall, results, dispatch, assign, persister, chan, monitor, cancelled, raced, errs, faults>>
  BY Zenon DEF WorkerTake
<1>2. WorkersOK /\ pending \in Seq(Task) /\ Len(pending) <= TaskQueueSize /\ TaskQueueSize \in Nat
  BY BoostAssumption, Zenon DEF TInv, Types, QueuesOK, BoostAssumption
<1>3. Head(pending) \in Task /\ Tail(pending) \in Seq(Task) /\ Len(Tail(pending)) = Len(pending) - 1
  BY <1>1, <1>2, TailHolds, Zenon
<1>4. Head(pending) # Nil
  BY <1>3, NilIsNoTask, Zenon
<1>5. Len(pending') <= TaskQueueSize
  BY <1>1, <1>2, <1>3
<1>6. QueuesOK'
  BY <1>1, <1>3, <1>5, Zenon DEF TInv, Types, QueuesOK
<1>7. /\ wpc' \in [Workers -> {"loop", "select", "busy", "stopped"}]
      /\ wtask' \in [Workers -> Task \cup {Nil}]
      /\ \A v \in Workers : wpc'[v] = "busy" <=> wtask'[v] # Nil
      /\ wpc'[w] = "busy" /\ wtask'[w] = Head(pending)
      /\ \A v \in Workers : v # w => wpc'[v] = wpc[v] /\ wtask'[v] = wtask[v]
  BY <1>1, <1>2, <1>3, <1>4, WorkerSetTypes, Zenon
<1>8. WorkersOK'
  BY <1>1, <1>2, <1>7, Zenon DEF WorkersOK
<1>9. TInv'
  BY <1>1, <1>6, <1>8, DispatchStays, AssignStays, PersisterStays, MonitorStays, RoundStays, ControlStays, Zenon
     DEF TInv, Types
<1>10. ASSUME NEW e, Held(e) PROVE Held(e)'
  <2>1. HeldByWorker(e) => HeldByWorker(e)'
    <3>1. wpc[w] # "busy"
      BY <1>1
    <3>. QED  BY <3>1, <1>7, Zenon DEF HeldByWorker
  <2>2. HeldIn(pending, e) => HeldIn(pending', e) \/ HeldByWorker(e)'
    BY <1>1, <1>2, <1>7, HeldTail, Zenon DEF HeldByWorker
  <2>. QED  BY <1>1, <1>10, <2>1, <2>2, Zenon DEF Held, dispatch, assign
<1>11. Kept'
  BY <1>1, <1>10, KeptByStep, DueStays, Zenon DEF dispatch, assign
<1>. QED  BY <1>9, <1>11

LEMMA WorkerSends ==
  ASSUME TInv, Kept, NEW w \in Workers, WorkerSend(w)
  PROVE  TInv' /\ Kept'
<1>1. PICK ok \in BOOLEAN : results' = Append(results, [task |-> wtask[w], ok |-> ok])
  BY Zenon DEF WorkerSend
<1>2. /\ wpc[w] = "busy" /\ Len(results) < ResultQueueSize /\ WorkerSet(w, Top, Nil)
      /\ errs' = errs \/ (errs < MaxErrs /\ errs' = errs + 1)
      /\ UNCHANGED <<queues, dispatch, assign, persister, chan, monitor, cancelled, raced, faults>>
  BY Zenon DEF WorkerSend
<1>. DEFINE r == [task |-> wtask[w], ok |-> ok]
<1>3. WorkersOK /\ RoundOK /\ results \in Seq(Result) /\ wtask[w] \in Task
  <2>1. WorkersOK /\ RoundOK
    BY Zenon DEF TInv, Types
  <2>2. wtask[w] \in Task \cup {Nil} /\ wtask[w] # Nil
    BY <1>2, <2>1, Zenon DEF WorkersOK
  <2>. QED  BY <2>1, <2>2, Zenon DEF WorkersOK
<1>4. r \in Result /\ r.task = wtask[w]
  BY <1>3 DEF Result
<1>. HIDE DEF r
<1>5. results' = Append(results, r)
  BY <1>1, Zenon DEF r
<1>6. results' \in Seq(Result) /\ Len(results') <= ResultQueueSize
  BY <1>2, <1>3, <1>4, <1>5, BoostAssumption, SMTT(60) DEF BoostAssumption
<1>7. Top \in {"loop", "select"} /\ Top # "busy"
  BY DEF Top
<1>8. /\ wpc' \in [Workers -> {"loop", "select", "busy", "stopped"}]
      /\ wtask' \in [Workers -> Task \cup {Nil}]
      /\ \A v \in Workers : wpc'[v] = "busy" <=> wtask'[v] # Nil
      /\ \A v \in Workers : v # w => wpc'[v] = wpc[v] /\ wtask'[v] = wtask[v]
  BY <1>2, <1>3, <1>7, WorkerSetTypes, ZenonT(60)
<1>9. WorkersOK'
  BY <1>6, <1>8, Zenon DEF WorkersOK
<1>10. errs' \in 0 .. MaxErrs
  BY <1>2, <1>3, BoostAssumption, SMTT(60) DEF RoundOK, BoostAssumption
<1>11. RoundOK'
  BY <1>2, <1>3, <1>10, Zenon DEF RoundOK
<1>12. TInv'
  BY <1>2, <1>9, <1>11, QueuesStay, DispatchStays, AssignStays, PersisterStays, MonitorStays, ControlStays, Zenon
     DEF TInv, Types
<1>13. ASSUME NEW e, Held(e) PROVE Held(e)'
  <2>1. HeldInResults(results, e) => HeldInResults(results', e)
    BY <1>3, <1>4, <1>5, HeldAppendResult, Zenon
  <2>2. HeldByWorker(e) => HeldByWorker(e)' \/ HeldInResults(results', e)
    <3>1. e \in queryEpochData(wtask[w]) => HeldInResults(results', e)
      BY <1>3, <1>4, <1>5, HeldAppendResult, Zenon
    <3>. QED  BY <1>8, <3>1, Zenon DEF HeldByWorker
  <2>. QED  BY <1>2, <1>13, <2>1, <2>2, Zenon DEF Held, queues, dispatch, assign
<1>14. Kept'
  BY <1>2, <1>13, KeptByStep, DueStays, Zenon DEF queues, dispatch, assign
<1>. QED  BY <1>12, <1>14
-----------------------------------------------------------------------------
(* The calls of assignTasks.                                               *)

LEMMA NothingHeldInNothing == \A e : ~HeldIn(<<>>, e)
<1>1. DOMAIN <<>> = {}
  OBVIOUS
<1>. QED  BY <1>1, Zenon DEF HeldIn

\* What a step of a call leaves: types, control, and the other call as it was.
Assigned(a, pc, ts, b) ==
  /\ apc' \in [Assigners -> {"off", "loop", "pop", "add", "bump"}] /\ cnt' \in [Assigners -> Nat]
  /\ todo' \in [Assigners -> Seq(Task)] /\ bump' \in [Assigners -> 0 .. LastEpoch + 1]
  /\ Adding' /\ Bumping'
  /\ apc'[a] = pc /\ todo'[a] = ts /\ bump'[a] = b
  /\ \A x \in Assigners : x # a => apc'[x] = apc[x] /\ todo'[x] = todo[x] /\ bump'[x] = bump[x]

LEMMA AssignSetTypes ==
  ASSUME AssignOK, Adding, Bumping, NEW a \in Assigners,
         NEW pc \in {"off", "loop", "pop", "add", "bump"}, NEW n \in Nat, NEW ts \in Seq(Task), NEW b \in 0 .. LastEpoch + 1,
         pc = "add" => ts # <<>>, pc = "add" \/ ts = <<>>, pc # "bump" \/ b # 0, AssignSet(a, pc, n, ts, b)
  PROVE  Assigned(a, pc, ts, b)
<1>1. /\ apc' = [apc EXCEPT ![a] = pc] /\ cnt' = [cnt EXCEPT ![a] = n]
      /\ todo' = [todo EXCEPT ![a] = ts] /\ bump' = [bump EXCEPT ![a] = b]
  BY Zenon DEF AssignSet
<1>2. /\ apc \in [Assigners -> {"off", "loop", "pop", "add", "bump"}] /\ cnt \in [Assigners -> Nat]
      /\ todo \in [Assigners -> Seq(Task)] /\ bump \in [Assigners -> 0 .. LastEpoch + 1]
  BY Zenon DEF AssignOK
<1>3. apc'[a] = pc /\ todo'[a] = ts /\ bump'[a] = b
  BY <1>1, <1>2, Zenon
<1>4. \A x \in Assigners : x # a => apc'[x] = apc[x] /\ todo'[x] = todo[x] /\ bump'[x] = bump[x]
  BY <1>1, <1>2, Zenon
<1>5. apc' \in [Assigners -> {"off", "loop", "pop", "add", "bump"}]
  BY <1>1, <1>2, Zenon
<1>6. cnt' \in [Assigners -> Nat]
  BY <1>1, <1>2, Zenon
<1>7. todo' \in [Assigners -> Seq(Task)]
  BY <1>1, <1>2, Zenon
<1>8. bump' \in [Assigners -> 0 .. LastEpoch + 1]
  BY <1>1, <1>2, Zenon
<1>9. Adding'
  BY <1>3, <1>4, Zenon DEF Adding
<1>10. Bumping'
  BY <1>3, <1>4, Zenon DEF Bumping
<1>. QED  BY <1>3, <1>4, <1>5, <1>6, <1>7, <1>8, <1>9, <1>10, Zenon DEF Assigned

\* A step of a call after which it has no tasks in hand.
LEMMA AssignClears ==
  ASSUME AssignOK, Adding, Bumping, NEW a \in Assigners,
         NEW pc \in {"off", "loop", "pop"}, NEW n \in Nat, AssignSet(a, pc, n, <<>>, 0)
  PROVE  Assigned(a, pc, <<>>, 0)
<1>1. /\ apc' = [apc EXCEPT ![a] = pc] /\ cnt' = [cnt EXCEPT ![a] = n]
      /\ todo' = [todo EXCEPT ![a] = <<>>] /\ bump' = [bump EXCEPT ![a] = 0]
  BY Zenon DEF AssignSet
<1>2. /\ apc \in [Assigners -> {"off", "loop", "pop", "add", "bump"}] /\ cnt \in [Assigners -> Nat]
      /\ todo \in [Assigners -> Seq(Task)] /\ bump \in [Assigners -> 0 .. LastEpoch + 1]
  BY Zenon DEF AssignOK
<1>3. <<>> \in Seq(Task) /\ 0 \in 0 .. LastEpoch + 1
  BY BoostAssumption DEF BoostAssumption
<1>4. pc \in {"off", "loop", "pop", "add", "bump"} /\ pc # "add" /\ pc # "bump"
  OBVIOUS
<1>5. apc'[a] = pc /\ todo'[a] = <<>> /\ bump'[a] = 0
  BY <1>1, <1>2, Zenon
<1>6. \A x \in Assigners : x # a => apc'[x] = apc[x] /\ todo'[x] = todo[x] /\ bump'[x] = bump[x]
  BY <1>1, <1>2, Zenon
<1>7. apc' \in [Assigners -> {"off", "loop", "pop", "add", "bump"}]
  BY <1>1, <1>2, <1>4, Zenon
<1>8. cnt' \in [Assigners -> Nat]
  BY <1>1, <1>2, Zenon
<1>9. todo' \in [Assigners -> Seq(Task)]
  BY <1>1, <1>2, <1>3, Zenon
<1>10. bump' \in [Assigners -> 0 .. LastEpoch + 1]
  BY <1>1, <1>2, <1>3, Zenon
<1>11. Adding'
  BY <1>4, <1>5, <1>6, Zenon DEF Adding
<1>12. Bumping'
  BY <1>4, <1>5, <1>6, Zenon DEF Bumping
<1>. QED  BY <1>5, <1>6, <1>7, <1>8, <1>9, <1>10, <1>11, <1>12, Zenon DEF Assigned

\* While a call goes on, the control of the dispatch loop stays what it is.
LEMMA CallGoesOn ==
  ASSUME TInv, NEW a \in Assigners, apc[a] # "off", apc'[a] # "off",
         \A x \in Assigners : x # a => apc'[x] = apc[x],
         UNCHANGED dispatch
  PROVE  Calling' /\ Sending' /\ Batching'
<1>1. Calling /\ Sending /\ Batching /\ "dispatch" \in Assigners
  BY Zenon DEF TInv, Control, Assigners
<1>2. apc["dispatch"] # "off" <=> apc'["dispatch"] # "off"
  BY <1>1, Zenon
<1>. QED  BY <1>1, <1>2, Zenon DEF Calling, Sending, Batching, dispatch

\* What is in the hands of the calls and of run's pop, when the tasks of one call
\* change.
LEMMA HeldInCalls ==
  ASSUME NEW a \in Assigners, \A x \in Assigners : x # a => apc'[x] = apc[x] /\ todo'[x] = todo[x],
         NEW e
  PROVE  /\ (\E x \in Assigners : HeldIn(todo[x], e)) => HeldIn(todo[a], e) \/ \E x \in Assigners : HeldIn(todo'[x], e)
         /\ apc[a] # "pop" /\ apc["run"] = "pop" => apc'["run"] = "pop"
<1>1. "run" \in Assigners
  BY Zenon DEF Assigners
<1>. QED  BY <1>1, Zenon

LEMMA AssignRecalls ==
  ASSUME TInv, Kept, NEW a \in Assigners, AssignRecall(a)
  PROVE  TInv' /\ Kept'
<1>1. /\ apc[a] = "loop" /\ recall # <<>>
      /\ UNCHANGED <<nextAssign, pending, worker, dispatch, persister, chan, monitor, cancelled, raced, errs, faults>>
  BY Zenon DEF AssignRecall
<1>2. AssignOK /\ QueuesOK /\ Adding /\ Bumping /\ recall \in Seq(Task) /\ cnt[a] \in Nat
  BY Zenon DEF TInv, Types, Control, AssignOK, QueuesOK
<1>3. todo[a] = <<>> /\ apc[a] # "off" /\ apc[a] # "pop" /\ apc[a] # "add"
  BY <1>1, <1>2, Zenon DEF Adding
<1>4. <<>> \in Seq(Task) /\ 0 \in 0 .. LastEpoch + 1
  BY BoostAssumption DEF BoostAssumption
<1>5. CASE a = "run"
  <2>1. AssignSet(a, "pop", cnt[a], <<>>, 0) /\ seen' = recall /\ recall' = recall
    BY <1>5, Zenon DEF AssignRecall
  <2>2. Assigned(a, "pop", <<>>, 0)
    BY <1>2, <2>1, AssignClears, Zenon
  <2>. USE DEF Assigned
  <2>3. AssignOK' /\ QueuesOK'
    BY <1>1, <1>2, <2>1, <2>2, Zenon DEF AssignOK, QueuesOK
  <2>4. Calling' /\ Sending' /\ Batching'
    BY <1>1, <1>3, <2>2, CallGoesOn, Zenon
  <2>5. TInv'
    BY <1>1, <2>2, <2>3, <2>4, WorkersStay, DispatchStays, PersisterStays, MonitorStays, RoundStays, Zenon
       DEF TInv, Types, Control
  <2>6. ASSUME NEW e, Held(e) PROVE Held(e)'
    <3>1. (\E x \in Assigners : HeldIn(todo[x], e)) => \E x \in Assigners : HeldIn(todo'[x], e)
      BY <1>3, <2>2, HeldInCalls, NothingHeldInNothing, Zenon
    <3>2. apc["run"] # "pop"
      BY <1>3, <1>5, Zenon
    <3>. QED  BY <1>1, <2>1, <2>6, <3>1, <3>2, Zenon DEF Held, HeldByWorker, dispatch, worker
  <2>7. ASSUME NEW e \in Epoch, Due(e)' PROVE Due(e)
    <3>1. ~(e < 0)
      BY BoostAssumption DEF Epoch, BoostAssumption
    <3>. QED  BY <1>1, <2>2, <2>7, <3>1, Zenon DEF Due, dispatch
  <2>8. Kept'
    BY <1>1, <2>6, <2>7, KeptByStep, Zenon
  <2>. QED  BY <2>5, <2>8
<1>6. CASE a # "run"
  <2>1. PICK i \in Tops(recall) :
          /\ AssignSet(a, "add", cnt[a], Halves(recall[i]), 0)
          /\ recall' = RemoveAt(recall, i)
          /\ seen' = seen
    BY <1>6, Zenon DEF AssignRecall
  <2>2. i \in DOMAIN recall /\ recall[i] \in Task
    <3>1. i \in DOMAIN recall
      BY Zenon DEF Tops
    <3>. QED  BY <1>2, <3>1
  <2>3. /\ Halves(recall[i]) \in Seq(Task) /\ Halves(recall[i]) # <<>>
        /\ \A e \in queryEpochData(recall[i]) : HeldIn(Halves(recall[i]), e)
    BY <2>2, HalvesCover, Zenon
  <2>4. Assigned(a, "add", Halves(recall[i]), 0)
    BY <1>2, <1>4, <2>1, <2>3, AssignSetTypes, Zenon
  <2>. USE DEF Assigned
  <2>5. recall' \in Seq(Task)
    BY <1>2, <2>1, <2>2, RemoveAtKeeps, Zenon
  <2>6. AssignOK' /\ QueuesOK'
    BY <1>1, <1>2, <2>1, <2>4, <2>5, Zenon DEF AssignOK, QueuesOK
  <2>7. Calling' /\ Sending' /\ Batching'
    BY <1>1, <1>3, <2>4, CallGoesOn, Zenon
  <2>8. TInv'
    BY <1>1, <2>4, <2>6, <2>7, WorkersStay, DispatchStays, PersisterStays, MonitorStays, RoundStays, Zenon
       DEF TInv, Types, Control
  <2>9. ASSUME NEW e, Held(e) PROVE Held(e)'
    <3>1. HeldIn(recall, e) => HeldIn(recall', e) \/ HeldIn(todo'[a], e)
      BY <1>2, <2>1, <2>2, <2>3, <2>4, HeldRemoveAt, Zenon
    <3>2. (\E x \in Assigners : HeldIn(todo[x], e)) => \E x \in Assigners : HeldIn(todo'[x], e)
      BY <1>3, <2>4, HeldInCalls, NothingHeldInNothing, ZenonT(60)
    <3>3. apc["run"] = "pop" => apc'["run"] = "pop"
      BY <1>3, <2>4, HeldInCalls, Zenon
    <3>. QED  BY <1>1, <2>1, <2>9, <3>1, <3>2, <3>3, Zenon DEF Held, HeldByWorker, dispatch, worker
  <2>10. ASSUME NEW e \in Epoch, Due(e)' PROVE Due(e)
    <3>1. ~(e < 0)
      BY BoostAssumption DEF Epoch, BoostAssumption
    <3>. QED  BY <1>1, <2>4, <2>10, <3>1, Zenon DEF Due, dispatch
  <2>11. Kept'
    BY <1>1, <2>9, <2>10, KeptByStep, Zenon
  <2>. QED  BY <2>8, <2>11
<1>. QED  BY <1>5, <1>6, Zenon

\* A range of new epochs is in the hands of the call before it counts as assigned.
LEMMA AssignsNew ==
  ASSUME TInv, Kept, NEW a \in Assigners, AssignNew(a)
  PROVE  TInv' /\ Kept'
<1>1. /\ apc[a] = "loop" /\ nextAssign <= LastEpoch
      /\ UNCHANGED <<queues, worker, dispatch, seen, persister, chan, monitor, cancelled, raced, errs, faults>>
  BY Zenon DEF AssignNew
<1>. DEFINE Last(n) == IF nextAssign + n - 1 < LastEpoch THEN nextAssign + n - 1 ELSE LastEpoch
<1>0. PICK size \in TaskSizes(a) :
        AssignSet(a, "add", cnt[a], <<[from |-> nextAssign, to |-> Last(size)]>>, Last(size) + 1)
  BY Zenon DEF AssignNew
<1>2. PICK end :
        /\ end = IF nextAssign + size - 1 < LastEpoch THEN nextAssign + size - 1 ELSE LastEpoch
        /\ AssignSet(a, "add", cnt[a], <<[from |-> nextAssign, to |-> end]>>, end + 1)
  BY <1>0, Zenon
<1>. DEFINE t == [from |-> nextAssign, to |-> end]
<1>3. AssignOK /\ Adding /\ Bumping /\ cnt[a] \in Nat /\ nextAssign \in 1 .. LastEpoch + 1
  BY Zenon DEF TInv, Types, Control, AssignOK, QueuesOK
<1>4. size \in Nat \ {0}
  <2>1. CASE a = "run"
    BY <2>1, BoostAssumption, Zenon DEF TaskSizes, BoostAssumption
  <2>2. CASE a # "run"
    <3>1. size \in MinTaskSize .. MaxTaskSize
      BY <2>2, Zenon DEF TaskSizes
    <3>. QED  BY ONLY <3>1, BoostAssumption DEF BoostAssumption
  <2>. QED  BY <2>1, <2>2, Zenon
<1>5. end \in nextAssign .. LastEpoch /\ end + 1 \in 0 .. LastEpoch + 1 /\ end + 1 # 0
  BY ONLY <1>1, <1>2, <1>3, <1>4, BoostAssumption, SMTT(60) DEF BoostAssumption
<1>6. t \in Task /\ \A e \in nextAssign .. end : e \in queryEpochData(t)
  BY ONLY <1>1, <1>3, <1>5, BoostAssumption, SMTT(60) DEF BoostAssumption, Task, Epoch, queryEpochData
<1>. HIDE DEF t
<1>7. <<t>> \in Seq(Task) /\ <<t>> # <<>> /\ 1 \in DOMAIN <<t>> /\ <<t>>[1] = t
  BY ONLY <1>6
<1>8. AssignSet(a, "add", cnt[a], <<t>>, end + 1)
  BY <1>2, Zenon DEF t
<1>9. Assigned(a, "add", <<t>>, end + 1)
  BY <1>3, <1>5, <1>7, <1>8, AssignSetTypes, Zenon
<1>. USE DEF Assigned
<1>10. AssignOK'
  BY <1>1, <1>3, <1>9, Zenon DEF AssignOK
<1>11. todo[a] = <<>> /\ apc[a] # "off" /\ apc[a] # "pop" /\ apc'[a] # "off"
  BY <1>1, <1>3, <1>9, Zenon DEF Adding
<1>12. Calling' /\ Sending' /\ Batching'
  BY <1>1, <1>9, <1>11, CallGoesOn, Zenon
<1>13. TInv'
  BY <1>1, <1>9, <1>10, <1>12, QueuesStay, WorkersStay, DispatchStays, PersisterStays, MonitorStays, RoundStays, Zenon
     DEF TInv, Types, Control
<1>14. ASSUME NEW e, Held(e) PROVE Held(e)'
  <2>1. (\E x \in Assigners : HeldIn(todo[x], e)) => \E x \in Assigners : HeldIn(todo'[x], e)
    BY <1>9, <1>11, HeldInCalls, NothingHeldInNothing, Zenon
  <2>2. apc["run"] = "pop" => apc'["run"] = "pop"
    BY <1>9, <1>11, HeldInCalls, Zenon
  <2>. QED  BY <1>1, <1>14, <2>1, <2>2, Zenon DEF Held, HeldByWorker, dispatch, worker, queues
<1>15. ASSUME NEW e \in Epoch, Due(e)' PROVE Due(e) \/ Held(e)'
  <2>1. e < end + 1 => e < nextAssign \/ e \in nextAssign .. end
    BY ONLY <1>3, <1>5, BoostAssumption, SMTT(60) DEF BoostAssumption, Epoch
  <2>2. e \in nextAssign .. end => HeldIn(todo'[a], e)
    BY <1>6, <1>7, <1>9, Zenon DEF HeldIn
  <2>. QED  BY <1>1, <1>9, <1>15, <2>1, <2>2, Zenon DEF Due, Held, dispatch, queues
<1>16. Kept'
  BY <1>1, <1>14, <1>15, KeptByStep, Zenon
<1>. QED  BY <1>13, <1>16, SMTT(60)

\* The range counts as assigned; its epochs were due before.
LEMMA AssignBumps ==
  ASSUME TInv, Kept, NEW a \in Assigners, AssignBump(a)
  PROVE  TInv' /\ Kept'
<1>1. /\ apc[a] = "bump" /\ nextAssign' = bump[a] /\ AssignSet(a, "loop", cnt[a], <<>>, 0)
      /\ UNCHANGED <<pending, recall, worker, dispatch, seen, persister, chan, monitor, cancelled, raced, errs, faults>>
  BY Zenon DEF AssignBump
<1>2. AssignOK /\ QueuesOK /\ Adding /\ Bumping /\ cnt[a] \in Nat /\ bump[a] \in 0 .. LastEpoch + 1
  BY Zenon DEF TInv, Types, Control, AssignOK, QueuesOK
<1>3. bump[a] # 0 /\ todo[a] = <<>> /\ apc[a] # "pop" /\ apc[a] # "off"
  BY <1>1, <1>2, Zenon DEF Adding, Bumping
<1>4. Assigned(a, "loop", <<>>, 0)
  BY <1>1, <1>2, AssignClears, Zenon
<1>. USE DEF Assigned
<1>5. nextAssign' \in 1 .. LastEpoch + 1
  BY ONLY <1>1, <1>2, <1>3, BoostAssumption DEF BoostAssumption
<1>6. AssignOK' /\ QueuesOK'
  BY <1>1, <1>2, <1>4, <1>5, Zenon DEF AssignOK, QueuesOK
<1>7. Calling' /\ Sending' /\ Batching'
  <2>1. apc'[a] # "off"
    BY <1>4
  <2>. QED  BY <1>1, <1>3, <1>4, <2>1, CallGoesOn, ZenonT(60)
<1>8. TInv'
  BY <1>1, <1>4, <1>6, <1>7, WorkersStay, DispatchStays, PersisterStays, MonitorStays, RoundStays, Zenon
     DEF TInv, Types, Control
<1>9. ASSUME NEW e, Held(e) PROVE Held(e)'
  <2>1. (\E x \in Assigners : HeldIn(todo[x], e)) => \E x \in Assigners : HeldIn(todo'[x], e)
    BY <1>3, <1>4, HeldInCalls, NothingHeldInNothing, Zenon
  <2>2. apc["run"] = "pop" => apc'["run"] = "pop"
    BY <1>3, <1>4, HeldInCalls, Zenon
  <2>. QED  BY <1>1, <1>9, <2>1, <2>2, Zenon DEF Held, HeldByWorker, dispatch, worker
<1>10. ASSUME NEW e \in Epoch, Due(e)' PROVE Due(e)
  <2>1. ~(e < 0)
    BY BoostAssumption DEF Epoch, BoostAssumption
  <2>. QED  BY <1>1, <1>4, <1>10, <2>1, Zenon DEF Due, dispatch
<1>11. Kept'
  BY <1>1, <1>9, <1>10, KeptByStep, Zenon
<1>. QED  BY <1>8, <1>11

\* A task goes from the hands of the call to the queue.
LEMMA AssignAdds ==
  ASSUME TInv, Kept, NEW a \in Assigners, addPendingTask(a)
  PROVE  TInv' /\ Kept'
<1>. DEFINE rest == Tail(todo[a])
            pc == IF rest # <<>> THEN "add" ELSE IF bump[a] # 0 THEN "bump" ELSE "loop"
<1>1. /\ apc[a] = "add" /\ Len(pending) < TaskQueueSize /\ pending' = Append(pending, Head(todo[a]))
      /\ AssignSet(a, pc, cnt[a] + 1, rest, bump[a])
      /\ UNCHANGED <<nextAssign, recall, worker, dispatch, seen, persister, chan, monitor, cancelled, raced, errs, faults>>
  BY Zenon DEF addPendingTask
<1>2. /\ AssignOK /\ QueuesOK /\ Adding /\ Bumping /\ cnt[a] \in Nat /\ bump[a] \in 0 .. LastEpoch + 1
      /\ todo[a] \in Seq(Task) /\ pending \in Seq(Task)
  BY Zenon DEF TInv, Types, Control, AssignOK, QueuesOK
<1>3. todo[a] # <<>>
  BY <1>1, <1>2, Zenon DEF Adding
<1>4. Head(todo[a]) \in Task /\ rest \in Seq(Task)
  BY <1>2, <1>3, TailHolds, Zenon
<1>5. /\ pc \in {"off", "loop", "pop", "add", "bump"} /\ pc # "off"
      /\ pc = "add" => rest # <<>>
      /\ pc = "add" \/ rest = <<>>
      /\ pc # "bump" \/ bump[a] # 0
  BY ZenonT(60)
<1>6. cnt[a] + 1 \in Nat /\ apc[a] # "off" /\ apc[a] # "pop"
  <2>1. cnt[a] \in Nat /\ apc[a] = "add"
    BY <1>1, <1>2, Zenon
  <2>2. cnt[a] + 1 \in Nat
    BY ONLY <2>1
  <2>. QED  BY <2>1, <2>2, Zenon
<1>. HIDE DEF pc, rest
<1>7. Assigned(a, pc, rest, bump[a])
  BY <1>1, <1>2, <1>4, <1>5, <1>6, AssignSetTypes, ZenonT(60)
<1>. USE DEF Assigned
<1>8. pending' \in Seq(Task) /\ Len(pending') <= TaskQueueSize
  BY <1>1, <1>2, <1>4, BoostAssumption, SMTT(60) DEF BoostAssumption
<1>9. AssignOK' /\ QueuesOK'
  BY <1>1, <1>2, <1>7, <1>8, Zenon DEF AssignOK, QueuesOK
<1>10. Calling' /\ Sending' /\ Batching'
  BY <1>1, <1>5, <1>6, <1>7, CallGoesOn, Zenon
<1>11. TInv'
  BY <1>1, <1>7, <1>9, <1>10, WorkersStay, DispatchStays, PersisterStays, MonitorStays, RoundStays, Zenon
     DEF TInv, Types, Control
<1>12. ASSUME NEW e, Held(e) PROVE Held(e)'
  <2>1. HeldIn(todo[a], e) => HeldIn(pending', e) \/ HeldIn(todo'[a], e)
    BY <1>1, <1>2, <1>3, <1>4, <1>7, HeldTail, HeldAppend, ZenonT(60) DEF rest
  <2>2. HeldIn(pending, e) => HeldIn(pending', e)
    BY <1>1, <1>2, <1>4, HeldAppend, Zenon
  <2>3. (\E x \in Assigners : HeldIn(todo[x], e)) => HeldIn(pending', e) \/ \E x \in Assigners : HeldIn(todo'[x], e)
    BY <1>7, <2>1, HeldInCalls, Zenon
  <2>4. apc["run"] = "pop" => apc'["run"] = "pop"
    BY <1>6, <1>7, HeldInCalls, Zenon
  <2>. QED  BY <1>1, <1>12, <2>2, <2>3, <2>4, Zenon DEF Held, HeldByWorker, dispatch, worker
<1>13. ASSUME NEW e \in Epoch, Due(e)' PROVE Due(e)
  BY <1>1, <1>7, <1>13, Zenon DEF Due, dispatch
<1>14. Kept'
  BY <1>1, <1>12, <1>13, KeptByStep, Zenon
<1>. QED  BY <1>11, <1>14

\* run pops the task it found: without a change in between none is lost, and
\* otherwise the history variable says so.
LEMMA AssignPops ==
  ASSUME TInv, Kept, AssignPop
  PROVE  TInv' /\ Kept'
<1>. DEFINE a == "run"
<1>1. PICK i \in Tops(seen) :
        /\ AssignSet(a, "add", cnt[a], Halves(seen[i]), 0)
        /\ IF recall = seen
           THEN recall' = RemoveAt(seen, i) /\ raced' = raced
           ELSE recall' \in {recall, RemoveAt(seen, i)} /\ raced' = TRUE
  BY Zenon DEF AssignPop
<1>2. /\ apc[a] = "pop" /\ seen' = <<>>
      /\ UNCHANGED <<nextAssign, pending, worker, dispatch, persister, chan, monitor, cancelled, errs, faults>>
  BY Zenon DEF AssignPop
<1>3. AssignOK /\ QueuesOK /\ RoundOK /\ Adding /\ Bumping /\ recall \in Seq(Task) /\ seen \in Seq(Task) /\ a \in Assigners
  BY Zenon DEF TInv, Types, Control, AssignOK, QueuesOK, Assigners
<1>4. cnt[a] \in Nat /\ apc[a] # "off" /\ apc[a] # "add" /\ todo[a] = <<>>
  BY <1>2, <1>3, Zenon DEF AssignOK, Adding
<1>5. i \in DOMAIN seen /\ seen[i] \in Task /\ <<>> \in Seq(Task) /\ 0 \in 0 .. LastEpoch + 1
  <2>1. i \in DOMAIN seen
    BY Zenon DEF Tops
  <2>. QED  BY <1>3, <2>1, BoostAssumption DEF BoostAssumption
<1>. HIDE DEF a
<1>6. /\ Halves(seen[i]) \in Seq(Task) /\ Halves(seen[i]) # <<>>
      /\ \A e \in queryEpochData(seen[i]) : HeldIn(Halves(seen[i]), e)
  BY <1>5, HalvesCover, Zenon
<1>7. Assigned(a, "add", Halves(seen[i]), 0)
  BY <1>1, <1>3, <1>4, <1>5, <1>6, AssignSetTypes, Zenon
<1>. USE DEF Assigned
<1>8. RemoveAt(seen, i) \in Seq(Task)
  BY <1>3, <1>5, RemoveAtKeeps, Zenon
<1>9. recall' \in Seq(Task) /\ raced' \in BOOLEAN
  BY <1>1, <1>3, <1>8, Zenon DEF RoundOK
<1>10. AssignOK' /\ QueuesOK' /\ RoundOK'
  BY <1>2, <1>3, <1>5, <1>7, <1>9, Zenon DEF AssignOK, QueuesOK, RoundOK
<1>11. Calling' /\ Sending' /\ Batching'
  <2>1. apc'[a] # "off"
    BY <1>7
  <2>. QED  BY <1>2, <1>3, <1>4, <1>7, <2>1, CallGoesOn, Zenon
<1>12. TInv'
  BY <1>2, <1>7, <1>10, <1>11, WorkersStay, DispatchStays, PersisterStays, MonitorStays, Zenon
     DEF TInv, Types, Control
<1>13. CASE recall = seen
  <2>1. recall' = RemoveAt(seen, i) /\ raced' = raced
    BY <1>1, <1>13, Zenon
  <2>2. ASSUME NEW e, Held(e) PROVE Held(e)'
    <3>1. HeldIn(seen, e) => HeldIn(recall', e) \/ HeldIn(todo'[a], e)
      BY <1>3, <1>5, <1>6, <1>7, <2>1, HeldRemoveAt, Zenon
    <3>2. (\E x \in Assigners : HeldIn(todo[x], e)) => \E x \in Assigners : HeldIn(todo'[x], e)
      BY <1>3, <1>4, <1>7, HeldInCalls, NothingHeldInNothing, Zenon
    <3>. QED  BY <1>2, <1>3, <1>13, <2>2, <3>1, <3>2, Zenon DEF Held, HeldByWorker, dispatch, worker
  <2>3. ASSUME NEW e \in Epoch, Due(e)' PROVE Due(e)
    <3>1. ~(e < 0)
      BY BoostAssumption DEF Epoch, BoostAssumption
    <3>. QED  BY <1>2, <1>7, <2>3, <3>1, Zenon DEF Due, dispatch
  <2>. QED  BY <1>2, <1>12, <2>1, <2>2, <2>3, KeptByStep, Zenon
<1>14. CASE recall # seen
  BY <1>1, <1>12, <1>14, Zenon DEF Kept
<1>. QED  BY <1>13, <1>14, Zenon

LEMMA AssignReturns ==
  ASSUME TInv, NEW a \in Assigners, apc[a] # "off", NEW dp \in {"loop", "select", "stopped"}, AssignReturn(a, dp),
         UNCHANGED <<queues, worker, batch, cache, nextWrite, seen, persister, chan, monitor, cancelled, raced, errs, faults>>
  PROVE  TInv' /\ Assigned(a, "off", <<>>, 0)
<1>1. AssignSet(a, "off", 0, <<>>, 0) /\ dpc' = IF a = "dispatch" THEN dp ELSE dpc
  BY Zenon DEF AssignReturn
<1>2. AssignOK /\ DispatchOK /\ Adding /\ Bumping /\ Calling /\ Sending /\ Batching /\ "dispatch" \in Assigners
  BY Zenon DEF TInv, Types, Control, Assigners
<1>3. Assigned(a, "off", <<>>, 0)
  BY <1>1, <1>2, AssignClears DEF Assigners
<1>4. AssignOK' /\ DispatchOK'
  BY <1>1, <1>2, <1>3, Zenon DEF AssignOK, DispatchOK, Assigned
<1>5. Calling' /\ Sending' /\ Batching'
  <2>1. CASE a = "dispatch"
    <3>1. dpc' # "assign" /\ dpc' # "flush" /\ apc'["dispatch"] = "off"
      BY <1>1, <1>3, <2>1 DEF Assigned
    <3>2. batch' = <<>>
      BY <1>2, <2>1, Zenon DEF Batching, Calling
    <3>. QED  BY <3>1, <3>2, Zenon DEF Calling, Sending, Batching
  <2>2. CASE a # "dispatch"
    <3>1. dpc' = dpc /\ apc'["dispatch"] = apc["dispatch"]
      BY <1>1, <1>2, <1>3, <2>2, Zenon DEF Assigned
    <3>. QED  BY <1>2, <3>1, Zenon DEF Calling, Sending, Batching
  <2>. QED  BY <2>1, <2>2, Zenon
<1>6. TInv'
  BY <1>3, <1>4, <1>5, QueuesStay, WorkersStay, PersisterStays, MonitorStays, RoundStays, Zenon
     DEF TInv, Types, Control, Assigned
<1>. QED  BY <1>3, <1>6

LEMMA AssignEnds ==
  ASSUME TInv, Kept, NEW a \in Assigners, AssignEnd(a) \/ AssignStop(a)
  PROVE  TInv' /\ Kept'
<1>1. UNCHANGED <<queues, worker, batch, cache, nextWrite, seen, persister, chan, monitor, cancelled, raced, errs, faults>>
  BY Zenon DEF AssignEnd, AssignStop
<1>2. CASE AssignEnd(a)
  <2>1. apc[a] = "loop" /\ apc[a] # "off" /\ AssignReturn(a, Top)
    BY <1>2, Zenon DEF AssignEnd
  <2>2. Top \in {"loop", "select", "stopped"}
    BY Zenon DEF Top
  <2>3. TInv' /\ Assigned(a, "off", <<>>, 0)
    BY <1>1, <2>1, <2>2, AssignReturns, Zenon
  <2>4. todo[a] = <<>> /\ apc[a] # "pop"
    BY <2>1, Zenon DEF TInv, Control, Adding
  <2>5. ASSUME NEW e, Held(e) PROVE Held(e)'
    <3>1. (\E x \in Assigners : HeldIn(todo[x], e)) => \E x \in Assigners : HeldIn(todo'[x], e)
      BY <2>3, <2>4, HeldInCalls, NothingHeldInNothing, Zenon DEF Assigned
    <3>2. apc["run"] = "pop" => apc'["run"] = "pop"
      BY <2>3, <2>4, HeldInCalls, Zenon DEF Assigned
    <3>. QED  BY <1>1, <2>5, <3>1, <3>2, Zenon DEF Held, HeldByWorker, worker, queues
  <2>6. ASSUME NEW e \in Epoch, Due(e)' PROVE Due(e)
    <3>1. ~(e < 0)
      BY BoostAssumption DEF Epoch, BoostAssumption
    <3>. QED  BY <1>1, <2>3, <2>6, <3>1, Zenon DEF Due, queues, Assigned
  <2>. QED  BY <1>1, <2>3, <2>5, <2>6, KeptByStep, Zenon
<1>3. CASE AssignStop(a)
  <2>1. cancelled /\ apc[a] # "off" /\ AssignReturn(a, "stopped")
    BY <1>3, Zenon DEF AssignStop
  <2>2. TInv'
    BY <1>1, <2>1, AssignReturns, Zenon
  <2>. QED  BY <1>1, <2>1, <2>2, Zenon DEF Kept
<1>. QED  BY <1>2, <1>3, Zenon

LEMMA AssignKeeps ==
  ASSUME TInv, Kept, AssignPop \/ \E a \in Assigners : AssignStep(a)
  PROVE  TInv' /\ Kept'
  BY AssignPops, AssignRecalls, AssignsNew, AssignEnds, AssignAdds, AssignBumps, Zenon DEF AssignStep

LEMMA WorkerKeeps ==
  ASSUME TInv, Kept, NEW w \in Workers, WorkerStep(w)
  PROVE  TInv' /\ Kept'
  BY WorkerMoves, WorkerTakes, WorkerSends, Zenon DEF WorkerStep
-----------------------------------------------------------------------------
(* The dispatch loop.                                                      *)

\* Steps that change only the place of the loop.
LEMMA DispatchMoves ==
  ASSUME TInv, Kept, DispatchLoop \/ DispatchPressed \/ DispatchStop
  PROVE  TInv' /\ Kept'
<1>1. /\ dpc # "assign" /\ dpc' \in {"loop", "select", "stopped"} /\ dpc' # "assign" /\ dpc' # "flush"
      /\ dpc \in {"loop", "select"} \/ dpc' = "stopped"
      /\ UNCHANGED <<queues, worker, batch, cache, nextWrite, assign, persister, chan, monitor, cancelled, raced, errs, faults>>
  BY Zenon DEF DispatchLoop, DispatchPressed, DispatchStop
<1>2. DispatchOK /\ AssignOK /\ Adding /\ Bumping /\ Calling /\ Sending /\ Batching
  BY Zenon DEF TInv, Types, Control
<1>3. DispatchOK' /\ Calling' /\ Sending'
  BY <1>1, <1>2, Zenon DEF DispatchOK, Calling, Sending, assign
<1>4. Adding' /\ Bumping' /\ Batching'
  BY <1>1, <1>2, Zenon DEF Adding, Bumping, Batching, assign
<1>5. TInv'
  BY <1>1, <1>3, <1>4, QueuesStay, WorkersStay, AssignStays, PersisterStays, MonitorStays, RoundStays, Zenon
     DEF TInv, Types, Control
<1>6. ASSUME NEW e, Held(e) PROVE Held(e)'
  BY <1>1, <1>6, Zenon DEF Held, HeldByWorker, queues, worker, assign
<1>7. Kept'
  BY <1>1, <1>6, KeptByStep, DueStays, Zenon DEF queues, assign
<1>. QED  BY <1>5, <1>7

\* A batch and what is left are the results there were.
LEMMA DispatchTakes ==
  ASSUME TInv, Kept, DispatchTake
  PROVE  TInv' /\ Kept'
<1>. DEFINE n == Len(results) \div 2 + 1
<1>1. /\ dpc = "select" /\ results # <<>> /\ batch' = SubSeq(results, 1, n) /\ results' = SubSeq(results, n + 1, Len(results))
      /\ dpc' = "each"
      /\ UNCHANGED <<queues, wpc, wtask, cache, nextWrite, assign, persister, chan, monitor, cancelled, raced, errs, faults>>
  BY Zenon DEF DispatchTake
<1>2. /\ DispatchOK /\ WorkersOK /\ AssignOK /\ Adding /\ Bumping /\ Calling /\ Sending /\ Batching
      /\ results \in Seq(Result) /\ batch \in Seq(Result)
  BY Zenon DEF TInv, Types, Control, DispatchOK, WorkersOK
<1>3. n \in 1 .. Len(results) /\ Len(results) \in Nat
  BY <1>1, <1>2
<1>. HIDE DEF n
<1>4. batch' \in Seq(Result) /\ DOMAIN batch' = 1 .. n /\ \A j \in 1 .. n : batch'[j] = results[j]
  BY <1>1, <1>2, <1>3, SMTT(60)
<1>5. /\ results' \in Seq(Result) /\ Len(results') = Len(results) - n /\ DOMAIN results' = 1 .. Len(results) - n
      /\ \A j \in 1 .. Len(results) - n : results'[j] = results[n + j]
  BY <1>1, <1>2, <1>3, SMTT(60)
<1>6. Len(results') <= ResultQueueSize
  BY <1>2, <1>3, <1>5, BoostAssumption DEF WorkersOK, BoostAssumption
<1>7. WorkersOK'
  BY <1>1, <1>2, <1>5, <1>6, Zenon DEF WorkersOK
<1>8. DispatchOK'
  BY <1>1, <1>2, <1>4, Zenon DEF DispatchOK
<1>9. Adding' /\ Bumping'
  BY <1>1, <1>2, Zenon DEF Adding, Bumping, assign
<1>10. Calling' /\ Sending' /\ Batching'
  <2>1. dpc # "assign" /\ dpc' # "assign" /\ dpc' # "flush" /\ dpc' \notin {"loop", "select", "assign"}
    BY <1>1
  <2>. QED  BY <1>1, <1>2, <2>1, Zenon DEF Calling, Sending, Batching, assign
<1>11. TInv'
  BY <1>1, <1>7, <1>8, <1>9, <1>10, QueuesStay, AssignStays, PersisterStays, MonitorStays, RoundStays, Zenon
     DEF TInv, Types, Control
<1>12. ASSUME NEW e, Held(e) PROVE Held(e)'
  <2>1. ~HeldInResults(batch, e)
    <3>1. batch = <<>> /\ DOMAIN <<>> = {}
      BY <1>1, <1>2 DEF Batching
    <3>. QED  BY <3>1, Zenon DEF HeldInResults
  <2>2. ASSUME HeldInResults(results, e) PROVE HeldInResults(batch', e) \/ HeldInResults(results', e)
    <3>1. PICK j \in DOMAIN results : e \in queryEpochData(results[j].task)
      BY <2>2, Zenon DEF HeldInResults
    <3>2. CASE j <= n
      <4>1. j \in 1 .. n
        BY <1>2, <1>3, <3>2
      <4>. QED  BY <1>4, <3>1, <4>1, Zenon DEF HeldInResults
    <3>3. CASE j > n
      <4>1. j - n \in 1 .. Len(results) - n /\ n + (j - n) = j
        BY <1>2, <1>3, <3>3
      <4>2. results'[j - n] = results[j]
        BY <1>5, <4>1, Zenon
      <4>. QED  BY <1>5, <3>1, <4>1, <4>2, Zenon DEF HeldInResults
    <3>. QED  BY <1>2, <1>3, <3>2, <3>3
  <2>. QED  BY <1>1, <1>12, <2>1, <2>2, Zenon DEF Held, HeldByWorker, queues, assign
<1>13. Kept'
  BY <1>1, <1>12, KeptByStep, DueStays, Zenon DEF queues, assign
<1>. QED  BY <1>11, <1>13

\* A failed task is recalled, the epochs of another are cached.
LEMMA DispatchResults ==
  ASSUME TInv, Kept, DispatchResult
  PROVE  TInv' /\ Kept'
<1>1. /\ dpc = "each"
      /\ UNCHANGED <<nextAssign, pending, worker, nextWrite, assign, persister, chan, monitor, cancelled, raced, errs, faults>>
  BY Zenon DEF DispatchResult
<1>2. PICK i \in DOMAIN batch :
        /\ batch' = RemoveAt(batch, i)
        /\ \/ cache' = cache \cup queryEpochData(batch[i].task) /\ dpc' = Collect(nextWrite, cache') /\ recall' = recall
           \/ recall' = Append(recall, batch[i].task) /\ cache' = cache /\ dpc' = dpc
  BY Zenon DEF DispatchResult
<1>3. /\ DispatchOK /\ QueuesOK /\ AssignOK /\ Adding /\ Bumping /\ Calling /\ Sending
      /\ batch \in Seq(Result) /\ cache \subseteq Epoch /\ recall \in Seq(Task)
  BY Zenon DEF TInv, Types, Control, DispatchOK, QueuesOK
<1>4. batch[i].task \in Task
  <2>1. batch[i] \in Result
    BY <1>3
  <2>. QED  BY <2>1, Zenon DEF Result
<1>5. queryEpochData(batch[i].task) \subseteq Epoch
  BY ONLY <1>4, BoostAssumption DEF Task, Epoch, queryEpochData, BoostAssumption
<1>6. batch' \in Seq(Result)
  BY <1>2, <1>3, RemoveAtKeeps, Zenon
<1>7. recall' \in Seq(Task) /\ cache' \subseteq Epoch /\ dpc' \in {"each", "flush"}
  <2>1. Append(recall, batch[i].task) \in Seq(Task)
    BY <1>3, <1>4
  <2>2. Collect(nextWrite, cache') \in {"each", "flush"}
    BY Zenon DEF Collect
  <2>. QED  BY <1>1, <1>2, <1>3, <1>5, <2>1, <2>2, Zenon
<1>8. QueuesOK' /\ DispatchOK'
  BY <1>1, <1>3, <1>6, <1>7, Zenon DEF QueuesOK, DispatchOK
<1>9. Adding' /\ Bumping'
  BY <1>1, <1>3, Zenon DEF Adding, Bumping, assign
<1>10. Calling' /\ Sending' /\ Batching'
  <2>1. dpc # "assign" /\ dpc' # "assign" /\ dpc' \notin {"loop", "select", "assign"} /\ dpc # "flush"
    BY <1>1, <1>7
  <2>2. dpc' = "flush" => nextWrite' \in cache'
    BY <1>1, <1>2, <2>1, Zenon DEF Collect
  <2>. QED  BY <1>1, <1>3, <2>1, <2>2, Zenon DEF Calling, Sending, Batching, assign
<1>11. TInv'
  BY <1>1, <1>8, <1>9, <1>10, WorkersStay, AssignStays, PersisterStays, MonitorStays, RoundStays, Zenon
     DEF TInv, Types, Control
<1>12. ASSUME NEW e, Held(e) PROVE Held(e)'
  <2>1. HeldInResults(batch, e) => e \in queryEpochData(batch[i].task) \/ HeldInResults(batch', e)
    BY <1>2, <1>3, HeldRemoveResultAt, Zenon
  <2>2. e \in queryEpochData(batch[i].task) => e \in cache' \/ HeldIn(recall', e)
    <3>1. e \in queryEpochData(batch[i].task) => HeldIn(Append(recall, batch[i].task), e)
      BY <1>3, <1>4, HeldAppend, Zenon
    <3>. QED  BY <1>2, <3>1, Zenon
  <2>3. HeldIn(recall, e) => HeldIn(recall', e)
    <3>1. HeldIn(recall, e) => HeldIn(Append(recall, batch[i].task), e)
      BY <1>3, <1>4, HeldAppend, Zenon
    <3>. QED  BY <1>2, <3>1, Zenon
  <2>4. e \in cache => e \in cache'
    BY <1>2, Zenon
  <2>. QED  BY <1>1, <1>12, <2>1, <2>2, <2>3, <2>4, Zenon DEF Held, HeldByWorker, worker, assign
<1>13. Kept'
  BY <1>1, <1>12, KeptByStep, DueStays, Zenon DEF assign
<1>. QED  BY <1>11, <1>13

\* The epoch that is sent is not due any more.
LEMMA Flushes ==
  ASSUME TInv, Kept, Flush
  PROVE  TInv' /\ Kept'
<1>1. /\ dpc = "flush" /\ Len(chan) < WriteBufferSize /\ chan' = Append(chan, nextWrite)
      /\ cache' = cache \ {nextWrite} /\ nextWrite' = nextWrite + 1 /\ dpc' = Collect(nextWrite', cache')
      /\ UNCHANGED <<queues, worker, batch, assign, persister, monitor, cancelled, raced, errs, faults>>
  BY Zenon DEF Flush
<1>2. /\ DispatchOK /\ PersisterOK /\ AssignOK /\ Adding /\ Bumping /\ Calling
      /\ nextWrite \in cache /\ cache \subseteq Epoch /\ chan \in Seq(Epoch)
  BY <1>1, Zenon DEF TInv, Types, Control, Sending, DispatchOK, PersisterOK
<1>3. nextWrite \in Epoch /\ nextWrite' \in 1 .. LastEpoch + 1
  <2>1. nextWrite \in Epoch
    BY <1>2, Zenon
  <2>. QED  BY ONLY <1>1, <2>1, BoostAssumption, SMTT(60) DEF Epoch, BoostAssumption
<1>4. chan' \in Seq(Epoch) /\ Len(chan') <= WriteBufferSize
  BY <1>1, <1>2, <1>3, BoostAssumption DEF BoostAssumption
<1>5. dpc' \in {"each", "flush"} /\ (dpc' = "flush" => nextWrite' \in cache') /\ cache' \subseteq Epoch
  BY <1>1, <1>2, Zenon DEF Collect
<1>6. DispatchOK'
  BY <1>1, <1>2, <1>3, <1>5, Zenon DEF DispatchOK
<1>7. PersisterOK'
  BY <1>1, <1>2, <1>4, Zenon DEF PersisterOK, persister
<1>8. Adding' /\ Bumping'
  BY <1>1, <1>2, Zenon DEF Adding, Bumping, assign
<1>9. Calling' /\ Sending' /\ Batching'
  <2>1. dpc # "assign" /\ dpc' # "assign" /\ dpc' \notin {"loop", "select", "assign"}
    BY <1>1, <1>5
  <2>. QED  BY <1>1, <1>2, <1>5, <2>1, Zenon DEF Calling, Sending, Batching, assign
<1>10. TInv'
  BY <1>1, <1>6, <1>7, <1>8, <1>9, QueuesStay, WorkersStay, AssignStays, MonitorStays, RoundStays, Zenon
     DEF TInv, Types, Control
<1>11. ASSUME NEW e \in Epoch, Due(e)' PROVE Due(e) /\ e # nextWrite
  <2>1. nextWrite + 1 <= e => nextWrite <= e /\ e # nextWrite
    BY ONLY <1>3, BoostAssumption DEF Epoch, BoostAssumption
  <2>. QED  BY <1>1, <1>11, <2>1, Zenon DEF Due, queues, assign
<1>12. ASSUME NEW e \in Epoch, Due(e)', Held(e) PROVE Held(e)'
  BY <1>1, <1>11, <1>12, Zenon DEF Held, HeldByWorker, queues, worker, assign
<1>13. Kept'
  BY <1>1, <1>11, <1>12, KeptByStep, Zenon
<1>. QED  BY <1>10, <1>13

LEMMA DispatchAssigns ==
  ASSUME TInv, Kept, DispatchAssign
  PROVE  TInv' /\ Kept'
<1>. DEFINE a == "dispatch"
<1>1. /\ dpc = "each" /\ batch = <<>> /\ dpc' = "assign" /\ AssignSet(a, "loop", Len(pending), <<>>, 0)
      /\ UNCHANGED <<queues, worker, batch, cache, nextWrite, seen, persister, chan, monitor, cancelled, raced, errs, faults>>
  BY Zenon DEF DispatchAssign
<1>2. /\ AssignOK /\ DispatchOK /\ Adding /\ Bumping /\ Calling /\ a \in Assigners /\ a # "run" /\ pending \in Seq(Task)
  BY Zenon DEF TInv, Types, Control, Assigners, QueuesOK
<1>3. Len(pending) \in Nat /\ dpc # "assign"
  BY <1>1, <1>2
<1>4. apc[a] = "off"
  BY <1>2, <1>3, Zenon DEF Calling
<1>5. todo[a] = <<>> /\ apc[a] # "pop"
  BY <1>2, <1>4, Zenon DEF Adding
<1>. HIDE DEF a
<1>6. Assigned(a, "loop", <<>>, 0)
  BY <1>1, <1>2, <1>3, AssignClears, Zenon
<1>. USE DEF Assigned
<1>7. AssignOK' /\ DispatchOK'
  BY <1>1, <1>2, <1>6, Zenon DEF AssignOK, DispatchOK
<1>8. Calling' /\ Sending' /\ Batching'
  <2>1. apc'["dispatch"] # "off" /\ dpc' # "flush"
    BY <1>1, <1>6 DEF a
  <2>. QED  BY <1>1, <2>1, Zenon DEF Calling, Sending, Batching
<1>9. TInv'
  BY <1>1, <1>6, <1>7, <1>8, QueuesStay, WorkersStay, PersisterStays, MonitorStays, RoundStays, Zenon
     DEF TInv, Types, Control
<1>10. ASSUME NEW e, Held(e) PROVE Held(e)'
  <2>1. (\E x \in Assigners : HeldIn(todo[x], e)) => \E x \in Assigners : HeldIn(todo'[x], e)
    BY <1>2, <1>5, <1>6, HeldInCalls, NothingHeldInNothing, Zenon
  <2>2. apc["run"] = "pop" => apc'["run"] = "pop"
    BY <1>2, <1>5, <1>6, HeldInCalls, Zenon
  <2>. QED  BY <1>1, <1>10, <2>1, <2>2, Zenon DEF Held, HeldByWorker, worker, queues
<1>11. ASSUME NEW e \in Epoch, Due(e)' PROVE Due(e)
  <2>1. ~(e < 0)
    BY BoostAssumption DEF Epoch, BoostAssumption
  <2>. QED  BY <1>1, <1>6, <1>11, <2>1, Zenon DEF Due, queues
<1>12. Kept'
  BY <1>1, <1>10, <1>11, KeptByStep, Zenon
<1>. QED  BY <1>9, <1>12

LEMMA DispatchKeeps ==
  ASSUME TInv, Kept, DispatchStep \/ DispatchTake
  PROVE  TInv' /\ Kept'
  BY DispatchMoves, DispatchTakes, DispatchResults, Flushes, DispatchAssigns, Zenon DEF DispatchStep
-----------------------------------------------------------------------------
(* The persister, the monitor and the rounds.                              *)

LEMMA PersisterKeeps ==
  ASSUME TInv, Kept, OInv, PersisterStep \/ PersistFails
  PROVE  TInv' /\ Kept'
<1>1. /\ ppc = "fetch" /\ ppc' \in {"fetch", "stopped"}
      /\ cancelled' = cancelled \/ cancelled' = TRUE
      /\ UNCHANGED <<queues, worker, dispatch, assign, monitor, raced, errs>>
  BY Zenon DEF PersisterStep, Fetch, Persist, PersistFails, PersisterStop, Ended
<1>2. /\ PersisterOK /\ RoundOK /\ DispatchOK /\ Order
      /\ stored \in 0 .. LastEpoch /\ collected \in Seq(Epoch) /\ chan \in Seq(Epoch) /\ nextWrite \in 1 .. LastEpoch + 1
  BY <1>1, Zenon DEF TInv, Types, PersisterOK, DispatchOK, OInv
<1>3. faults' \in 0 .. MaxFaults
  <2>1. CASE PersistFails
    BY <1>2, <2>1, BoostAssumption DEF PersistFails, RoundOK, BoostAssumption
  <2>2. CASE PersisterStep
    BY <1>2, <2>2, Zenon DEF PersisterStep, Fetch, Persist, PersisterStop, RoundOK
  <2>. QED  BY <2>1, <2>2, Zenon
<1>4. RoundOK'
  BY <1>1, <1>2, <1>3, Zenon DEF RoundOK
<1>5. stored + Len(collected) \in 0 .. LastEpoch /\ <<>> \in Seq(Epoch)
  BY <1>2, BoostAssumption DEF Order, BoostAssumption
<1>6. stored' \in 0 .. LastEpoch /\ collected' \in Seq(Epoch) /\ chan' \in Seq(Epoch) /\ Len(chan') <= WriteBufferSize
  <2>1. CASE Fetch
    <3>1. /\ chan # <<>> /\ chan' = Tail(chan) /\ stored' = stored
          /\ collected' = Append(collected, Head(chan)) \/ collected' = collected
      BY <2>1, Zenon DEF Fetch
    <3>2. Head(chan) \in Epoch /\ Tail(chan) \in Seq(Epoch) /\ Len(Tail(chan)) = Len(chan) - 1
      BY <1>2, <3>1, TailHolds, Zenon
    <3>3. Append(collected, Head(chan)) \in Seq(Epoch)
      BY <1>2, <3>2, SMTT(60)
    <3>4. Len(chan') <= WriteBufferSize
      BY <1>2, <3>1, <3>2, BoostAssumption DEF PersisterOK, BoostAssumption
    <3>. QED  BY <1>2, <3>1, <3>2, <3>3, <3>4, Zenon
  <2>2. CASE Persist \/ PersistFails \/ PersisterStop
    <3>1. /\ stored' = stored \/ stored' = stored + Len(collected)
          /\ collected' = collected \/ collected' = <<>>
          /\ chan' = chan
      BY <2>2, Zenon DEF Persist, PersistFails, PersisterStop
    <3>. QED  BY <1>2, <1>5, <3>1, Zenon DEF PersisterOK
  <2>. QED  BY <2>1, <2>2, Zenon DEF PersisterStep
<1>7. PersisterOK'
  BY <1>1, <1>6, Zenon DEF PersisterOK
<1>8. TInv'
  BY <1>1, <1>4, <1>7, QueuesStay, WorkersStay, DispatchStays, AssignStays, MonitorStays, ControlStays, Zenon
     DEF TInv, Types
<1>9. Kept'
  <2>1. \A e \in Epoch : Due(e)' => Due(e)
    BY <1>1, DueStays, Zenon DEF queues, dispatch, assign
  <2>2. \A e : Held(e) => Held(e)'
    BY <1>1, HeldStays, Zenon
  <2>3. ~cancelled' /\ ~raced' => ~cancelled /\ ~raced
    BY <1>1, Zenon
  <2>. QED  BY <2>1, <2>2, <2>3, KeptByStep, Zenon
<1>. QED  BY <1>8, <1>9

LEMMA MonitorKeeps ==
  ASSUME TInv, Kept, MemoryShort \/ MemoryFine \/ Shutdown
  PROVE  TInv' /\ Kept'
<1>1. /\ cancelled' = cancelled \/ cancelled' = TRUE
      /\ UNCHANGED <<queues, worker, dispatch, assign, persister, chan, raced, errs>>
  BY Zenon DEF MemoryShort, MemoryFine, Shutdown
<1>2. MonitorOK /\ RoundOK
  BY Zenon DEF TInv, Types
<1>3. faults' \in 0 .. MaxFaults
  BY <1>2, BoostAssumption DEF MemoryShort, MemoryFine, Shutdown, RoundOK, BoostAssumption
<1>4. RoundOK'
  BY <1>1, <1>2, <1>3, Zenon DEF RoundOK
<1>5. high' \in 0 .. Threshold /\ alarms' \in 0 .. MaxAlarms
  BY <1>2, BoostAssumption DEF MemoryShort, MemoryFine, Shutdown, MonitorOK, monitor, BoostAssumption
<1>6. closed' \in BOOLEAN
  BY <1>2, Zenon DEF MemoryShort, MemoryFine, Shutdown, MonitorOK, monitor
<1>7. TInv'
  BY <1>1, <1>4, <1>5, <1>6, QueuesStay, WorkersStay, DispatchStays, AssignStays, PersisterStays, ControlStays, Zenon
     DEF TInv, Types, MonitorOK
<1>8. Kept'
  <2>1. \A e \in Epoch : Due(e)' => Due(e)
    BY <1>1, DueStays, Zenon DEF queues, dispatch, assign
  <2>2. \A e : Held(e) => Held(e)'
    BY <1>1, HeldStays, Zenon
  <2>3. ~cancelled' /\ ~raced' => ~cancelled /\ ~raced
    BY <1>1, Zenon
  <2>. QED  BY <2>1, <2>2, <2>3, KeptByStep, Zenon
<1>. QED  BY <1>7, <1>8

\* A round starts over after what is in the store: nothing is due.
FreshRound ==
  /\ nextAssign \in 1 .. LastEpoch + 1 /\ nextWrite = nextAssign
  /\ pending = <<>> /\ recall = <<>> /\ results = <<>> /\ batch = <<>> /\ chan = <<>> /\ collected = <<>> /\ seen = <<>>
  /\ cache = {} /\ wpc = Everywhere(Workers, "select") /\ wtask = Everywhere(Workers, Nil)
  /\ dpc = "select" /\ apc = Seeding /\ cnt = Everywhere(Assigners, 0) /\ todo = Everywhere(Assigners, <<>>)
  /\ bump = Everywhere(Assigners, 0) /\ ppc = "fetch" /\ cancelled = FALSE /\ closed = FALSE /\ high = 0 /\ raced = FALSE
  /\ stored \in 0 .. LastEpoch /\ errs \in 0 .. MaxErrs /\ faults \in 0 .. MaxFaults /\ alarms \in 0 .. MaxAlarms

LEMMA FreshIsKept == FreshRound => TInv /\ Kept
<1>. SUFFICES ASSUME FreshRound PROVE TInv /\ Kept
  BY SMTT(60)
<1>. USE DEF FreshRound
<1>1. /\ <<>> \in Seq(Task) /\ <<>> \in Seq(Result) /\ <<>> \in Seq(Epoch)
      /\ Len(<<>>) = 0 /\ 0 \in 0 .. Threshold /\ 0 \in Nat /\ 0 \in 0 .. LastEpoch + 1
      /\ 0 <= TaskQueueSize /\ 0 <= ResultQueueSize /\ 0 <= WriteBufferSize
  BY BoostAssumption DEF BoostAssumption
<1>2. QueuesOK /\ PersisterOK /\ MonitorOK /\ RoundOK
  BY <1>1, Zenon DEF QueuesOK, PersisterOK, MonitorOK, RoundOK
<1>3. WorkersOK
  <2>1. wpc \in [Workers -> {"loop", "select", "busy", "stopped"}] /\ wtask \in [Workers -> Task \cup {Nil}]
    BY Zenon DEF Everywhere
  <2>2. \A w \in Workers : wpc[w] = "select" /\ wtask[w] = Nil
    BY Zenon DEF Everywhere
  <2>3. "select" # "busy"
    OBVIOUS
  <2>. QED  BY <1>1, <2>1, <2>2, <2>3, Zenon DEF WorkersOK
<1>4. DispatchOK
  BY <1>1, Zenon DEF DispatchOK
<1>5. /\ apc \in [Assigners -> {"off", "loop", "pop", "add", "bump"}] /\ cnt \in [Assigners -> Nat]
      /\ todo \in [Assigners -> Seq(Task)] /\ bump \in [Assigners -> 0 .. LastEpoch + 1]
  BY <1>1, Zenon DEF Everywhere, Seeding
<1>6. \A a \in Assigners : /\ apc[a] \in {"off", "loop"} /\ apc[a] # "add" /\ apc[a] # "bump"
                           /\ todo[a] = <<>> /\ bump[a] = 0
  BY Zenon DEF Everywhere, Seeding
<1>7. apc["dispatch"] = "off"
  BY DEF Seeding, Assigners
<1>8. AssignOK
  BY <1>1, <1>5, Zenon DEF AssignOK
<1>9. Adding /\ Bumping
  BY <1>6, Zenon DEF Adding, Bumping
<1>10. Calling /\ Sending /\ Batching
  <2>1. dpc # "assign" /\ dpc # "flush"
    OBVIOUS
  <2>. QED  BY <1>7, <2>1, Zenon DEF Calling, Sending, Batching
<1>11. TInv
  BY <1>2, <1>3, <1>4, <1>8, <1>9, <1>10, Zenon DEF TInv, Types, Control
<1>12. ASSUME NEW e \in Epoch PROVE ~Due(e)
  <2>1. ~(nextWrite <= e /\ e < nextAssign) /\ ~(e < 0)
    BY BoostAssumption DEF Epoch, BoostAssumption
  <2>. QED  BY <1>6, <2>1, Zenon DEF Due
<1>. QED  BY <1>11, <1>12, Zenon DEF Kept

LEMMA InitTInv == Init => TInv /\ Kept
<1>. SUFFICES ASSUME Init PROVE TInv /\ Kept
  OBVIOUS
<1>1. /\ stored \in 0 .. LastEpoch /\ errs \in 0 .. MaxErrs /\ faults \in 0 .. MaxFaults /\ alarms \in 0 .. MaxAlarms
      /\ nextAssign \in 1 .. LastEpoch + 1 /\ nextWrite = nextAssign
  BY BoostAssumption DEF Init, BoostAssumption
<1>2. FreshRound
  BY <1>1, Zenon DEF Init, FreshRound
<1>. QED  BY <1>2, FreshIsKept, Zenon

LEMMA RoundKeeps ==
  ASSUME TInv, NextRound \/ Crash
  PROVE  TInv' /\ Kept'
<1>1. StartRound
  BY Zenon DEF NextRound, Crash
<1>2. /\ stored \in 0 .. LastEpoch /\ errs \in 0 .. MaxErrs /\ alarms \in 0 .. MaxAlarms /\ RoundOK
  BY Zenon DEF TInv, Types, PersisterOK, RoundOK, MonitorOK
<1>3. faults' \in 0 .. MaxFaults
  BY <1>2, BoostAssumption, SMTT(60) DEF NextRound, Crash, RoundOK, BoostAssumption
<1>4. nextAssign' \in 1 .. LastEpoch + 1 /\ nextWrite' = nextAssign'
  BY <1>1, <1>2, BoostAssumption DEF StartRound, BoostAssumption
<1>5. /\ stored' \in 0 .. LastEpoch /\ errs' \in 0 .. MaxErrs /\ alarms' \in 0 .. MaxAlarms
  BY <1>1, <1>2, Zenon DEF StartRound
<1>6. /\ pending' = <<>> /\ recall' = <<>> /\ results' = <<>> /\ batch' = <<>> /\ chan' = <<>> /\ collected' = <<>> /\ seen' = <<>>
      /\ cache' = {} /\ wpc' = Everywhere(Workers, "select") /\ wtask' = Everywhere(Workers, Nil)
      /\ dpc' = "select" /\ apc' = Seeding /\ cnt' = Everywhere(Assigners, 0) /\ todo' = Everywhere(Assigners, <<>>)
      /\ bump' = Everywhere(Assigners, 0) /\ ppc' = "fetch" /\ cancelled' = FALSE /\ closed' = FALSE /\ high' = 0 /\ raced' = FALSE
  BY <1>1, Zenon DEF StartRound
<1>7. FreshRound'
  BY <1>3, <1>4, <1>5, <1>6, Zenon DEF FreshRound
<1>. QED  BY <1>7, FreshIsKept, PTL

LEMMA NextTInv == OInv /\ TInv /\ Kept /\ [OverlapNext]_vars => TInv' /\ Kept'
<1>. SUFFICES ASSUME OInv, TInv, Kept, [OverlapNext]_vars PROVE TInv' /\ Kept'
  OBVIOUS
<1>1. CASE \E w \in Workers : WorkerStep(w)
  BY <1>1, WorkerKeeps, Zenon
<1>2. CASE AssignPop \/ \E a \in Assigners : AssignStep(a)
  BY <1>2, AssignKeeps, Zenon
<1>3. CASE DispatchStep \/ DispatchTake
  BY <1>3, DispatchKeeps, Zenon
<1>4. CASE PersisterStep \/ PersistFails
  BY <1>4, PersisterKeeps, Zenon
<1>5. CASE MemoryShort \/ MemoryFine \/ Shutdown
  BY <1>5, MonitorKeeps, Zenon
<1>6. CASE NextRound \/ Crash
  BY <1>6, RoundKeeps, Zenon
<1>7. CASE UNCHANGED vars
  <2>1. UNCHANGED <<queues, worker, dispatch, assign, persister, chan, monitor, cancelled, raced, errs, faults>>
    BY <1>7, Zenon DEF vars
  <2>2. TInv'
    BY <2>1, QueuesStay, WorkersStay, DispatchStays, AssignStays, PersisterStays, MonitorStays, RoundStays, ControlStays, Zenon
       DEF TInv, Types
  <2>3. \A e \in Epoch : Due(e)' => Due(e)
    BY <2>1, DueStays, Zenon DEF queues, dispatch, assign
  <2>4. \A e : Held(e) => Held(e)'
    BY <2>1, HeldStays, Zenon
  <2>5. ~cancelled' /\ ~raced' => ~cancelled /\ ~raced
    BY <2>1, Zenon
  <2>. QED  BY <2>2, <2>3, <2>4, <2>5, KeptByStep, Zenon
<1>. QED  BY <1>1, <1>2, <1>3, <1>4, <1>5, <1>6, <1>7, Zenon DEF Next, OverlapNext

\* Held, as a set: what the tasks in hand cover.
LEMMA HeldIsCovered ==
  ASSUME NEW e, Types, Held(e)
  PROVE  e \in Covered
<1>. DEFINE tasks == Range(pending) \cup Range(recall) \cup Range(todo["run"]) \cup Range(todo["dispatch"])
                     \cup {r.task : r \in Range(results) \cup Range(batch)}
                     \cup {wtask[w] : w \in {v \in Workers : wpc[v] = "busy"}}
                     \cup (IF apc["run"] = "pop" THEN Range(seen) ELSE {})
<1>1. Covered = cache \cup UNION {queryEpochData(t) : t \in tasks}
  BY Zenon DEF Covered
<1>2. \A s : \A i \in DOMAIN s : s[i] \in Range(s)
  BY Zenon DEF Range
<1>3. ASSUME NEW t \in tasks, e \in queryEpochData(t) PROVE e \in Covered
  BY <1>1, <1>3, Zenon
<1>4. ASSUME HeldIn(pending, e) \/ HeldIn(recall, e) PROVE e \in Covered
  <2>1. PICK t \in Range(pending) \cup Range(recall) : e \in queryEpochData(t)
    BY <1>2, <1>4, Zenon DEF HeldIn
  <2>. QED  BY <1>3, <2>1, Zenon
<1>5. ASSUME NEW a \in Assigners, HeldIn(todo[a], e) PROVE e \in Covered
  <2>1. PICK t \in Range(todo["run"]) \cup Range(todo["dispatch"]) : e \in queryEpochData(t)
    BY <1>2, <1>5, Zenon DEF HeldIn, Assigners
  <2>. QED  BY <1>3, <2>1, Zenon
<1>6. ASSUME HeldInResults(results, e) \/ HeldInResults(batch, e) PROVE e \in Covered
  <2>1. PICK r \in Range(results) \cup Range(batch) : e \in queryEpochData(r.task)
    BY <1>2, <1>6, Zenon DEF HeldInResults
  <2>. QED  BY <1>3, <2>1, Zenon
<1>7. ASSUME HeldByWorker(e) PROVE e \in Covered
  <2>1. PICK w \in {v \in Workers : wpc[v] = "busy"} : e \in queryEpochData(wtask[w])
    BY <1>7, Zenon DEF HeldByWorker
  <2>. QED  BY <1>3, <2>1, Zenon
<1>8. ASSUME apc["run"] = "pop", HeldIn(seen, e) PROVE e \in Covered
  <2>1. PICK t \in Range(seen) : e \in queryEpochData(t)
    BY <1>2, <1>8, Zenon DEF HeldIn
  <2>. QED  BY <1>3, <1>8, <2>1, Zenon
<1>. QED  BY <1>1, <1>4, <1>5, <1>6, <1>7, <1>8, Zenon DEF Held

LEMMA KeptIsNothingLost == TInv /\ Kept => NothingLost
<1>. SUFFICES ASSUME TInv, Kept, ~cancelled, ~raced, NEW e \in nextWrite .. nextAssign - 1 PROVE e \in Covered
  BY Zenon DEF NothingLost
<1>1. nextWrite \in 1 .. LastEpoch + 1 /\ nextAssign \in 1 .. LastEpoch + 1 /\ Types
  BY Zenon DEF TInv, Types, QueuesOK, DispatchOK
<1>2. e \in Epoch /\ nextWrite <= e /\ e < nextAssign
  BY <1>1, BoostAssumption DEF Epoch, BoostAssumption
<1>3. Held(e)
  BY <1>2, Zenon DEF Kept, Due
<1>. QED  BY <1>1, <1>3, HeldIsCovered, Zenon

LEMMA TInvInvariant == OverlapSpec => [](TInv /\ Kept)
<1>. QED  BY InitOInv, NextOInv, InitTInv, NextTInv, PTL DEF OverlapSpec

-----------------------------------------------------------------------------
\* The state of the catch-up is of its type: no queue outgrows its capacity and
\* no epoch outside the range is assigned, cached, sent or stored.
THEOREM TypesAreKept == (OverlapSpec \/ Spec) => []TypeOK
<1>1. TInv /\ Kept => TypeOK
  BY TypesByGroup, Zenon DEF TInv
<1>. QED  BY <1>1, TInvInvariant, SpecOverlaps, PTL

\* No epoch gets lost between the queues, however many workers answer in whatever
\* order, tasks fail and are split and recalled, and rounds start over
\* (assignTasks, boostWorkerLoop, dispatchLoop, collectEpochData).
THEOREM NoEpochIsLost == (OverlapSpec \/ Spec) => []NothingLost
<1>. QED  BY KeptIsNothingLost, TInvInvariant, SpecOverlaps, PTL
=============================================================================
