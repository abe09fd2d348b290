------------------------------- MODULE CatchUp -------------------------------
(***************************************************************************)
(* The epoch-by-epoch mode of the catch-up syncer (sync/catchup/syncer.go, *)
(* worker.go).  Worker i of n fetches every n-th epoch of the range into   *)
(* its channel, the collector takes the epochs from the channels in turn   *)
(* and persists them in batches.  A round ends when the range is persisted *)
(* or the store refuses a batch; the next round starts from the database.  *)
(* The channels outlive the rounds.                                        *)
(***************************************************************************)
EXTENDS Integers, Sequences

CONSTANTS
  NumWorkers, ChanSize,
  EpochFrom,       \* the epoch to start from when the database is empty
  Stable,          \* the latest finalized or checkpoint epoch
  BatchSize,       \* epochs whose rows reach the threshold of a batch
  InitialDb,       \* the epochs in the database at the start
  MaxFailures      \* bound: batches that fail to be stored

VARIABLES
  db,              \* the epochs stored, in order of insertion
  pc,              \* the loop of Sync: "range", "round", "done"
  range,           \* [start, end] of the round
  worker,          \* [1..NumWorkers -> [pc, eno]]
  chan,            \* [1..NumWorkers -> Seq(epochs)]
  collector,       \* [pc, eno, i, epochs]
  cancelled,       \* the context of the round
  failures

vars == <<db, pc, range, worker, chan, collector, cancelled, failures>>

Off == [pc |-> "off", eno |-> 0]
OffCollector == [pc |-> "off", eno |-> 0, i |-> 1, epochs |-> <<>>]
Ids == 1..NumWorkers

-----------------------------------------------------------------------------
\* The range from the epoch after the last one stored to the last stable one.
Start == IF db = <<>> THEN EpochFrom ELSE db[Len(db)] + 1

nextSyncRange ==
  /\ pc = "range"
  /\ IF Start > Stable
     THEN pc' = "done" /\ UNCHANGED <<range, worker, collector, cancelled>>
     ELSE /\ pc' = "round"
          /\ range' = [start |-> Start, end |-> Stable]
          /\ worker' = [w \in Ids |-> IF Start + w - 1 <= Stable
                                      THEN [pc |-> "fetch", eno |-> Start + w - 1] ELSE Off]
          /\ collector' = [pc |-> "collect", eno |-> Start, i |-> 1, epochs |-> <<>>]
          /\ cancelled' = FALSE
  /\ UNCHANGED <<db, chan, failures>>

\* A fetch that fails is tried again.
fetchEpoch(w) ==
  /\ worker[w].pc = "fetch"
  /\ worker' = [worker EXCEPT ![w].pc = "send"]
  /\ UNCHANGED <<db, pc, range, chan, collector, cancelled, failures>>

WorkerSend(w) ==
  /\ worker[w].pc = "send" /\ Len(chan[w]) < ChanSize
  /\ chan' = [chan EXCEPT ![w] = Append(@, worker[w].eno)]
  /\ LET eno == worker[w].eno + NumWorkers
     IN  worker' = [worker EXCEPT ![w] = IF eno <= range.end THEN [pc |-> "fetch", eno |-> eno] ELSE Off]
  /\ UNCHANGED <<db, pc, range, collector, cancelled, failures>>

WorkerQuit(w) ==
  /\ worker[w].pc # "off" /\ cancelled
  /\ worker' = [worker EXCEPT ![w] = Off]
  /\ UNCHANGED <<db, pc, range, chan, collector, cancelled, failures>>

\* Mutant: the collector stays with one worker.
sameWorker(i) == i
nextWorker(i) == (i % NumWorkers) + 1

\* fetchResult takes whatever the channel of the next worker holds.
fetchResult ==
  LET i == collector.i
      c == [collector EXCEPT !.eno = @ + 1, !.i = nextWorker(i), !.epochs = Append(@, chan[i][1])]
  IN  /\ collector.pc = "collect" /\ chan[i] # <<>>
      /\ chan' = [chan EXCEPT ![i] = Tail(@)]
      /\ collector' = [c EXCEPT !.pc = IF Len(c.epochs) >= BatchSize \/ c.eno > range.end
                                       THEN "persist" ELSE "collect"]
      /\ UNCHANGED <<db, pc, range, worker, cancelled, failures>>

\* Mutant: batches are not checked.
RequireContinuousNever(slice) == TRUE

\* The batch must continue the database; into an empty one it may start anywhere.
RequireContinuous(slice) ==
  \A k \in DOMAIN slice : slice[k] = (IF db = <<>> THEN slice[1] ELSE db[Len(db)] + 1) + k - 1

persist ==
  /\ collector.pc = "persist"
  /\ RequireContinuous(collector.epochs)
  /\ db' = db \o collector.epochs
  /\ IF collector.eno <= range.end
     THEN collector' = [collector EXCEPT !.pc = "collect", !.epochs = <<>>] /\ UNCHANGED cancelled
     ELSE collector' = OffCollector /\ cancelled' = TRUE
  /\ UNCHANGED <<pc, range, worker, chan, failures>>

\* The store refuses the batch, the leadership was lost, or the database fails.
persistFails ==
  /\ collector.pc = "persist"
  /\ \/ ~RequireContinuous(collector.epochs) /\ UNCHANGED failures
     \/ failures < MaxFailures /\ failures' = failures + 1
  /\ collector' = OffCollector /\ cancelled' = TRUE
  /\ UNCHANGED <<db, pc, range, worker, chan>>

\* wg.Wait returns.
doSync ==
  /\ pc = "round" /\ collector.pc = "off" /\ \A w \in Ids : worker[w].pc = "off"
  /\ pc' = "range"
  /\ UNCHANGED <<db, range, worker, chan, collector, cancelled, failures>>

Init ==
  /\ db = InitialDb /\ pc = "range"
  /\ range = [start |-> 0, end |-> 0]
  /\ worker = [w \in Ids |-> Off] /\ chan = [w \in Ids |-> <<>>]
  /\ collector = OffCollector /\ cancelled = FALSE /\ failures = 0

Next ==
  \/ nextSyncRange
  \/ \E w \in Ids : fetchEpoch(w)
  \/ \E w \in Ids : WorkerSend(w)
  \/ \E w \in Ids : WorkerQuit(w)
  \/ fetchResult
  \/ persist
  \/ persistFails
  \/ doSync

\* Every goroutine goes on; the fetches succeed in the end.
Loop == nextSyncRange \/ doSync
Collector == fetchResult \/ persist \/ persistFails
Worker(w) == fetchEpoch(w) \/ WorkerSend(w) \/ WorkerQuit(w)

Fairness == WF_vars(Loop) /\ WF_vars(Collector) /\ \A w \in Ids : WF_vars(Worker(w))

Spec == Init /\ [][Next]_vars /\ Fairness

-----------------------------------------------------------------------------
(* The types of the syncer. *)
TypeOK ==
  /\ pc \in {"range", "round", "done"} /\ collector.pc \in {"off", "collect", "persist"}
  /\ \A w \in Ids : worker[w].pc \in {"off", "fetch", "send"} /\ Len(chan[w]) <= ChanSize
  /\ failures \in 0..MaxFailures

(* The epochs in the database are consecutive, whatever the channels held  *)
(* from earlier rounds.                                                    *)
EpochsAreConsecutive == \A k \in DOMAIN db : db[k] = db[1] + k - 1

(* A database that was empty starts with the epoch to start from: the      *)
(* epochs of an interrupted round are not stored in the next one.          *)
StartsFromTheStart == db # <<>> => db[1] = (IF InitialDb = <<>> THEN EpochFrom ELSE InitialDb[1])

(* When no batch fails to be stored for another reason than its epochs,    *)
(* the syncer reaches the last stable epoch.                               *)
CatchesUp == [](failures = 0) => <>(pc = "done")
=============================================================================
