--------------------------- MODULE SyncersProofs ----------------------------
(***************************************************************************)
(* What the epoch-by-epoch catch-up and the syncer of the eth space store, *)
(* for any number of workers and clients, all sizes of channels, batches   *)
(* and windows, and any depth of the forks; and what a read of the store   *)
(* returns while a syncer pops epochs from it.                             *)
(***************************************************************************)
EXTENDS Syncers, ReorgGuard, TLAPS

-----------------------------------------------------------------------------
(* The reads of the service while a syncer pops epochs: the reorg version  *)
(* protects every read that starts outside the window between the          *)
(* increment of the version and the commit of the pop, for any number of   *)
(* epochs, blocks, parts and pops.                                         *)

\* Every epoch up to the latest one is stored.
Full(m) ==
  \A e, f \in Epoch : m[e] # None /\ f >= FromEpoch /\ f <= e => m[f] # None

\* No pop has been published since the version was recorded, nor was one then.
Undisturbed == clean /\ version = last

\* What an undisturbed call has read is still so.
View ==
  /\ ~bumped
  /\ pc \in {"range", "from", "to", "query"} => top # None
  /\ top # None => \E m \in Epoch : db[m] # None /\ top <= m
  /\ pc = "to" => hi <= top
  /\ top # None => \A p \in Part \ todo, e \in lo .. top : res[p][e] = db[e]

RGInv ==
  /\ TypeOK
  /\ IsChain(db, FromEpoch) /\ Full(db)
  /\ pc # "idle" => last <= version
  /\ popFrom = None => ~bumped
  /\ popFrom # None /\ ~bumped => version < MaxPops
  /\ pc \in {"max", "range", "from", "to"} => todo = Part
  /\ pc \in {"fullnode", "verify"} => top = None \/ todo = {}
  /\ pc \in {"max", "range", "from", "to", "query", "fullnode", "verify"} /\ Undisturbed => View
  /\ GuardedReads
-----------------------------------------------------------------------------
LEMMA RGInit == Init => RGInv
<1>. SUFFICES ASSUME Init PROVE RGInv
  OBVIOUS
<1>. USE EpochsAssumption, ReorgGuardAssumption DEF Init
<1>1. db \in Map /\ res \in [Part -> Map] /\ 0 \in Epoch
  BY DEF NoEpochs, NoResult, Map, Epoch
<1>2. TypeOK
  <2>1. bumped \in BOOLEAN /\ byEpoch \in BOOLEAN /\ clean \in BOOLEAN
    BY Zenon
  <2>2. version \in 0 .. MaxPops /\ last \in 0 .. MaxPops /\ lo \in Epoch /\ hi \in Epoch
    BY <1>1
  <2>3. popFrom \in Epoch \cup {None} /\ top \in Epoch \cup {None} /\ todo \subseteq Part
    OBVIOUS
  <2>. QED  BY <1>1, <2>1, <2>2, <2>3, Zenon DEF TypeOK
<1>3. IsChain(db, FromEpoch) /\ Full(db)
  BY Zenon DEF IsChain, Full, NoEpochs
<1>. QED  BY <1>2, <1>3, Zenon DEF RGInv, GuardedReads

\* The result of an undisturbed call that has done all its reads.
LEMMA ViewConsistent ==
  ASSUME RGInv, View, top = None \/ todo = {}
  PROVE  Consistent
<1>. SUFFICES ASSUME top # None, NEW p \in Part, NEW q \in Part, NEW e \in lo .. top
              PROVE  /\ res[p][e] = res[q][e]
                     /\ e >= FromEpoch => res[p][e] # None
                     /\ e > lo /\ e > FromEpoch => Parent[res[p][e]] = res[p][e - 1]
  BY Zenon DEF Consistent
<1>1. top \in Epoch /\ lo \in Epoch /\ db \in Map
  BY Zenon DEF RGInv, TypeOK
<1>2. \A f \in lo .. top : res[p][f] = db[f] /\ res[q][f] = db[f]
  BY Zenon DEF View
<1>3. PICK m \in Epoch : db[m] # None /\ top <= m
  BY Zenon DEF View
<1>4. e \in Epoch /\ (e >= FromEpoch => db[e] # None)
  BY <1>1, <1>3, EpochsAssumption DEF RGInv, Full, Epoch
<1>5. e > lo /\ e > FromEpoch => e - 1 \in lo .. top /\ Parent[db[e]] = db[e - 1]
  BY <1>1, <1>4, EpochsAssumption DEF RGInv, IsChain, Epoch
<1>. QED  BY <1>2, <1>4, <1>5, Zenon

\* A push changes neither the epochs already stored nor the versions.
LEMMA PushStep ==
  ASSUME RGInv, Push
  PROVE  RGInv'
<1>. USE EpochsAssumption, ReorgGuardAssumption
<1>1. PICK e \in Epoch, b \in Block :
         /\ IF db = NoEpochs THEN e = FromEpoch
            ELSE MaxEpoch(db, e - 1) /\ Parent[b] = db[e - 1]
         /\ db' = [db EXCEPT ![e] = b]
  BY Zenon DEF Push
<1>2. /\ version' = version /\ popFrom' = popFrom /\ bumped' = bumped /\ pc' = pc
      /\ lo' = lo /\ hi' = hi /\ byEpoch' = byEpoch /\ last' = last /\ clean' = clean
      /\ top' = top /\ todo' = todo /\ res' = res
  BY Zenon DEF Push, call
<1>3. db \in Map /\ IsChain(db, FromEpoch) /\ Full(db)
  BY Zenon DEF RGInv, TypeOK
<1>4. \A f \in Epoch : db'[f] = IF f = e THEN b ELSE db[f]
  BY <1>1, <1>3, Zenon DEF Map
<1>5. \A f \in Epoch : db[f] # None => f < e
  BY <1>1, <1>3 DEF MaxEpoch, NoEpochs, Epoch
<1>6. e >= FromEpoch /\ (e > FromEpoch => db[e - 1] # None /\ db[e - 1] = Parent[b] /\ e - 1 \in Epoch)
  BY <1>1, <1>3 DEF MaxEpoch, IsChain, Epoch
<1>7. IsChain(db', FromEpoch)
  BY <1>3, <1>4, <1>5, <1>6 DEF IsChain, Epoch
<1>8. Full(db')
  <2>. SUFFICES ASSUME NEW x \in Epoch, NEW y \in Epoch, db'[x] # None, y >= FromEpoch, y <= x
                PROVE  db'[y] # None
    BY Zenon DEF Full
  <2>1. CASE y = e
    BY <1>4, <2>1, Zenon
  <2>2. CASE x = e /\ y # e
    BY <1>3, <1>4, <1>6, <2>2 DEF Full, Epoch
  <2>3. CASE x # e /\ y # e
    BY <1>3, <1>4, <2>3, Zenon DEF Full
  <2>. QED  BY <2>1, <2>2, <2>3, Zenon
<1>9. TypeOK'
  <2>1. db' \in Map
    BY <1>1, <1>3, Zenon DEF Map
  <2>. QED  BY <1>2, <2>1, Zenon DEF RGInv, TypeOK
<1>10. ASSUME View PROVE View'
  <2>1. top # None => \E m \in Epoch : db[m] # None /\ top <= m /\ m < e /\ db'[m] # None
    BY <1>4, <1>5, <1>10, Zenon DEF View, Epoch
  <2>2. top # None => \A f \in lo .. top : f \in Epoch /\ db'[f] = db[f]
    BY <1>4, <2>1 DEF RGInv, TypeOK, Epoch
  <2>. QED  BY <1>2, <1>10, <2>1, <2>2 DEF View
<1>11. GuardedReads'
  BY <1>2 DEF RGInv, GuardedReads, Consistent
<1>. QED  BY <1>2, <1>7, <1>8, <1>9, <1>10, <1>11, Zenon DEF RGInv, Undisturbed

\* A pop reaches the store only after every call has been disturbed.
LEMMA PopStep ==
  ASSUME RGInv, Pop \/ createOrUpdateReorgVersion \/ PopCommit \/ PopRollback
  PROVE  RGInv'
<1>. USE EpochsAssumption, ReorgGuardAssumption
<1>1. /\ pc' = pc /\ lo' = lo /\ hi' = hi /\ byEpoch' = byEpoch /\ last' = last /\ clean' = clean
      /\ top' = top /\ todo' = todo /\ res' = res
  BY Zenon DEF Pop, createOrUpdateReorgVersion, PopCommit, PopRollback, call
<1>2. GuardedReads'
  BY <1>1 DEF RGInv, GuardedReads, Consistent
<1>3. version \in 0 .. MaxPops /\ last \in 0 .. MaxPops /\ db \in Map
  BY Zenon DEF RGInv, TypeOK
<1>4. CASE Pop
  <2>1. /\ db' = db /\ version' = version /\ popFrom' \in Epoch /\ bumped' = FALSE
        /\ version < MaxPops
    BY <1>4, Zenon DEF Pop
  <2>2. TypeOK'
    BY <1>1, <2>1, Zenon DEF RGInv, TypeOK
  <2>3. View => View'
    BY <1>1, <2>1 DEF View
  <2>. QED  BY <1>1, <1>2, <2>1, <2>2, <2>3, Zenon DEF RGInv, Undisturbed
<1>5. CASE PopRollback
  <2>1. db' = db /\ version' = version /\ popFrom' = None /\ bumped' = FALSE
    BY <1>5, Zenon DEF PopRollback
  <2>2. TypeOK'
    BY <1>1, <2>1, Zenon DEF RGInv, TypeOK
  <2>3. View => View'
    BY <1>1, <2>1, ZenonT(60) DEF View
  <2>. QED  BY <1>1, <1>2, <2>1, <2>2, <2>3, Zenon DEF RGInv, Undisturbed
<1>6. CASE createOrUpdateReorgVersion
  <2>1. db' = db /\ version' = version + 1 /\ popFrom' = popFrom /\ bumped' = TRUE /\ popFrom # None
    BY <1>6, Zenon DEF createOrUpdateReorgVersion
  <2>2. version < MaxPops
    BY <1>6, Zenon DEF createOrUpdateReorgVersion, RGInv
  <2>3. TypeOK'
    BY <1>1, <1>3, <2>1, <2>2 DEF RGInv, TypeOK
  <2>4. pc # "idle" => last < version'
    BY <1>3, <2>1 DEF RGInv
  <2>. QED  BY <1>1, <1>2, <1>3, <2>1, <2>3, <2>4 DEF RGInv, Undisturbed
<1>7. CASE PopCommit
  <2>1. /\ popFrom \in Epoch /\ db' = Remove(db, popFrom, LastEpoch) /\ version' = version
        /\ popFrom' = None /\ bumped' = FALSE /\ bumped
    BY <1>7, Zenon DEF PopCommit, RGInv, TypeOK
  <2>2. db' \in Map /\ IsChain(db', FromEpoch) /\ Full(db')
    BY <1>3, <2>1 DEF RGInv, Remove, Map, IsChain, Full, Epoch
  <2>3. TypeOK'
    BY <1>1, <2>1, <2>2, Zenon DEF RGInv, TypeOK
  <2>4. ~View
    BY <2>1, Zenon DEF View
  <2>. QED  BY <1>1, <1>2, <2>1, <2>2, <2>3, <2>4, Zenon DEF RGInv, Undisturbed
<1>. QED  BY <1>4, <1>5, <1>6, <1>7, Zenon

\* The steps of the call itself, which leave the store alone.
LEMMA CallStep ==
  ASSUME RGInv, GetLogs \/ Step \/ Abort
  PROVE  RGInv'
<1>. USE EpochsAssumption, ReorgGuardAssumption
<1>1. db' = db /\ version' = version /\ popFrom' = popFrom /\ bumped' = bumped
  BY DEF GetLogs, Step, Abort, Leave, Return, Goto, store, AllFullnode,
         ReadMax, ReadRange, ReadFrom, ReadTo, Query, Fullnode, Verify
<1>2. /\ db \in Map /\ version \in 0 .. MaxPops /\ bumped \in BOOLEAN /\ popFrom \in Epoch \cup {None}
      /\ lo \in Epoch /\ hi \in Epoch /\ byEpoch \in BOOLEAN /\ last \in 0 .. MaxPops
      /\ top \in Epoch \cup {None} /\ todo \subseteq Part /\ res \in [Part -> Map] /\ clean \in BOOLEAN
  BY Zenon DEF RGInv, TypeOK
<1>3. NoResult \in [Part -> Map]
  BY Zenon DEF NoResult, NoEpochs, Map
<1>. DEFINE Store == /\ IsChain(db', FromEpoch) /\ Full(db')
                     /\ popFrom' = None => ~bumped'
                     /\ popFrom' # None /\ ~bumped' => version' < MaxPops
<1>4. Store
  BY <1>1, Zenon DEF RGInv
<1>. HIDE DEF Store
<1>5. ASSUME RecordVersion, pc' = "max", lo' \in Epoch, hi' \in Epoch, byEpoch' \in BOOLEAN
      PROVE  RGInv'
  <2>1. last' = version /\ clean' = ~bumped /\ top' = None /\ todo' = Part /\ res' = NoResult
    BY <1>5, Zenon DEF RecordVersion
  <2>2. TypeOK'
    BY <1>1, <1>2, <1>3, <1>5, <2>1, Zenon DEF TypeOK
  <2>3. Undisturbed' => View'
    BY <1>1, <1>5, <2>1, Zenon DEF Undisturbed, View
  <2>4. GuardedReads'
    BY <1>5, Zenon DEF GuardedReads
  <2>. QED  BY <1>1, <1>2, <1>4, <1>5, <2>1, <2>2, <2>3, <2>4 DEF RGInv, Store
<1>6. CASE GetLogs
  <2>1. RecordVersion /\ pc' = "max" /\ lo' \in Epoch /\ hi' \in lo' .. LastEpoch /\ byEpoch' \in BOOLEAN
    BY <1>6, Zenon DEF GetLogs, Goto
  <2>2. hi' \in Epoch
    BY <2>1 DEF Epoch
  <2>. QED  BY <1>5, <2>1, <2>2, Zenon
<1>7. CASE Return \/ Abort
  <2>1. Leave
    BY <1>7, Zenon DEF Return, Abort
  <2>2. TypeOK'
    <3>1. byEpoch' \in BOOLEAN /\ clean' \in BOOLEAN
      BY <2>1, Zenon DEF Leave
    <3>2. lo' \in Epoch /\ hi' \in Epoch /\ last' \in 0 .. MaxPops
      BY <2>1 DEF Leave, Epoch
    <3>3. pc' = "idle" /\ top' = None /\ todo' = {} /\ res' = NoResult
      BY <2>1, Zenon DEF Leave, Goto
    <3>. QED  BY <1>1, <1>2, <1>3, <3>1, <3>2, <3>3, Zenon DEF TypeOK
  <2>3. pc' = "idle"
    BY <2>1, Zenon DEF Leave, Goto
  <2>. QED  BY <1>4, <2>2, <2>3, Zenon DEF RGInv, Store, GuardedReads
<1>8. CASE Verify
  <2>1. CASE version # last
    <3>1. RecordVersion /\ pc' = "max" /\ lo' = lo /\ hi' = hi /\ byEpoch' = byEpoch
      BY <1>8, <2>1, Zenon DEF Verify, Goto
    <3>. QED  BY <1>2, <1>5, <3>1, Zenon
  <2>2. CASE version = last
    <3>1. /\ pc = "verify" /\ pc' = "done" /\ lo' = lo /\ hi' = hi /\ byEpoch' = byEpoch /\ last' = last
          /\ clean' = clean /\ top' = top /\ todo' = todo /\ res' = res
      BY <1>8, <2>2, Zenon DEF Verify, Goto
    <3>2. TypeOK'
      BY <1>1, <1>2, <3>1, Zenon DEF TypeOK
    <3>3. clean => Consistent
      BY <2>2, <3>1, ViewConsistent, Zenon DEF RGInv, Undisturbed
    <3>4. GuardedReads'
      BY <3>1, <3>3 DEF GuardedReads, Consistent
    <3>. QED  BY <1>1, <1>4, <2>2, <3>1, <3>2, <3>4, Zenon DEF RGInv, Store
  <2>. QED  BY <2>1, <2>2, Zenon
<1>9. CASE ReadMax \/ ReadRange \/ ReadFrom \/ ReadTo \/ Query \/ Fullnode
  <2>1. /\ lo' = lo /\ hi' = hi /\ byEpoch' = byEpoch /\ last' = last /\ clean' = clean
        /\ pc \in {"max", "range", "from", "to", "query", "fullnode"}
        /\ pc' \in {"range", "from", "to", "query", "fullnode", "verify"}
    BY <1>9, Zenon DEF ReadMax, ReadRange, ReadFrom, ReadTo, Query, Fullnode, AllFullnode, Goto, call
  <2>2. SUFFICES /\ top' \in Epoch \cup {None} /\ todo' \subseteq Part /\ res' \in [Part -> Map]
                 /\ pc' \in {"range", "from", "to"} => todo' = Part
                 /\ pc' \in {"fullnode", "verify"} => top' = None \/ todo' = {}
                 /\ View => View'
    <3>1. TypeOK'
      BY <1>1, <1>2, <2>1, <2>2, Zenon DEF TypeOK
    <3>2. GuardedReads'
      BY <2>1, Zenon DEF GuardedReads
    <3>. QED  BY <1>1, <1>4, <2>1, <2>2, <3>1, <3>2, Zenon DEF RGInv, Store, Undisturbed
  <2>3. CASE AllFullnode /\ UNCHANGED <<todo, res>>
    BY <1>1, <1>2, <2>3, Zenon DEF AllFullnode, Goto, View
  <2>4. CASE ReadMax /\ ~AllFullnode
    <3>1. pc = "max" /\ pc' = "range" /\ MaxEpoch(db, top') /\ todo' = todo /\ res' = res
      BY <2>4, Zenon DEF ReadMax, Goto
    <3>2. top' \in Epoch /\ db[top'] # None /\ todo = Part
      BY <3>1, Zenon DEF MaxEpoch, RGInv
    <3>. QED  BY <1>1, <1>2, <2>1, <3>1, <3>2 DEF View, Epoch
  <2>5. CASE ReadRange /\ ~AllFullnode
    <3>1. /\ pc = "range" /\ pc' \in {"from", "query"} /\ lo <= top /\ todo' = todo /\ res' = res
          /\ top' = top \/ (hi <= top /\ top' = hi)
      BY <2>5, Zenon DEF ReadRange, Goto
    <3>2. todo = Part
      BY <3>1, Zenon DEF RGInv
    <3>3. View => top \in Epoch /\ top' \in Epoch /\ top' <= top
      BY <1>2, <3>1 DEF View, Epoch
    <3>. QED  BY <1>1, <1>2, <2>1, <3>1, <3>2, <3>3 DEF View, Epoch
  <2>6. CASE ReadFrom /\ ~AllFullnode
    <3>1. /\ pc = "from" /\ pc' = (IF hi <= top THEN "to" ELSE "query") /\ top' = top
          /\ todo' = todo /\ res' = res
      BY <2>6, Zenon DEF ReadFrom, Goto
    <3>2. todo = Part
      BY <3>1, Zenon DEF RGInv
    <3>. QED  BY <1>1, <1>2, <2>1, <3>1, <3>2, Zenon DEF View
  <2>7. CASE ReadTo /\ ~AllFullnode
    <3>1. pc = "to" /\ pc' = "query" /\ top' = hi /\ todo' = todo /\ res' = res /\ db[hi] # None
      BY <2>7, Zenon DEF ReadTo, Goto
    <3>2. todo = Part
      BY <3>1, Zenon DEF RGInv
    <3>. QED  BY <1>1, <1>2, <2>1, <3>1, <3>2 DEF View, Epoch
  <2>8. CASE Query
    <3>1. PICK p \in todo : /\ res' = [res EXCEPT ![p] = [e \in Epoch |-> IF e \in lo .. top THEN db[e] ELSE None]]
                            /\ todo' = todo \ {p}
      BY <2>8, Zenon DEF Query
    <3>2. pc = "query" /\ pc' = (IF todo' # {} THEN "query" ELSE IF hi > top THEN "fullnode" ELSE "verify") /\ top' = top
      BY <2>8, Zenon DEF Query, Goto
    <3>3. res' \in [Part -> Map]
      BY <1>2, <3>1, Zenon DEF Map
    <3>4. ASSUME View, top # None, NEW q \in Part \ todo', NEW e \in lo .. top
          PROVE  res'[q][e] = db[e]
      <4>1. e \in Epoch
        BY <1>2, <3>4 DEF Epoch
      <4>2. CASE q = p
        BY <1>2, <3>1, <4>1, <4>2, Zenon
      <4>3. CASE q # p
        BY <1>2, <3>1, <3>4, <4>3, Zenon DEF View
      <4>. QED  BY <4>2, <4>3, Zenon
    <3>. QED  BY <1>1, <1>2, <2>1, <3>1, <3>2, <3>3, <3>4 DEF View
  <2>9. CASE Fullnode
    <3>1. pc = "fullnode" /\ pc' = "verify" /\ top' = top /\ todo' = todo /\ res' = res
      BY <2>9, Zenon DEF Fullnode, Goto
    <3>. QED  BY <1>1, <1>2, <2>1, <3>1, Zenon DEF View, RGInv
  <2>. QED  BY <1>9, <2>3, <2>4, <2>5, <2>6, <2>7, <2>8, <2>9, Zenon DEF ReadMax, ReadRange, ReadFrom, ReadTo
<1>. QED  BY <1>6, <1>7, <1>8, <1>9, Zenon DEF Step

LEMMA RGNext ==
  ASSUME RGInv, [Next]_vars
  PROVE  RGInv'
<1>1. CASE UNCHANGED vars
  BY <1>1 DEF vars, store, call, RGInv, TypeOK, GuardedReads, Consistent, View, Undisturbed
<1>2. CASE Push
  BY <1>2, PushStep, Zenon
<1>3. CASE Pop \/ createOrUpdateReorgVersion \/ PopCommit \/ PopRollback
  BY <1>3, PopStep, Zenon
<1>4. CASE GetLogs \/ Step \/ Abort
  BY <1>4, CallStep, Zenon
<1>. QED  BY <1>1, <1>2, <1>3, <1>4, Zenon DEF Next, Write

\* Every variable keeps its type; in particular a pop raises the version at
\* most once, so that the version never exceeds the number of pops.
THEOREM GuardTypesHold == Spec => []TypeOK
<1>1. RGInv /\ [Next]_vars => RGInv'
  BY RGNext, Zenon
<1>2. RGInv => TypeOK
  BY Zenon DEF RGInv
<1>. QED  BY <1>1, <1>2, RGInit, PTL DEF Spec

\* GetLogs returns one consistent view of the store whenever its last version
\* was not read between the increment and the commit of a pop.
THEOREM GuardHolds == Spec => []GuardedReads
<1>1. RGInv /\ [Next]_vars => RGInv'
  BY RGNext, Zenon
<1>2. RGInv => GuardedReads
  BY Zenon DEF RGInv
<1>. QED  BY <1>1, <1>2, RGInit, PTL DEF Spec
-----------------------------------------------------------------------------
(* The catch-up: the channels keep what an interrupted round left in them. *)

WorkerRec == [pc : {"off", "fetch", "send"}, eno : Int]
Epochs == Seq(Int)
CollectorRec == [pc : {"off", "collect", "persist"}, eno : Int, i : CU!Ids, epochs : Epochs]

Types ==
  /\ cu_db \in Seq(Int) /\ cu_pc \in {"range", "round", "done"}
  /\ cu_worker \in [CU!Ids -> WorkerRec] /\ cu_collector \in CollectorRec
  /\ cu_chan \in [CU!Ids -> Seq(Int)] /\ \A w \in CU!Ids : Len(cu_chan[w]) <= ChanSize
  /\ cu_failures \in 0 .. MaxFailures

CUInv == Types /\ CU!EpochsAreConsecutive

LEMMA OffIs == CU!Off \in WorkerRec /\ CU!OffCollector \in CollectorRec
BY CatchUpAssumption DEF CU!Off, CU!OffCollector, WorkerRec, CollectorRec, Epochs, CU!Ids

LEMMA CUInit == CU!Init => CUInv
<1>. SUFFICES ASSUME CU!Init PROVE CUInv
  OBVIOUS
<1>1. cu_db \in Seq(Int) /\ CU!EpochsAreConsecutive
  BY CatchUpAssumption, Zenon DEF CU!Init, CU!EpochsAreConsecutive
<1>2. /\ cu_pc \in {"range", "round", "done"} /\ cu_worker \in [CU!Ids -> WorkerRec] /\ cu_collector \in CollectorRec
  BY OffIs, Zenon DEF CU!Init
<1>3. cu_chan \in [CU!Ids -> Seq(Int)] /\ \A w \in CU!Ids : Len(cu_chan[w]) <= ChanSize
  BY CatchUpAssumption DEF CU!Init
<1>4. cu_failures \in 0 .. MaxFailures
  BY CatchUpAssumption DEF CU!Init
<1>. QED
  BY <1>1, <1>2, <1>3, <1>4, Zenon DEF CUInv, Types

\* The collector asks the workers in turn.
LEMMA NextWorker == \A i \in CU!Ids : CU!nextWorker(i) \in CU!Ids
<1>. SUFFICES ASSUME NEW i \in CU!Ids PROVE CU!nextWorker(i) \in CU!Ids
  OBVIOUS
<1>1. NumWorkers \in Nat /\ NumWorkers > 0 /\ i \in Int
  BY CatchUpAssumption DEF CU!Ids
<1>2. i % NumWorkers \in 0 .. NumWorkers - 1
  BY ONLY <1>1
<1>. QED
  BY ONLY <1>1, <1>2 DEF CU!nextWorker, CU!Ids

\* Appending a batch that RequireContinuous accepts.
LEMMA BatchContinues ==
  ASSUME cu_db \in Seq(Int), CU!EpochsAreConsecutive, NEW s \in Seq(Int), CU!RequireContinuous(s), cu_db' = cu_db \o s
  PROVE  cu_db' \in Seq(Int) /\ CU!EpochsAreConsecutive'
<1>1. cu_db' \in Seq(Int) /\ Len(cu_db') = Len(cu_db) + Len(s) /\ Len(cu_db) \in Nat /\ Len(s) \in Nat
  OBVIOUS
<1>2. DOMAIN cu_db' = 1 .. Len(cu_db) + Len(s) /\ DOMAIN cu_db = 1 .. Len(cu_db) /\ DOMAIN s = 1 .. Len(s)
  BY <1>1
<1>3. \A k \in 1 .. Len(cu_db) : cu_db'[k] = cu_db[k] /\ cu_db[k] \in Int
  OBVIOUS
<1>4. \A k \in 1 .. Len(s) : cu_db'[Len(cu_db) + k] = s[k] /\ s[k] \in Int
  BY SMTT(60)
<1>c. \A k \in 1 .. Len(cu_db) : cu_db[k] = cu_db[1] + k - 1
  BY <1>2, Zenon DEF CU!EpochsAreConsecutive
<1>5. CASE cu_db = <<>>
  <2>1. Len(cu_db) = 0
    BY <1>5, Zenon
  <2>2. \A k \in 1 .. Len(s) : s[k] = s[1] + k - 1
    BY <1>5, <1>2, Zenon DEF CU!RequireContinuous
  <2>3. \A k \in 1 .. Len(s) : cu_db'[k] = s[k]
    BY ONLY <2>1, <1>4, <1>1
  <2>4. \A k \in 1 .. Len(cu_db) + Len(s) : cu_db'[k] = cu_db'[1] + k - 1
    BY ONLY <2>1, <2>2, <2>3, <1>1
  <2>. QED
    BY <1>1, <1>2, <2>4, Zenon DEF CU!EpochsAreConsecutive
<1>6. CASE cu_db # <<>>
  <2>1. Len(cu_db) > 0
    BY <1>6
  <2>2. \A k \in 1 .. Len(s) : s[k] = cu_db[Len(cu_db)] + 1 + k - 1
    BY <1>6, <1>2, Zenon DEF CU!RequireContinuous
  <2>3. Len(cu_db) \in 1 .. Len(cu_db) /\ 1 \in 1 .. Len(cu_db)
    BY ONLY <2>1, <1>1
  <2>4. cu_db[Len(cu_db)] = cu_db[1] + Len(cu_db) - 1 /\ cu_db[1] \in Int /\ cu_db'[1] = cu_db[1]
    BY <2>3, <1>3, <1>c, Zenon
  <2>5. ASSUME NEW k \in 1 .. Len(cu_db) + Len(s) PROVE cu_db'[k] = cu_db'[1] + k - 1
    <3>1. CASE k \in 1 .. Len(cu_db)
      BY <3>1, <1>3, <1>c, <2>4, Zenon
    <3>2. CASE k \notin 1 .. Len(cu_db)
      <4>1. k - Len(cu_db) \in 1 .. Len(s) /\ Len(cu_db) + (k - Len(cu_db)) = k
        BY ONLY <3>2, <1>1, k \in 1 .. Len(cu_db) + Len(s)
      <4>2. cu_db'[k] = s[k - Len(cu_db)] /\ s[k - Len(cu_db)] = cu_db[Len(cu_db)] + 1 + (k - Len(cu_db)) - 1
        BY <4>1, <1>4, <2>2, Zenon
      <4>. QED
        BY ONLY <4>2, <2>4, <1>1, k \in 1 .. Len(cu_db) + Len(s), SMTT(60)
    <3>. QED
      BY <3>1, <3>2, Zenon
  <2>. QED
    BY <1>1, <1>2, <2>5, Zenon DEF CU!EpochsAreConsecutive
<1>. QED
  BY <1>5, <1>6, Zenon

\* The steps that leave the database alone keep what is stored.
LEMMA StoredStays ==
  ASSUME CUInv, UNCHANGED cu_db
  PROVE  cu_db' \in Seq(Int) /\ CU!EpochsAreConsecutive'
BY Zenon DEF CUInv, Types, CU!EpochsAreConsecutive

LEMMA CURange ==
  ASSUME CUInv, CU!nextSyncRange
  PROVE  CUInv'
<1>0. UNCHANGED <<cu_db, cu_chan, cu_failures>> /\ cu_pc' \in {"range", "round", "done"}
  BY Zenon DEF CU!nextSyncRange
<1>1. cu_db' \in Seq(Int) /\ CU!EpochsAreConsecutive'
  BY <1>0, StoredStays, Zenon
<1>s. CU!Start \in Int
  BY CatchUpAssumption DEF CU!Start, CUInv, Types
<1>2. cu_worker' \in [CU!Ids -> WorkerRec] /\ cu_collector' \in CollectorRec
  <2>1. CASE UNCHANGED <<cu_worker, cu_collector>>
    BY <2>1, Zenon DEF CUInv, Types
  <2>2. CASE /\ cu_worker' = [w \in CU!Ids |-> IF CU!Start + w - 1 <= Stable
                                         THEN [pc |-> "fetch", eno |-> CU!Start + w - 1] ELSE CU!Off]
             /\ cu_collector' = [pc |-> "collect", eno |-> CU!Start, i |-> 1, epochs |-> <<>>]
    <3>1. \A w \in CU!Ids : [pc |-> "fetch", eno |-> CU!Start + w - 1] \in WorkerRec
      BY <1>s DEF WorkerRec, CU!Ids
    <3>2. cu_collector' \in CollectorRec
      BY <1>s, <2>2, CatchUpAssumption DEF CollectorRec, Epochs, CU!Ids
    <3>. QED
      BY <2>2, <3>1, <3>2, OffIs, Zenon
  <2>. QED
    BY <2>1, <2>2, Zenon DEF CU!nextSyncRange
<1>. QED
  BY <1>0, <1>1, <1>2, Zenon DEF CUInv, Types, CU!Ids, WorkerRec, CollectorRec, Epochs

LEMMA CUWorker ==
  ASSUME CUInv, NEW w \in CU!Ids, CU!fetchEpoch(w) \/ CU!WorkerSend(w) \/ CU!WorkerQuit(w)
  PROVE  CUInv'
<1>0. UNCHANGED <<cu_db, cu_pc, cu_collector, cu_failures>>
  BY Zenon DEF CU!fetchEpoch, CU!WorkerSend, CU!WorkerQuit
<1>1. cu_db' \in Seq(Int) /\ CU!EpochsAreConsecutive'
  BY <1>0, StoredStays, Zenon
<1>t. cu_worker[w] \in WorkerRec /\ cu_worker[w].eno \in Int /\ cu_chan \in [CU!Ids -> Seq(Int)]
      /\ cu_worker \in [CU!Ids -> WorkerRec] /\ \A v \in CU!Ids : Len(cu_chan[v]) <= ChanSize
  BY Zenon DEF CUInv, Types, WorkerRec
<1>2. cu_worker' \in [CU!Ids -> WorkerRec]
  <2>1. CASE CU!fetchEpoch(w)
    BY <2>1, <1>t, Zenon DEF CU!fetchEpoch, WorkerRec
  <2>2. CASE CU!WorkerSend(w)
    <3>1. [pc |-> "fetch", eno |-> cu_worker[w].eno + NumWorkers] \in WorkerRec
      BY <1>t, CatchUpAssumption DEF WorkerRec
    <3>. QED
      BY <2>2, <3>1, <1>t, OffIs, Zenon DEF CU!WorkerSend
  <2>3. CASE CU!WorkerQuit(w)
    BY <2>3, <1>t, OffIs, Zenon DEF CU!WorkerQuit
  <2>. QED
    BY <2>1, <2>2, <2>3, Zenon
<1>3. cu_chan' \in [CU!Ids -> Seq(Int)] /\ \A v \in CU!Ids : Len(cu_chan'[v]) <= ChanSize
  <2>1. CASE UNCHANGED cu_chan
    BY <2>1, <1>t, Zenon
  <2>2. CASE Len(cu_chan[w]) < ChanSize /\ cu_chan' = [cu_chan EXCEPT ![w] = Append(@, cu_worker[w].eno)]
    <3>1. Append(cu_chan[w], cu_worker[w].eno) \in Seq(Int) /\ Len(Append(cu_chan[w], cu_worker[w].eno)) <= ChanSize
      BY <2>2, <1>t, CatchUpAssumption
    <3>. QED
      BY <2>2, <3>1, <1>t, Zenon
  <2>. QED
    BY <2>1, <2>2, Zenon DEF CU!fetchEpoch, CU!WorkerSend, CU!WorkerQuit
<1>. QED
  BY <1>0, <1>1, <1>2, <1>3, Zenon DEF CUInv, Types, CU!Ids, WorkerRec, CollectorRec, Epochs

LEMMA CUFetch ==
  ASSUME CUInv, CU!fetchResult
  PROVE  CUInv'
<1>. DEFINE i == cu_collector.i
            c == [cu_collector EXCEPT !.eno = @ + 1, !.i = CU!nextWorker(i), !.epochs = Append(@, cu_chan[i][1])]
<1>0. /\ UNCHANGED <<cu_db, cu_pc, cu_worker, cu_failures>> /\ cu_chan[i] # <<>>
      /\ cu_chan' = [cu_chan EXCEPT ![i] = Tail(@)]
      /\ \E p \in {"persist", "collect"} : cu_collector' = [c EXCEPT !.pc = p]
  BY Zenon DEF CU!fetchResult
<1>1. cu_db' \in Seq(Int) /\ CU!EpochsAreConsecutive'
  BY <1>0, StoredStays, Zenon
<1>t. i \in CU!Ids /\ cu_collector \in CollectorRec /\ cu_chan \in [CU!Ids -> Seq(Int)]
      /\ \A v \in CU!Ids : Len(cu_chan[v]) <= ChanSize
  BY Zenon DEF CUInv, Types, CollectorRec
<1>2. cu_chan[i][1] \in Int /\ Tail(cu_chan[i]) \in Seq(Int) /\ Len(Tail(cu_chan[i])) <= ChanSize
  BY <1>0, <1>t, CatchUpAssumption, SMTT(60)
<1>3. cu_chan' \in [CU!Ids -> Seq(Int)] /\ \A v \in CU!Ids : Len(cu_chan'[v]) <= ChanSize
  BY <1>0, <1>2, <1>t, Zenon
<1>4. CU!nextWorker(i) \in CU!Ids
  BY <1>t, NextWorker, Zenon
<1>5. c \in CollectorRec
  <2>1. cu_collector.epochs \in Epochs /\ cu_collector.eno \in Int
    BY <1>t, Zenon DEF CollectorRec
  <2>2. cu_collector.eno + 1 \in Int
    BY ONLY <2>1
  <2>3. Append(cu_collector.epochs, cu_chan[i][1]) \in Epochs
    BY ONLY <2>1, <1>2 DEF Epochs
  <2>. HIDE DEF i
  <2>. QED
    BY <2>2, <2>3, <1>4, <1>t, Zenon DEF CollectorRec
<1>. HIDE DEF c, i
<1>6. cu_collector' \in CollectorRec
  BY <1>0, <1>5, Zenon DEF CollectorRec
<1>. QED
  BY <1>0, <1>1, <1>3, <1>6, Zenon DEF CUInv, Types, CU!Ids, WorkerRec, CollectorRec, Epochs

LEMMA CUPersist ==
  ASSUME CUInv, CU!persist \/ CU!persistFails
  PROVE  CUInv'
<1>0. UNCHANGED <<cu_pc, cu_worker, cu_chan>>
  BY Zenon DEF CU!persist, CU!persistFails
<1>t. cu_collector \in CollectorRec /\ cu_collector.epochs \in Seq(Int) /\ cu_failures \in 0 .. MaxFailures
  BY Zenon DEF CUInv, Types, CollectorRec, Epochs
<1>1. cu_db' \in Seq(Int) /\ CU!EpochsAreConsecutive'
  <2>1. CASE CU!persist
    <3>1. CU!RequireContinuous(cu_collector.epochs) /\ cu_db' = cu_db \o cu_collector.epochs
      BY <2>1, Zenon DEF CU!persist
    <3>2. cu_db \in Seq(Int) /\ CU!EpochsAreConsecutive
      BY Zenon DEF CUInv, Types
    <3>. QED
      BY <3>1, <3>2, <1>t, BatchContinues, Zenon
  <2>2. CASE CU!persistFails
    BY <2>2, StoredStays, Zenon DEF CU!persistFails
  <2>. QED
    BY <2>1, <2>2, Zenon
<1>2. cu_collector' \in CollectorRec
  <2>1. CASE cu_collector' = [cu_collector EXCEPT !.pc = "collect", !.epochs = <<>>]
    <3>1. <<>> \in Epochs
      BY DEF Epochs
    <3>. QED
      BY <2>1, <3>1, <1>t, Zenon DEF CollectorRec
  <2>2. CASE cu_collector' = CU!OffCollector
    BY <2>2, OffIs, Zenon
  <2>. QED
    BY <2>1, <2>2, Zenon DEF CU!persist, CU!persistFails
<1>3. cu_failures' \in 0 .. MaxFailures
  <2>1. UNCHANGED cu_failures \/ (cu_failures < MaxFailures /\ cu_failures' = cu_failures + 1)
    BY Zenon DEF CU!persist, CU!persistFails
  <2>2. MaxFailures \in Nat
    BY Zenon, CatchUpAssumption
  <2>. QED
    BY ONLY <2>1, <2>2, <1>t
<1>. QED
  BY <1>0, <1>1, <1>2, <1>3, Zenon DEF CUInv, Types, CU!Ids, WorkerRec, CollectorRec, Epochs

LEMMA CUNext == CUInv /\ [CU!Next]_(CU!vars) => CUInv'
<1>. SUFFICES ASSUME CUInv, [CU!Next]_(CU!vars) PROVE CUInv'
  OBVIOUS
<1>1. CASE CU!doSync
  BY <1>1, StoredStays, Zenon DEF CU!doSync, CUInv, Types, CU!Ids, WorkerRec, CollectorRec, Epochs
<1>2. CASE UNCHANGED CU!vars
  BY <1>2, StoredStays, Zenon DEF CU!vars, CUInv, Types, CU!Ids, WorkerRec, CollectorRec, Epochs
<1>. QED
  BY <1>1, <1>2, CURange, CUWorker, CUFetch, CUPersist, Zenon DEF CU!Next

\* The epochs that persist stores are consecutive, whatever results of an earlier
\* round the channels of the workers still hold (RequireContinuous, fetchResult),
\* and no channel outgrows its capacity: for any number of workers, any sizes and
\* any range.
THEOREM StoredAreConsecutive ==
  /\ CU!Spec => [](CU!TypeOK /\ CU!EpochsAreConsecutive)
  /\ CU!Spec => []EpochsAreConsecutive
<1>1. CUInv => CU!TypeOK /\ CU!EpochsAreConsecutive
  BY Zenon DEF CUInv, Types, CU!TypeOK, WorkerRec, CollectorRec
<1>2. CU!Spec => []CUInv
  BY CUInit, CUNext, PTL DEF CU!Spec
<1>. QED
  BY <1>1, <1>2, PTL DEF EpochsAreConsecutive

-----------------------------------------------------------------------------
(* The syncer of the eth space.                                            *)

\* The blocks of one fork from a number on, each with its own receipts.
OnChain(s, start) ==
  \E k \in ES!Forks : \A i \in 1 .. Len(s) : s[i] = ES!Data(ES!Pivot(k, start + i - 1))

DataRec == [hash : ES!Hashes, rcpts : ES!Hashes \cup {ES!NoHash}]
Batches == Seq(DataRec)
NodeRec == [fork : ES!Forks, height : 0 .. MaxHeight, up : BOOLEAN]
RoundRec == [pc : {"idle", "block", "receipts", "push", "revert"}, client : ES!Clients,
             from : Nat, size : Nat, batch : Batches, block : ES!Hashes \cup {ES!NoHash}]
MonRec == [running : BOOLEAN, height : Nat, advanced : BOOLEAN, failures : 0 .. Threshold + Remind - 1]

NodesOK == es_node \in [ES!Clients -> NodeRec] /\ es_w3cIdx \in ES!Clients
MonitorOK == es_mon \in MonRec /\ es_method \in 0 .. 3
StoreOK == es_db \in Batches /\ OnChain(es_db, FromBlock)
WindowOK ==
  /\ es_win \in [DOMAIN es_win -> ES!Hashes] /\ DOMAIN es_win \subseteq Nat
  /\ \A m, n \in DOMAIN es_win : n - m < Capacity

\* What a round has got from its client is one chain, although the client may
\* have changed the fork between any two queries.
Fetched ==
  /\ es_round \in RoundRec
  /\ es_round.pc # "idle" =>
       /\ es_round.size > 0 /\ es_round.from + es_round.size - 1 <= MaxHeight
       /\ Len(es_round.batch) <= es_round.size
       /\ es_round.pc \in {"block", "receipts"} => Len(es_round.batch) < es_round.size
       /\ es_round.pc = "push" => es_round.batch # <<>>
       /\ OnChain(es_round.batch, es_round.from)
  /\ es_round.pc = "receipts" => \E k \in ES!Forks : es_round.block = ES!Pivot(k, ES!Number)

\* While the lease is held nobody else writes: the round goes on from the last
\* block stored, and what the window holds is stored.
Attached(kept, round) ==
  round.pc # "idle" =>
    /\ round.from = FromBlock + Len(kept)
    /\ round.batch # <<>> /\ kept # <<>> => ES!ParentHash(round.batch[1].hash) = kept[Len(kept)].hash

Windowed(kept, win) ==
  \A n \in DOMAIN win : n - FromBlock + 1 \in 1 .. Len(kept) /\ win[n] = kept[n - FromBlock + 1].hash

Led == es_lease => Attached(es_db, es_round) /\ Windowed(es_db, es_win)

ESInv == NodesOK /\ MonitorOK /\ StoreOK /\ WindowOK /\ Fetched /\ Led

LEMMA PivotIs ==
  \A k \in ES!Forks, n \in Int : /\ ES!Pivot(k, n)[1] \in ES!Forks /\ ES!Pivot(k, n)[2] = n
                                 /\ ES!Pivot(k, n) # ES!NoHash
                                 /\ n \in 0 .. MaxHeight => ES!Pivot(k, n) \in ES!Hashes
BY Zenon DEF ES!Pivot, ES!Forks, ES!Hashes, ES!NoHash

LEMMA DataIs ==
  \A h : ES!Data(h).hash = h /\ (h \in ES!Hashes => ES!Data(h) \in DataRec)
BY Zenon DEF ES!Data, DataRec

\* Two forks that share a block share the blocks before it.
LEMMA SharedPast ==
  ASSUME NEW k \in ES!Forks, NEW l \in ES!Forks, NEW n \in Int, NEW m \in Int, m <= n,
         ES!ParentHash(ES!Pivot(l, n + 1)) = ES!Pivot(k, n)
  PROVE  ES!Pivot(k, m) = ES!Pivot(l, m)
<1>1. CASE n <= SplitAt
  BY <1>1, EthSyncAssumption DEF ES!Pivot
<1>2. CASE n > SplitAt
  BY <1>2, EthSyncAssumption DEF ES!Pivot, ES!ParentHash
<1>. QED
  BY <1>1, <1>2, EthSyncAssumption

\* A chain goes on with a child of its last block.
LEMMA ChainGoesOn ==
  ASSUME NEW s \in Batches, NEW t \in Batches, NEW start \in Int,
         OnChain(s, start), OnChain(t, start + Len(s)),
         s # <<>> /\ t # <<>> => ES!ParentHash(t[1].hash) = s[Len(s)].hash
  PROVE  s \o t \in Batches /\ OnChain(s \o t, start)
<1>1. PICK k \in ES!Forks : \A i \in 1 .. Len(s) : s[i] = ES!Data(ES!Pivot(k, start + i - 1))
  BY Zenon DEF OnChain
<1>2. PICK l \in ES!Forks : \A i \in 1 .. Len(t) : t[i] = ES!Data(ES!Pivot(l, start + Len(s) + i - 1))
  BY Zenon DEF OnChain
<1>3. s \o t \in Batches /\ Len(s \o t) = Len(s) + Len(t) /\ Len(s) \in Nat /\ Len(t) \in Nat
  BY DEF Batches
<1>4. /\ \A i \in 1 .. Len(s) : (s \o t)[i] = s[i]
      /\ \A i \in 1 .. Len(s) + Len(t) : i > Len(s) => (s \o t)[i] = t[i - Len(s)]
  BY DEF Batches
<1>5. CASE t = <<>>
  <2>1. Len(t) = 0
    BY <1>5, Zenon
  <2>2. Len(s \o t) = Len(s)
    BY ONLY <2>1, <1>3
  <2>. QED
    BY <1>1, <1>3, <1>4, <2>2, ZenonT(60) DEF OnChain
<1>6. CASE t # <<>>
  <2>1. \A i \in 1 .. Len(s) : s[i] = ES!Data(ES!Pivot(l, start + i - 1))
    <3>. SUFFICES ASSUME NEW i \in 1 .. Len(s)
                  PROVE  ES!Pivot(k, start + i - 1) = ES!Pivot(l, start + i - 1)
      BY <1>1, Zenon
    <3>1. s # <<>> /\ Len(s) \in 1 .. Len(s) /\ 1 \in 1 .. Len(t)
      BY <1>3, <1>6 DEF Batches
    <3>2. t[1].hash = ES!Pivot(l, start + Len(s) + 1 - 1) /\ s[Len(s)].hash = ES!Pivot(k, start + Len(s) - 1)
      BY <3>1, <1>1, <1>2, DataIs, Zenon
    <3>3. start + Len(s) + 1 - 1 = (start + Len(s) - 1) + 1 /\ start + Len(s) - 1 \in Int
          /\ start + i - 1 \in Int /\ start + i - 1 <= start + Len(s) - 1
      BY <1>3
    <3>4. ES!ParentHash(ES!Pivot(l, (start + Len(s) - 1) + 1)) = ES!Pivot(k, start + Len(s) - 1)
      BY <3>1, <3>2, <3>3, <1>6, Zenon
    <3>. QED
      BY <3>3, <3>4, SharedPast, Zenon
  <2>2. ASSUME NEW i \in 1 .. Len(s) + Len(t)
        PROVE  (s \o t)[i] = ES!Data(ES!Pivot(l, start + i - 1))
    <3>1. CASE i \in 1 .. Len(s)
      BY <3>1, <2>1, <1>4, Zenon
    <3>2. CASE i \notin 1 .. Len(s)
      <4>1. i > Len(s) /\ i - Len(s) \in 1 .. Len(t) /\ start + Len(s) + (i - Len(s)) - 1 = start + i - 1
        BY ONLY <3>2, <1>3, i \in 1 .. Len(s) + Len(t), start \in Int
      <4>2. (s \o t)[i] = t[i - Len(s)]
        BY <4>1, <1>4, Zenon
      <4>3. t[i - Len(s)] = ES!Data(ES!Pivot(l, start + Len(s) + (i - Len(s)) - 1))
        BY <4>1, <1>2, Zenon
      <4>. QED
        BY <4>1, <4>2, <4>3, Zenon
    <3>. QED
      BY <3>1, <3>2, Zenon
  <2>. QED
    BY <2>2, <1>3, Zenon DEF OnChain
<1>. QED
  BY <1>5, <1>6, Zenon

\* The first blocks of a chain are a chain.
LEMMA ChainIsCut ==
  ASSUME NEW s \in Batches, NEW start \in Int, OnChain(s, start), NEW n \in Int, n <= Len(s)
  PROVE  /\ SubSeq(s, 1, n) \in Batches /\ Len(SubSeq(s, 1, n)) = (IF n > 0 THEN n ELSE 0)
         /\ OnChain(SubSeq(s, 1, n), start)
         /\ \A i \in 1 .. n : SubSeq(s, 1, n)[i] = s[i]
<1>1. /\ SubSeq(s, 1, n) \in Batches /\ Len(SubSeq(s, 1, n)) = (IF n > 0 THEN n ELSE 0)
      /\ \A i \in 1 .. n : SubSeq(s, 1, n)[i] = s[i]
  BY DEF Batches
<1>2. \A i \in 1 .. Len(SubSeq(s, 1, n)) : i \in 1 .. n /\ i \in 1 .. Len(s)
  BY <1>1 DEF Batches
<1>. QED
  BY <1>1, <1>2, Zenon DEF OnChain

LEMMA IdleIs == ES!Idle \in RoundRec /\ ES!Idle.pc = "idle" /\ 0 \in ES!Clients /\ <<>> \in Batches
<1>1. <<>> \in Batches
  BY DEF Batches
<1>2. 0 \in ES!Clients
  BY EthSyncAssumption DEF ES!Clients
<1>. QED
  BY <1>1, <1>2, Zenon DEF ES!Idle, RoundRec

LEMMA ESInit == ES!Init => ESInv
<1>. SUFFICES ASSUME ES!Init PROVE ESInv
  OBVIOUS
<1>. USE DEF ES!Init
<1>1. NodesOK
  BY IdleIs, EthSyncAssumption DEF NodesOK, NodeRec, ES!Forks
<1>2. MonitorOK
  BY EthSyncAssumption DEF MonitorOK, MonRec
<1>3. StoreOK
  BY IdleIs DEF StoreOK, OnChain, ES!Forks
<1>4. WindowOK
  BY Zenon DEF WindowOK, ES!NoWindow
<1>5. Fetched /\ Led
  BY IdleIs, Zenon DEF Fetched, Led
<1>. QED
  BY <1>1, <1>2, <1>3, <1>4, <1>5, Zenon DEF ESInv

\* A round that is over claims nothing.
LEMMA RoundOver == ASSUME es_round' = ES!Idle PROVE Fetched' /\ Attached(es_db', es_round')
BY IdleIs, Zenon DEF Fetched, Attached

\* The steps of the full nodes, the monitor and the leadership.
LEMMA ESNodes ==
  ASSUME ESInv, NEW n \in ES!Clients, ES!Grow(n) \/ ES!Switch(n) \/ ES!Toggle(n)
  PROVE  ESInv'
<1>1. NodesOK'
  <2>. USE DEF ESInv, NodesOK, NodeRec
  <2>1. CASE ES!Grow(n)
    <3>1. es_node[n] \in NodeRec /\ es_node[n].height < MaxHeight
      BY <2>1, Zenon DEF ES!Grow
    <3>2. es_node[n].height + 1 \in 0 .. MaxHeight
      BY ONLY <3>1, EthSyncAssumption DEF NodeRec
    <3>. QED
      BY <2>1, <3>2, Zenon DEF ES!Grow
  <2>2. CASE ES!Switch(n)
    BY <2>2 DEF ES!Switch, ES!Forks
  <2>3. CASE ES!Toggle(n)
    BY <2>3, Zenon DEF ES!Toggle
  <2>. QED
    BY <2>1, <2>2, <2>3, Zenon
<1>2. UNCHANGED <<es_db, es_win, es_round, es_lease, es_mon, es_method>>
  BY Zenon DEF ES!Grow, ES!Switch, ES!Toggle
<1>. QED
  BY <1>1, <1>2, Zenon DEF ESInv, MonitorOK, StoreOK, WindowOK, Fetched, Led, ES!Number

LEMMA ESMonitor == ASSUME ESInv, ES!checkOnce PROVE ESInv'
<1>1. UNCHANGED <<es_node, es_db, es_win, es_round, es_lease, es_method>>
  BY Zenon DEF ES!checkOnce
<1>2. ES!onFailure \/ ES!onSuccess
  BY Zenon DEF ES!checkOnce
<1>3. es_mon \in MonRec /\ es_w3cIdx \in ES!Clients
  BY Zenon DEF ESInv, MonitorOK, NodesOK
<1>4. es_mon' \in MonRec
  <2>1. CASE ES!onSuccess
    <3>1. 0 \in 0 .. Threshold + Remind - 1
      BY EthSyncAssumption
    <3>. QED
      BY <2>1, <1>3, <3>1, Zenon DEF ES!onSuccess, MonRec
  <2>2. CASE ES!onFailure
    <3>1. \A f \in 0 .. Threshold + Remind - 1 :
            (IF f + 1 = Threshold + Remind THEN Threshold ELSE f + 1) \in 0 .. Threshold + Remind - 1
      BY EthSyncAssumption
    <3>. QED
      BY <2>2, <1>3, <3>1, Zenon DEF ES!onFailure, MonRec
  <2>. QED
    BY <1>2, <2>1, <2>2, Zenon
<1>5. es_w3cIdx' \in ES!Clients
  <2>1. (es_w3cIdx + 1) % NumClients \in ES!Clients
    BY <1>3, EthSyncAssumption DEF ES!Clients
  <2>. QED
    BY <1>2, <1>3, <2>1, Zenon DEF ES!onFailure, ES!onSuccess, ES!OnStateChange
<1>. QED
  BY <1>1, <1>4, <1>5, Zenon DEF ESInv, NodesOK, MonitorOK, StoreOK, WindowOK, Fetched, Led, ES!Number

\* The lease comes with an empty window and no round in progress.
LEMMA ESLeadership == ASSUME ESInv, ES!onElected \/ ES!onOusted \/ ES!LoseLease PROVE ESInv'
<1>1. UNCHANGED <<es_node, es_w3cIdx, es_db, es_round, es_method>>
  BY Zenon DEF ES!onElected, ES!onOusted, ES!LoseLease
<1>2. MonitorOK'
  <2>1. es_mon' = es_mon \/ ES!Start
    BY Zenon DEF ES!onElected, ES!onOusted, ES!LoseLease, ES!OnElected
  <2>2. es_mon \in MonRec /\ es_method \in 0 .. 3
    BY Zenon DEF ESInv, MonitorOK
  <2>3. es_mon' \in MonRec
    <3>1. ASSUME NEW m \in MonRec
          PROVE  [m EXCEPT !.running = TRUE, !.height = 0, !.advanced = FALSE] \in MonRec
      BY Zenon DEF MonRec
    <3>. QED
      BY <2>1, <2>2, <3>1, Zenon DEF ES!Start
  <2>. QED
    BY <1>1, <2>2, <2>3, Zenon DEF MonitorOK
<1>3. WindowOK'
  <2>1. es_win' = es_win \/ es_win' = ES!NoWindow
    BY Zenon DEF ES!onElected, ES!onOusted, ES!LoseLease, ES!OnElected, ES!onLeadershipChanged
  <2>2. CASE es_win' = es_win
    BY <2>2, Zenon DEF ESInv, WindowOK
  <2>3. CASE es_win' = ES!NoWindow
    BY <2>3, Zenon DEF WindowOK, ES!NoWindow
  <2>. QED
    BY <2>1, <2>2, <2>3, Zenon
<1>4. Led'
  <2>1. CASE ES!onElected
    <3>1. es_round'.pc = "idle" /\ es_win' = ES!NoWindow
      BY <2>1, <1>1, Zenon DEF ES!onElected, ES!OnElected, ES!onLeadershipChanged
    <3>2. DOMAIN es_win' = {}
      BY <3>1, Zenon DEF ES!NoWindow
    <3>. QED
      BY <3>1, <3>2, Zenon DEF Led, Attached, Windowed
  <2>2. CASE ES!onOusted \/ ES!LoseLease
    BY <2>2, Zenon DEF ES!onOusted, ES!LoseLease, Led
  <2>. QED
    BY <2>1, <2>2, Zenon
<1>. QED
  BY <1>1, <1>2, <1>3, <1>4, Zenon DEF ESInv, NodesOK, StoreOK, Fetched, ES!Number

\* The other leader writes a chain of its own, only without the lease here.
LEMMA ESOther ==
  ASSUME ESInv, NEW k \in ES!Forks, NEW lastBlock \in FromBlock .. MaxHeight, ES!OtherWrites(k, lastBlock)
  PROVE  ESInv'
<1>1. StoreOK'
  <2>1. \A i \in 1 .. (lastBlock - FromBlock + 1) : FromBlock + i - 1 \in 0 .. MaxHeight /\ FromBlock + i - 1 \in Int
    BY EthSyncAssumption
  <2>2. \A i \in 1 .. (lastBlock - FromBlock + 1) : ES!Data(ES!Pivot(k, FromBlock + i - 1)) \in DataRec
    BY <2>1, PivotIs, DataIs, Zenon
  <2>3. ES!Chain(k, lastBlock) \in Batches /\ Len(ES!Chain(k, lastBlock)) = lastBlock - FromBlock + 1
    BY <2>2, EthSyncAssumption DEF ES!Chain, Batches
  <2>4. \A i \in 1 .. Len(ES!Chain(k, lastBlock)) : ES!Chain(k, lastBlock)[i] = ES!Data(ES!Pivot(k, FromBlock + i - 1))
    BY <2>3, Zenon DEF ES!Chain
  <2>. QED
    BY <2>3, <2>4, Zenon DEF StoreOK, OnChain, ES!OtherWrites
<1>2. UNCHANGED <<es_node, es_w3cIdx, es_win, es_round, es_method, es_mon>> /\ ~es_lease'
  BY Zenon DEF ES!OtherWrites
<1>. QED
  BY <1>1, <1>2, Zenon DEF ESInv, NodesOK, MonitorOK, WindowOK, Fetched, Led, ES!Number

\* The number after the last block stored.
LEMMA LoadIs ==
  ASSUME ESInv
  PROVE  /\ ES!loadLastSyncBlock = FromBlock + Len(es_db) /\ Len(es_db) \in Nat
         /\ es_db # <<>> => Len(es_db) \in 1 .. Len(es_db)
         /\ es_db # <<>> => es_db[Len(es_db)].hash # ES!NoHash
<1>1. es_db \in Batches /\ OnChain(es_db, FromBlock)
  BY Zenon DEF ESInv, StoreOK
<1>2. Len(es_db) \in Nat /\ (es_db = <<>> => Len(es_db) = 0) /\ (es_db # <<>> => Len(es_db) \in 1 .. Len(es_db))
  BY <1>1 DEF Batches
<1>3. PICK k \in ES!Forks : \A i \in 1 .. Len(es_db) : es_db[i] = ES!Data(ES!Pivot(k, FromBlock + i - 1))
  BY <1>1, Zenon DEF OnChain
<1>4. FromBlock + Len(es_db) - 1 \in Int /\ FromBlock + Len(es_db) - 1 + 1 = FromBlock + Len(es_db)
      /\ FromBlock + 0 = FromBlock
  BY <1>2, EthSyncAssumption
<1>5. es_db # <<>> => /\ es_db[Len(es_db)].hash[2] = FromBlock + Len(es_db) - 1
                      /\ es_db[Len(es_db)].hash # ES!NoHash
  <2>. SUFFICES ASSUME es_db # <<>>
                PROVE  es_db[Len(es_db)].hash = ES!Pivot(k, FromBlock + Len(es_db) - 1)
    <3>1. /\ ES!Pivot(k, FromBlock + Len(es_db) - 1)[2] = FromBlock + Len(es_db) - 1
          /\ ES!Pivot(k, FromBlock + Len(es_db) - 1) # ES!NoHash
      BY <1>4, PivotIs, Zenon
    <3>. QED
      BY <3>1, Zenon
  <2>. QED
    BY <1>2, <1>3, DataIs, Zenon
<1>. QED
  BY <1>2, <1>4, <1>5, Zenon DEF ES!loadLastSyncBlock

\* The parts of the invariant a step of the round does not touch.
LEMMA RoundKeeps ==
  ASSUME ESInv, UNCHANGED <<es_node, es_w3cIdx, es_mon, es_db, es_win, es_lease>>,
         es_method' \in 0 .. 3, Fetched', es_lease => Attached(es_db, es_round')
  PROVE  ESInv'
BY Zenon DEF ESInv, NodesOK, MonitorOK, StoreOK, WindowOK, Led

LEMMA ESTicker == ASSUME ESInv, ES!doTicker PROVE ESInv'
<1>1. UNCHANGED <<es_node, es_w3cIdx, es_mon, es_db, es_win, es_lease, es_method>>
  BY Zenon DEF ES!doTicker
<1>2. es_method \in 0 .. 3 /\ Fetched /\ (es_lease => Attached(es_db, es_round))
  BY Zenon DEF ESInv, MonitorOK, Led
<1>3. CASE UNCHANGED es_round
  BY <1>1, <1>2, <1>3, RoundKeeps, Zenon DEF Fetched, ES!Number
<1>4. CASE ~UNCHANGED es_round
  <2>. DEFINE from == FromBlock + Len(es_db)
              recent == es_node[es_w3cIdx].height
              size == ES!nextBlockTo(from, recent)
  <2>1. es_w3cIdx \in ES!Clients /\ recent \in 0 .. MaxHeight
    BY Zenon DEF ESInv, NodesOK, NodeRec
  <2>2. /\ ~(from > recent)
        /\ es_round' = [ES!Idle EXCEPT !.pc = "block", !.client = es_w3cIdx, !.from = from, !.size = size]
    BY <1>4, LoadIs, Zenon DEF ES!doTicker
  <2>3. from \in Nat /\ size \in Nat /\ size > 0 /\ from + size - 1 <= MaxHeight
    <3>1. from \in Nat
      BY LoadIs, EthSyncAssumption
    <3>. HIDE DEF from, recent
    <3>2. ~(from > recent)
      BY <2>2, Zenon
    <3>3. /\ ES!nextBlockTo(from, recent) \in Nat /\ ES!nextBlockTo(from, recent) > 0
          /\ from + ES!nextBlockTo(from, recent) - 1 <= MaxHeight
      BY ONLY <2>1, <3>1, <3>2, EthSyncAssumption DEF ES!nextBlockTo
    <3>. QED
      BY <3>1, <3>3, Zenon
  <2>4. es_round' = [pc |-> "block", client |-> es_w3cIdx, from |-> from, size |-> size,
                     batch |-> <<>>, block |-> ES!NoHash]
    BY <2>2, Zenon DEF ES!Idle
  <2>. HIDE DEF from, recent, size
  <2>5. es_round' \in RoundRec
    BY <2>1, <2>3, <2>4, IdleIs, Zenon DEF RoundRec
  <2>6. /\ es_round'.pc = "block" /\ es_round'.from = from /\ es_round'.size = size
        /\ es_round'.batch = <<>> /\ Len(<<>>) = 0 /\ OnChain(<<>>, from)
    BY <2>4 DEF OnChain, ES!Forks
  <2>7. Len(<<>>) < size /\ Len(<<>>) <= size
    BY <2>3, <2>6
  <2>8. Fetched'
    BY <2>3, <2>5, <2>6, <2>7, Zenon DEF Fetched
  <2>9. Attached(es_db, es_round')
    BY <2>6, Zenon DEF Attached, from
  <2>. QED
    BY <1>1, <1>2, <2>8, <2>9, RoundKeeps, Zenon
<1>. QED
  BY <1>3, <1>4, Zenon

\* A round that is asking for a block has not got all it is to get.
LEMMA Asking ==
  ASSUME ESInv, es_round.pc \in {"block", "receipts"}
  PROVE  /\ es_round \in RoundRec /\ es_round.from \in Nat /\ es_round.size \in Nat
         /\ es_round.batch \in Batches /\ OnChain(es_round.batch, es_round.from)
         /\ Len(es_round.batch) \in Nat /\ Len(es_round.batch) < es_round.size
         /\ es_round.from + es_round.size - 1 <= MaxHeight
         /\ ES!Number \in 0 .. MaxHeight /\ ES!Number \in Int
         /\ es_node[es_round.client].fork \in ES!Forks
         /\ ES!Here \in ES!Hashes
<1>1. es_round \in RoundRec /\ es_round.from \in Nat /\ es_round.size \in Nat /\ es_round.batch \in Batches
      /\ es_round.client \in ES!Clients
  BY Zenon DEF ESInv, Fetched, RoundRec
<1>2. es_round.pc # "idle"
  OBVIOUS
<1>3. /\ OnChain(es_round.batch, es_round.from) /\ Len(es_round.batch) < es_round.size
      /\ es_round.from + es_round.size - 1 <= MaxHeight
  BY <1>2, Zenon DEF ESInv, Fetched
<1>4. Len(es_round.batch) \in Nat
  BY <1>1 DEF Batches
<1>5. ES!Number \in 0 .. MaxHeight /\ ES!Number \in Int
  BY <1>1, <1>3, <1>4, EthSyncAssumption, SMTT(60) DEF ES!Number
<1>6. es_node[es_round.client].fork \in ES!Forks
  BY <1>1, Zenon DEF ESInv, NodesOK, NodeRec
<1>7. ES!Here \in ES!Hashes
  BY <1>5, <1>6, PivotIs, Zenon DEF ES!Here
<1>. QED
  BY <1>1, <1>3, <1>4, <1>5, <1>6, <1>7, Zenon

LEMMA ESBlock == ASSUME ESInv, ES!queryBlock PROVE ESInv'
<1>1. UNCHANGED <<es_node, es_w3cIdx, es_mon, es_db, es_win, es_lease, es_method>> /\ es_round.pc = "block"
  BY Zenon DEF ES!queryBlock
<1>2. es_method \in 0 .. 3 /\ Fetched /\ (es_lease => Attached(es_db, es_round))
  BY Zenon DEF ESInv, MonitorOK, Led
<1>3. CASE es_round' = ES!Idle
  BY <1>1, <1>2, <1>3, RoundOver, RoundKeeps, Zenon
<1>4. CASE es_round' = [es_round EXCEPT !.pc = "receipts", !.block = ES!Here]
  <2>1. /\ es_round \in RoundRec /\ ES!Here \in ES!Hashes /\ es_round.pc # "idle"
        /\ es_node[es_round.client].fork \in ES!Forks
    BY <1>1, Asking, Zenon
  <2>2. es_round' \in RoundRec
    BY <1>4, <2>1, Zenon DEF RoundRec
  <2>3. /\ es_round'.pc = "receipts" /\ es_round'.block = ES!Here /\ es_round'.from = es_round.from
        /\ es_round'.size = es_round.size /\ es_round'.batch = es_round.batch
    BY <1>4, <2>1, Zenon DEF RoundRec
  <2>4. Fetched'
    BY <1>1, <1>2, <2>1, <2>2, <2>3, Zenon DEF Fetched, ES!Number, ES!Here
  <2>5. es_lease => Attached(es_db, es_round')
    BY <1>2, <2>1, <2>3, Zenon DEF Attached
  <2>. QED
    BY <1>1, <1>2, <2>4, <2>5, RoundKeeps, Zenon
<1>. QED
  BY <1>3, <1>4, Zenon DEF ES!queryBlock

\* The round goes on, or ends, with a batch that is a chain which continues the
\* store.
LEMMA Continued ==
  ASSUME ESInv, es_round.pc = "receipts", NEW b \in Batches, NEW p \in {"block", "push", "revert"},
         OnChain(b, es_round.from), Len(b) <= es_round.size,
         p = "block" => Len(b) < es_round.size, p = "push" => b # <<>>,
         es_lease /\ b # <<>> /\ es_db # <<>> => ES!ParentHash(b[1].hash) = es_db[Len(es_db)].hash,
         es_round' = [es_round EXCEPT !.pc = p, !.batch = b]
  PROVE  Fetched' /\ (es_lease => Attached(es_db, es_round'))
<1>1. es_round \in RoundRec /\ es_round.pc # "idle"
  BY Asking, Zenon
<1>2. es_round' \in RoundRec
  BY <1>1, Zenon DEF RoundRec
<1>3. /\ es_round'.pc = p /\ es_round'.from = es_round.from /\ es_round'.size = es_round.size
      /\ es_round'.batch = b
  BY <1>1, Zenon DEF RoundRec
<1>4. Fetched
  BY Zenon DEF ESInv
<1>5. Fetched'
  BY <1>1, <1>2, <1>3, <1>4, Zenon DEF Fetched
<1>6. es_lease => es_round.from = FromBlock + Len(es_db)
  BY <1>1, Zenon DEF ESInv, Led, Attached
<1>. QED
  BY <1>3, <1>5, <1>6, Zenon DEF Attached

LEMMA FinishedIs ==
  ASSUME ESInv, es_round.pc = "receipts", NEW b \in Batches,
         OnChain(b, es_round.from), Len(b) <= es_round.size,
         es_lease /\ b # <<>> /\ es_db # <<>> => ES!ParentHash(b[1].hash) = es_db[Len(es_db)].hash,
         es_round' = ES!Finished(b)
  PROVE  Fetched' /\ (es_lease => Attached(es_db, es_round'))
<1>1. CASE b = <<>>
  <2>1. es_round' = ES!Idle
    BY <1>1, Zenon DEF ES!Finished
  <2>2. Attached(es_db, es_round')
    BY <2>1, IdleIs, Zenon DEF Attached
  <2>. QED
    BY <2>1, <2>2, RoundOver, Zenon
<1>2. CASE b # <<>>
  <2>1. es_round' = [es_round EXCEPT !.pc = "push", !.batch = b]
    BY <1>2, Zenon DEF ES!Finished
  <2>2. "push" \in {"block", "push", "revert"} /\ "push" # "block"
    OBVIOUS
  <2>. QED
    BY <1>2, <2>1, <2>2, Continued, Zenon
<1>. QED
  BY <1>1, <1>2, Zenon

\* With the lease, the hash to continue is that of the last block stored, whether
\* the window still has it or the database is asked.
LEMMA LatestIs ==
  ASSUME ESInv, es_round.pc = "receipts", es_lease, es_db # <<>>
  PROVE  ES!getStoreLatestBlockHash = es_db[Len(es_db)].hash /\ ES!getStoreLatestBlockHash # ES!NoHash
<1>1. es_round.from = FromBlock + Len(es_db) /\ Windowed(es_db, es_win)
  BY Zenon DEF ESInv, Led, Attached
<1>2. Len(es_db) \in 1 .. Len(es_db) /\ Len(es_db) \in Nat /\ es_db[Len(es_db)].hash # ES!NoHash
  BY LoadIs, Zenon
<1>3. es_round.from # 0 /\ (es_round.from - 1) - FromBlock + 1 = Len(es_db)
  BY <1>1, <1>2, EthSyncAssumption
<1>4. Len(es_db) \in DOMAIN es_db
  BY <1>2 DEF ESInv, StoreOK, Batches
<1>5. es_round.from - 1 \in DOMAIN es_win => es_win[es_round.from - 1] = es_db[Len(es_db)].hash
  BY <1>1, <1>3, Zenon DEF Windowed
<1>6. ES!getStoreLatestBlockHash = es_db[Len(es_db)].hash
  BY <1>3, <1>4, <1>5, Zenon DEF ES!getStoreLatestBlockHash
<1>. QED
  BY <1>2, <1>6, Zenon

LEMMA DetectIs ==
  ASSUME ESInv, es_round.pc = "receipts"
  PROVE  ES!Detect \in 0 .. 3 /\ es_method \in 0 .. 3
<1>1. es_method \in 0 .. 3 /\ es_round.client \in ES!Clients
  BY Zenon DEF ESInv, MonitorOK, Fetched, RoundRec
<1>2. Methods[es_round.client] \in (SUBSET (1 .. 3)) \ {{}}
  BY <1>1, EthSyncAssumption, Zenon
<1>3. \A M \in (SUBSET (1 .. 3)) \ {{}} : \E m \in M : \A x \in M : m <= x
  <2>. SUFFICES ASSUME NEW M \in (SUBSET (1 .. 3)) \ {{}} PROVE \E m \in M : \A x \in M : m <= x
    OBVIOUS
  <2>1. CASE 1 \in M
    BY <2>1
  <2>2. CASE 1 \notin M /\ 2 \in M
    BY <2>2
  <2>3. CASE 1 \notin M /\ 2 \notin M
    <3>1. \A x \in M : x = 3
      BY <2>3
    <3>. QED
      BY <3>1
  <2>. QED
    BY <2>1, <2>2, <2>3, Zenon
<1>4. (CHOOSE m \in Methods[es_round.client] : \A x \in Methods[es_round.client] : m <= x) \in 1 .. 3
  BY <1>2, <1>3, Zenon
<1>5. \A x \in 1 .. 3 : x \in 0 .. 3
  OBVIOUS
<1>. QED
  BY <1>1, <1>4, <1>5, Zenon DEF ES!Detect

\* A block with verified receipts extends the batch, or the round ends or reverts.
LEMMA QueriedIs ==
  ASSUME ESInv, es_round.pc = "receipts", ES!verifyEthTxnReceipt, es_round' = ES!Queried
  PROVE  Fetched' /\ (es_lease => Attached(es_db, es_round'))
<1>. DEFINE batch == es_round.batch
            data == [hash |-> es_round.block,
                     rcpts |-> IF TxCount(es_round.block) = 0 THEN ES!NoHash ELSE ES!Here]
            latest == ES!getStoreLatestBlockHash
            Reverts == batch = <<>> /\ latest # ES!NoHash /\ ES!ParentHash(es_round.block) # latest
            Breaks == batch # <<>> /\ ~ES!IsContinuousTo
<1>1. /\ batch \in Batches /\ OnChain(batch, es_round.from) /\ Len(batch) \in Nat
      /\ Len(batch) < es_round.size /\ es_round.size \in Nat /\ es_round.from \in Int
      /\ ES!Number \in 0 .. MaxHeight /\ ES!Number \in Int
  <2>1. es_round.from \in Nat
    BY Asking, Zenon
  <2>2. es_round.from \in Int
    BY <2>1
  <2>. QED
    BY <2>2, Asking, Zenon
<1>2. es_lease /\ batch # <<>> /\ es_db # <<>> => ES!ParentHash(batch[1].hash) = es_db[Len(es_db)].hash
  BY Zenon DEF ESInv, Led, Attached
<1>3. PICK k \in ES!Forks : es_round.block = ES!Pivot(k, ES!Number)
  BY Zenon DEF ESInv, Fetched
<1>4. data = ES!Data(es_round.block) /\ data \in DataRec /\ data.hash = es_round.block
  <2>1. es_round.block \in ES!Hashes
    BY <1>1, <1>3, PivotIs, Zenon
  <2>2. data = ES!Data(es_round.block)
    BY Zenon DEF ES!verifyEthTxnReceipt, ES!Data
  <2>. QED
    BY <2>1, <2>2, DataIs, Zenon
<1>5. CASE Reverts
  <2>1. es_round' = [es_round EXCEPT !.pc = "revert"]
    BY <1>5, Zenon DEF ES!Queried
  <2>2. es_round' = [es_round EXCEPT !.pc = "revert", !.batch = batch]
    BY <2>1, Asking, Zenon DEF RoundRec
  <2>3. Len(batch) <= es_round.size /\ "revert" \in {"block", "push", "revert"} /\ "revert" # "block" /\ "revert" # "push"
    BY <1>1
  <2>. HIDE DEF batch
  <2>. QED
    BY <1>1, <1>2, <2>2, <2>3, Continued, Zenon
<1>6. CASE Breaks
  <2>. DEFINE b == SubSeq(batch, 1, Len(batch) - 1)
  <2>1. es_round' = ES!Finished(b)
    BY <1>6, Zenon DEF ES!Queried
  <2>2. Len(batch) - 1 \in Int /\ Len(batch) - 1 <= Len(batch)
    BY <1>1
  <2>3. /\ b \in Batches /\ OnChain(b, es_round.from)
        /\ Len(b) = (IF Len(batch) - 1 > 0 THEN Len(batch) - 1 ELSE 0)
        /\ \A i \in 1 .. Len(batch) - 1 : b[i] = batch[i]
    BY <1>1, <2>2, ChainIsCut, ZenonT(60)
  <2>. HIDE DEF b
  <2>4. Len(b) <= es_round.size
    BY <1>1, <2>3
  <2>5. b # <<>> => 1 \in 1 .. Len(batch) - 1
    BY <1>1, <2>3 DEF Batches
  <2>6. es_lease /\ b # <<>> /\ es_db # <<>> => ES!ParentHash(b[1].hash) = es_db[Len(es_db)].hash
    BY <1>2, <1>6, <2>3, <2>5, Zenon
  <2>. QED
    BY <2>1, <2>3, <2>4, <2>6, FinishedIs, Zenon
<1>7. CASE ~Reverts /\ ~Breaks
  <2>. DEFINE b == Append(batch, data)
  <2>1. es_round' = IF Len(b) = es_round.size THEN ES!Finished(b)
                    ELSE [es_round EXCEPT !.pc = "block", !.batch = b]
    BY <1>7, Zenon DEF ES!Queried
  <2>2. b \in Batches /\ b = batch \o <<data>> /\ <<data>> \in Batches /\ Len(b) = Len(batch) + 1
    <3>. HIDE DEF data, batch
    <3>. QED
      BY <1>1, <1>4 DEF Batches
  <2>3. OnChain(<<data>>, es_round.from + Len(batch))
    <3>1. data = ES!Data(ES!Pivot(k, ES!Number))
      BY <1>3, <1>4, Zenon
    <3>2. ES!Number = (es_round.from + Len(batch)) + 1 - 1
      BY <1>1 DEF ES!Number
    <3>. HIDE DEF data, batch
    <3>3. Len(<<data>>) = 1 /\ <<data>>[1] = data /\ \A i \in 1 .. 1 : i = 1
      OBVIOUS
    <3>. QED
      BY <3>1, <3>2, <3>3, Zenon DEF OnChain
  <2>4. batch # <<>> /\ <<data>> # <<>> => ES!ParentHash(<<data>>[1].hash) = batch[Len(batch)].hash
    <3>1. <<data>>[1] = data
      OBVIOUS
    <3>. QED
      BY <1>4, <1>7, <3>1, Zenon DEF ES!IsContinuousTo
  <2>5. OnChain(b, es_round.from)
    BY <1>1, <2>2, <2>3, <2>4, ChainGoesOn, Zenon
  <2>6. es_lease /\ es_db # <<>> => ES!ParentHash(b[1].hash) = es_db[Len(es_db)].hash
    <3>1. CASE batch = <<>>
      <4>1. b[1] = data
        <5>. HIDE DEF data
        <5>. QED
          BY <3>1
      <4>. QED
        BY <1>4, <1>7, <3>1, <4>1, LatestIs, Zenon
    <3>2. CASE batch # <<>>
      <4>. HIDE DEF data, batch
      <4>1. b[1] = batch[1]
        BY <1>1, <1>4, <3>2, SMTT(60) DEF Batches
      <4>. QED
        BY <1>2, <3>2, <4>1, Zenon
    <3>. QED
      BY <3>1, <3>2, Zenon
  <2>7. Len(b) <= es_round.size /\ (Len(b) # es_round.size => Len(b) < es_round.size)
    <3>. DEFINE m == Len(batch)
                n == Len(b)
                size == es_round.size
    <3>1. m \in Nat /\ size \in Nat /\ m < size /\ n = m + 1
      BY <1>1, <2>2, Zenon
    <3>. HIDE DEF m, n, size
    <3>2. n <= size /\ (n # size => n < size)
      BY ONLY <3>1
    <3>. QED
      BY <3>2, Zenon DEF n, size
  <2>8. "block" \in {"block", "push", "revert"} /\ "block" # "push"
    OBVIOUS
  <2>. HIDE DEF b
  <2>9. CASE Len(b) = es_round.size
    BY <2>1, <2>2, <2>5, <2>6, <2>7, <2>9, FinishedIs, Zenon
  <2>10. CASE Len(b) # es_round.size
    BY <2>1, <2>2, <2>5, <2>6, <2>7, <2>8, <2>10, Continued, Zenon
  <2>. QED
    BY <2>9, <2>10, Zenon
<1>. QED
  BY <1>5, <1>6, <1>7, Zenon

LEMMA ESReceipts == ASSUME ESInv, ES!queryReceipts PROVE ESInv'
<1>1. UNCHANGED <<es_node, es_w3cIdx, es_mon, es_db, es_win, es_lease>> /\ es_round.pc = "receipts"
  BY Zenon DEF ES!queryReceipts
<1>2. es_method' \in 0 .. 3
  BY <1>1, DetectIs, Zenon DEF ES!queryReceipts
<1>3. /\ es_round.batch \in Batches /\ OnChain(es_round.batch, es_round.from)
      /\ Len(es_round.batch) <= es_round.size
  BY <1>1, Asking
<1>4. es_lease /\ es_round.batch # <<>> /\ es_db # <<>> =>
        ES!ParentHash(es_round.batch[1].hash) = es_db[Len(es_db)].hash
  BY <1>1, Zenon DEF ESInv, Led, Attached
<1>5. \/ es_round' = ES!Idle
      \/ es_round' = ES!Finished(es_round.batch)
      \/ ES!verifyEthTxnReceipt /\ es_round' = ES!Queried
  BY Zenon DEF ES!queryReceipts
<1>6. Fetched' /\ (es_lease => Attached(es_db, es_round'))
  <2>1. CASE es_round' = ES!Idle
    BY <1>1, <2>1, RoundOver, Zenon
  <2>2. CASE es_round' = ES!Finished(es_round.batch)
    BY <1>1, <1>3, <1>4, <2>2, FinishedIs, Zenon
  <2>3. CASE ES!verifyEthTxnReceipt /\ es_round' = ES!Queried
    BY <1>1, <2>3, QueriedIs, Zenon
  <2>. QED
    BY <1>5, <2>1, <2>2, <2>3, Zenon
<1>. QED
  BY <1>1, <1>2, <1>6, RoundKeeps, Zenon

\* The window after Push holds hashes of the store after the push.
LEMMA PushIs ==
  ASSUME WindowOK, NEW kept \in Batches, NEW b \in Batches, b # <<>>, Windowed(kept, es_win),
         NEW w, w = ES!Push(es_win, FromBlock + Len(kept), b)
  PROVE  /\ w \in [DOMAIN w -> ES!Hashes] /\ DOMAIN w \subseteq Nat
         /\ \A m, n \in DOMAIN w : n - m < Capacity
         /\ Windowed(kept \o b, w)
<1>. DEFINE from == FromBlock + Len(kept)
            to == from + Len(b) - 1
            D == {m \in DOMAIN es_win \cup (from .. to) : m > to - Capacity}
            pushed == [n \in D |-> IF n < from THEN es_win[n] ELSE b[n - from + 1].hash]
<1>1. CASE w = ES!NoWindow
  <2>1. DOMAIN w = {}
    BY <1>1, Zenon DEF ES!NoWindow
  <2>2. w \in [DOMAIN w -> ES!Hashes]
    BY <1>1, Zenon DEF ES!NoWindow
  <2>. QED
    BY <2>1, <2>2, Zenon DEF Windowed
<1>2. CASE w # ES!NoWindow
  <2>1. w = pushed
    BY <1>2, Zenon DEF ES!Push
  <2>2. from \in Nat /\ to \in Nat /\ to >= from /\ Len(kept) \in Nat /\ Len(b) \in Nat
    BY EthSyncAssumption DEF Batches
  <2>3. \A n \in DOMAIN es_win : n \in Nat /\ n - FromBlock + 1 \in 1 .. Len(kept)
                                 /\ es_win[n] = kept[n - FromBlock + 1].hash /\ es_win[n] \in ES!Hashes
    BY Zenon DEF WindowOK, Windowed
  <2>4. \A n \in DOMAIN es_win : n < from
    BY <2>2, <2>3, EthSyncAssumption, SMTT(60)
  <2>5. /\ \A i \in 1 .. Len(kept) : (kept \o b)[i] = kept[i]
        /\ \A i \in 1 .. Len(kept) + Len(b) : i > Len(kept) => (kept \o b)[i] = b[i - Len(kept)]
        /\ Len(kept \o b) = Len(kept) + Len(b)
        /\ \A i \in 1 .. Len(b) : b[i].hash \in ES!Hashes
    <3>1. \A i \in 1 .. Len(b) : b[i] \in DataRec
      BY DEF Batches
    <3>2. /\ \A i \in 1 .. Len(kept) : (kept \o b)[i] = kept[i]
          /\ \A i \in 1 .. Len(kept) + Len(b) : i > Len(kept) => (kept \o b)[i] = b[i - Len(kept)]
          /\ Len(kept \o b) = Len(kept) + Len(b)
      BY DEF Batches
    <3>. QED
      BY <3>1, <3>2, Zenon DEF DataRec
  <2>6. ASSUME NEW n \in D
        PROVE  /\ n \in Nat /\ n <= to /\ n > to - Capacity
               /\ pushed[n] \in ES!Hashes
               /\ n - FromBlock + 1 \in 1 .. Len(kept \o b)
               /\ pushed[n] = (kept \o b)[n - FromBlock + 1].hash
    <3>1. CASE n \in DOMAIN es_win
      <4>1. n < from /\ n \in Nat /\ n - FromBlock + 1 \in 1 .. Len(kept)
            /\ es_win[n] = kept[n - FromBlock + 1].hash /\ es_win[n] \in ES!Hashes
        BY <3>1, <2>3, <2>4, ZenonT(60)
      <4>2. n <= to /\ n - FromBlock + 1 \in 1 .. Len(kept \o b)
        BY <4>1, <2>2, <2>5, SMTT(60)
      <4>3. pushed[n] = es_win[n] /\ n > to - Capacity
        BY <4>1, Zenon
      <4>. QED
        BY <4>1, <4>2, <4>3, <2>5, Zenon
    <3>2. CASE n \notin DOMAIN es_win
      <4>1. n \in from .. to /\ n > to - Capacity
        BY <3>2, Zenon
      <4>2. /\ n \in Nat /\ n <= to /\ ~(n < from) /\ n - from + 1 \in 1 .. Len(b)
            /\ n - FromBlock + 1 \in 1 .. Len(kept) + Len(b) /\ n - FromBlock + 1 > Len(kept)
            /\ (n - FromBlock + 1) - Len(kept) = n - from + 1
        BY <4>1, <2>2, EthSyncAssumption, SMTT(60)
      <4>3. pushed[n] = b[n - from + 1].hash
        BY <4>2, Zenon
      <4>. QED
        BY <4>1, <4>2, <4>3, <2>5, Zenon
    <3>. QED
      BY <3>1, <3>2, Zenon
  <2>7. DOMAIN pushed = D
    BY Zenon
  <2>. HIDE DEF D, pushed
  <2>8. pushed \in [D -> ES!Hashes]
    <3>1. pushed = [n \in D |-> pushed[n]]
      BY Zenon DEF pushed
    <3>2. \A n \in D : pushed[n] \in ES!Hashes
      BY <2>6, Zenon
    <3>. QED
      BY ONLY <3>1, <3>2
  <2>9. \A m, n \in D : n - m < Capacity
    <3>. HIDE DEF to
    <3>1. to \in Nat
      BY <2>2, Zenon
    <3>2. \A n \in D : n \in Nat /\ n <= to /\ n > to - Capacity
      BY <2>6, Zenon
    <3>. QED
      BY ONLY <3>1, <3>2, EthSyncAssumption
  <2>. QED
    BY <2>1, <2>6, <2>7, <2>8, <2>9, Zenon DEF Windowed
<1>. QED
  BY <1>1, <1>2, Zenon

LEMMA ESPush == ASSUME ESInv, ES!pushBlocks PROVE ESInv'
<1>1. UNCHANGED <<es_node, es_w3cIdx, es_method, es_lease>> /\ es_round.pc = "push" /\ es_round' = ES!Idle
  BY Zenon DEF ES!pushBlocks
<1>2. Fetched' /\ Attached(es_db', es_round')
  BY <1>1, RoundOver, Zenon
<1>3. CASE ~ES!Extend
  <2>1. UNCHANGED <<es_db, es_win, es_mon>>
    BY <1>3, Zenon DEF ES!pushBlocks
  <2>. QED
    BY <1>1, <1>2, <2>1, Zenon DEF ESInv, NodesOK, MonitorOK, StoreOK, WindowOK, Led
<1>4. CASE ES!Extend
  <2>1. /\ es_db' = es_db \o es_round.batch /\ es_lease
        /\ es_win' = ES!Push(es_win, es_round.from, es_round.batch)
        /\ es_mon' = [es_mon EXCEPT !.advanced = @ \/ es_round.from + Len(es_round.batch) > es_mon.height,
                                    !.height = es_round.from + Len(es_round.batch)]
    BY <1>4, Zenon DEF ES!pushBlocks, ES!Update, ES!Extend
  <2>2. /\ es_round.batch \in Batches /\ es_round.batch # <<>> /\ es_round.from \in Nat
        /\ OnChain(es_round.batch, es_round.from)
    BY <1>1, Zenon DEF ESInv, Fetched, RoundRec
  <2>3. /\ es_round.from = FromBlock + Len(es_db) /\ Windowed(es_db, es_win)
        /\ es_db # <<>> => ES!ParentHash(es_round.batch[1].hash) = es_db[Len(es_db)].hash
    BY <1>1, <2>1, <2>2, Zenon DEF ESInv, Led, Attached
  <2>4. /\ es_db \in Batches /\ OnChain(es_db, FromBlock) /\ FromBlock \in Int /\ WindowOK
        /\ es_mon \in MonRec /\ es_method \in 0 .. 3
    BY EthSyncAssumption DEF ESInv, StoreOK, MonitorOK
  <2>5. StoreOK'
    BY <2>1, <2>2, <2>3, <2>4, ChainGoesOn, Zenon DEF StoreOK
  <2>6. WindowOK' /\ Windowed(es_db', es_win')
    BY <2>1, <2>2, <2>3, <2>4, PushIs, Zenon DEF WindowOK
  <2>7. MonitorOK'
    <3>1. es_round.from + Len(es_round.batch) \in Nat
      BY <2>2 DEF Batches
    <3>2. ASSUME NEW m \in MonRec, NEW h \in Nat
          PROVE  [m EXCEPT !.advanced = @ \/ h > m.height, !.height = h] \in MonRec
      BY Zenon DEF MonRec
    <3>. QED
      BY <1>1, <2>1, <2>4, <3>1, <3>2, Zenon DEF MonitorOK
  <2>. QED
    BY <1>1, <1>2, <2>5, <2>6, <2>7, Zenon DEF ESInv, NodesOK, Led
<1>. QED
  BY <1>3, <1>4, Zenon

LEMMA ESRevert == ASSUME ESInv, ES!reorgRevert PROVE ESInv'
<1>1. UNCHANGED <<es_node, es_w3cIdx, es_method, es_lease, es_mon>> /\ es_round.pc = "revert" /\ es_round' = ES!Idle
  BY Zenon DEF ES!reorgRevert
<1>2. Fetched' /\ Attached(es_db', es_round')
  BY <1>1, RoundOver, Zenon
<1>3. CASE UNCHANGED <<es_db, es_win>>
  BY <1>1, <1>2, <1>3, Zenon DEF ESInv, NodesOK, MonitorOK, StoreOK, WindowOK, Led
<1>4. CASE ~UNCHANGED <<es_db, es_win>>
  <2>. DEFINE to == es_round.from - 1
              keep == SubSeq(es_db, 1, to - FromBlock)
  <2>1. es_db' = keep /\ es_win' = ES!Popn(es_win, to) /\ es_lease
    BY <1>4, Zenon DEF ES!reorgRevert, ES!Extend
  <2>2. /\ es_round.from = FromBlock + Len(es_db) /\ Windowed(es_db, es_win)
        /\ es_db \in Batches /\ OnChain(es_db, FromBlock) /\ WindowOK
    BY <1>1, <2>1, Zenon DEF ESInv, Led, Attached, StoreOK
  <2>3. Len(es_db) \in Nat /\ to - FromBlock = Len(es_db) - 1 /\ to \in Int /\ FromBlock \in Nat /\ FromBlock \in Int
    BY <2>2, LoadIs, EthSyncAssumption, SMTT(60)
  <2>4. to - FromBlock \in Int /\ to - FromBlock <= Len(es_db)
    BY <2>3
  <2>5. /\ keep \in Batches /\ OnChain(keep, FromBlock)
        /\ Len(keep) = (IF to - FromBlock > 0 THEN to - FromBlock ELSE 0)
        /\ \A i \in 1 .. to - FromBlock : keep[i] = es_db[i]
    BY <2>2, <2>3, <2>4, ChainIsCut, Zenon
  <2>. HIDE DEF keep, to
  <2>6. StoreOK'
    BY <2>1, <2>5, Zenon DEF StoreOK
  <2>7. /\ DOMAIN es_win' = {m \in DOMAIN es_win : m < to}
        /\ \A n \in DOMAIN es_win' : n \in DOMAIN es_win /\ n < to /\ es_win'[n] = es_win[n]
        /\ es_win' = [n \in DOMAIN es_win' |-> es_win[n]]
    BY <2>1, Zenon DEF ES!Popn
  <2>8. WindowOK'
    BY <2>2, <2>7, Zenon DEF WindowOK
  <2>9. Windowed(es_db', es_win')
    <3>1. ASSUME NEW n \in DOMAIN es_win'
          PROVE  n - FromBlock + 1 \in 1 .. Len(keep) /\ es_win'[n] = keep[n - FromBlock + 1].hash
      <4>1. /\ n \in DOMAIN es_win /\ n \in Nat /\ n < to /\ n - FromBlock + 1 \in 1 .. Len(es_db)
            /\ es_win'[n] = es_db[n - FromBlock + 1].hash
        BY <2>2, <2>7, Zenon DEF Windowed, WindowOK
      <4>2. n - FromBlock + 1 \in 1 .. to - FromBlock /\ n - FromBlock + 1 \in 1 .. Len(keep)
        BY <4>1, <2>3, <2>5, SMTT(60)
      <4>. QED
        BY <4>1, <4>2, <2>5, Zenon
    <3>. QED
      BY <2>1, <3>1, Zenon DEF Windowed
  <2>. QED
    BY <1>1, <1>2, <2>6, <2>8, <2>9, Zenon DEF ESInv, NodesOK, MonitorOK, Led
<1>. QED
  BY <1>3, <1>4, Zenon

LEMMA ESNext == ESInv /\ [ES!Next]_(ES!vars) => ESInv'
<1>. SUFFICES ASSUME ESInv, [ES!Next]_(ES!vars) PROVE ESInv'
  OBVIOUS
<1>1. CASE UNCHANGED ES!vars
  BY <1>1, Zenon DEF ES!vars, ESInv, NodesOK, MonitorOK, StoreOK, WindowOK, Fetched, Led, ES!Number
<1>2. CASE ES!Next
  BY <1>2, ESTicker, ESBlock, ESReceipts, ESPush, ESRevert, ESMonitor, ESLeadership, ESOther, ESNodes, Zenon
     DEF ES!Next
<1>. QED
  BY <1>1, <1>2, Zenon

\* The eth syncer stores one chain, each block with its own receipts, for any
\* number of clients and two forks of any length that split anywhere, through the
\* switches of the clients to the other fork between the two queries of a block,
\* the reverts of reorgRevert, a change of client by the monitor, and the loss of
\* the lease in the middle of a round (syncOnce).
THEOREM StoredStaysChain ==
  /\ ES!Spec => [](ES!TypeOK /\ ES!StoredIsChain)
  /\ ES!Spec => []StoredIsChain
<1>1. ESInv => ES!TypeOK
  <2>. SUFFICES ASSUME ESInv PROVE ES!TypeOK
    OBVIOUS
  <2>1. /\ es_node \in [ES!Clients -> NodeRec] /\ es_w3cIdx \in ES!Clients
        /\ es_db \in Batches /\ es_win \in [DOMAIN es_win -> ES!Hashes] /\ es_method \in 0 .. 3
        /\ \A m, n \in DOMAIN es_win : n - m < Capacity
        /\ es_round \in RoundRec /\ es_mon \in MonRec
    BY Zenon DEF ESInv, NodesOK, StoreOK, WindowOK, MonitorOK, Fetched
  <2>2. es_round.pc \in {"idle", "block", "receipts", "push", "revert"}
    BY <2>1, Zenon DEF RoundRec
  <2>3. es_mon.failures \in 0 .. Threshold + Remind - 1
    BY <2>1, Zenon DEF MonRec
  <2>4. es_mon.failures \in 0 .. Threshold + Remind
    BY <2>3, EthSyncAssumption
  <2>. QED
    BY <2>1, <2>2, <2>4, Zenon DEF ES!TypeOK, NodeRec, Batches, DataRec
<1>2. ESInv => ES!StoredIsChain
  BY Zenon DEF ESInv, StoreOK, OnChain, ES!StoredIsChain
<1>3. ES!Spec => []ESInv
  BY ESInit, ESNext, PTL DEF ES!Spec
<1>. QED
  BY <1>1, <1>2, <1>3, PTL DEF StoredIsChain
=============================================================================
