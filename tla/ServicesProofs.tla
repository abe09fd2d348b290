--------------------------- MODULE ServicesProofs ---------------------------
(***************************************************************************)
(* What holds of the caches of the configuration, of the relay of          *)
(* transactions and of the pool of full nodes, for any number of requests, *)
(* transactions, workers, nodes and groups, any configuration, and all     *)
(* sizes, lifespans and thresholds.                                        *)
(***************************************************************************)
EXTENDS Services, TLAPS

-----------------------------------------------------------------------------
(* The caches of the configuration.                                        *)

\* A request that has gone past the second look at the cache.
Loading == \E r \in Requesters : kc_pc[r] \in {"query", "store", "failed"}

\* An entry that takes a key for missing lives no longer than the lifespan after
\* the failure it comes from.
MissingIsNew ==
  kc_cache # None /\ kc_cache.left > 0 /\ kc_cache.value = None /\ ~kc_removed =>
    kc_cache.left + kc_quiet <= TTL \/ Loading

\* What a request has read, and what it found missing was missing.
ReadIsReal ==
  /\ kc_db = None => kc_removed
  /\ \A r \in Requesters : kc_pc[r] = "store" /\ kc_loaded[r] = None => kc_removed

KCInv == KC!TypeOK /\ MissingIsNew /\ ReadIsReal

\* What add puts into the cache.
LEMMA NewEntry ==
  ASSUME NEW v \in Values \cup {None}
  PROVE  [value |-> v, left |-> TTL] \in KC!Entry
BY CacheAssumption DEF KC!Entry

LEMMA KCInit == KC!Init => KCInv
<1>. SUFFICES ASSUME KC!Init PROVE KCInv
  OBVIOUS
<1>0. kc_cache \in {None, [value |-> kc_db, left |-> TTL]} /\ kc_db \in Values \cup {None}
      /\ (kc_cache # None => kc_db # None)
  BY Zenon DEF KC!Init
<1>1. kc_cache \in KC!Entry \cup {None}
  BY <1>0, NewEntry, Zenon
<1>2. kc_removed \in BOOLEAN /\ (kc_db = None => kc_removed)
  BY Zenon DEF KC!Init
<1>i. /\ kc_pc = [r \in Requesters |-> "idle"] /\ kc_loaded = [r \in Requesters |-> None]
      /\ kc_reply = [r \in Requesters |-> "no answer"] /\ kc_use \in KC!Uses
  BY Zenon DEF KC!Init
<1>n. kc_quiet = TTL + 1 /\ kc_changes = 0 /\ kc_failures = 0
  BY Zenon DEF KC!Init
<1>3. KC!TypeOK
  <2>1. kc_quiet \in 0 .. TTL + 1 /\ kc_changes \in 0 .. MaxChanges /\ kc_failures \in 0 .. MaxFailures
    BY <1>n, CacheAssumption
  <2>2. /\ kc_pc \in [Requesters -> {"idle", "lock", "query", "store", "failed"}]
        /\ kc_loaded \in [Requesters -> Values \cup {None}]
        /\ kc_reply \in [Requesters -> Values \cup {None, "no answer", "error"}]
    BY <1>i, Zenon
  <2>. QED
    BY <1>0, <1>1, <1>2, <1>i, <2>1, <2>2, Zenon DEF KC!TypeOK
<1>4. MissingIsNew
  BY <1>0 DEF MissingIsNew
<1>5. ReadIsReal
  BY <1>2, <1>i, Zenon DEF ReadIsReal
<1>. QED
  BY <1>3, <1>4, <1>5, Zenon DEF KCInv

LEMMA KCLookup ==
  ASSUME KCInv, NEW r \in Requesters, KC!Lookup(r)
  PROVE  KCInv'
<1>. USE CacheAssumption DEF KCInv
<1>u. UNCHANGED <<kc_db, kc_use, kc_quiet, kc_removed, kc_changes, kc_failures>>
  BY Zenon DEF KC!Lookup, KC!Idle
<1>1. CASE kc_pc[r] = "idle" /\ KC!Goto(r, "lock") /\ UNCHANGED <<kc_cache, kc_loaded, kc_reply>>
  <2>1. kc_pc' = [kc_pc EXCEPT ![r] = "lock"]
    BY <1>1, Zenon DEF KC!Goto
  <2>2. KC!TypeOK'
    BY <1>1, <1>u, <2>1, Zenon DEF KC!TypeOK
  <2>3. Loading => Loading'
    BY <1>1, <2>1, Zenon DEF Loading, KC!TypeOK
  <2>4. MissingIsNew'
    BY <1>1, <1>u, <2>3, Zenon DEF MissingIsNew
  <2>5. ReadIsReal'
    BY <1>1, <1>u, <2>1, Zenon DEF ReadIsReal, KC!TypeOK
  <2>. QED
    BY <2>2, <2>4, <2>5, Zenon
<1>2. CASE /\ kc_pc[r] \in {"idle", "lock"} /\ KC!Answer(r, kc_cache.value) /\ UNCHANGED kc_cache
           /\ KC!Hit
  <2>1. /\ kc_pc' = [kc_pc EXCEPT ![r] = "idle"]
        /\ kc_loaded' = [kc_loaded EXCEPT ![r] = None]
        /\ kc_reply' = [kc_reply EXCEPT ![r] = kc_cache.value]
    BY <1>2, Zenon DEF KC!Answer, KC!Goto
  <2>0. kc_cache.value \in Values \cup {None}
    BY <1>2, Zenon DEF KC!Hit, KC!get, KC!TypeOK, KC!Entry
  <2>2. KC!TypeOK'
    BY <1>2, <1>u, <2>0, <2>1, Zenon DEF KC!TypeOK
  <2>3. Loading => Loading'
    BY <1>2, <2>1, Zenon DEF Loading, KC!TypeOK
  <2>4. MissingIsNew'
    BY <1>2, <1>u, <2>3, Zenon DEF MissingIsNew
  <2>5. ReadIsReal'
    BY <1>2, <1>u, <2>1, Zenon DEF ReadIsReal, KC!TypeOK
  <2>. QED
    BY <2>2, <2>4, <2>5, Zenon
<1>3. CASE /\ kc_pc[r] = "lock" /\ KC!Goto(r, "query") /\ UNCHANGED <<kc_loaded, kc_reply>>
           /\ IF KC!get.found THEN KC!add(kc_cache.value) ELSE UNCHANGED kc_cache
  <2>1. kc_pc' = [kc_pc EXCEPT ![r] = "query"]
    BY <1>3, Zenon DEF KC!Goto
  <2>0. kc_cache' \in KC!Entry \cup {None}
    <3>1. CASE UNCHANGED kc_cache
      BY <3>1, Zenon DEF KC!TypeOK
    <3>2. CASE kc_cache # None /\ kc_cache' = [value |-> kc_cache.value, left |-> TTL]
      <4>1. kc_cache.value \in Values \cup {None}
        BY <3>2, Zenon DEF KC!TypeOK, KC!Entry
      <4>. QED
        BY <3>2, <4>1, NewEntry, Zenon
    <3>. QED
      BY <1>3, <3>1, <3>2, Zenon DEF KC!add, KC!get
  <2>2. KC!TypeOK'
    <3>1. UNCHANGED <<kc_loaded, kc_reply>>
      BY <1>3, Zenon
    <3>. QED
      BY <1>u, <2>0, <2>1, <3>1, Zenon DEF KC!TypeOK, KC!Entry
  <2>3. Loading'
    BY <1>3, <2>1, Zenon DEF Loading, KC!TypeOK
  <2>4. MissingIsNew'
    BY <2>3, Zenon DEF MissingIsNew
  <2>5. ReadIsReal'
    BY <1>3, <1>u, <2>1, Zenon DEF ReadIsReal, KC!TypeOK
  <2>. QED
    BY <2>2, <2>4, <2>5, Zenon
<1>. QED
  BY <1>1, <1>2, <1>3, Zenon DEF KC!Lookup

LEMMA KCQuery ==
  ASSUME KCInv, NEW r \in Requesters, KC!Query(r)
  PROVE  KCInv'
<1>. USE CacheAssumption DEF KCInv
<1>u. UNCHANGED <<kc_cache, kc_db, kc_reply, kc_use, kc_quiet, kc_removed, kc_changes>>
  BY Zenon DEF KC!Query
<1>1. CASE KC!Goto(r, "store") /\ kc_loaded' = [kc_loaded EXCEPT ![r] = kc_db] /\ UNCHANGED kc_failures
  <2>1. kc_pc' = [kc_pc EXCEPT ![r] = "store"]
    BY <1>1, Zenon DEF KC!Goto
  <2>2. KC!TypeOK'
    BY <1>1, <1>u, <2>1, Zenon DEF KC!TypeOK
  <2>3. Loading'
    BY <2>1, Zenon DEF Loading, KC!TypeOK
  <2>4. MissingIsNew'
    BY <2>3, Zenon DEF MissingIsNew
  <2>5. ReadIsReal'
    BY <1>1, <1>u, <2>1, Zenon DEF ReadIsReal, KC!TypeOK
  <2>. QED
    BY <2>2, <2>4, <2>5, Zenon
<1>2. CASE /\ kc_failures < MaxFailures /\ kc_failures' = kc_failures + 1
           /\ KC!Goto(r, "failed") /\ UNCHANGED kc_loaded
  <2>1. kc_pc' = [kc_pc EXCEPT ![r] = "failed"]
    BY <1>2, Zenon DEF KC!Goto
  <2>2. KC!TypeOK'
    <3>0. kc_failures \in 0 .. MaxFailures
      BY Zenon DEF KC!TypeOK
    <3>1. kc_failures' \in 0 .. MaxFailures
      BY ONLY <1>2, <3>0, CacheAssumption
    <3>2. kc_pc' \in [Requesters -> {"idle", "lock", "query", "store", "failed"}]
      BY <2>1, Zenon DEF KC!TypeOK
    <3>. QED
      BY <1>2, <1>u, <3>1, <3>2, Zenon DEF KC!TypeOK
  <2>3. Loading'
    BY <2>1, Zenon DEF Loading, KC!TypeOK
  <2>4. MissingIsNew'
    BY <2>3, Zenon DEF MissingIsNew
  <2>5. ReadIsReal'
    BY <1>2, <1>u, <2>1, Zenon DEF ReadIsReal, KC!TypeOK
  <2>. QED
    BY <2>2, <2>4, <2>5, Zenon
<1>. QED
  BY <1>1, <1>2, Zenon DEF KC!Query

LEMMA KCStore ==
  ASSUME KCInv, NEW r \in Requesters, KC!Store(r)
  PROVE  KCInv'
<1>. USE CacheAssumption DEF KCInv
<1>u. UNCHANGED <<kc_db, kc_use, kc_quiet, kc_removed, kc_changes, kc_failures>>
  BY Zenon DEF KC!Store, KC!Idle
<1>1. /\ kc_pc' = [kc_pc EXCEPT ![r] = "idle"]
      /\ kc_loaded' = [kc_loaded EXCEPT ![r] = None]
      /\ kc_reply' = [kc_reply EXCEPT ![r] = kc_loaded[r]]
      /\ kc_cache' = [value |-> kc_loaded[r], left |-> TTL]
      /\ kc_pc[r] = "store"
  BY Zenon DEF KC!Store, KC!add, KC!Answer, KC!Goto
<1>2. kc_loaded[r] \in Values \cup {None}
  BY Zenon DEF KC!TypeOK
<1>3. kc_cache' \in KC!Entry
  BY <1>1, <1>2, NewEntry, Zenon
<1>4. KC!TypeOK'
  BY <1>1, <1>u, <1>2, <1>3, Zenon DEF KC!TypeOK, KC!Entry
<1>5. MissingIsNew'
  BY <1>1, <1>u, Zenon DEF MissingIsNew, ReadIsReal
<1>6. ReadIsReal'
  BY <1>1, <1>u, Zenon DEF ReadIsReal, KC!TypeOK
<1>. QED
  BY <1>4, <1>5, <1>6, Zenon

LEMMA KCFail ==
  ASSUME KCInv, NEW r \in Requesters, KC!Fail(r)
  PROVE  KCInv'
<1>. USE CacheAssumption DEF KCInv
<1>u. UNCHANGED <<kc_db, kc_use, kc_removed, kc_changes, kc_failures>>
  BY Zenon DEF KC!Fail
<1>1. /\ kc_pc' = [kc_pc EXCEPT ![r] = "idle"]
      /\ kc_loaded' = [kc_loaded EXCEPT ![r] = None]
      /\ kc_reply' = [kc_reply EXCEPT ![r] = "error"]
      /\ kc_quiet' = 0
  BY Zenon DEF KC!Fail, KC!Answer, KC!Goto
<1>2. UNCHANGED kc_cache \/ kc_cache' = [value |-> None, left |-> TTL]
  BY Zenon DEF KC!Fail, KC!add
<1>3. kc_cache' \in KC!Entry \cup {None}
  BY <1>2, NewEntry, Zenon DEF KC!TypeOK
<1>4. KC!TypeOK'
  <2>1. kc_quiet' \in 0 .. TTL + 1
    BY <1>1
  <2>2. /\ kc_pc' \in [Requesters -> {"idle", "lock", "query", "store", "failed"}]
        /\ kc_loaded' \in [Requesters -> Values \cup {None}]
        /\ kc_reply' \in [Requesters -> Values \cup {None, "no answer", "error"}]
    BY <1>1, Zenon DEF KC!TypeOK
  <2>. QED
    BY <1>u, <1>3, <2>1, <2>2, Zenon DEF KC!TypeOK, KC!Entry
<1>5. MissingIsNew'
  <2>. SUFFICES ASSUME (kc_cache # None)' PROVE (kc_cache.left + kc_quiet <= TTL)'
    BY Zenon DEF MissingIsNew
  <2>1. kc_cache'.left \in 0 .. TTL
    BY <1>3, Zenon DEF KC!Entry
  <2>. QED
    BY <2>1, <1>1
<1>6. ReadIsReal'
  BY <1>1, <1>u, Zenon DEF ReadIsReal, KC!TypeOK
<1>. QED
  BY <1>4, <1>5, <1>6, Zenon

LEMMA KCTick ==
  ASSUME KCInv, KC!Tick
  PROVE  KCInv'
<1>. USE CacheAssumption DEF KCInv
<1>u. UNCHANGED <<kc_db, kc_pc, kc_loaded, kc_reply, kc_use, kc_removed, kc_changes, kc_failures>>
  BY Zenon DEF KC!Tick
<1>q. kc_quiet \in 0 .. TTL + 1 /\ kc_quiet' = IF kc_quiet <= TTL THEN kc_quiet + 1 ELSE kc_quiet
  BY Zenon DEF KC!Tick, KC!TypeOK
<1>1. kc_quiet' \in 0 .. TTL + 1
  BY ONLY <1>q, CacheAssumption
<1>l. Loading => Loading'
  BY <1>u, Zenon DEF Loading
<1>2. CASE UNCHANGED kc_cache /\ (kc_cache # None => ~(kc_cache.left > 0))
  <2>1. KC!TypeOK'
    BY <1>u, <1>1, <1>2, Zenon DEF KC!TypeOK
  <2>2. MissingIsNew'
    BY <1>2, Zenon DEF MissingIsNew
  <2>. QED
    BY <1>u, <2>1, <2>2, Zenon DEF ReadIsReal
<1>3. CASE kc_cache # None /\ kc_cache.left > 0 /\ kc_cache' = [kc_cache EXCEPT !.left = @ - 1]
  <2>1. kc_cache \in KC!Entry
    BY <1>3, Zenon DEF KC!TypeOK
  <2>2. kc_cache' \in KC!Entry /\ kc_cache'.left = kc_cache.left - 1 /\ kc_cache'.value = kc_cache.value
    BY ONLY <2>1, <1>3, CacheAssumption, SMTT(60) DEF KC!Entry
  <2>3. KC!TypeOK'
    BY <1>u, <1>1, <2>2, Zenon DEF KC!TypeOK
  <2>4. MissingIsNew'
    <3>. SUFFICES ASSUME (kc_cache.left > 0 /\ kc_cache.value = None /\ ~kc_removed)'
                  PROVE  (kc_cache.left + kc_quiet <= TTL)' \/ Loading'
      BY Zenon DEF MissingIsNew
    <3>1. kc_cache.left + kc_quiet <= TTL \/ Loading
      BY <1>3, <1>u, <2>2, Zenon DEF MissingIsNew
    <3>2. kc_cache.left \in 0 .. TTL
      BY <2>1, Zenon DEF KC!Entry
    <3>3. CASE kc_cache.left + kc_quiet <= TTL
      <4>1. kc_cache.left - 1 + kc_quiet' <= TTL
        BY ONLY <1>3, <1>q, <3>2, <3>3, CacheAssumption, SMTT(60)
      <4>. QED
        BY <4>1, <2>2, Zenon
    <3>. QED
      BY <1>l, <3>1, <3>3, Zenon
  <2>. QED
    BY <1>u, <2>3, <2>4, Zenon DEF ReadIsReal
<1>. QED
  BY <1>2, <1>3, Zenon DEF KC!Tick

LEMMA KCEvict ==
  ASSUME KCInv, KC!Evict
  PROVE  KCInv'
<1>. USE DEF KCInv, KC!Evict
<1>1. KC!TypeOK'
  BY Zenon DEF KC!TypeOK
<1>2. MissingIsNew'
  BY Zenon DEF MissingIsNew
<1>3. ReadIsReal'
  BY Zenon DEF ReadIsReal
<1>. QED
  BY <1>1, <1>2, <1>3, Zenon

LEMMA KCChange ==
  ASSUME KCInv, KC!Change
  PROVE  KCInv'
<1>. USE DEF KCInv
<1>u. UNCHANGED <<kc_cache, kc_pc, kc_loaded, kc_reply, kc_use, kc_quiet, kc_failures>>
  BY Zenon DEF KC!Change
<1>1. kc_db' \in Values \cup {None} /\ kc_removed' \in BOOLEAN
      /\ (kc_removed => kc_removed') /\ (kc_db' = None => kc_removed')
  BY Zenon DEF KC!Change
<1>c. kc_changes < MaxChanges /\ kc_changes' = kc_changes + 1 /\ kc_changes \in 0 .. MaxChanges
  BY Zenon DEF KC!Change, KC!TypeOK
<1>2. kc_changes' \in 0 .. MaxChanges
  BY ONLY <1>c, CacheAssumption
<1>3. KC!TypeOK'
  BY <1>u, <1>1, <1>2, Zenon DEF KC!TypeOK
<1>l. Loading => Loading'
  BY <1>u, Zenon DEF Loading
<1>4. MissingIsNew'
  BY <1>u, <1>1, <1>l, Zenon DEF MissingIsNew
<1>5. ReadIsReal'
  BY <1>u, <1>1, Zenon DEF ReadIsReal
<1>. QED
  BY <1>3, <1>4, <1>5, Zenon

LEMMA KCNext == KCInv /\ [KC!Next]_(KC!vars) => KCInv'
<1>. SUFFICES ASSUME KCInv, [KC!Next]_(KC!vars) PROVE KCInv'
  OBVIOUS
<1>1. ASSUME NEW r \in Requesters,
             KC!keyCacheLoad(r) \/ KC!keyPopulateCache(r) \/ KC!groupCacheLoad(r) \/ KC!groupPopulateCache(r)
      PROVE  KCInv'
  BY <1>1, KCLookup, KCQuery, KCStore, KCFail, Zenon
     DEF KC!keyCacheLoad, KC!keyPopulateCache, KC!groupCacheLoad, KC!groupPopulateCache
<1>2. CASE UNCHANGED KC!vars
  BY <1>2, Zenon DEF KC!vars, KCInv, KC!TypeOK, MissingIsNew, ReadIsReal, Loading
<1>. QED
  BY <1>1, <1>2, KCTick, KCEvict, KCChange, Zenon DEF KC!Next

\* A key that the database has held all along is taken for missing only for the
\* lifespan after a query that failed, or while a request loads it (populateCache
\* caches nil for a database error, cacheLoad extends it), for any number of
\* requests and any lifespan.
THEOREM KeysAreFound ==
  /\ KC!Spec => [](KC!TypeOK /\ KC!KnownKeysAreFound)
  /\ ServicesSpec => []KnownKeysAreFound
<1>1. KCInv => KC!TypeOK /\ KC!KnownKeysAreFound
  <2>. SUFFICES ASSUME KCInv PROVE KC!KnownKeysAreFound
    BY Zenon DEF KCInv
  <2>1. Loading => \E r \in Requesters : kc_pc[r] # "idle"
    BY Zenon DEF Loading
  <2>2. kc_cache \in KC!Entry \cup {None} /\ kc_quiet \in 0 .. TTL + 1
    BY Zenon DEF KCInv, KC!TypeOK
  <2>3. kc_cache # None /\ kc_cache.left + kc_quiet <= TTL => kc_quiet <= TTL
    BY ONLY <2>2, CacheAssumption, SMTT(60) DEF KC!Entry
  <2>. QED
    BY <2>1, <2>3, Zenon DEF KCInv, MissingIsNew, KC!KnownKeysAreFound
<1>2. KC!Spec => []KCInv
  BY KCInit, KCNext, PTL DEF KC!Spec
<1>3. ServicesSpec => [](part = "cache" => KCInv)
  <2>1. ServicesInit => (part = "cache" => KCInv)
    BY KCInit, Zenon DEF ServicesInit
  <2>2. (part = "cache" => KCInv) /\ [ServicesNext]_<<part, npVars, trVars, kcVars>> => (part = "cache" => KCInv)'
    BY KCNext, Zenon DEF ServicesNext, Pool, Relay, Cache, KC!vars, kcVars
  <2>. QED
    BY <2>1, <2>2, PTL DEF ServicesSpec
<1>. QED
  BY <1>1, <1>2, <1>3, PTL DEF KnownKeysAreFound
-----------------------------------------------------------------------------
(* The relay of transactions.                                              *)

\* A request gets past the first call only if the serving node took the
\* transaction.
PastSending == \A s \in Senders : tr_pc[s] \notin {"start", "done"} => s \in tr_accepted

TRInv == TR!TypeOK /\ TR!OnlyAcceptedTravel /\ PastSending

\* The parts of TRInv that speak of the requests and those that speak of the
\* queue and the workers.
Travelled == \A s \in Senders : tr_got[s] # {} => s \in tr_accepted
Queued == \A i \in DOMAIN tr_txnQueue : tr_txnQueue[i] \in tr_accepted
Held == \A w \in Workers : tr_job[w].txn # None => tr_job[w].txn \in tr_accepted

LEMMA TRParts == TR!OnlyAcceptedTravel <=> Travelled /\ Queued /\ Held
BY Zenon DEF TR!OnlyAcceptedTravel, Travelled, Queued, Held

LEMMA TRInit == TR!Init => TRInv
<1>. SUFFICES ASSUME TR!Init PROVE TRInv
  OBVIOUS
<1>1. /\ tr_pc = [s \in Senders |-> "start"] /\ tr_left = [s \in Senders |-> {}]
      /\ tr_tried = [s \in Senders |-> {}] /\ tr_got = [s \in Senders |-> {}]
      /\ tr_txnQueue = <<>> /\ tr_job = [w \in Workers |-> [txn |-> None, left |-> {}]]
  BY Zenon DEF TR!Init
<1>2. /\ tr_pc \in [Senders -> {"start", "check", "push", "group", "copy", "done"}]
      /\ tr_left \in [Senders -> SUBSET TR!Nodes]
      /\ tr_tried \in [Senders -> SUBSET TR!Nodes] /\ tr_got \in [Senders -> SUBSET TR!Nodes]
  BY <1>1
<1>3. tr_txnQueue \in Seq(Senders) /\ Len(tr_txnQueue) <= BufferSize
  BY <1>1, RelayAssumption, SMTT(60)
<1>4. tr_job \in [Workers -> [txn : Senders \cup {None}, left : SUBSET TR!Nodes]]
  BY <1>1
<1>5. tr_faults \in 0 .. MaxFaults
  BY RelayAssumption DEF TR!Init
<1>6. TR!TypeOK
  BY <1>2, <1>3, <1>4, <1>5, Zenon DEF TR!Init, TR!TypeOK
<1>7. Travelled /\ PastSending
  BY <1>1 DEF Travelled, PastSending
<1>8. Queued
  BY <1>1, SMTT(60) DEF Queued
<1>9. Held
  BY <1>1 DEF Held
<1>. QED
  BY <1>6, <1>7, <1>8, <1>9, TRParts, Zenon DEF TRInv

LEMMA TRSend ==
  ASSUME TRInv, NEW s \in Senders, TR!Send(s)
  PROVE  TRInv'
<1>. USE DEF TRInv
<1>t. TR!TypeOK /\ Travelled /\ Queued /\ Held /\ PastSending
  BY TRParts, Zenon
<1>u. UNCHANGED <<tr_space, tr_relayTxn, tr_left, tr_txnQueue, tr_job, tr_clients, tr_tried>>
  BY Zenon DEF TR!Send
<1>a. tr_accepted \subseteq tr_accepted'
  BY Zenon DEF TR!Send
<1>q. Queued' /\ Held'
  BY <1>t, <1>u, <1>a, Zenon DEF Queued, Held
<1>1. CASE /\ tr_accepted' = tr_accepted \cup {s}
           /\ tr_got' = [tr_got EXCEPT ![s] = @ \cup {Serving}]
           /\ TR!Goto(s, "check") /\ UNCHANGED tr_faults
  <2>1. tr_pc' = [tr_pc EXCEPT ![s] = "check"]
    BY <1>1, Zenon DEF TR!Goto
  <2>2. TR!TypeOK'
    BY <1>1, <1>u, <2>1, SMTT(60) DEF TR!TypeOK, TR!Nodes
  <2>3. Travelled'
    BY <1>1, <1>t, SMTT(60) DEF Travelled, TR!TypeOK
  <2>4. PastSending'
    BY <1>1, <2>1, <1>t, SMTT(60) DEF PastSending, TR!TypeOK
  <2>. QED
    BY <1>q, <2>2, <2>3, <2>4, TRParts, PTL
<1>2. CASE TR!Fault /\ TR!Goto(s, "done") /\ UNCHANGED <<tr_accepted, tr_got>>
  <2>1. tr_pc' = [tr_pc EXCEPT ![s] = "done"]
    BY <1>2, Zenon DEF TR!Goto
  <2>2. tr_faults' \in 0 .. MaxFaults
    BY <1>2, RelayAssumption, SMTT(60) DEF TR!Fault, TR!TypeOK
  <2>3. TR!TypeOK'
    BY <1>2, <1>u, <2>1, <2>2, SMTT(60) DEF TR!TypeOK
  <2>4. Travelled'
    BY <1>2, <1>t, Zenon DEF Travelled
  <2>5. PastSending'
    BY <1>2, <2>1, <1>t, SMTT(60) DEF PastSending, TR!TypeOK
  <2>. QED
    BY <1>q, <2>3, <2>4, <2>5, TRParts, PTL
<1>. QED
  BY <1>1, <1>2, Zenon DEF TR!Send

LEMMA TRCheck ==
  ASSUME TRInv, NEW s \in Senders, TR!Check(s)
  PROVE  TRInv'
<1>. USE DEF TRInv
<1>u. UNCHANGED <<tr_space, tr_relayTxn, tr_left, tr_txnQueue, tr_job, tr_clients, tr_tried,
                  tr_got, tr_accepted, tr_faults>>
  BY Zenon DEF TR!Check
<1>1. tr_pc[s] = "check" /\ \E p \in {"group", "push"} : tr_pc' = [tr_pc EXCEPT ![s] = p]
  BY Zenon DEF TR!Check, TR!Goto
<1>2. TR!TypeOK'
  BY <1>u, <1>1, SMTT(60) DEF TR!TypeOK
<1>3. TR!OnlyAcceptedTravel'
  BY <1>u, Zenon DEF TR!OnlyAcceptedTravel
<1>4. PastSending'
  BY <1>u, <1>1 DEF PastSending, TR!TypeOK
<1>. QED
  BY <1>2, <1>3, <1>4, Zenon

LEMMA TRPush ==
  ASSUME TRInv, NEW s \in Senders, TR!Push(s)
  PROVE  TRInv'
<1>. USE DEF TRInv
<1>t. TR!TypeOK /\ Travelled /\ Queued /\ Held /\ PastSending
  BY TRParts, Zenon
<1>u. UNCHANGED <<tr_space, tr_relayTxn, tr_left, tr_job, tr_clients, tr_tried, tr_got, tr_accepted, tr_faults>>
  BY Zenon DEF TR!Push
<1>1. /\ tr_pc[s] = "push" /\ tr_pc' = [tr_pc EXCEPT ![s] = "group"]
      /\ Len(tr_txnQueue) < BufferSize /\ tr_txnQueue' = Append(tr_txnQueue, s)
  BY Zenon DEF TR!Push, TR!Goto
<1>2. s \in tr_accepted
  BY <1>1, <1>t, SMTT(60) DEF PastSending
<1>3. tr_txnQueue \in Seq(Senders)
  BY Zenon DEF TR!TypeOK
<1>4. tr_txnQueue' \in Seq(Senders) /\ Len(tr_txnQueue') <= BufferSize
  BY ONLY <1>1, <1>3, s \in Senders, RelayAssumption, SMTT(60)
<1>5. Queued'
  BY <1>1, <1>2, <1>3, <1>u, <1>t, SMTT(60) DEF Queued
<1>6. tr_pc' \in [Senders -> {"start", "check", "push", "group", "copy", "done"}]
  BY <1>1 DEF TR!TypeOK
<1>7. TR!TypeOK'
  BY <1>u, <1>4, <1>6, Zenon DEF TR!TypeOK
<1>8. Travelled' /\ Held'
  BY <1>t, <1>u, Zenon DEF Travelled, Held
<1>9. PastSending'
  BY <1>u, <1>1, <1>t, SMTT(60) DEF PastSending, TR!TypeOK
<1>. QED
  BY <1>5, <1>7, <1>8, <1>9, TRParts, PTL

LEMMA TRByGroup ==
  ASSUME TRInv, NEW s \in Senders, TR!ByGroup(s)
  PROVE  TRInv'
<1>. USE DEF TRInv
<1>u. UNCHANGED <<tr_space, tr_relayTxn, tr_txnQueue, tr_job, tr_clients, tr_tried, tr_got, tr_accepted>>
  BY Zenon DEF TR!ByGroup
<1>1. tr_pc[s] = "group" /\ \E p \in {"done", "copy"} : tr_pc' = [tr_pc EXCEPT ![s] = p]
  BY Zenon DEF TR!ByGroup, TR!Goto
<1>2. UNCHANGED tr_left \/ tr_left' = [tr_left EXCEPT ![s] = GroupNodes]
  BY Zenon DEF TR!ByGroup
<1>3. UNCHANGED tr_faults \/ TR!Fault
  BY Zenon DEF TR!ByGroup
<1>4. tr_left' \in [Senders -> SUBSET TR!Nodes]
  BY <1>2, SMTT(60) DEF TR!TypeOK, TR!Nodes
<1>5. tr_faults' \in 0 .. MaxFaults
  BY <1>3, RelayAssumption, SMTT(60) DEF TR!TypeOK, TR!Fault
<1>6. tr_pc' \in [Senders -> {"start", "check", "push", "group", "copy", "done"}]
  BY <1>1 DEF TR!TypeOK
<1>7. TR!TypeOK'
  BY <1>u, <1>4, <1>5, <1>6, Zenon DEF TR!TypeOK
<1>8. TR!OnlyAcceptedTravel'
  BY <1>u, Zenon DEF TR!OnlyAcceptedTravel
<1>9. PastSending'
  BY <1>u, <1>1, SMTT(60) DEF PastSending, TR!TypeOK
<1>. QED
  BY <1>7, <1>8, <1>9, Zenon

\* Delivering a transaction that was accepted.
LEMMA TRDeliver ==
  ASSUME TR!TypeOK, Travelled, NEW s \in Senders, NEW n \in TR!Nodes,
         s \in tr_accepted, UNCHANGED tr_accepted, TR!Deliver(s, n)
  PROVE  /\ tr_tried' \in [Senders -> SUBSET TR!Nodes] /\ tr_got' \in [Senders -> SUBSET TR!Nodes]
         /\ tr_clients' \subseteq TR!Nodes /\ tr_faults' \in 0 .. MaxFaults
         /\ Travelled'
<1>1. tr_tried' = [tr_tried EXCEPT ![s] = @ \cup {n}]
  BY Zenon DEF TR!Deliver
<1>2. UNCHANGED tr_got \/ tr_got' = [tr_got EXCEPT ![s] = @ \cup {n}]
  BY Zenon DEF TR!Deliver
<1>3. tr_clients' \in {tr_clients, tr_clients \cup {n}}
  BY Zenon DEF TR!Deliver
<1>4. UNCHANGED tr_faults \/ TR!Fault
  BY Zenon DEF TR!Deliver
<1>5. tr_tried' \in [Senders -> SUBSET TR!Nodes] /\ tr_got' \in [Senders -> SUBSET TR!Nodes]
  BY <1>1, <1>2, SMTT(60) DEF TR!TypeOK
<1>6. tr_clients' \subseteq TR!Nodes
  BY <1>3, SMTT(60) DEF TR!TypeOK
<1>7. tr_faults' \in 0 .. MaxFaults
  BY <1>4, RelayAssumption, SMTT(60) DEF TR!TypeOK, TR!Fault
<1>8. Travelled'
  BY <1>2 DEF Travelled, TR!TypeOK
<1>. QED
  BY <1>5, <1>6, <1>7, <1>8, Zenon

LEMMA TRToNodes ==
  ASSUME TRInv, NEW s \in Senders, TR!ToNodes(s)
  PROVE  TRInv'
<1>. USE DEF TRInv
<1>t. TR!TypeOK /\ Travelled /\ Queued /\ Held /\ PastSending
  BY TRParts, Zenon
<1>u. UNCHANGED <<tr_space, tr_relayTxn, tr_txnQueue, tr_job, tr_accepted>>
  BY Zenon DEF TR!ToNodes
<1>q. Queued' /\ Held'
  BY <1>t, <1>u, Zenon DEF Queued, Held
<1>1. CASE TR!Goto(s, "done") /\ UNCHANGED <<tr_left, tr_clients, tr_tried, tr_got, tr_faults>>
  <2>1. tr_pc' = [tr_pc EXCEPT ![s] = "done"]
    BY <1>1, Zenon DEF TR!Goto
  <2>2. TR!TypeOK'
    BY <1>1, <1>u, <2>1, SMTT(60) DEF TR!TypeOK
  <2>3. Travelled'
    BY <1>1, <1>t, <1>u, ZenonT(60) DEF Travelled
  <2>4. PastSending'
    BY <1>1, <1>u, <2>1, <1>t, SMTT(60) DEF PastSending, TR!TypeOK
  <2>. QED
    BY <1>q, <2>2, <2>3, <2>4, TRParts, PTL
<1>2. ASSUME NEW n \in tr_left[s], tr_left' = [tr_left EXCEPT ![s] = @ \ {n}], UNCHANGED tr_pc,
             UNCHANGED <<tr_clients, tr_tried, tr_got, tr_faults>> \/ TR!Deliver(s, n)
      PROVE  TRInv'
  <2>1. n \in TR!Nodes /\ s \in tr_accepted
    BY <1>t, SMTT(60) DEF TR!TypeOK, PastSending, TR!ToNodes
  <2>2. /\ tr_tried' \in [Senders -> SUBSET TR!Nodes] /\ tr_got' \in [Senders -> SUBSET TR!Nodes]
        /\ tr_clients' \subseteq TR!Nodes /\ tr_faults' \in 0 .. MaxFaults
        /\ Travelled'
    <3>1. CASE UNCHANGED <<tr_clients, tr_tried, tr_got, tr_faults>>
      BY <3>1, <1>t, <1>u, Zenon DEF TR!TypeOK, Travelled
    <3>2. CASE TR!Deliver(s, n)
      BY <3>2, <2>1, <1>t, <1>u, TRDeliver, Zenon
    <3>. QED
      BY <1>2, <3>1, <3>2, Zenon
  <2>3. tr_left' \in [Senders -> SUBSET TR!Nodes]
    BY <1>2, SMTT(60) DEF TR!TypeOK
  <2>4. TR!TypeOK'
    BY <1>2, <1>u, <2>2, <2>3, Zenon DEF TR!TypeOK
  <2>5. PastSending'
    BY <1>2, <1>u, <1>t, Zenon DEF PastSending
  <2>. QED
    BY <1>q, <2>2, <2>4, <2>5, TRParts, PTL
<1>. QED
  BY <1>1, <1>2, Zenon DEF TR!ToNodes

LEMMA TRTake ==
  ASSUME TRInv, NEW w \in Workers, TR!Take(w)
  PROVE  TRInv'
<1>. USE DEF TRInv
<1>t. TR!TypeOK /\ Travelled /\ Queued /\ Held /\ PastSending
  BY TRParts, Zenon
<1>u. UNCHANGED <<tr_space, tr_relayTxn, tr_pc, tr_left, tr_clients, tr_tried, tr_got, tr_accepted, tr_faults>>
  BY Zenon DEF TR!Take
<1>1. /\ tr_txnQueue # <<>> /\ tr_txnQueue' = Tail(tr_txnQueue)
      /\ tr_job' = [tr_job EXCEPT ![w] = [txn |-> Head(tr_txnQueue), left |-> RelayNodes]]
  BY Zenon DEF TR!Take
<1>2. tr_txnQueue \in Seq(Senders) /\ Len(tr_txnQueue) <= BufferSize
  BY Zenon DEF TR!TypeOK
<1>3. /\ Head(tr_txnQueue) \in Senders /\ Head(tr_txnQueue) = tr_txnQueue[1] /\ 1 \in DOMAIN tr_txnQueue
      /\ tr_txnQueue' \in Seq(Senders) /\ Len(tr_txnQueue') <= BufferSize
      /\ \A i \in DOMAIN tr_txnQueue' : \E j \in DOMAIN tr_txnQueue : tr_txnQueue'[i] = tr_txnQueue[j]
  BY ONLY <1>1, <1>2, RelayAssumption, SMTT(60)
<1>4. tr_job' \in [Workers -> [txn : Senders \cup {None}, left : SUBSET TR!Nodes]]
  BY <1>1, <1>3, SMTT(60) DEF TR!TypeOK, TR!Nodes
<1>5. TR!TypeOK'
  BY <1>u, <1>3, <1>4, Zenon DEF TR!TypeOK
<1>6. Queued'
  BY <1>3, <1>u, <1>t, ZenonT(60) DEF Queued
<1>7. Held'
  <2>1. Head(tr_txnQueue) \in tr_accepted
    BY <1>3, <1>t, Zenon DEF Queued
  <2>. QED
    BY <1>1, <1>u, <1>t, <2>1 DEF Held, TR!TypeOK
<1>8. Travelled' /\ PastSending'
  BY <1>u, <1>t, Zenon DEF Travelled, PastSending
<1>. QED
  BY <1>5, <1>6, <1>7, <1>8, TRParts, PTL

LEMMA TRRelayOne ==
  ASSUME TRInv, NEW w \in Workers, TR!RelayOne(w)
  PROVE  TRInv'
<1>. USE DEF TRInv
<1>t. TR!TypeOK /\ Travelled /\ Queued /\ Held /\ PastSending
  BY TRParts, Zenon
<1>u. UNCHANGED <<tr_space, tr_relayTxn, tr_pc, tr_left, tr_txnQueue, tr_accepted>>
  BY Zenon DEF TR!RelayOne
<1>1. PICK n \in tr_job[w].left :
        /\ TR!Deliver(tr_job[w].txn, n)
        /\ tr_job' = [tr_job EXCEPT ![w] = IF tr_job[w].left = {n} THEN [txn |-> None, left |-> {}]
                                           ELSE [txn |-> tr_job[w].txn, left |-> tr_job[w].left \ {n}]]
  BY Zenon DEF TR!RelayOne
<1>2. tr_job[w] \in [txn : Senders \cup {None}, left : SUBSET TR!Nodes] /\ tr_job[w].txn # None
  BY Zenon DEF TR!TypeOK, TR!RelayOne
<1>3. tr_job[w].txn \in Senders /\ n \in TR!Nodes
  BY <1>1, <1>2, SMTT(60)
<1>4. tr_job[w].txn \in tr_accepted
  BY <1>2, <1>t, Zenon DEF Held
<1>5. /\ tr_tried' \in [Senders -> SUBSET TR!Nodes] /\ tr_got' \in [Senders -> SUBSET TR!Nodes]
      /\ tr_clients' \subseteq TR!Nodes /\ tr_faults' \in 0 .. MaxFaults
      /\ Travelled'
  BY <1>1, <1>3, <1>4, <1>t, <1>u, TRDeliver, Zenon
<1>6. \E j \in [txn : Senders \cup {None}, left : SUBSET TR!Nodes] :
        tr_job' = [tr_job EXCEPT ![w] = j] /\ j.txn \in {None, tr_job[w].txn}
  <2>1. CASE tr_job[w].left = {n}
    <3>. DEFINE j == [txn |-> None, left |-> {}]
    <3>1. tr_job' = [tr_job EXCEPT ![w] = j]
      BY <1>1, <2>1, Zenon
    <3>2. j \in [txn : Senders \cup {None}, left : SUBSET TR!Nodes] /\ j.txn = None
      OBVIOUS
    <3>. QED
      BY <3>1, <3>2, Zenon
  <2>2. CASE tr_job[w].left # {n}
    <3>. DEFINE j == [txn |-> tr_job[w].txn, left |-> tr_job[w].left \ {n}]
    <3>1. tr_job' = [tr_job EXCEPT ![w] = j]
      BY <1>1, <2>2, ZenonT(60)
    <3>2. j \in [txn : Senders \cup {None}, left : SUBSET TR!Nodes] /\ j.txn = tr_job[w].txn
      BY <1>2, SMTT(60)
    <3>. QED
      BY <3>1, <3>2, Zenon
  <2>. QED
    BY <2>1, <2>2, Zenon
<1>7. tr_job' \in [Workers -> [txn : Senders \cup {None}, left : SUBSET TR!Nodes]]
  BY <1>6 DEF TR!TypeOK
<1>8. TR!TypeOK'
  BY <1>u, <1>5, <1>7, ZenonT(60) DEF TR!TypeOK
<1>9. Held'
  BY <1>4, <1>6, <1>u, <1>t, SMTT(60) DEF Held, TR!TypeOK
<1>10. Queued' /\ PastSending'
  BY <1>u, <1>t, Zenon DEF Queued, PastSending
<1>. QED
  BY <1>5, <1>8, <1>9, <1>10, TRParts, PTL

LEMMA TRNext == TRInv /\ [TR!Next]_(TR!vars) => TRInv'
<1>. SUFFICES ASSUME TRInv, [TR!Next]_(TR!vars) PROVE TRInv'
  OBVIOUS
<1>1. ASSUME NEW s \in Senders,
             TR!Send(s) \/ TR!Check(s) \/ TR!Push(s) \/ TR!ByGroup(s) \/ TR!ToNodes(s)
      PROVE  TRInv'
  BY <1>1, TRSend, TRCheck, TRPush, TRByGroup, TRToNodes, Zenon
<1>2. ASSUME NEW w \in Workers, TR!Take(w) \/ TR!RelayOne(w)
      PROVE  TRInv'
  BY <1>2, TRTake, TRRelayOne, Zenon
<1>3. CASE UNCHANGED TR!vars
  BY <1>3, Zenon DEF TR!vars, TRInv, TR!TypeOK, TR!OnlyAcceptedTravel, PastSending
<1>. QED
  BY <1>1, <1>2, <1>3, Zenon
     DEF TR!Next, TR!cfxSendRawTxn, TR!ethSendRawTxn, TR!cfxReplicateRawTxnSendingByGroup,
         TR!ethReplicateRawTxnSendingByGroup, TR!cfxReplicateRawTxnSendingToNodes,
         TR!ethReplicateRawTxnSendingToNodes, TR!cfxProcess, TR!ethProcess, TR!cfxRelay, TR!ethRelay

\* A transaction travels to other nodes only if the serving node took it, and
\* neither the queue nor a worker holds any other (SendRawTxn returns at its
\* error), for any number of requests and workers, any nodes and any queue.
THEOREM AcceptedTravel ==
  /\ TR!Spec => [](TR!TypeOK /\ TR!OnlyAcceptedTravel)
  /\ ServicesSpec => []OnlyAcceptedTravel
<1>1. TRInv => TR!TypeOK /\ TR!OnlyAcceptedTravel
  BY Zenon DEF TRInv
<1>2. TR!Spec => []TRInv
  BY TRInit, TRNext, PTL DEF TR!Spec
<1>3. ServicesSpec => [](part = "relay" => TRInv)
  <2>1. ServicesInit => (part = "relay" => TRInv)
    BY TRInit, Zenon DEF ServicesInit
  <2>2. (part = "relay" => TRInv) /\ [ServicesNext]_<<part, npVars, trVars, kcVars>> => (part = "relay" => TRInv)'
    BY TRNext, Zenon DEF ServicesNext, Pool, Relay, Cache, TR!vars, trVars
  <2>. QED
    BY <2>1, <2>2, PTL DEF ServicesSpec
<1>. QED
  BY <1>1, <1>2, <1>3, PTL DEF OnlyAcceptedTravel
-----------------------------------------------------------------------------
(* The pool of full nodes.  The facts about finite sets that its proofs    *)
(* need are stated here and proved in the end, where the library's         *)
(* theorems are taken in.                                                  *)

FiniteFacts ==
  /\ IsFiniteSet({})
  /\ \A S : IsFiniteSet(S) => Cardinality(S) \in Nat /\ (Cardinality(S) = 0 <=> S = {})
  /\ \A S : IsFiniteSet(S) => \A T \in SUBSET S : IsFiniteSet(T)
  /\ \A S, x : IsFiniteSet(S) =>
       /\ IsFiniteSet(S \cup {x}) /\ IsFiniteSet(S \ {x})
       /\ x \notin S => Cardinality(S \cup {x}) = Cardinality(S) + 1
       /\ x \in S => Cardinality(S \ {x}) = Cardinality(S) - 1
  /\ \A T : T \subseteq Nat /\ T # {} => \E e \in T : \A d \in T : ~(d < e)

LEMMA FiniteEmpty ==
  ASSUME FiniteFacts
  PROVE  Cardinality({}) = 0 /\ \A S : IsFiniteSet(S) => (Cardinality(S) = 0 <=> S = {})
BY Zenon DEF FiniteFacts

LEMMA FiniteSubset ==
  ASSUME FiniteFacts, NEW S, IsFiniteSet(S), NEW T \in SUBSET S
  PROVE  IsFiniteSet(T) /\ Cardinality(T) \in Nat
BY Zenon DEF FiniteFacts

LEMMA FiniteAdd ==
  ASSUME FiniteFacts, NEW S, IsFiniteSet(S), NEW x, x \notin S
  PROVE  IsFiniteSet(S \cup {x}) /\ Cardinality(S \cup {x}) = Cardinality(S) + 1
BY Zenon DEF FiniteFacts

LEMMA FiniteRemove ==
  ASSUME FiniteFacts, NEW S, IsFiniteSet(S), NEW x, x \in S
  PROVE  IsFiniteSet(S \ {x}) /\ Cardinality(S \ {x}) = Cardinality(S) - 1
BY Zenon DEF FiniteFacts

LEMMA LeastNumber ==
  ASSUME FiniteFacts, NEW T, T \subseteq Nat, T # {}
  PROVE  \E e \in T : \A d \in T : ~(d < e)
BY Zenon DEF FiniteFacts

-----------------------------------------------------------------------------
(* The median of the epochs that a group knows of.                         *)

\* The pool's cardinality is the one of FiniteSets.
LEMMA SameCardinality == \A S : NP!Cardinality(S) = Cardinality(S)
BY Zenon DEF NP!Cardinality, Cardinality

UpTo(m, e) == {k \in m.known : m.epoch[k] <= e}
Below(m, e) == {k \in m.known : m.epoch[k] < e}

\* What is known of a group is about finitely many nodes.
LEMMA KnownIsFinite ==
  ASSUME FiniteFacts, NEW m \in NP!Manager, NEW S \in SUBSET m.known
  PROVE  IsFiniteSet(S) /\ Cardinality(S) \in Nat
<1>1. S \in SUBSET PoolNodes
  BY DEF NP!Manager
<1>. QED
  BY <1>1, PoolAssumption, FiniteSubset, Zenon

\* There is a median as soon as one epoch is known, and it is one of the epochs
\* (ReportEpoch takes it from the sorted list).
LEMMA MedianType ==
  ASSUME FiniteFacts, NEW m \in NP!Manager, m.known # {}
  PROVE  NP!Median(m) \in 0 .. MaxHead
<1>. DEFINE half == Cardinality(m.known) \div 2
            Enough == {e \in Nat : Cardinality(UpTo(m, e)) > half}
<1>n. \A k \in m.known : m.epoch[k] \in 0 .. MaxHead
  BY DEF NP!Manager
<1>0. IsFiniteSet(m.known) /\ Cardinality(m.known) \in Nat /\ Cardinality(m.known) # 0
  BY KnownIsFinite, FiniteEmpty, SMTT(60)
<1>1. half \in Nat /\ half < Cardinality(m.known)
  BY ONLY <1>0, SMTT(60)
<1>. HIDE DEF half
<1>2. \A e : Cardinality(UpTo(m, e)) \in Nat /\ Cardinality(Below(m, e)) \in Nat
  <2>1. \A e : UpTo(m, e) \subseteq m.known /\ Below(m, e) \subseteq m.known
    BY Zenon DEF UpTo, Below
  <2>. QED
    BY <2>1, KnownIsFinite, Zenon
<1>3. UpTo(m, MaxHead) = m.known
  BY <1>n, SMTT(60) DEF UpTo
<1>4. MaxHead \in Enough
  BY <1>0, <1>1, <1>3, PoolAssumption, SMTT(60)
<1>5. PICK e \in Enough : \A d \in Enough : ~(d < e)
  BY <1>4, LeastNumber, Zenon
<1>6. e \in Nat /\ Cardinality(UpTo(m, e)) > half
  BY <1>5, Zenon
<1>7. Cardinality(Below(m, e)) <= half
  <2>1. CASE e = 0
    <3>1. Below(m, e) = {}
      BY <2>1, <1>n, SMTT(60) DEF Below
    <3>. QED
      BY <3>1, <1>1, FiniteEmpty, SMTT(60)
  <2>2. CASE e # 0
    <3>1. e - 1 \in Nat /\ e - 1 < e
      BY ONLY <1>6, <2>2, SMTT(60)
    <3>2. Below(m, e) = UpTo(m, e - 1)
      BY ONLY <1>6, <1>n, PoolAssumption, SMTT(60) DEF Below, UpTo
    <3>3. e - 1 \notin Enough
      BY <1>5, <3>1, Zenon
    <3>4. ~(Cardinality(UpTo(m, e - 1)) > half)
      BY <3>1, <3>3, Zenon
    <3>. QED
      BY ONLY <3>2, <3>4, <1>1, <1>2, SMTT(60)
  <2>. QED
    BY <2>1, <2>2, Zenon
<1>8. e \in {m.epoch[k] : k \in m.known}
  <2>. SUFFICES ASSUME \A k \in m.known : m.epoch[k] # e PROVE FALSE
    BY Zenon
  <2>1. UpTo(m, e) = Below(m, e)
    BY ONLY <1>n, <1>6, PoolAssumption, \A k \in m.known : m.epoch[k] # e, SMTT(60) DEF UpTo, Below
  <2>. QED
    BY ONLY <2>1, <1>1, <1>2, <1>6, <1>7, SMTT(60)
<1>9. \E x \in {m.epoch[k] : k \in m.known} :
        /\ Cardinality({k \in m.known : m.epoch[k] < x}) <= Cardinality(m.known) \div 2
        /\ Cardinality({k \in m.known : m.epoch[k] <= x}) > Cardinality(m.known) \div 2
  BY <1>6, <1>7, <1>8, Zenon DEF UpTo, Below, half
<1>10. NP!Median(m) = CHOOSE x \in {m.epoch[k] : k \in m.known} :
        /\ Cardinality({k \in m.known : m.epoch[k] < x}) <= Cardinality(m.known) \div 2
        /\ Cardinality({k \in m.known : m.epoch[k] <= x}) > Cardinality(m.known) \div 2
  BY Zenon DEF NP!Median, NP!Cardinality, Cardinality
<1>11. NP!Median(m) \in {m.epoch[k] : k \in m.known}
  <2>. HIDE DEF NP!Median
  <2>. QED
    BY ONLY <1>9, <1>10, Zenon
<1>. QED
  BY <1>11, <1>n, Zenon
-----------------------------------------------------------------------------
(* The operations on the records of nodes, groups and goroutines.          *)

LEMMA AddType ==
  ASSUME NEW m \in NP!Manager, NEW n \in PoolNodes
  PROVE  NP!Add(m, n) \in NP!Manager /\ NP!Add(m, n).nodes = m.nodes \cup {n}
BY Zenon DEF NP!Add, NP!Manager

LEMMA RemoveType ==
  ASSUME NEW m \in NP!Manager, NEW n \in PoolNodes
  PROVE  NP!Remove(m, n) \in NP!Manager /\ NP!Remove(m, n).nodes = m.nodes \ {n}
<1>1. [m.epoch EXCEPT ![n] = 0] \in [PoolNodes -> 0 .. MaxHead]
  BY PoolAssumption, SMTT(60) DEF NP!Manager
<1>. QED
  BY <1>1, Zenon DEF NP!Remove, NP!Manager

LEMMA NewManagerType ==
  ASSUME NEW ns \in SUBSET PoolNodes
  PROVE  /\ NP!NewManager \in NP!Manager /\ NP!NewManager.nodes = {}
         /\ [NP!NewManager EXCEPT !.nodes = ns, !.ring = ns] \in NP!Manager
         /\ [NP!NewManager EXCEPT !.nodes = ns, !.ring = ns].nodes = ns
<1>1. [n \in PoolNodes |-> 0] \in [PoolNodes -> 0 .. MaxHead] /\ 0 \in 0 .. MaxHead
  BY PoolAssumption, SMTT(60)
<1>. QED
  BY <1>1, Zenon DEF NP!NewManager, NP!Manager

LEMMA ReportTypes ==
  ASSUME FiniteFacts, NEW m \in NP!Manager, NEW n \in PoolNodes, NP!TypeOK
  PROVE  /\ NP!ReportEpoch(m, n) \in NP!Manager /\ NP!ReportEpoch(m, n).nodes = m.nodes
         /\ NP!updateUnhealthy(m, n) \in NP!Manager /\ NP!updateUnhealthy(m, n).nodes = m.nodes
<1>. DEFINE u == NP!updateEpoch(m, n, np_pool[n].epoch)
<1>1. np_pool[n].epoch \in 0 .. MaxHead
  BY SMTT(60) DEF NP!TypeOK, NP!Node
<1>2. [m.epoch EXCEPT ![n] = np_pool[n].epoch] \in [PoolNodes -> 0 .. MaxHead]
  BY <1>1, SMTT(60) DEF NP!Manager
<1>3. u \in NP!Manager /\ u.known # {} /\ u.nodes = m.nodes
  BY <1>2, Zenon DEF NP!updateEpoch, NP!Manager
<1>4. NP!Median(u) \in 0 .. MaxHead
  BY <1>3, MedianType, Zenon
<1>5. NP!ReportEpoch(m, n) = [u EXCEPT !.mid = NP!Median(u)]
  BY Zenon DEF NP!ReportEpoch
<1>. HIDE DEF u
<1>6. NP!ReportEpoch(m, n) \in NP!Manager /\ NP!ReportEpoch(m, n).nodes = u.nodes
  BY <1>3, <1>4, <1>5, SMTT(60) DEF NP!Manager
<1>7. NP!updateUnhealthy(m, n) \in NP!Manager /\ NP!updateUnhealthy(m, n).nodes = m.nodes
  BY Zenon DEF NP!updateUnhealthy, NP!Manager
<1>. QED
  BY <1>3, <1>6, <1>7, Zenon

LEMMA NodeTypes ==
  /\ NP!NoNode \in NP!Node /\ NP!NoNode.refCnt = 0 /\ NP!NoNode.monitors = {}
  /\ NP!NewNode \in NP!Node /\ NP!NewNode.refCnt = 0 /\ NP!NewNode.monitors = {}
<1>1. 0 \in Nat /\ 0 \in 0 .. Failures /\ 0 \in 0 .. Successes /\ 0 \in 0 .. MaxHead
  BY PoolAssumption, SMTT(60)
<1>2. NP!NoNode \in NP!Node /\ NP!NoNode.refCnt = 0 /\ NP!NoNode.monitors = {}
  BY ONLY <1>1, SMTT(60) DEF NP!NoNode, NP!Node
<1>3. /\ [NP!NoNode EXCEPT !.running = TRUE] \in NP!Node
      /\ [NP!NoNode EXCEPT !.running = TRUE].refCnt = NP!NoNode.refCnt
      /\ [NP!NoNode EXCEPT !.running = TRUE].monitors = NP!NoNode.monitors
  BY ONLY <1>2, Zenon DEF NP!Node
<1>. QED
  BY <1>2, <1>3, Zenon DEF NP!NewNode

LEMMA RegisterType ==
  ASSUME NEW r \in NP!Node, NEW g \in PoolGroups
  PROVE  /\ NP!Register(r, g) \in NP!Node /\ NP!Register(r, g).refCnt = r.refCnt + 1
         /\ NP!Register(r, g).monitors = r.monitors \cup {g}
<1>. DEFINE c == r.refCnt + 1
            gs == r.monitors \cup {g}
<1>1. c \in Nat /\ gs \in SUBSET PoolGroups
  BY DEF NP!Node
<1>2. NP!Register(r, g) = [r EXCEPT !.monitors = gs, !.refCnt = c]
  BY DEF NP!Register
<1>. HIDE DEF c, gs
<1>3. NP!Register(r, g) \in NP!Node /\ NP!Register(r, g).refCnt = c /\ NP!Register(r, g).monitors = gs
  BY <1>1, <1>2, Zenon DEF NP!Node
<1>. QED
  BY <1>3, Zenon DEF c, gs

LEMMA DeregisterType ==
  ASSUME NEW r \in NP!Node, NEW g \in PoolGroups
  PROVE  /\ NP!Deregister(r, g) \in NP!Node
         /\ r.refCnt > 1 => /\ NP!Deregister(r, g).refCnt = r.refCnt - 1
                            /\ NP!Deregister(r, g).monitors = r.monitors \ {g}
         /\ ~(r.refCnt > 1) => NP!Deregister(r, g) = NP!NoNode
<1>1. CASE r.refCnt > 1
  <2>1. NP!Deregister(r, g) = [r EXCEPT !.monitors = r.monitors \ {g}, !.running = FALSE, !.refCnt = r.refCnt - 1]
    BY <1>1, SMTT(60) DEF NP!Deregister
  <2>2. r.refCnt - 1 \in Nat
    BY <1>1, SMTT(60) DEF NP!Node
  <2>. QED
    BY <1>1, <2>1, <2>2, ZenonT(60) DEF NP!Node
<1>2. CASE ~(r.refCnt > 1)
  BY <1>2, NodeTypes, Zenon DEF NP!Deregister
<1>. QED
  BY <1>1, <1>2, Zenon

LEMMA HeartbeatType ==
  ASSUME NP!TypeOK, NEW n \in PoolNodes, NEW r \in NP!Node
  PROVE  /\ NP!heartbeat(r, n) \in NP!Node /\ NP!heartbeat(r, n).refCnt = r.refCnt
         /\ NP!heartbeat(r, n).monitors = r.monitors
<1>1. np_head[n] \in 0 .. MaxHead /\ (np_cond[n] = "slow") \in BOOLEAN
  BY Zenon DEF NP!TypeOK
<1>2. /\ r.failure \in 0 .. Failures /\ r.success \in 0 .. Successes
      /\ 0 \in 0 .. Failures /\ 0 \in 0 .. Successes
  BY PoolAssumption, SMTT(60) DEF NP!Node
<1>3. /\ (IF r.failure < Failures THEN r.failure + 1 ELSE r.failure) \in 0 .. Failures
      /\ (IF r.success < Successes THEN r.success + 1 ELSE r.success) \in 0 .. Successes
  BY ONLY <1>2, PoolAssumption, SMTT(60)
<1>. QED
  BY <1>1, <1>2, <1>3, ZenonT(60) DEF NP!heartbeat, NP!Node
-----------------------------------------------------------------------------
(* The invariant: the types, and the counts.                               *)

PoolOK == np_pool \in [PoolNodes -> NP!Node]
MgrOK == np_mgr \in [PoolGroups -> NP!Manager]
TickOK == np_tick \in [PoolNodes -> NP!Goroutine]
RestOK ==
  /\ np_cond \in [PoolNodes -> {"ok", "slow", "down"}] /\ np_head \in [PoolNodes -> 0 .. MaxHead]
  /\ np_managers \subseteq PoolGroups /\ np_saved \in [PoolGroups -> (SUBSET PoolNodes) \cup {None}]
  /\ np_ops \in 0 .. MaxOps

GroupsOf(n) == {g \in PoolGroups : n \in np_mgr[g].nodes}
Counts ==
  \A n \in PoolNodes :
    np_pool[n].refCnt = Cardinality(GroupsOf(n)) /\ np_pool[n].monitors = GroupsOf(n)

NPInv == PoolOK /\ MgrOK /\ TickOK /\ RestOK /\ Counts

LEMMA NPParts == NP!TypeOK <=> PoolOK /\ MgrOK /\ TickOK /\ RestOK
BY Zenon DEF NP!TypeOK, PoolOK, MgrOK, TickOK, RestOK

LEMMA CountsAreShares == Counts => NP!SharedNodesAreCounted
BY SameCardinality, Zenon DEF Counts, GroupsOf, NP!SharedNodesAreCounted

LEMMA GroupsAreFinite ==
  ASSUME FiniteFacts, NEW S \in SUBSET PoolGroups
  PROVE  IsFiniteSet(S) /\ Cardinality(S) \in Nat
BY PoolAssumption, FiniteSubset, Zenon

\* What leaves the nodes of the groups and their counts alone.
LEMMA KeepCounts ==
  ASSUME Counts, \A g \in PoolGroups : np_mgr'[g].nodes = np_mgr[g].nodes,
         \A n \in PoolNodes : /\ np_pool'[n].refCnt = np_pool[n].refCnt
                              /\ np_pool'[n].monitors = np_pool[n].monitors
  PROVE  Counts'
<1>1. \A n \in PoolNodes : GroupsOf(n)' = GroupsOf(n)
  BY Zenon DEF GroupsOf
<1>. QED
  BY <1>1, ZenonT(60) DEF Counts

LEMMA GoroutineType ==
  ASSUME NEW p \in {"idle", "report", "ringAdd", "ringRemove"}, NEW t \in SUBSET PoolGroups,
         NEW a \in PoolGroups \cup {None}
  PROVE  [pc |-> p, todo |-> t, at |-> a] \in NP!Goroutine
BY SMTT(60) DEF NP!Goroutine

\* nodePool.add.
LEMMA NPadd ==
  ASSUME FiniteFacts, NPInv, NEW g \in PoolGroups, NEW n \in PoolNodes, NP!add(g, n)
  PROVE  PoolOK' /\ MgrOK' /\ TickOK' /\ Counts' /\ np_managers' \subseteq PoolGroups
<1>. USE DEF NPInv
<1>0. TickOK' /\ np_managers' \subseteq PoolGroups
  BY Zenon DEF NP!add, TickOK, RestOK
<1>1. CASE UNCHANGED <<np_pool, np_mgr>>
  BY <1>0, <1>1, Zenon DEF PoolOK, MgrOK, Counts, GroupsOf
<1>2. CASE /\ n \notin np_mgr[g].nodes
           /\ np_mgr' = [np_mgr EXCEPT ![g] = NP!Add(np_mgr[g], n)]
           /\ np_pool' = [np_pool EXCEPT ![n] =
                           NP!Register(IF np_pool[n].refCnt > 0 THEN np_pool[n] ELSE NP!NewNode, g)]
  <2>. DEFINE r == IF np_pool[n].refCnt > 0 THEN np_pool[n] ELSE NP!NewNode
  <2>1. np_mgr[g] \in NP!Manager /\ np_pool[n] \in NP!Node
    BY Zenon DEF MgrOK, PoolOK
  <2>2. NP!Add(np_mgr[g], n) \in NP!Manager /\ NP!Add(np_mgr[g], n).nodes = np_mgr[g].nodes \cup {n}
    BY <2>1, AddType, Zenon
  <2>3. GroupsOf(n) \in SUBSET PoolGroups /\ g \notin GroupsOf(n)
    BY <1>2, ZenonT(60) DEF GroupsOf
  <2>4. IsFiniteSet(GroupsOf(n)) /\ Cardinality(GroupsOf(n)) \in Nat
    BY <2>3, GroupsAreFinite, Zenon
  <2>5. Cardinality(GroupsOf(n) \cup {g}) = Cardinality(GroupsOf(n)) + 1
    BY <2>3, <2>4, FiniteAdd, Zenon
  <2>6. np_pool[n].refCnt = Cardinality(GroupsOf(n)) /\ np_pool[n].monitors = GroupsOf(n)
    BY Zenon DEF Counts
  <2>7. r \in NP!Node /\ r.refCnt = Cardinality(GroupsOf(n)) /\ r.monitors = GroupsOf(n)
    <3>1. CASE np_pool[n].refCnt > 0
      BY <3>1, <2>1, <2>6, ZenonT(60)
    <3>2. CASE ~(np_pool[n].refCnt > 0)
      <4>1. Cardinality(GroupsOf(n)) = 0
        BY ONLY <3>2, <2>4, <2>6, SMTT(60)
      <4>2. GroupsOf(n) = {}
        BY <4>1, <2>4, FiniteEmpty, Zenon
      <4>3. r = NP!NewNode
        BY <3>2, ZenonT(60)
      <4>. QED
        BY <4>1, <4>2, <4>3, NodeTypes, Zenon
    <3>. QED
      BY <3>1, <3>2, Zenon
  <2>. HIDE DEF r
  <2>8. /\ NP!Register(r, g) \in NP!Node /\ NP!Register(r, g).refCnt = r.refCnt + 1
        /\ NP!Register(r, g).monitors = r.monitors \cup {g}
    BY <2>7, RegisterType, ZenonT(60)
  <2>9. np_pool' = [np_pool EXCEPT ![n] = NP!Register(r, g)]
    BY <1>2, ZenonT(60) DEF r
  <2>10. PoolOK' /\ \A k \in PoolNodes : np_pool'[k] = IF k = n THEN NP!Register(r, g) ELSE np_pool[k]
    BY <2>8, <2>9, Zenon DEF PoolOK
  <2>11. MgrOK' /\ \A h \in PoolGroups : np_mgr'[h] = IF h = g THEN NP!Add(np_mgr[g], n) ELSE np_mgr[h]
    BY <1>2, <2>2, Zenon DEF MgrOK
  <2>12. GroupsOf(n)' = GroupsOf(n) \cup {g}
    BY <2>2, <2>11, Zenon DEF GroupsOf
  <2>13. \A k \in PoolNodes \ {n} : GroupsOf(k)' = GroupsOf(k)
    BY <2>2, <2>11, SMTT(60) DEF GroupsOf
  <2>14. Counts'
    <3>. SUFFICES ASSUME NEW k \in PoolNodes
                  PROVE  /\ np_pool'[k].refCnt = Cardinality(GroupsOf(k)')
                         /\ np_pool'[k].monitors = GroupsOf(k)'
      BY Zenon DEF Counts
    <3>1. CASE k = n
      BY <3>1, <2>5, <2>7, <2>8, <2>10, <2>12, Zenon
    <3>2. CASE k # n
      BY <3>2, <2>10, <2>13, Zenon DEF Counts
    <3>. QED
      BY <3>1, <3>2, Zenon
  <2>. QED
    BY <1>0, <2>10, <2>11, <2>14, Zenon
<1>. QED
  BY <1>1, <1>2, Zenon DEF NP!add

\* nodePool.del.
LEMMA NPdel ==
  ASSUME FiniteFacts, NPInv, NEW g \in PoolGroups, NEW n \in PoolNodes, NP!del(g, n)
  PROVE  PoolOK' /\ MgrOK' /\ TickOK' /\ Counts' /\ np_managers' \subseteq PoolGroups
<1>. USE DEF NPInv
<1>. DEFINE in == n \in np_mgr[g].nodes
            m == IF in THEN NP!Remove(np_mgr[g], n) ELSE np_mgr[g]
            gone == m.nodes = {}
            M == IF gone THEN NP!NewManager ELSE m
<1>1. /\ np_pool' = IF in THEN [np_pool EXCEPT ![n] = NP!Deregister(np_pool[n], g)] ELSE np_pool
      /\ np_managers' = IF gone THEN np_managers \ {g} ELSE np_managers
      /\ np_mgr' = [np_mgr EXCEPT ![g] = M]
      /\ np_tick' = IF gone
                    THEN [k \in PoolNodes |->
                            IF np_tick[k].at = g
                            THEN [pc |-> "report", todo |-> np_tick[k].todo, at |-> None]
                            ELSE [np_tick[k] EXCEPT !.todo = @ \ {g}]]
                    ELSE np_tick
  BY Zenon DEF NP!del
<1>2. np_managers' \subseteq PoolGroups
  BY <1>1, Zenon DEF RestOK
<1>3. np_mgr[g] \in NP!Manager /\ np_pool[n] \in NP!Node
  BY Zenon DEF MgrOK, PoolOK
<1>4. m \in NP!Manager /\ m.nodes = np_mgr[g].nodes \ {n}
  <2>1. CASE in
    BY <2>1, <1>3, RemoveType, Zenon
  <2>2. CASE ~in
    <3>1. m = np_mgr[g]
      BY <2>2, Zenon
    <3>2. np_mgr[g].nodes = np_mgr[g].nodes \ {n}
      BY <2>2, SMTT(60)
    <3>. QED
      BY <1>3, <3>1, <3>2, Zenon
  <2>. QED
    BY <2>1, <2>2, Zenon
<1>5. M \in NP!Manager /\ M.nodes = np_mgr[g].nodes \ {n}
  <2>1. NP!NewManager \in NP!Manager /\ NP!NewManager.nodes = {}
    BY NewManagerType, Zenon
  <2>. HIDE DEF m
  <2>. QED
    BY <1>4, <2>1, Zenon
<1>6. TickOK'
  <2>. HIDE DEF gone
  <2>1. CASE ~gone
    BY <1>1, <2>1, Zenon DEF TickOK
  <2>2. CASE gone
    <3>1. ASSUME NEW k \in PoolNodes
          PROVE  /\ [pc |-> "report", todo |-> np_tick[k].todo, at |-> None] \in NP!Goroutine
                 /\ [np_tick[k] EXCEPT !.todo = @ \ {g}] \in NP!Goroutine
      <4>1. np_tick[k] \in NP!Goroutine
        BY Zenon DEF TickOK
      <4>. QED
        BY <4>1, SMTT(60) DEF NP!Goroutine
    <3>. QED
      BY <1>1, <2>2, <3>1, Zenon DEF TickOK
  <2>. QED
    BY <2>1, <2>2, ZenonT(60)
<1>. HIDE DEF M, gone, m
<1>7. MgrOK' /\ \A h \in PoolGroups : np_mgr'[h] = IF h = g THEN M ELSE np_mgr[h]
  BY <1>1, <1>5, Zenon DEF MgrOK
<1>8. GroupsOf(n)' = GroupsOf(n) \ {g}
  BY <1>5, <1>7, SMTT(60) DEF GroupsOf
<1>9. \A k \in PoolNodes \ {n} : GroupsOf(k)' = GroupsOf(k)
  BY <1>5, <1>7, SMTT(60) DEF GroupsOf
<1>10. GroupsOf(n) \in SUBSET PoolGroups /\ (in <=> g \in GroupsOf(n))
  BY Zenon DEF GroupsOf
<1>11. IsFiniteSet(GroupsOf(n)) /\ Cardinality(GroupsOf(n)) \in Nat
  BY <1>10, GroupsAreFinite, Zenon
<1>12. np_pool[n].refCnt = Cardinality(GroupsOf(n)) /\ np_pool[n].monitors = GroupsOf(n)
  BY Zenon DEF Counts
<1>13. CASE ~in
  <2>1. GroupsOf(n)' = GroupsOf(n)
    BY <1>8, <1>10, <1>13, SMTT(60)
  <2>2. np_pool' = np_pool
    BY <1>1, <1>13, Zenon
  <2>3. Counts'
    BY <1>9, <2>1, <2>2, Zenon DEF Counts
  <2>. QED
    BY <1>2, <1>6, <1>7, <2>2, <2>3, Zenon DEF PoolOK
<1>14. CASE in
  <2>. DEFINE d == NP!Deregister(np_pool[n], g)
  <2>1. Cardinality(GroupsOf(n) \ {g}) = Cardinality(GroupsOf(n)) - 1 /\ IsFiniteSet(GroupsOf(n) \ {g})
    BY <1>10, <1>11, <1>14, FiniteRemove, Zenon
  <2>2. d \in NP!Node
    BY <1>3, DeregisterType, Zenon
  <2>3. d.refCnt = Cardinality(GroupsOf(n) \ {g}) /\ d.monitors = GroupsOf(n) \ {g}
    <3>1. CASE np_pool[n].refCnt > 1
      BY <3>1, <1>3, <1>12, <2>1, DeregisterType, Zenon
    <3>2. CASE ~(np_pool[n].refCnt > 1)
      <4>1. d = NP!NoNode
        BY <3>2, <1>3, DeregisterType, Zenon
      <4>2. Cardinality(GroupsOf(n)) # 0
        BY <1>10, <1>11, <1>14, FiniteEmpty, Zenon
      <4>3. Cardinality(GroupsOf(n) \ {g}) = 0
        BY ONLY <3>2, <1>11, <1>12, <4>2, <2>1, SMTT(60)
      <4>4. GroupsOf(n) \ {g} = {}
        BY <4>3, <2>1, FiniteEmpty, Zenon
      <4>. QED
        BY <4>1, <4>3, <4>4, NodeTypes, Zenon
    <3>. QED
      BY <3>1, <3>2, Zenon
  <2>. HIDE DEF d
  <2>4. np_pool' = [np_pool EXCEPT ![n] = d]
    BY <1>1, <1>14, Zenon DEF d
  <2>5. PoolOK' /\ \A k \in PoolNodes : np_pool'[k] = IF k = n THEN d ELSE np_pool[k]
    BY <2>2, <2>4, Zenon DEF PoolOK
  <2>6. Counts'
    <3>. SUFFICES ASSUME NEW k \in PoolNodes
                  PROVE  /\ np_pool'[k].refCnt = Cardinality(GroupsOf(k)')
                         /\ np_pool'[k].monitors = GroupsOf(k)'
      BY Zenon DEF Counts
    <3>1. CASE k = n
      BY <3>1, <1>8, <2>3, <2>5, Zenon
    <3>2. CASE k # n
      BY <3>2, <1>9, <2>5, Zenon DEF Counts
    <3>. QED
      BY <3>1, <3>2, Zenon
  <2>. QED
    BY <1>2, <1>6, <1>7, <2>5, <2>6, Zenon
<1>. QED
  BY <1>13, <1>14, Zenon

\* The groups and the nodes that a start of the server builds from a list.
Built(mgr, pool, f) ==
  /\ mgr = [g \in PoolGroups |-> [NP!NewManager EXCEPT !.nodes = f[g], !.ring = f[g]]]
  /\ pool = [n \in PoolNodes |->
               LET gs == {g \in PoolGroups : n \in f[g]}
               IN  IF gs = {} THEN NP!NoNode
                   ELSE [NP!NewNode EXCEPT !.monitors = gs, !.refCnt = NP!Cardinality(gs)]]

BuiltRight(mgr, pool) ==
  /\ mgr \in [PoolGroups -> NP!Manager] /\ pool \in [PoolNodes -> NP!Node]
  /\ \A n \in PoolNodes : /\ pool[n].refCnt = Cardinality({g \in PoolGroups : n \in mgr[g].nodes})
                           /\ pool[n].monitors = {g \in PoolGroups : n \in mgr[g].nodes}

LEMMA StartupBuilds ==
  ASSUME FiniteFacts, NEW mgr, NEW pool, NEW f \in [PoolGroups -> SUBSET PoolNodes], Built(mgr, pool, f)
  PROVE  BuiltRight(mgr, pool)
<1>. DEFINE gs(n) == {g \in PoolGroups : n \in f[g]}
            new(n) == [NP!NewNode EXCEPT !.monitors = gs(n), !.refCnt = Cardinality(gs(n))]
            node(n) == IF gs(n) = {} THEN NP!NoNode ELSE new(n)
<1>1. \A g \in PoolGroups : mgr[g] \in NP!Manager /\ mgr[g].nodes = f[g]
  BY NewManagerType, Zenon DEF Built
<1>2. \A n \in PoolNodes : gs(n) = {g \in PoolGroups : n \in mgr[g].nodes}
  BY <1>1, SMTT(60)
<1>3. ASSUME NEW n \in PoolNodes
      PROVE  node(n) \in NP!Node /\ node(n).refCnt = Cardinality(gs(n)) /\ node(n).monitors = gs(n)
  <2>1. gs(n) \in SUBSET PoolGroups /\ Cardinality(gs(n)) \in Nat
    BY GroupsAreFinite, Zenon
  <2>. HIDE DEF gs
  <2>2. new(n) \in NP!Node /\ new(n).refCnt = Cardinality(gs(n)) /\ new(n).monitors = gs(n)
    BY <2>1, NodeTypes, Zenon DEF NP!Node
  <2>. HIDE DEF new
  <2>. QED
    BY <2>2, NodeTypes, FiniteEmpty, Zenon
<1>4. pool = [n \in PoolNodes |-> node(n)]
  BY Zenon DEF Built, NP!Cardinality, Cardinality
<1>. HIDE DEF node
<1>5. \A n \in PoolNodes : pool[n] = node(n)
  BY <1>4, Zenon
<1>6. mgr \in [PoolGroups -> NP!Manager]
  BY <1>1, Zenon DEF Built
<1>7. pool \in [PoolNodes -> NP!Node]
  BY <1>3, <1>4, Zenon
<1>. HIDE DEF gs
<1>8. ASSUME NEW n \in PoolNodes
      PROVE  /\ pool[n].refCnt = Cardinality({g \in PoolGroups : n \in mgr[g].nodes})
             /\ pool[n].monitors = {g \in PoolGroups : n \in mgr[g].nodes}
  BY <1>2, <1>3, <1>5, Zenon
<1>. QED
  BY <1>6, <1>7, <1>8, Zenon DEF BuiltRight

LEMMA NPInit == FiniteFacts /\ NP!Init => NPInv
<1>. SUFFICES ASSUME FiniteFacts, NP!Init PROVE NPInv
  OBVIOUS
<1>1. Built(np_mgr, np_pool, PoolConf)
  BY Zenon DEF NP!Init, Built
<1>2. BuiltRight(np_mgr, np_pool)
  BY <1>1, PoolAssumption, StartupBuilds, Zenon
<1>3. PoolOK /\ MgrOK /\ Counts
  BY <1>2, Zenon DEF BuiltRight, PoolOK, MgrOK, Counts, GroupsOf
<1>4. np_tick = [n \in PoolNodes |-> NP!Idle] /\ NP!Idle \in NP!Goroutine
  BY GoroutineType, Zenon DEF NP!Init, NP!Idle
<1>5. /\ np_ops = 0 /\ np_head = [n \in PoolNodes |-> 0]
      /\ np_cond = [n \in PoolNodes |-> "ok"] /\ np_saved = [g \in PoolGroups |-> None]
      /\ np_managers \subseteq PoolGroups
  BY Zenon DEF NP!Init
<1>6. RestOK
  <2>1. np_ops \in 0 .. MaxOps /\ np_head \in [PoolNodes -> 0 .. MaxHead]
    BY <1>5, PoolAssumption, SMTT(60)
  <2>2. np_cond \in [PoolNodes -> {"ok", "slow", "down"}]
    BY <1>5, Zenon
  <2>3. np_saved \in [PoolGroups -> (SUBSET PoolNodes) \cup {None}]
    BY <1>5, Zenon
  <2>. QED
    BY <1>5, <2>1, <2>2, <2>3, Zenon DEF RestOK
<1>. QED
  BY <1>3, <1>4, <1>6, Zenon DEF NPInv, TickOK

LEMMA OpCounts ==
  ASSUME RestOK, NP!Op
  PROVE  np_ops' \in 0 .. MaxOps
<1>1. np_ops \in 0 .. MaxOps /\ np_ops < MaxOps /\ np_ops' = np_ops + 1
  BY Zenon DEF RestOK, NP!Op
<1>. QED
  BY ONLY <1>1, PoolAssumption, SMTT(60)

LEMMA NPRestart == FiniteFacts /\ NPInv /\ NP!Restart => NPInv'
<1>. SUFFICES ASSUME FiniteFacts, NPInv, NP!Restart PROVE NPInv'
  OBVIOUS
<1>. DEFINE f == [g \in PoolGroups |-> IF np_saved[g] = None THEN PoolConf[g] ELSE np_saved[g]]
<1>1. f \in [PoolGroups -> SUBSET PoolNodes]
  <2>1. \A g \in PoolGroups : PoolConf[g] \in SUBSET PoolNodes /\ np_saved[g] \in (SUBSET PoolNodes) \cup {None}
    BY PoolAssumption, Zenon DEF NPInv, RestOK
  <2>2. \A g \in PoolGroups : (IF np_saved[g] = None THEN PoolConf[g] ELSE np_saved[g]) \in SUBSET PoolNodes
    BY <2>1, Zenon
  <2>. QED
    BY <2>2, Zenon
<1>2. \A g \in PoolGroups : f[g] = IF np_saved[g] = None THEN PoolConf[g] ELSE np_saved[g]
  BY ZenonT(60)
<1>. HIDE DEF f
<1>3. Built(np_mgr', np_pool', f)
  BY <1>2, Zenon DEF NP!Restart, NP!Startup, Built
<1>4. BuiltRight(np_mgr', np_pool')
  BY <1>1, <1>3, StartupBuilds, Zenon
<1>5. (PoolOK /\ MgrOK /\ Counts)'
  BY <1>4, Zenon DEF BuiltRight, PoolOK, MgrOK, Counts, GroupsOf
<1>6. np_tick' = [n \in PoolNodes |-> NP!Idle] /\ NP!Idle \in NP!Goroutine
  BY GoroutineType, Zenon DEF NP!Restart, NP!Idle
<1>7. np_managers' \subseteq PoolGroups
  BY Zenon DEF NP!Restart, NP!Startup
<1>8. np_ops' \in 0 .. MaxOps
  BY OpCounts, Zenon DEF NPInv, NP!Restart
<1>9. RestOK'
  BY <1>7, <1>8, Zenon DEF NP!Restart, NPInv, RestOK
<1>. QED
  BY <1>5, <1>6, <1>9, Zenon DEF NPInv, TickOK

\* The requests of the management API.
LEMMA NPRequests ==
  ASSUME FiniteFacts, NPInv, NEW g \in PoolGroups, NEW n \in PoolNodes,
         \/ \E save \in BOOLEAN : NP!addGroupNode(g, n, save) \/ NP!delGroupNode(g, n, save)
         \/ NP!addGroupNodeFails(g, n) \/ NP!addGroupNodeReverted(g, n) \/ NP!addFails(g, n)
  PROVE  NPInv'
<1>. USE DEF NPInv
<1>n. np_mgr[g].nodes \in SUBSET PoolNodes
  BY DEF MgrOK, NP!Manager
<1>1. ASSUME NEW save \in BOOLEAN, NP!addGroupNode(g, n, save)
      PROVE  NPInv'
  <2>1. (PoolOK /\ MgrOK /\ TickOK /\ Counts)' /\ np_managers' \subseteq PoolGroups
    BY <1>1, NPadd, Zenon DEF NP!addGroupNode
  <2>2. np_ops' \in 0 .. MaxOps
    BY <1>1, OpCounts, Zenon DEF NP!addGroupNode
  <2>3. np_saved' \in [PoolGroups -> (SUBSET PoolNodes) \cup {None}]
    <3>1. UNCHANGED np_saved \/ np_saved' = [np_saved EXCEPT ![g] = np_mgr[g].nodes \cup {n}]
      BY <1>1, Zenon DEF NP!addGroupNode
    <3>. QED
      BY <1>n, <3>1, SMTT(60) DEF RestOK
  <2>. QED
    BY <1>1, <2>1, <2>2, <2>3, Zenon DEF NP!addGroupNode, RestOK
<1>2. ASSUME NEW save \in BOOLEAN, NP!delGroupNode(g, n, save)
      PROVE  NPInv'
  <2>1. (PoolOK /\ MgrOK /\ TickOK /\ Counts)' /\ np_managers' \subseteq PoolGroups
    BY <1>2, NPdel, Zenon DEF NP!delGroupNode
  <2>2. np_ops' \in 0 .. MaxOps
    BY <1>2, OpCounts, Zenon DEF NP!delGroupNode
  <2>3. np_saved' \in [PoolGroups -> (SUBSET PoolNodes) \cup {None}]
    <3>1. \/ UNCHANGED np_saved \/ np_saved' = [np_saved EXCEPT ![g] = None]
          \/ np_saved' = [np_saved EXCEPT ![g] = np_mgr[g].nodes \ {n}]
      BY <1>2, Zenon DEF NP!delGroupNode
    <3>2. np_mgr[g].nodes \ {n} \in SUBSET PoolNodes
      BY <1>n, Zenon
    <3>. QED
      BY <3>1, <3>2, Zenon DEF RestOK
  <2>. QED
    BY <1>2, <2>1, <2>2, <2>3, Zenon DEF NP!delGroupNode, RestOK
<1>3. CASE NP!addGroupNodeFails(g, n)
  <2>1. (PoolOK /\ MgrOK /\ TickOK /\ Counts)' /\ np_managers' \subseteq PoolGroups
    BY <1>3, NPdel, Zenon DEF NP!addGroupNodeFails
  <2>2. np_ops' \in 0 .. MaxOps
    BY <1>3, OpCounts, Zenon DEF NP!addGroupNodeFails
  <2>. QED
    BY <1>3, <2>1, <2>2, Zenon DEF NP!addGroupNodeFails, RestOK
<1>4. CASE NP!addGroupNodeReverted(g, n)
  <2>0. UNCHANGED <<np_cond, np_head, np_mgr, np_tick, np_saved>>
        /\ np_managers' \subseteq PoolGroups /\ np_pool' = [np_pool EXCEPT ![n].running = FALSE]
    BY <1>4, Zenon DEF NP!addGroupNodeReverted, RestOK
  <2>1. np_ops' \in 0 .. MaxOps
    BY <1>4, OpCounts, Zenon DEF NP!addGroupNodeReverted
  <2>2. PoolOK' /\ \A k \in PoolNodes : /\ np_pool'[k].refCnt = np_pool[k].refCnt
                                         /\ np_pool'[k].monitors = np_pool[k].monitors
    BY <2>0, ZenonT(60) DEF PoolOK, NP!Node
  <2>3. Counts'
    BY <2>0, <2>2, KeepCounts, Zenon
  <2>. QED
    BY <2>0, <2>1, <2>2, <2>3, Zenon DEF RestOK, MgrOK, TickOK
<1>5. CASE NP!addFails(g, n)
  <2>0. UNCHANGED <<np_cond, np_head, np_pool, np_mgr, np_tick, np_saved>> /\ np_managers' \subseteq PoolGroups
    BY <1>5, Zenon DEF NP!addFails, RestOK
  <2>1. np_ops' \in 0 .. MaxOps
    BY <1>5, OpCounts, Zenon DEF NP!addFails
  <2>. QED
    BY <2>0, <2>1, Zenon DEF RestOK, MgrOK, TickOK, PoolOK, Counts, GroupsOf
<1>. QED
  BY <1>1, <1>2, <1>3, <1>4, <1>5, Zenon

\* A report of a node to the manager of a group leaves the nodes of the group
\* alone.
LEMMA Reporting ==
  ASSUME NPInv, NEW g \in PoolGroups, NEW n \in PoolNodes, NEW m \in NP!Manager,
         m.nodes = np_mgr[g].nodes, np_mgr' = [np_mgr EXCEPT ![g] = m],
         TickOK', UNCHANGED <<np_cond, np_head, np_pool, np_managers, np_saved, np_ops>>
  PROVE  NPInv'
<1>. USE DEF NPInv
<1>1. MgrOK' /\ \A h \in PoolGroups : np_mgr'[h] = IF h = g THEN m ELSE np_mgr[h]
  BY Zenon DEF MgrOK
<1>2. Counts'
  BY <1>1, KeepCounts, Zenon
<1>. QED
  BY <1>1, <1>2, Zenon DEF RestOK, PoolOK

LEMMA ReportedType ==
  ASSUME TickOK, NEW g \in PoolGroups, NEW n \in PoolNodes,
         NEW p \in {"report", "ringAdd", "ringRemove"}, NP!Reported(n, g, p)
  PROVE  TickOK'
<1>1. np_tick[n] \in NP!Goroutine
  BY Zenon DEF TickOK
<1>2. np_tick[n].todo \ {g} \in SUBSET PoolGroups
  BY <1>1, SMTT(60) DEF NP!Goroutine
<1>3. [pc |-> p, todo |-> np_tick[n].todo \ {g}, at |-> IF p = "report" THEN None ELSE g] \in NP!Goroutine
  BY <1>2, GoroutineType, Zenon
<1>. QED
  BY <1>3, Zenon DEF TickOK, NP!Reported

LEMMA NPReports ==
  ASSUME FiniteFacts, NPInv, NEW g \in PoolGroups, NEW n \in PoolNodes,
         \/ NP!ReportsEpoch(n, g) \/ NP!BecomesUnhealthy(n, g) \/ NP!Remind(n, g)
         \/ NP!ReportHealthy(n, g) \/ NP!NothingToReport(n, g)
  PROVE  NPInv'
<1>. USE DEF NPInv
<1>m. np_mgr[g] \in NP!Manager /\ NP!TypeOK
  BY NPParts, Zenon DEF MgrOK
<1>1. CASE NP!ReportsEpoch(n, g)
  <2>1. TickOK'
    BY <1>1, ReportedType, Zenon DEF NP!ReportsEpoch
  <2>2. np_mgr' = [np_mgr EXCEPT ![g] = NP!ReportEpoch(np_mgr[g], n)]
        /\ UNCHANGED <<np_cond, np_head, np_pool, np_managers, np_saved, np_ops>>
    BY <1>1, Zenon DEF NP!ReportsEpoch
  <2>3. NP!ReportEpoch(np_mgr[g], n) \in NP!Manager /\ NP!ReportEpoch(np_mgr[g], n).nodes = np_mgr[g].nodes
    BY <1>m, ReportTypes, Zenon
  <2>. HIDE DEF NPInv
  <2>. QED
    BY <2>1, <2>2, <2>3, Reporting, Zenon
<1>2. CASE NP!BecomesUnhealthy(n, g) \/ NP!Remind(n, g)
  <2>0. NP!ReportUnhealthy(n, g)
    BY <1>2, Zenon DEF NP!BecomesUnhealthy, NP!Remind
  <2>1. TickOK'
    BY <2>0, ReportedType, Zenon DEF NP!ReportUnhealthy
  <2>2. np_mgr' = [np_mgr EXCEPT ![g] = NP!updateUnhealthy(np_mgr[g], n)]
        /\ UNCHANGED <<np_cond, np_head, np_pool, np_managers, np_saved, np_ops>>
    BY <2>0, Zenon DEF NP!ReportUnhealthy
  <2>3. NP!updateUnhealthy(np_mgr[g], n) \in NP!Manager /\ NP!updateUnhealthy(np_mgr[g], n).nodes = np_mgr[g].nodes
    BY <1>m, ReportTypes, Zenon
  <2>. HIDE DEF NPInv
  <2>. QED
    BY <2>1, <2>2, <2>3, Reporting, Zenon
<1>3. CASE NP!ReportHealthy(n, g) \/ NP!NothingToReport(n, g)
  <2>0. UNCHANGED <<np_cond, np_head, np_pool, np_managers, np_mgr, np_saved, np_ops>>
    BY <1>3, Zenon DEF NP!ReportHealthy, NP!NothingToReport
  <2>1. NP!Reported(n, g, "ringAdd") \/ NP!Reported(n, g, "report")
    BY <1>3, Zenon DEF NP!ReportHealthy, NP!NothingToReport
  <2>2. TickOK'
    BY <2>1, ReportedType, Zenon
  <2>. QED
    BY <2>0, <2>2, Zenon DEF RestOK, PoolOK, MgrOK, Counts, GroupsOf
<1>. QED
  BY <1>1, <1>2, <1>3, Zenon

LEMMA NPMonitor ==
  ASSUME NPInv, NEW n \in PoolNodes,
         \/ NP!Tick(n) \/ NP!TickEnd(n) \/ NP!ChangeRing(n) \/ NP!Advance(n)
         \/ \E c \in {"ok", "slow", "down"} : NP!Change(n, c)
  PROVE  NPInv'
<1>. USE DEF NPInv
<1>1. CASE NP!Tick(n)
  <2>0. UNCHANGED <<np_cond, np_head, np_managers, np_mgr, np_saved, np_ops>>
        /\ np_pool' = [np_pool EXCEPT ![n] = NP!heartbeat(np_pool[n], n)]
        /\ np_tick' = [np_tick EXCEPT ![n] = [pc |-> "report", todo |-> np_pool[n].monitors, at |-> None]]
    BY <1>1, Zenon DEF NP!Tick
  <2>1. np_pool[n] \in NP!Node /\ NP!TypeOK
    BY NPParts, Zenon DEF PoolOK
  <2>2. /\ NP!heartbeat(np_pool[n], n) \in NP!Node /\ NP!heartbeat(np_pool[n], n).refCnt = np_pool[n].refCnt
        /\ NP!heartbeat(np_pool[n], n).monitors = np_pool[n].monitors
    BY <2>1, HeartbeatType, Zenon
  <2>3. PoolOK' /\ \A k \in PoolNodes : np_pool'[k] = IF k = n THEN NP!heartbeat(np_pool[n], n) ELSE np_pool[k]
    BY <2>0, <2>2, Zenon DEF PoolOK
  <2>4. Counts'
    BY <2>0, <2>2, <2>3, KeepCounts, ZenonT(60)
  <2>5. np_pool[n].monitors \in SUBSET PoolGroups
    BY <2>1 DEF NP!Node
  <2>6. TickOK'
    BY <2>0, <2>5, GoroutineType, Zenon DEF TickOK
  <2>. QED
    BY <2>0, <2>3, <2>4, <2>6, Zenon DEF RestOK, MgrOK
<1>2. CASE NP!TickEnd(n)
  <2>0. UNCHANGED <<np_cond, np_head, np_pool, np_managers, np_mgr, np_saved, np_ops>>
        /\ np_tick' = [np_tick EXCEPT ![n] = NP!Idle]
    BY <1>2, Zenon DEF NP!TickEnd
  <2>1. NP!Idle \in NP!Goroutine
    BY GoroutineType, Zenon DEF NP!Idle
  <2>2. TickOK'
    BY <2>0, <2>1, Zenon DEF TickOK
  <2>. QED
    BY <2>0, <2>2, Zenon DEF RestOK, PoolOK, MgrOK, Counts, GroupsOf
<1>3. CASE NP!ChangeRing(n)
  <2>0. UNCHANGED <<np_cond, np_head, np_pool, np_managers, np_saved, np_ops>>
        /\ np_tick' = [np_tick EXCEPT ![n].pc = "report", ![n].at = None]
    BY <1>3, Zenon DEF NP!ChangeRing
  <2>1. \E rs : np_mgr' = [np_mgr EXCEPT ![np_tick[n].at].ring = rs]
               /\ (np_tick[n].at \in PoolGroups => rs \in SUBSET PoolNodes)
    <3>. DEFINE rs == IF np_tick[n].pc = "ringAdd" THEN np_mgr[np_tick[n].at].ring \cup {n}
                      ELSE np_mgr[np_tick[n].at].ring \ {n}
    <3>1. np_mgr' = [np_mgr EXCEPT ![np_tick[n].at].ring = rs]
      BY <1>3, SMTT(60) DEF NP!ChangeRing
    <3>2. np_tick[n].at \in PoolGroups => rs \in SUBSET PoolNodes
      BY DEF MgrOK, NP!Manager
    <3>. QED
      BY <3>1, <3>2, Zenon
  <2>2. MgrOK' /\ \A h \in PoolGroups : np_mgr'[h].nodes = np_mgr[h].nodes
    <3>. DEFINE a == np_tick[n].at
    <3>1. PICK rs : /\ np_mgr' = [np_mgr EXCEPT ![a].ring = rs]
                    /\ a \in PoolGroups => rs \in SUBSET PoolNodes
      BY <2>1, Zenon
    <3>. HIDE DEF a
    <3>2. CASE a \in PoolGroups
      <4>. DEFINE m == [np_mgr[a] EXCEPT !.ring = rs]
      <4>1. np_mgr[a] \in NP!Manager
        BY <3>2, Zenon DEF MgrOK
      <4>2. m \in NP!Manager /\ m.nodes = np_mgr[a].nodes
        BY <3>1, <3>2, <4>1, SMTT(60) DEF NP!Manager
      <4>3. np_mgr' = [np_mgr EXCEPT ![a] = m]
        BY <3>1, Zenon
      <4>. HIDE DEF m
      <4>. QED
        BY <4>2, <4>3, Zenon DEF MgrOK
    <3>3. CASE a \notin PoolGroups
      <4>1. np_mgr' \in [PoolGroups -> NP!Manager] /\ \A h \in PoolGroups : np_mgr'[h] = np_mgr[h]
        BY <3>1, <3>3, Zenon DEF MgrOK
      <4>. QED
        BY <4>1, Zenon DEF MgrOK
    <3>. QED
      BY <3>2, <3>3, Zenon
  <2>3. Counts'
    BY <2>0, <2>2, KeepCounts, Zenon
  <2>4. TickOK'
    BY <2>0, ZenonT(60) DEF TickOK, NP!Goroutine
  <2>. QED
    BY <2>0, <2>2, <2>3, <2>4, Zenon DEF RestOK, PoolOK
<1>4. CASE NP!Advance(n)
  <2>0. UNCHANGED <<np_cond, np_pool, np_managers, np_mgr, np_tick, np_saved>>
        /\ np_head[n] < MaxHead /\ np_head' = [np_head EXCEPT ![n] = np_head[n] + 1]
    BY <1>4, Zenon DEF NP!Advance
  <2>1. np_head[n] + 1 \in 0 .. MaxHead
    <3>1. np_head[n] \in 0 .. MaxHead
      BY Zenon DEF RestOK
    <3>. QED
      BY ONLY <2>0, <3>1, PoolAssumption, SMTT(60)
  <2>2. np_ops' \in 0 .. MaxOps
    BY <1>4, OpCounts, Zenon DEF NP!Advance
  <2>3. np_head' \in [PoolNodes -> 0 .. MaxHead]
    BY <2>0, <2>1, Zenon DEF RestOK
  <2>4. RestOK' /\ PoolOK'
    BY <2>0, <2>2, <2>3, Zenon DEF RestOK, PoolOK
  <2>5. MgrOK' /\ TickOK' /\ Counts'
    BY <2>0, Zenon DEF MgrOK, TickOK, Counts, GroupsOf
  <2>. QED
    BY <2>4, <2>5, Zenon
<1>5. ASSUME NEW c \in {"ok", "slow", "down"}, NP!Change(n, c)
      PROVE  NPInv'
  <2>0. UNCHANGED <<np_head, np_pool, np_managers, np_mgr, np_tick, np_saved>>
        /\ np_cond' = [np_cond EXCEPT ![n] = c]
    BY <1>5, Zenon DEF NP!Change
  <2>1. np_ops' \in 0 .. MaxOps
    BY <1>5, OpCounts, Zenon DEF NP!Change
  <2>2. np_cond' \in [PoolNodes -> {"ok", "slow", "down"}]
    BY <2>0, <1>5, Zenon DEF RestOK
  <2>3. RestOK' /\ PoolOK'
    BY <2>0, <2>1, <2>2, Zenon DEF RestOK, PoolOK
  <2>4. MgrOK' /\ TickOK' /\ Counts'
    BY <2>0, Zenon DEF MgrOK, TickOK, Counts, GroupsOf
  <2>. QED
    BY <2>3, <2>4, Zenon
<1>. QED
  BY <1>1, <1>2, <1>3, <1>4, <1>5, Zenon

LEMMA NPNext == FiniteFacts /\ NPInv /\ [NP!Next]_(NP!vars) => NPInv'
<1>. SUFFICES ASSUME FiniteFacts, NPInv, [NP!Next]_(NP!vars) PROVE NPInv'
  OBVIOUS
<1>1. CASE UNCHANGED NP!vars
  BY <1>1, Zenon DEF NP!vars, NPInv, RestOK, PoolOK, MgrOK, TickOK, Counts, GroupsOf
<1>2. CASE NP!Next
  BY <1>2, NPRequests, NPReports, NPMonitor, NPRestart, Zenon DEF NP!Next
<1>. QED
  BY <1>1, <1>2, Zenon

FT == INSTANCE FiniteSetTheorems

LEMMA FiniteFactsHold == FiniteFacts
<1>0. (\A S : FT!IsFiniteSet(S) <=> IsFiniteSet(S)) /\ (\A S : FT!Cardinality(S) = Cardinality(S))
  BY Zenon DEF FT!Cardinality, Cardinality, IsFiniteSet, FT!IsFiniteSet
<1>1. IsFiniteSet({}) /\ \A S : IsFiniteSet(S) => (Cardinality(S) = 0 <=> S = {})
  BY <1>0, FT!FS_EmptySet, Zenon
<1>2. \A S : IsFiniteSet(S) => Cardinality(S) \in Nat
  BY <1>0, FT!FS_CardinalityType, Zenon
<1>3. \A S : IsFiniteSet(S) => \A T \in SUBSET S : IsFiniteSet(T)
  BY <1>0, FT!FS_Subset, Zenon
<1>4. \A S, x : IsFiniteSet(S) =>
        /\ IsFiniteSet(S \cup {x})
        /\ x \notin S => Cardinality(S \cup {x}) = Cardinality(S) + 1
  BY <1>0, FT!FS_AddElement, Zenon
<1>5. \A S, x : IsFiniteSet(S) =>
        /\ IsFiniteSet(S \ {x})
        /\ x \in S => Cardinality(S \ {x}) = Cardinality(S) - 1
  BY <1>0, FT!FS_RemoveElement, Zenon
<1>6. ASSUME NEW T, T \subseteq Nat, T # {}
      PROVE  \E e \in T : \A d \in T : ~(d < e)
  <2>1. PICK e \in T : \A d \in T : ~(<<d, e>> \in FT!OpToRel(<, Nat))
    BY <1>6, FT!WFMin, FT!NatLessThanWellFounded, Zenon
  <2>2. \A d \in T : d < e => <<d, e>> \in FT!OpToRel(<, Nat)
    BY <1>6, ZenonT(60) DEF FT!OpToRel
  <2>. QED  BY <2>1, <2>2, Zenon
<1>. QED  BY <1>1, <1>2, <1>3, <1>4, <1>5, <1>6, Zenon DEF FiniteFacts

\* A full node counts the groups that share it and reports to each of them, for
\* any configuration of nodes and groups and all thresholds, whatever requests,
\* failed saves, heartbeats and restarts come in between (nodePool.add,
\* nodePool.del, MustNewServer).
THEOREM NodesAreCounted ==
  /\ NP!Spec => [](NP!TypeOK /\ NP!SharedNodesAreCounted)
  /\ ServicesSpec => []SharedNodesAreCounted
<1>1. NPInv => NP!TypeOK /\ NP!SharedNodesAreCounted
  BY NPParts, CountsAreShares, Zenon DEF NPInv
<1>2. NP!Spec => []NPInv
  <2>1. (NP!Init => NPInv) /\ (NPInv /\ [NP!Next]_(NP!vars) => NPInv')
    BY FiniteFactsHold, NPInit, NPNext, Zenon
  <2>. QED  BY <2>1, PTL DEF NP!Spec
<1>3. ServicesSpec => [](part = "pool" => NPInv)
  <2>1. ServicesInit => (part = "pool" => NPInv)
    BY FiniteFactsHold, NPInit, Zenon DEF ServicesInit
  <2>2. (part = "pool" => NPInv) /\ [ServicesNext]_<<part, npVars, trVars, kcVars>> => (part = "pool" => NPInv)'
    BY FiniteFactsHold, NPNext, Zenon DEF ServicesNext, Pool, Relay, Cache, NP!vars, npVars
  <2>. QED
    BY <2>1, <2>2, PTL DEF ServicesSpec
<1>. QED
  BY <1>1, <1>2, <1>3, PTL DEF SharedNodesAreCounted
=============================================================================
