--------------------------- MODULE GatewayProofs ----------------------------
(***************************************************************************)
(* What holds of the cached responses and of the routing for any number of *)
(* callers and nodes, any expiration and any quota.                        *)
(***************************************************************************)
EXTENDS Gateway, TLAPS

-----------------------------------------------------------------------------
(* The cached responses.                                                   *)

\* The time that a response to a call may be as old as.
Since(t) == IF t > Timeout THEN t - Timeout ELSE 0

\* A value, if it is one, is at least as new as what there was at time t.
AsOf(v, t) == v \in 0 .. MaxVersion => rc_at[t] <= v

\* The versions that were only ever grow, up to the one there is.
History ==
  /\ \A t \in 0 .. MaxTime : rc_at[t] <= rc_version
  /\ \A s, t \in 0 .. rc_now : s <= t => rc_at[s] <= rc_at[t]

StoreRec == [value : RC!Values, expireAt : Timeout .. rc_now + Timeout]
CallRec == [pc : {"get", "wait", "check", "store"}, cache : DOMAIN rc_store,
            time : 0 .. rc_now, value : RC!Values]
ResultRec == [value : RC!Values, time : 0 .. rc_now, loaded : BOOLEAN]

\* What is stored was so when the call that stored it began, or later.
Stored ==
  /\ rc_store \in [DOMAIN rc_store -> StoreRec \cup {None}]
  /\ rc_owner \in [DOMAIN rc_store -> CacheCallers \cup {None}]
  /\ \A x \in DOMAIN rc_store : rc_store[x] # None =>
       RC!Cached(rc_store[x].value) /\ AsOf(rc_store[x].value, rc_store[x].expireAt - Timeout)

\* What a call is about to store was so when it began, or later.
Calling ==
  /\ rc_call \in [CacheCallers -> CallRec \cup {None}]
  /\ \A c \in CacheCallers : rc_call[c] # None /\ rc_call[c].pc = "store" =>
       AsOf(rc_call[c].value, rc_call[c].time)

Answered ==
  /\ rc_result \in [CacheCallers -> ResultRec \cup {None}]
  /\ \A c \in CacheCallers : rc_result[c] # None =>
       AsOf(rc_result[c].value, Since(rc_result[c].time))
  /\ \A c \in CacheCallers : rc_result[c] # None /\ rc_result[c].loaded =>
       RC!Cached(rc_result[c].value)

\* The cache that the LRU holds for a key is there, and was made no later than
\* the entry's lifespan ago, one at a time.
Entries ==
  /\ rc_lru \in [RC!Keys -> [cache : DOMAIN rc_store, until : Nat]]
  /\ \A k \in RC!Keys : <<k, 0>> \in DOMAIN rc_store
  /\ \A k \in RC!Keys : \E i \in Nat :
       /\ rc_lru[k].cache = <<k, i>>
       /\ i + Timeout <= rc_lru[k].until /\ rc_lru[k].until <= rc_now + Timeout

Clock ==
  /\ rc_method \in RC!Methods /\ rc_now \in 0 .. MaxTime /\ rc_version \in 0 .. MaxVersion
  /\ rc_at \in [0 .. MaxTime -> 0 .. MaxVersion] /\ rc_failures \in 0 .. MaxFailures

RCInv == Clock /\ History /\ Stored /\ Calling /\ Answered /\ Entries

LEMMA RCInit == RC!Init => RCInv
<1>. SUFFICES ASSUME RC!Init PROVE RCInv
  OBVIOUS
<1>0. /\ rc_method \in RC!Methods /\ rc_now = 0 /\ rc_version = 0 /\ rc_failures = 0
      /\ rc_at = [t \in 0 .. MaxTime |-> 0]
  BY Zenon DEF RC!Init
<1>i. /\ rc_lru = [k \in RC!Keys |-> [cache |-> <<k, 0>>, until |-> Timeout]]
      /\ rc_store = [x \in {<<k, 0>> : k \in RC!Keys} |-> None]
      /\ rc_owner = [x \in {<<k, 0>> : k \in RC!Keys} |-> None]
      /\ rc_call = [c \in CacheCallers |-> None] /\ rc_result = [c \in CacheCallers |-> None]
  BY Zenon DEF RC!Init
<1>1. Clock
  BY <1>0, ResponsesAssumption, SMTT(60) DEF Clock
<1>2. History
  BY <1>0, ResponsesAssumption DEF History
<1>3. Stored /\ Calling /\ Answered
  BY <1>i, Zenon DEF Stored, Calling, Answered
<1>4. Entries
  <2>1. \A k \in RC!Keys : <<k, 0>> \in DOMAIN rc_store
    BY <1>i, Zenon
  <2>2. Timeout \in Nat /\ 0 \in Nat
    BY ResponsesAssumption, SMTT(60)
  <2>3. rc_lru \in [RC!Keys -> [cache : DOMAIN rc_store, until : Nat]]
    BY <1>i, <2>1, <2>2, SMTT(60)
  <2>4. \A k \in RC!Keys : rc_lru[k].cache = <<k, 0>> /\ rc_lru[k].until = Timeout
    BY <1>i
  <2>5. 0 + Timeout <= Timeout /\ Timeout <= rc_now + Timeout
    BY <1>0, ResponsesAssumption, SMTT(60)
  <2>. QED
    BY <2>1, <2>2, <2>3, <2>4, <2>5, Zenon DEF Entries
<1>. QED
  BY <1>1, <1>2, <1>3, <1>4, Zenon DEF RCInv

\* A call that goes on: what it has to store is as new as it began.
LEMMA CallGoesOn ==
  ASSUME RCInv, NEW c \in CacheCallers, NEW r \in CallRec,
         r.pc = "store" => AsOf(r.value, r.time),
         rc_call' = [rc_call EXCEPT ![c] = r],
         rc_owner' \in [DOMAIN rc_store -> CacheCallers \cup {None}],
         rc_failures' \in 0 .. MaxFailures,
         UNCHANGED <<rc_method, rc_now, rc_version, rc_at, rc_lru, rc_store, rc_result>>
  PROVE  RCInv'
<1>1. Clock'
  BY Zenon DEF RCInv, Clock, RC!Methods
<1>2. History'
  BY Zenon DEF RCInv, History
<1>3. Stored'
  BY Zenon DEF RCInv, Stored, StoreRec, AsOf, RC!Cached, RC!Values, RC!RpcError, RC!IoError
<1>4. Calling'
  <2>1. CallRec' = CallRec /\ \A v, t : AsOf(v, t)' <=> AsOf(v, t)
    BY Zenon DEF CallRec, AsOf, RC!Values, RC!RpcError, RC!IoError
  <2>2. rc_call' \in [CacheCallers -> CallRec \cup {None}]
    BY Zenon DEF RCInv, Calling
  <2>3. ASSUME NEW d \in CacheCallers, rc_call'[d] # None, rc_call'[d].pc = "store"
        PROVE  AsOf(rc_call'[d].value, rc_call'[d].time)
    BY <2>3, Zenon DEF RCInv, Calling
  <2>. QED
    BY <2>1, <2>2, <2>3, Zenon DEF Calling
<1>5. Answered'
  BY Zenon DEF RCInv, Answered, ResultRec, AsOf, Since, RC!Cached, RC!Values, RC!RpcError, RC!IoError
<1>6. Entries'
  <2>1. RC!Keys' = RC!Keys
    BY Zenon DEF RC!Keys, RC!Location
  <2>. QED
    BY <2>1, Zenon DEF RCInv, Entries
<1>. QED
  BY <1>1, <1>2, <1>3, <1>4, <1>5, <1>6, Zenon DEF RCInv

\* What a call that is under way has.
LEMMA CallHas ==
  ASSUME RCInv, NEW c \in CacheCallers, rc_call[c] # None
  PROVE  /\ rc_call[c] \in CallRec /\ rc_call[c].cache \in DOMAIN rc_store
         /\ rc_call[c].time \in 0 .. rc_now /\ rc_call[c].value \in RC!Values
BY Zenon DEF RCInv, Calling, CallRec

\* A call returns a value that is recent enough.
LEMMA CallReturns ==
  ASSUME RCInv, NEW c \in CacheCallers, NEW v \in RC!Values, NEW t \in 0 .. rc_now,
         NEW b \in BOOLEAN, AsOf(v, Since(t)), b => RC!Cached(v),
         rc_result' = [rc_result EXCEPT ![c] = [value |-> v, time |-> t, loaded |-> b]],
         rc_call' = [rc_call EXCEPT ![c] = None],
         DOMAIN rc_store' = DOMAIN rc_store, Stored',
         UNCHANGED <<rc_method, rc_now, rc_version, rc_at, rc_lru, rc_failures>>
  PROVE  RCInv'
<1>1. Clock'
  BY Zenon DEF RCInv, Clock, RC!Methods
<1>2. History'
  BY Zenon DEF RCInv, History
<1>3. \A w, u : AsOf(w, u)' <=> AsOf(w, u)
  BY Zenon DEF AsOf
<1>4. Calling'
  <2>1. CallRec' = CallRec
    BY Zenon DEF CallRec, RC!Values, RC!RpcError, RC!IoError
  <2>2. rc_call' \in [CacheCallers -> CallRec \cup {None}]
    BY Zenon DEF RCInv, Calling
  <2>3. ASSUME NEW d \in CacheCallers, rc_call'[d] # None, rc_call'[d].pc = "store"
        PROVE  AsOf(rc_call'[d].value, rc_call'[d].time)
    BY <2>3, Zenon DEF RCInv, Calling
  <2>. QED
    BY <1>3, <2>1, <2>2, <2>3, Zenon DEF Calling
<1>5. Answered'
  <2>. DEFINE r == [value |-> v, time |-> t, loaded |-> b]
  <2>1. ResultRec' = ResultRec /\ \A w : RC!Cached(w)' <=> RC!Cached(w)
    BY Zenon DEF ResultRec, RC!Cached, RC!Values, RC!RpcError, RC!IoError
  <2>2. r \in ResultRec /\ r.value = v /\ r.time = t /\ r.loaded = b
    BY Zenon DEF ResultRec
  <2>3. rc_result' = [rc_result EXCEPT ![c] = r]
    BY Zenon
  <2>. HIDE DEF r
  <2>4. rc_result' \in [CacheCallers -> ResultRec \cup {None}]
    BY <2>2, <2>3, Zenon DEF RCInv, Answered
  <2>5. ASSUME NEW d \in CacheCallers, rc_result'[d] # None
        PROVE  /\ AsOf(rc_result'[d].value, Since(rc_result'[d].time))
               /\ rc_result'[d].loaded => RC!Cached(rc_result'[d].value)
    BY <2>2, <2>3, <2>5, Zenon DEF RCInv, Answered
  <2>. QED
    BY <1>3, <2>1, <2>4, <2>5, Zenon DEF Answered, Since
<1>6. Entries'
  <2>1. RC!Keys' = RC!Keys
    BY Zenon DEF RC!Keys, RC!Location
  <2>. QED
    BY <2>1, Zenon DEF RCInv, Entries
<1>. QED
  BY <1>1, <1>2, <1>4, <1>5, <1>6, Zenon DEF RCInv

\* A value that is as new as a later time is as new as an earlier one.
LEMMA AsOfEarlier ==
  ASSUME RCInv, NEW v \in RC!Values, NEW s \in 0 .. rc_now, NEW t \in 0 .. rc_now,
         s <= t, AsOf(v, t)
  PROVE  AsOf(v, s)
<1>1. rc_at[s] <= rc_at[t] /\ rc_at[s] \in 0 .. MaxVersion /\ rc_at[t] \in 0 .. MaxVersion
  <2>1. rc_now \in 0 .. MaxTime /\ rc_at \in [0 .. MaxTime -> 0 .. MaxVersion]
    BY Zenon DEF RCInv, Clock
  <2>2. s \in 0 .. MaxTime /\ t \in 0 .. MaxTime
    BY <2>1, ResponsesAssumption, SMTT(60)
  <2>. QED
    BY <2>1, <2>2, Zenon DEF RCInv, History
<1>. QED
  BY <1>1, ResponsesAssumption, SMTT(60) DEF AsOf

\* A hit is at most the timeout old (getAt: the entry has not expired at the time
\* the call began).
LEMMA RCHit ==
  ASSUME RCInv, NEW c \in CacheCallers, RC!Hit(c)
  PROVE  RCInv'
<1>. DEFINE x == rc_call[c].cache
            t == rc_call[c].time
            v == rc_store[x].value
            e == rc_store[x].expireAt
<1>0. /\ rc_call[c] # None /\ rc_store[x] # None /\ ~(e < t)
      /\ rc_result' = [rc_result EXCEPT ![c] = [value |-> v, time |-> t, loaded |-> TRUE]]
      /\ rc_call' = [rc_call EXCEPT ![c] = None]
      /\ rc_owner' \in {rc_owner, [rc_owner EXCEPT ![x] = None]}
      /\ UNCHANGED <<rc_method, rc_now, rc_version, rc_at, rc_lru, rc_store, rc_failures>>
  BY Zenon DEF RC!Hit, RC!getAt, RC!Return
<1>1. x \in DOMAIN rc_store /\ t \in 0 .. rc_now
  BY <1>0, CallHas, Zenon
<1>2. rc_store[x] \in StoreRec /\ RC!Cached(v) /\ AsOf(v, e - Timeout)
  BY <1>0, <1>1, Zenon DEF RCInv, Stored
<1>3. v \in RC!Values /\ e \in Timeout .. rc_now + Timeout /\ rc_now \in 0 .. MaxTime
  BY <1>2, Zenon DEF StoreRec, RCInv, Clock
<1>. HIDE DEF x, t, v, e
<1>4. e - Timeout \in 0 .. rc_now /\ Since(t) \in 0 .. rc_now /\ Since(t) <= e - Timeout
  BY ONLY <1>0, <1>1, <1>3, ResponsesAssumption, SMTT(60) DEF Since
<1>5. AsOf(v, Since(t))
  BY <1>2, <1>3, <1>4, AsOfEarlier, Zenon
<1>6. rc_owner' \in [DOMAIN rc_store -> CacheCallers \cup {None}]
  BY <1>0, <1>1, Zenon DEF RCInv, Stored
<1>7. Stored'
  BY <1>0, <1>6, Zenon DEF RCInv, Stored, StoreRec, AsOf, RC!Cached, RC!Values, RC!RpcError, RC!IoError
<1>. QED
  BY <1>0, <1>1, <1>2, <1>3, <1>5, <1>7, CallReturns, Zenon

\* A call that misses, and one that gets the lock, has nothing to store yet.
LEMMA RCMissLock ==
  ASSUME RCInv, NEW c \in CacheCallers, RC!Miss(c) \/ RC!Lock(c)
  PROVE  RCInv'
<1>0. /\ rc_call[c] # None
      /\ UNCHANGED <<rc_method, rc_now, rc_version, rc_at, rc_lru, rc_store, rc_result, rc_failures>>
      /\ rc_owner' \in {rc_owner, [rc_owner EXCEPT ![rc_call[c].cache] = c]}
  BY Zenon DEF RC!Miss, RC!Lock
<1>1. PICK p \in {"wait", "check"} : rc_call' = [rc_call EXCEPT ![c].pc = p]
  BY Zenon DEF RC!Miss, RC!Lock
<1>. DEFINE r == [rc_call[c] EXCEPT !.pc = p]
<1>2. rc_call' = [rc_call EXCEPT ![c] = r]
  BY <1>1, SMTT(60)
<1>3. r \in CallRec /\ r.pc # "store"
  BY <1>0, <1>1, CallHas, SMTT(60) DEF CallRec
<1>4. rc_owner' \in [DOMAIN rc_store -> CacheCallers \cup {None}]
  BY <1>0, CallHas, Zenon DEF RCInv, Stored
<1>5. rc_failures' \in 0 .. MaxFailures
  BY <1>0, Zenon DEF RCInv, Clock
<1>. HIDE DEF r
<1>. QED
  BY <1>0, <1>2, <1>3, <1>4, <1>5, CallGoesOn, Zenon

\* The node answers with its version, which is no older than any time there was,
\* or with an error.
LEMMA RCUpstream ==
  ASSUME RCInv, NEW c \in CacheCallers, RC!Upstream(c)
  PROVE  RCInv'
<1>0. /\ rc_call[c] # None
      /\ UNCHANGED <<rc_method, rc_now, rc_version, rc_at, rc_lru, rc_store, rc_owner, rc_result>>
  BY Zenon DEF RC!Upstream
<1>1. PICK v : /\ rc_call' = [rc_call EXCEPT ![c].pc = "store", ![c].value = v]
               /\ v = rc_version \/ v \in {RC!RpcError, RC!IoError}
  BY Zenon DEF RC!Upstream
<1>t. rc_version \in 0 .. MaxVersion /\ rc_now \in 0 .. MaxTime /\ rc_failures \in 0 .. MaxFailures
  BY Zenon DEF RCInv, Clock
<1>v. v \in RC!Values /\ (v = rc_version \/ v \notin 0 .. MaxVersion)
  BY ONLY <1>1, <1>t, SMTT(60) DEF RC!Values, RC!RpcError, RC!IoError
<1>. DEFINE r == [rc_call[c] EXCEPT !.pc = "store", !.value = v]
<1>2. rc_call' = [rc_call EXCEPT ![c] = r]
  BY <1>1, <1>0, CallHas, Zenon DEF RCInv, Calling, CallRec
<1>3. r \in CallRec /\ r.value = v /\ r.time = rc_call[c].time
  BY <1>0, <1>v, CallHas, Zenon DEF CallRec
<1>4. AsOf(v, rc_call[c].time)
  <2>1. rc_call[c].time \in 0 .. rc_now
    BY <1>0, CallHas, ZenonT(60)
  <2>2. rc_call[c].time \in 0 .. MaxTime
    BY ONLY <2>1, <1>t, ResponsesAssumption, SMTT(60)
  <2>3. rc_at[rc_call[c].time] <= rc_version
    BY <2>2, Zenon DEF RCInv, History
  <2>. QED
    BY <2>3, <1>v, Zenon DEF AsOf
<1>5. rc_failures' \in 0 .. MaxFailures
  <2>1. UNCHANGED rc_failures \/ (rc_failures < MaxFailures /\ rc_failures' = rc_failures + 1)
    BY Zenon DEF RC!Upstream
  <2>. QED
    BY ONLY <2>1, <1>t, ResponsesAssumption, SMTT(60)
<1>6. rc_owner' \in [DOMAIN rc_store -> CacheCallers \cup {None}]
  BY <1>0, Zenon DEF RCInv, Stored
<1>. HIDE DEF r
<1>. QED
  BY <1>0, <1>2, <1>3, <1>4, <1>5, <1>6, CallGoesOn, Zenon

\* The value is kept for the timeout after the call began.
LEMMA RCStore ==
  ASSUME RCInv, NEW c \in CacheCallers, RC!StoreValue(c)
  PROVE  RCInv'
<1>. DEFINE x == rc_call[c].cache
            t == rc_call[c].time
            v == rc_call[c].value
            new == [value |-> v, expireAt |-> t + Timeout]
<1>0. /\ rc_call[c] # None /\ rc_call[c].pc = "store"
      /\ rc_store' = IF RC!Cached(v) THEN [rc_store EXCEPT ![x] = new] ELSE rc_store
      /\ rc_owner' = [rc_owner EXCEPT ![x] = None]
      /\ rc_result' = [rc_result EXCEPT ![c] = [value |-> v, time |-> t, loaded |-> FALSE]]
      /\ rc_call' = [rc_call EXCEPT ![c] = None]
      /\ UNCHANGED <<rc_method, rc_now, rc_version, rc_at, rc_lru, rc_failures>>
  BY Zenon DEF RC!StoreValue, RC!Return
<1>1. x \in DOMAIN rc_store /\ t \in 0 .. rc_now /\ v \in RC!Values
  BY <1>0, CallHas, Zenon
<1>2. AsOf(v, t)
  BY <1>0, Zenon DEF RCInv, Calling
<1>n. rc_now \in 0 .. MaxTime
  BY Zenon DEF RCInv, Clock
<1>3. new.value = v /\ new.expireAt = t + Timeout
  BY Zenon
<1>4. new \in StoreRec
  <2>1. t + Timeout \in Timeout .. rc_now + Timeout
    BY ONLY <1>1, <1>n, ResponsesAssumption, SMTT(60)
  <2>. QED
    BY <1>1, <2>1, Zenon DEF StoreRec
<1>. HIDE DEF new, x, t, v
<1>5. new.expireAt - Timeout = t
  BY ONLY <1>1, <1>3, <1>n, ResponsesAssumption, SMTT(60)
<1>6. Stored'
  <2>1. /\ StoreRec' = StoreRec /\ (\A w, u : AsOf(w, u)' <=> AsOf(w, u))
        /\ \A w : RC!Cached(w)' <=> RC!Cached(w)
    BY <1>0, Zenon DEF StoreRec, AsOf, RC!Cached, RC!Values, RC!RpcError, RC!IoError
  <2>2. DOMAIN rc_store' = DOMAIN rc_store
    BY <1>0, Zenon
  <2>3. rc_owner' \in [DOMAIN rc_store -> CacheCallers \cup {None}]
    BY <1>0, <1>1, Zenon DEF RCInv, Stored
  <2>4. rc_store' \in [DOMAIN rc_store -> StoreRec \cup {None}]
    BY <1>0, <1>1, <1>4, Zenon DEF RCInv, Stored
  <2>5. ASSUME NEW y \in DOMAIN rc_store, rc_store'[y] # None
        PROVE  /\ RC!Cached(rc_store'[y].value)
               /\ AsOf(rc_store'[y].value, rc_store'[y].expireAt - Timeout)
    BY <2>5, <1>0, <1>2, <1>3, <1>5, Zenon DEF RCInv, Stored
  <2>. QED
    BY <2>1, <2>2, <2>3, <2>4, <2>5, Zenon DEF Stored
<1>7. AsOf(v, Since(t))
  <2>1. Since(t) \in 0 .. rc_now /\ Since(t) <= t
    BY ONLY <1>1, <1>n, ResponsesAssumption, SMTT(60) DEF Since
  <2>. QED
    BY <1>1, <1>2, <2>1, AsOfEarlier, Zenon
<1>8. DOMAIN rc_store' = DOMAIN rc_store
  BY <1>0, Zenon
<1>. QED
  BY <1>0, <1>1, <1>6, <1>7, <1>8, CallReturns, ZenonT(60)

\* A call enters a cache that is there.
LEMMA CallEnters ==
  ASSUME RCInv, NEW x \in DOMAIN rc_store
  PROVE  [pc |-> "get", cache |-> x, time |-> rc_now, value |-> 0] \in CallRec
<1>1. rc_now \in 0 .. MaxTime
  BY Zenon DEF RCInv, Clock
<1>2. rc_now \in 0 .. rc_now /\ 0 \in RC!Values
  BY ONLY <1>1, ResponsesAssumption, SMTT(60) DEF RC!Values
<1>. QED
  BY <1>2, Zenon DEF CallRec

LEMMA RCEnter ==
  ASSUME RCInv, NEW c \in CacheCallers, NEW x \in DOMAIN rc_store, RC!Enter(c, x),
         UNCHANGED <<rc_method, rc_now, rc_version, rc_at, rc_lru, rc_store, rc_owner,
                     rc_result, rc_failures>>
  PROVE  RCInv'
<1>. DEFINE r == [pc |-> "get", cache |-> x, time |-> rc_now, value |-> 0]
<1>1. rc_call' = [rc_call EXCEPT ![c] = r] /\ r.pc = "get"
  BY Zenon DEF RC!Enter
<1>2. r \in CallRec
  BY CallEnters, Zenon
<1>3. /\ rc_owner' \in [DOMAIN rc_store -> CacheCallers \cup {None}]
      /\ rc_failures' \in 0 .. MaxFailures
  BY Zenon DEF RCInv, Stored, Clock
<1>. HIDE DEF r
<1>. QED
  BY <1>1, <1>2, <1>3, CallGoesOn, Zenon

LEMMA RCNode ==
  ASSUME RCInv, NEW c \in CacheCallers, NEW n \in CacheNodes, RC!nodeGetOrUpdate(c, n)
  PROVE  RCInv'
<1>1. RC!Location(n).key \in RC!Keys
  BY Zenon DEF RC!Keys
<1>2. <<RC!Location(n).key, 0>> \in DOMAIN rc_store
  BY <1>1, Zenon DEF RCInv, Entries
<1>. QED
  BY <1>2, RCEnter, Zenon DEF RC!nodeGetOrUpdate

\* The LRU replaces a cache that it has held for longer than the lifespan.
LEMMA RCReplace ==
  ASSUME RCInv, NEW c \in CacheCallers, NEW k \in RC!Keys, NEW i \in Nat,
         rc_lru[k].cache = <<k, i>>, rc_lru[k].until < rc_now,
         rc_lru' = [rc_lru EXCEPT ![k] = [cache |-> <<k, i + 1>>, until |-> rc_now + Timeout]],
         rc_store' = [x \in DOMAIN rc_store \cup {<<k, i + 1>>} |->
                        IF x = <<k, i + 1>> THEN None ELSE rc_store[x]],
         rc_owner' = [x \in DOMAIN rc_store' |-> IF x = <<k, i + 1>> THEN None ELSE rc_owner[x]],
         RC!Enter(c, <<k, i + 1>>),
         UNCHANGED <<rc_method, rc_now, rc_version, rc_at, rc_result, rc_failures>>
  PROVE  RCInv'
<1>. DEFINE fresh == <<k, i + 1>>
            e == [cache |-> fresh, until |-> rc_now + Timeout]
            r == [pc |-> "get", cache |-> fresh, time |-> rc_now, value |-> 0]
<1>d. DOMAIN rc_store' = DOMAIN rc_store \cup {fresh} /\ fresh \in DOMAIN rc_store'
  BY Zenon
<1>s. rc_store' = [x \in DOMAIN rc_store' |-> IF x = fresh THEN None ELSE rc_store[x]]
  BY <1>d, Zenon
<1>o. rc_owner' = [x \in DOMAIN rc_store' |-> IF x = fresh THEN None ELSE rc_owner[x]]
  BY Zenon
<1>l. rc_lru' = [rc_lru EXCEPT ![k] = e] /\ e.cache = fresh /\ e.until = rc_now + Timeout
  BY Zenon
<1>c. rc_call' = [rc_call EXCEPT ![c] = r] /\ r.pc = "get"
  BY Zenon DEF RC!Enter
<1>e. RC!Keys' = RC!Keys /\ (\A w, u : AsOf(w, u)' <=> AsOf(w, u))
      /\ StoreRec' = StoreRec /\ \A w : RC!Cached(w)' <=> RC!Cached(w)
  BY Zenon DEF RC!Keys, RC!Location, AsOf, StoreRec, RC!Cached, RC!Values, RC!RpcError, RC!IoError
<1>n. rc_now \in 0 .. MaxTime
  BY Zenon DEF RCInv, Clock
<1>r. r \in CallRec'
  <2>1. rc_now \in 0 .. rc_now /\ 0 \in RC!Values
    BY ONLY <1>n, ResponsesAssumption, SMTT(60) DEF RC!Values
  <2>2. rc_now' = rc_now /\ RC!Values' = RC!Values
    BY Zenon DEF RC!Values, RC!RpcError, RC!IoError
  <2>. QED
    BY <1>d, <2>1, <2>2, Zenon DEF CallRec
<1>. HIDE DEF fresh, e, r
<1>1. Clock'
  BY Zenon DEF RCInv, Clock, RC!Methods
<1>2. History'
  BY Zenon DEF RCInv, History
<1>3. Stored'
  <2>1. rc_store' \in [DOMAIN rc_store' -> StoreRec \cup {None}]
        /\ rc_owner' \in [DOMAIN rc_store' -> CacheCallers \cup {None}]
    BY <1>d, <1>s, <1>o, ZenonT(60) DEF RCInv, Stored
  <2>2. ASSUME NEW y \in DOMAIN rc_store', rc_store'[y] # None
        PROVE  /\ RC!Cached(rc_store'[y].value)
               /\ AsOf(rc_store'[y].value, rc_store'[y].expireAt - Timeout)
    BY <2>2, <1>d, <1>s, Zenon DEF RCInv, Stored
  <2>. QED
    BY <1>e, <2>1, <2>2, Zenon DEF Stored
<1>4. Calling'
  <2>1. \A q \in CallRec : q \in CallRec'
    BY <1>d, Zenon DEF CallRec, RC!Values, RC!RpcError, RC!IoError
  <2>2. rc_call' \in [CacheCallers -> CallRec' \cup {None}]
    BY <1>c, <1>r, <2>1, Zenon DEF RCInv, Calling
  <2>3. ASSUME NEW d \in CacheCallers, rc_call'[d] # None, rc_call'[d].pc = "store"
        PROVE  AsOf(rc_call'[d].value, rc_call'[d].time)
    BY <2>3, <1>c, Zenon DEF RCInv, Calling
  <2>. QED
    BY <1>e, <2>2, <2>3, Zenon DEF Calling
<1>5. Answered'
  BY Zenon DEF RCInv, Answered, ResultRec, AsOf, Since, RC!Cached, RC!Values, RC!RpcError, RC!IoError
<1>6. Entries'
  <2>0. rc_lru \in [RC!Keys -> [cache : DOMAIN rc_store, until : Nat]] /\ rc_lru[k].until \in Nat
    BY Zenon DEF RCInv, Entries
  <2>i. i + Timeout <= rc_lru[k].until
    <3>1. PICK j \in Nat : rc_lru[k].cache = <<k, j>> /\ j + Timeout <= rc_lru[k].until
      BY Zenon DEF RCInv, Entries
    <3>2. <<k, j>> = <<k, i>>
      BY <3>1, Zenon
    <3>3. j = i
      BY ONLY <3>2, Zenon
    <3>. QED
      BY <3>1, <3>3, Zenon
  <2>1. /\ rc_now + Timeout \in Nat /\ i + 1 \in Nat
        /\ (i + 1) + Timeout <= rc_now + Timeout /\ rc_now + Timeout <= rc_now + Timeout
    BY ONLY <1>n, <2>0, <2>i, rc_lru[k].until < rc_now, i \in Nat, ResponsesAssumption, SMTT(60)
  <2>2. e \in [cache : DOMAIN rc_store', until : Nat]
    BY <1>d, <2>1, Zenon DEF e
  <2>3. \A q \in [cache : DOMAIN rc_store, until : Nat] : q \in [cache : DOMAIN rc_store', until : Nat]
    BY <1>d, Zenon
  <2>4. rc_lru' \in [RC!Keys -> [cache : DOMAIN rc_store', until : Nat]]
    BY <1>l, <2>0, <2>2, <2>3, Zenon
  <2>5. \A q \in RC!Keys : <<q, 0>> \in DOMAIN rc_store'
    BY <1>d, Zenon DEF RCInv, Entries
  <2>6. ASSUME NEW q \in RC!Keys
        PROVE  \E j \in Nat : /\ rc_lru'[q].cache = <<q, j>>
                              /\ j + Timeout <= rc_lru'[q].until /\ rc_lru'[q].until <= rc_now + Timeout
    <3>1. CASE q = k
      BY <3>1, <1>l, <2>0, <2>1, Zenon DEF fresh
    <3>2. CASE q # k
      BY <3>2, <1>l, <2>0, Zenon DEF RCInv, Entries
    <3>. QED
      BY <3>1, <3>2, Zenon
  <2>. QED
    BY <1>e, <2>4, <2>5, <2>6, Zenon DEF Entries
<1>. QED
  BY <1>1, <1>2, <1>3, <1>4, <1>5, <1>6, Zenon DEF RCInv

LEMMA RCKey ==
  ASSUME RCInv, NEW c \in CacheCallers, NEW n \in CacheNodes, RC!keyGetOrUpdate(c, n)
  PROVE  RCInv'
<1>. DEFINE k == RC!Location(n).key
<1>1. k \in RC!Keys
  BY Zenon DEF RC!Keys
<1>2. PICK i \in Nat : rc_lru[k].cache = <<k, i>>
  BY <1>1, Zenon DEF RCInv, Entries
<1>3. rc_lru[k].cache[2] + 1 = i + 1
  BY <1>2, SMTT(60)
<1>4. rc_lru[k].cache \in DOMAIN rc_store
  BY <1>1, Zenon DEF RCInv, Entries
<1>5. CASE rc_lru[k].until < rc_now
  <2>1. LET fresh == <<k, rc_lru[k].cache[2] + 1>>
        IN  /\ rc_lru' = [rc_lru EXCEPT ![k] = [cache |-> fresh, until |-> rc_now + Timeout]]
            /\ rc_store' = [x \in DOMAIN rc_store \cup {fresh} |-> IF x = fresh THEN None ELSE rc_store[x]]
            /\ rc_owner' = [x \in DOMAIN rc_store' |-> IF x = fresh THEN None ELSE rc_owner[x]]
            /\ RC!Enter(c, fresh)
            /\ UNCHANGED <<rc_method, rc_now, rc_version, rc_at, rc_result, rc_failures>>
    BY <1>5, Zenon DEF RC!keyGetOrUpdate
  <2>. HIDE DEF k
  <2>. QED
    BY <2>1, <1>1, <1>2, <1>3, <1>5, RCReplace, ZenonT(60)
<1>6. CASE ~(rc_lru[k].until < rc_now)
  BY <1>4, <1>6, RCEnter, Zenon DEF RC!keyGetOrUpdate
<1>. QED
  BY <1>5, <1>6, Zenon

\* Time passes: what was said of the times there were stays so.
LEMMA RCTick ==
  ASSUME RCInv, RC!Tick
  PROVE  RCInv'
<1>0. /\ rc_now < MaxTime /\ rc_now' = rc_now + 1 /\ rc_at' = [rc_at EXCEPT ![rc_now'] = rc_version]
      /\ UNCHANGED <<rc_method, rc_version, rc_lru, rc_store, rc_owner, rc_call, rc_result, rc_failures>>
  BY Zenon DEF RC!Tick
<1>t. /\ rc_now \in 0 .. MaxTime /\ rc_version \in 0 .. MaxVersion
      /\ rc_at \in [0 .. MaxTime -> 0 .. MaxVersion]
  BY Zenon DEF RCInv, Clock
<1>h. /\ \A t \in 0 .. MaxTime : rc_at[t] <= rc_version
      /\ \A s, t \in 0 .. rc_now : s <= t => rc_at[s] <= rc_at[t]
  BY Zenon DEF RCInv, History
<1>1. rc_now' \in 0 .. MaxTime
  BY ONLY <1>0, <1>t, ResponsesAssumption, SMTT(60)
<1>2. rc_at' \in [0 .. MaxTime -> 0 .. MaxVersion] /\ rc_at'[rc_now'] = rc_version
  BY <1>0, <1>1, <1>t, Zenon
<1>3. \A t \in 0 .. rc_now : t \in 0 .. MaxTime /\ t \in 0 .. rc_now' /\ rc_at'[t] = rc_at[t]
  BY ONLY <1>0, <1>t, ResponsesAssumption, SMTT(60)
<1>4. Clock'
  BY <1>0, <1>1, <1>2, Zenon DEF RCInv, Clock, RC!Methods
<1>5. History'
  <2>1. \A t \in 0 .. MaxTime : rc_at'[t] <= rc_version
    BY ONLY <1>0, <1>t, <1>h, ResponsesAssumption, SMTT(60)
  <2>2. ASSUME NEW s \in 0 .. rc_now', NEW t \in 0 .. rc_now', s <= t
        PROVE  rc_at'[s] <= rc_at'[t]
    <3>1. t = rc_now' \/ (s \in 0 .. rc_now /\ t \in 0 .. rc_now)
      BY ONLY <2>2, <1>0, <1>t, ResponsesAssumption, SMTT(60)
    <3>2. s \in 0 .. MaxTime
      BY ONLY <1>1, s \in 0 .. rc_now', ResponsesAssumption, SMTT(60)
    <3>3. CASE t = rc_now'
      BY <3>2, <3>3, <2>1, <1>2, Zenon
    <3>4. CASE s \in 0 .. rc_now /\ t \in 0 .. rc_now
      BY <3>4, <2>2, <1>3, <1>h, Zenon
    <3>. QED
      BY <3>1, <3>3, <3>4, ZenonT(60)
  <2>. QED
    BY <2>1, <2>2, <1>0, Zenon DEF History
<1>6. \A v, t : t \in 0 .. rc_now /\ AsOf(v, t) => AsOf(v, t)'
  BY <1>3, Zenon DEF AsOf
<1>v. RC!Values' = RC!Values /\ (\A w : RC!Cached(w)' <=> RC!Cached(w)) /\ RC!Keys' = RC!Keys
  BY <1>0, Zenon DEF RC!Values, RC!Cached, RC!RpcError, RC!IoError, RC!Keys, RC!Location
<1>7. Stored'
  <2>0. \A e \in Timeout .. rc_now + Timeout :
          e \in Timeout .. rc_now' + Timeout /\ e - Timeout \in 0 .. rc_now
    BY ONLY <1>0, <1>t, ResponsesAssumption, SMTT(60)
  <2>1. \A q \in StoreRec : q \in StoreRec' /\ q.expireAt - Timeout \in 0 .. rc_now
    BY <2>0, <1>v, Zenon DEF StoreRec
  <2>2. rc_store' \in [DOMAIN rc_store -> StoreRec' \cup {None}]
    BY <1>0, <2>1, Zenon DEF RCInv, Stored
  <2>3. ASSUME NEW x \in DOMAIN rc_store, rc_store[x] # None
        PROVE  RC!Cached(rc_store[x].value)' /\ AsOf(rc_store[x].value, rc_store[x].expireAt - Timeout)'
    <3>1. rc_store[x] \in StoreRec
      BY <2>3, Zenon DEF RCInv, Stored
    <3>2. RC!Cached(rc_store[x].value) /\ AsOf(rc_store[x].value, rc_store[x].expireAt - Timeout)
      BY <2>3, Zenon DEF RCInv, Stored
    <3>3. rc_store' = rc_store
      BY <1>0, Zenon
    <3>. QED
      BY <3>1, <3>2, <3>3, <2>1, <1>6, <1>v, Zenon
  <2>4. rc_owner' \in [DOMAIN rc_store -> CacheCallers \cup {None}]
    BY <1>0, Zenon DEF RCInv, Stored
  <2>5. rc_store' = rc_store
    BY <1>0, Zenon
  <2>. QED
    BY <2>2, <2>3, <2>4, <2>5, Zenon DEF Stored
<1>8. Calling'
  <2>1. \A q \in CallRec : q \in CallRec' /\ q.time \in 0 .. rc_now
    BY <1>0, <1>3, <1>v, Zenon DEF CallRec
  <2>2. rc_call' \in [CacheCallers -> CallRec' \cup {None}]
    BY <1>0, <2>1, Zenon DEF RCInv, Calling
  <2>3. ASSUME NEW c \in CacheCallers, rc_call[c] # None, rc_call[c].pc = "store"
        PROVE  AsOf(rc_call[c].value, rc_call[c].time)'
    <3>1. rc_call[c] \in CallRec /\ AsOf(rc_call[c].value, rc_call[c].time) /\ rc_call' = rc_call
      BY <1>0, <2>3, Zenon DEF RCInv, Calling
    <3>. QED
      BY <3>1, <2>1, <1>6, Zenon
  <2>4. rc_call' = rc_call
    BY <1>0, Zenon
  <2>. QED
    BY <2>2, <2>3, <2>4, Zenon DEF Calling
<1>9. Answered'
  <2>0. \A t \in 0 .. rc_now : Since(t) \in 0 .. rc_now
    BY ONLY <1>t, ResponsesAssumption, SMTT(60) DEF Since
  <2>1. \A q \in ResultRec : q \in ResultRec' /\ q.time \in 0 .. rc_now
    BY <1>3, <1>v, Zenon DEF ResultRec
  <2>2. rc_result' \in [CacheCallers -> ResultRec' \cup {None}]
    BY <1>0, <2>1, Zenon DEF RCInv, Answered
  <2>3. ASSUME NEW c \in CacheCallers, rc_result[c] # None
        PROVE  AsOf(rc_result[c].value, Since(rc_result[c].time))'
               /\ (rc_result[c].loaded => RC!Cached(rc_result[c].value)')
    <3>1. /\ rc_result[c] \in ResultRec /\ AsOf(rc_result[c].value, Since(rc_result[c].time))
          /\ rc_result' = rc_result /\ (rc_result[c].loaded => RC!Cached(rc_result[c].value))
      BY <1>0, <2>3, Zenon DEF RCInv, Answered
    <3>2. \A t : Since(t)' = Since(t)
      BY Zenon DEF Since
    <3>. QED
      BY <3>1, <3>2, <2>0, <2>1, <1>6, <1>v, Zenon
  <2>4. rc_result' = rc_result
    BY <1>0, Zenon
  <2>. QED
    BY <2>2, <2>3, <2>4, Zenon DEF Answered
<1>10. Entries'
  <2>1. \A u \in Nat : u <= rc_now + Timeout => u <= rc_now' + Timeout
    BY ONLY <1>0, <1>t, ResponsesAssumption, SMTT(60)
  <2>2. \A k \in RC!Keys : rc_lru[k].until \in Nat
    BY Zenon DEF RCInv, Entries
  <2>. QED
    BY <1>0, <1>v, <2>1, <2>2, Zenon DEF RCInv, Entries
<1>. QED
  BY <1>4, <1>5, <1>7, <1>8, <1>9, <1>10, Zenon DEF RCInv

\* The nodes advance: every version there was stays an older one.
LEMMA RCAdvance ==
  ASSUME RCInv, RC!Advance
  PROVE  RCInv'
<1>0. /\ rc_version < MaxVersion /\ rc_version' = rc_version + 1
      /\ UNCHANGED <<rc_method, rc_now, rc_at, rc_lru, rc_store, rc_owner, rc_call, rc_result, rc_failures>>
  BY Zenon DEF RC!Advance
<1>t. rc_version \in 0 .. MaxVersion /\ rc_at \in [0 .. MaxTime -> 0 .. MaxVersion]
  BY Zenon DEF RCInv, Clock
<1>h. /\ \A t \in 0 .. MaxTime : rc_at[t] <= rc_version
      /\ \A s, t \in 0 .. rc_now : s <= t => rc_at[s] <= rc_at[t]
  BY Zenon DEF RCInv, History
<1>1. rc_version' \in 0 .. MaxVersion /\ \A t \in 0 .. MaxTime : rc_at[t] <= rc_version'
  BY ONLY <1>0, <1>t, <1>h, ResponsesAssumption, SMTT(60)
<1>2. Clock' /\ History'
  BY <1>0, <1>1, <1>h, Zenon DEF RCInv, Clock, RC!Methods, History
<1>3. Stored' /\ Calling' /\ Answered'
  BY <1>0, Zenon DEF RCInv, Stored, Calling, Answered, StoreRec, CallRec, ResultRec, AsOf, Since,
                     RC!Cached, RC!Values, RC!RpcError, RC!IoError
<1>4. Entries'
  <2>1. RC!Keys' = RC!Keys
    BY <1>0, Zenon DEF RC!Keys, RC!Location
  <2>. QED
    BY <1>0, <2>1, Zenon DEF RCInv, Entries
<1>. QED
  BY <1>2, <1>3, <1>4, Zenon DEF RCInv

LEMMA RCNext == RCInv /\ [RC!Next]_(RC!vars) => RCInv'
<1>. SUFFICES ASSUME RCInv, [RC!Next]_(RC!vars) PROVE RCInv'
  OBVIOUS
<1>1. ASSUME NEW c \in CacheCallers, RC!getOrUpdateAt(c) PROVE RCInv'
  BY <1>1, RCHit, RCMissLock, RCUpstream, RCStore, Zenon DEF RC!getOrUpdateAt
<1>2. ASSUME NEW c \in CacheCallers, NEW n \in CacheNodes, RC!nodeGetOrUpdate(c, n) \/ RC!keyGetOrUpdate(c, n)
      PROVE  RCInv'
  BY <1>2, RCNode, RCKey, Zenon
<1>3. CASE UNCHANGED RC!vars
  <2>1. RC!Keys' = RC!Keys
    BY <1>3, Zenon DEF RC!vars, RC!Keys, RC!Location
  <2>. QED
    BY <1>3, <2>1, Zenon DEF RC!vars, RCInv, Clock, History, Stored, Calling, Answered, Entries, StoreRec,
         CallRec, ResultRec, AsOf, Since, RC!Cached, RC!Values, RC!RpcError, RC!IoError, RC!Methods
<1>. QED
  BY <1>1, <1>2, <1>3, RCTick, RCAdvance, Zenon DEF RC!Next

LEMMA RCTypes == RCInv => RC!TypeOK
<1>. SUFFICES ASSUME RCInv PROVE RC!TypeOK
  OBVIOUS
<1>n. rc_now \in 0 .. MaxTime
  BY Zenon DEF RCInv, Clock
<1>1. ASSUME NEW k \in RC!Keys
      PROVE  rc_lru[k].cache \in RC!Caches /\ rc_lru[k].until \in 0 .. MaxTime + Timeout + 1
  <2>1. PICK i \in Nat : /\ rc_lru[k].cache = <<k, i>> /\ i + Timeout <= rc_lru[k].until
                         /\ rc_lru[k].until <= rc_now + Timeout
    BY Zenon DEF RCInv, Entries
  <2>2. rc_lru[k].until \in Nat
    BY Zenon DEF RCInv, Entries
  <2>3. i \in 0 .. MaxTime /\ rc_lru[k].until \in 0 .. MaxTime + Timeout + 1
    BY ONLY <1>n, <2>1, <2>2, i \in Nat, ResponsesAssumption, SMTT(60)
  <2>. QED
    BY <2>1, <2>3, SMTT(60) DEF RC!Caches
<1>2. ASSUME NEW x \in DOMAIN rc_store, rc_store[x] # None
      PROVE  rc_store[x] \in [value : RC!Values, expireAt : 0 .. MaxTime + Timeout]
  <2>1. rc_store[x] \in StoreRec
    BY <1>2, Zenon DEF RCInv, Stored
  <2>2. \A e \in Timeout .. rc_now + Timeout : e \in 0 .. MaxTime + Timeout
    BY ONLY <1>n, ResponsesAssumption
  <2>. QED
    BY <2>1, <2>2, Zenon DEF StoreRec
<1>3. ASSUME NEW c \in CacheCallers, rc_call[c] # None
      PROVE  rc_call[c].cache \in DOMAIN rc_store
  BY <1>3, CallHas, Zenon
<1>. QED
  BY <1>1, <1>2, <1>3, Zenon DEF RCInv, Clock, Stored, RC!TypeOK

\* A response is at most the timeout older than the call that gets it, however
\* long the caller waited for the lock or the node took to answer, and no caller
\* gets the failure of another one, but for the JSON-RPC errors of eth_call
\* (getOrUpdateAt, CallWithFunc): for any number of callers, nodes and keys, any
\* expiration and any pace of the nodes.
THEOREM CachedIsRecent ==
  /\ RC!Spec => [](RC!TypeOK /\ RC!ResponsesAreRecent /\ RC!FailuresAreNotShared)
  /\ RC!Spec => []ResponsesAreRecent
<1>1. RCInv => RC!TypeOK /\ RC!ResponsesAreRecent /\ RC!FailuresAreNotShared
  <2>. SUFFICES ASSUME RCInv PROVE RC!ResponsesAreRecent /\ RC!FailuresAreNotShared
    BY RCTypes, Zenon
  <2>1. ASSUME NEW c \in CacheCallers, rc_result[c] # None, rc_result[c].value \in 0 .. MaxVersion
        PROVE  rc_result[c].value >= rc_at[Since(rc_result[c].time)]
    <3>1. rc_at[Since(rc_result[c].time)] <= rc_result[c].value
      BY <2>1, Zenon DEF RCInv, Answered, AsOf
    <3>2. rc_result[c].time \in 0 .. rc_now /\ rc_now \in 0 .. MaxTime
          /\ rc_at \in [0 .. MaxTime -> 0 .. MaxVersion]
      BY <2>1, Zenon DEF RCInv, Answered, ResultRec, Clock
    <3>3. Since(rc_result[c].time) \in 0 .. MaxTime
      BY ONLY <3>2, ResponsesAssumption, SMTT(60) DEF Since
    <3>4. rc_at[Since(rc_result[c].time)] \in 0 .. MaxVersion
      BY <3>2, <3>3, Zenon
    <3>. QED
      BY ONLY <2>1, <3>1, <3>4, ResponsesAssumption, SMTT(60)
  <2>2. RC!FailuresAreNotShared
    BY Zenon DEF RCInv, Answered, RC!FailuresAreNotShared, RC!Cached
  <2>. QED
    BY <2>1, <2>2, Zenon DEF RC!ResponsesAreRecent, Since
<1>2. RC!Spec => []RCInv
  BY RCInit, RCNext, PTL DEF RC!Spec
<1>. QED
  BY <1>1, <1>2, PTL DEF ResponsesAreRecent
-----------------------------------------------------------------------------
(* The routing and the quota.                                              *)

ReqRec == [pc : {"idle", "routed", "throttle", "running"},
           group : RT!Groups \cup {None}, node : RT!Keys \cup {None}]

\* The nodes that the manager and the local router know of, and the healthy ones.
Known ==
  /\ rt_nodes \in [RT!Groups -> SUBSET Nodes] /\ rt_ring \in [RT!Groups -> SUBSET Nodes]
  /\ \A g \in RT!Groups : rt_ring[g] \subseteq rt_nodes[g]
  /\ DOMAIN rt_local \subseteq RT!Groups
  /\ \A g \in DOMAIN rt_local : rt_local[g].nodes \subseteq Nodes /\ rt_local[g].ring \subseteq rt_local[g].nodes

\* The local router routes a group to nodes of the last answer that listed it.
FollowsPoll ==
  \A g \in DOMAIN rt_local : g \in DOMAIN rt_polled /\ rt_local[g].ring \subseteq rt_polled[g]

\* A request under way has a node.
Requested ==
  /\ rt_req \in [Callers -> ReqRec] /\ rt_clients \subseteq RT!Groups \X Nodes
  /\ \A c \in Callers : rt_req[c].pc # "idle" => rt_req[c].node \in RT!Keys
  /\ \A c \in Callers : rt_req[c].pc = "routed" => rt_req[c].group \in RT!Groups /\ rt_req[c].node \in Nodes

CountTypes ==
  /\ rt_count \in [DOMAIN rt_count -> Int] /\ rt_unrefs \in [RT!Keys -> Nat]
  /\ rt_lapsed \in BOOLEAN /\ rt_repeated \in [RT!Keys -> Nat]

\* The counter of a node, with the decrements that were repeated, is never less
\* than the queries that run and the decrements that are to come, unless it expired
\* while there were some.
Counted ==
  ~rt_lapsed => \A n \in RT!Keys : /\ Cardinality(RT!Running(n)) + rt_unrefs[n] <= RT!Count(n) + rt_repeated[n]
                                   /\ Cardinality(RT!Running(n)) <= Quota + rt_repeated[n]

RTInv == Known /\ FollowsPoll /\ Requested /\ CountTypes /\ Counted

\* The facts about finite sets that the proofs need; they are proved in the end,
\* where the library's theorems are taken in.
FiniteFacts ==
  /\ IsFiniteSet({})
  /\ \A S : IsFiniteSet(S) => Cardinality(S) \in Nat /\ (Cardinality(S) = 0 <=> S = {})
  /\ \A S : IsFiniteSet(S) => \A T \in SUBSET S : IsFiniteSet(T)
  /\ \A S, x : IsFiniteSet(S) =>
       /\ IsFiniteSet(S \cup {x}) /\ IsFiniteSet(S \ {x})
       /\ x \notin S => Cardinality(S \cup {x}) = Cardinality(S) + 1
       /\ x \in S => Cardinality(S \ {x}) = Cardinality(S) - 1

\* The empty set has no members to count.
LEMMA FiniteEmpty ==
  ASSUME FiniteFacts
  PROVE  Cardinality({}) = 0
BY Zenon DEF FiniteFacts

\* A part of a finite set is finite.
LEMMA FiniteSubset ==
  ASSUME FiniteFacts, NEW S, IsFiniteSet(S), NEW T \in SUBSET S
  PROVE  IsFiniteSet(T) /\ Cardinality(T) \in Nat
BY Zenon DEF FiniteFacts

\* A new member counts one more.
LEMMA FiniteAdd ==
  ASSUME FiniteFacts, NEW S, IsFiniteSet(S), NEW x, x \notin S
  PROVE  IsFiniteSet(S \cup {x}) /\ Cardinality(S \cup {x}) = Cardinality(S) + 1
BY Zenon DEF FiniteFacts

\* A member removed counts one less, anything else nothing.
LEMMA FiniteRemove ==
  ASSUME FiniteFacts, NEW S, IsFiniteSet(S), NEW x
  PROVE  /\ IsFiniteSet(S \ {x}) /\ Cardinality(S \ {x}) \in Nat
         /\ Cardinality(S \ {x}) = IF x \in S THEN Cardinality(S) - 1 ELSE Cardinality(S)
<1>1. x \notin S => S \ {x} = S
  BY Zenon
<1>2. IsFiniteSet(S \ {x}) /\ Cardinality(S \ {x}) \in Nat
  BY Zenon DEF FiniteFacts
<1>3. x \in S => Cardinality(S \ {x}) = Cardinality(S) - 1
  BY Zenon DEF FiniteFacts
<1>. QED  BY <1>1, <1>2, <1>3, Zenon

\* Finitely many queries run on a node.
LEMMA RunningIsFinite ==
  ASSUME FiniteFacts
  PROVE  \A n : IsFiniteSet(RT!Running(n)) /\ Cardinality(RT!Running(n)) \in Nat
<1>1. \A n : RT!Running(n) \subseteq Callers
  BY Zenon DEF RT!Running
<1>2. IsFiniteSet(Callers)
  BY RoutingAssumption, Zenon
<1>. QED
  BY <1>1, <1>2, FiniteSubset, Zenon

\* A request that does not start to run leaves no more queries running, and one
\* that ends leaves one less.
LEMMA RunningShrinks ==
  ASSUME FiniteFacts, Requested, NEW c \in Callers, NEW r, r.pc # "running", rt_req' = [rt_req EXCEPT ![c] = r]
  PROVE  \A n : /\ Cardinality(RT!Running(n))' \in Nat
                /\ Cardinality(RT!Running(n))' <= Cardinality(RT!Running(n))
                /\ rt_req[c].pc = "running" /\ rt_req[c].node = n =>
                     Cardinality(RT!Running(n))' = Cardinality(RT!Running(n)) - 1
<1>. TAKE n
<1>0. DOMAIN rt_req = Callers
  BY Zenon DEF Requested
<1>1. RT!Running(n)' = RT!Running(n) \ {c}
  BY <1>0 DEF RT!Running
<1>2. IsFiniteSet(RT!Running(n)) /\ Cardinality(RT!Running(n)) \in Nat
  BY RunningIsFinite, Zenon
<1>3. IsFiniteSet(RT!Running(n) \ {c})
      /\ Cardinality(RT!Running(n) \ {c}) =
           IF c \in RT!Running(n) THEN Cardinality(RT!Running(n)) - 1 ELSE Cardinality(RT!Running(n))
  BY <1>2, FiniteRemove, Zenon
<1>4. Cardinality(RT!Running(n) \ {c}) \in Nat
  BY <1>2, FiniteRemove, Zenon
<1>5. Cardinality(RT!Running(n))' = Cardinality(RT!Running(n) \ {c})
  BY <1>1, Zenon
<1>6. rt_req[c].pc = "running" /\ rt_req[c].node = n => c \in RT!Running(n)
  BY Zenon DEF RT!Running
<1>7. Cardinality(RT!Running(n) \ {c}) <= Cardinality(RT!Running(n))
  BY ONLY <1>2, <1>3
<1>. QED
  BY <1>3, <1>4, <1>5, <1>6, <1>7, Zenon

\* A query that gets through the throttle is one more on its node.
LEMMA RunningGrows ==
  ASSUME FiniteFacts, Requested, NEW c \in Callers, rt_req[c].pc = "throttle",
         rt_req' = [rt_req EXCEPT ![c].pc = "running"]
  PROVE  \A n : Cardinality(RT!Running(n))' = IF n = rt_req[c].node THEN Cardinality(RT!Running(n)) + 1
                                               ELSE Cardinality(RT!Running(n))
<1>. TAKE m
<1>0. rt_req \in [Callers -> ReqRec]
  BY Zenon DEF Requested
<1>1. /\ \A d \in Callers : d # c => rt_req'[d] = rt_req[d]
      /\ rt_req'[c].pc = "running" /\ rt_req'[c].node = rt_req[c].node
  BY <1>0 DEF ReqRec
<1>2. CASE m = rt_req[c].node
  <2>1. RT!Running(m)' = RT!Running(m) \cup {c}
    BY <1>1, <1>2 DEF RT!Running
  <2>2. c \notin RT!Running(m) /\ IsFiniteSet(RT!Running(m))
    BY RunningIsFinite, Zenon DEF RT!Running
  <2>3. Cardinality(RT!Running(m) \cup {c}) = Cardinality(RT!Running(m)) + 1
    BY <2>2, FiniteAdd, Zenon
  <2>. QED
    BY <1>2, <2>1, <2>3, Zenon
<1>3. CASE m # rt_req[c].node
  <2>1. RT!Running(m)' = RT!Running(m)
    BY <1>1, <1>3 DEF RT!Running
  <2>. QED
    BY <1>3, <2>1, Zenon
<1>. QED
  BY <1>2, <1>3, Zenon

LEMMA RTInit == FiniteFacts /\ RT!Init => RTInv
<1>. SUFFICES ASSUME FiniteFacts, RT!Init PROVE RTInv
  OBVIOUS
<1>0. /\ rt_nodes = Initial /\ rt_ring = Initial /\ rt_polled = RT!listAll
      /\ rt_local = RT!update([g \in {} |-> {}], RT!listAll) /\ rt_clients = {}
      /\ rt_req = [c \in Callers |-> RT!Idle]
  BY Zenon DEF RT!Init
<1>i. rt_count = [n \in {} |-> 0] /\ rt_unrefs = [n \in RT!Keys |-> 0] /\ rt_lapsed = FALSE
      /\ rt_repeated = [n \in RT!Keys |-> 0]
  BY Zenon DEF RT!Init
<1>n. rt_nodes \in [RT!Groups -> SUBSET Nodes]
  BY <1>0, RoutingAssumption, Zenon
<1>1. /\ DOMAIN rt_polled \subseteq RT!Groups
      /\ \A g \in DOMAIN rt_polled : rt_polled[g] \subseteq Nodes
  BY <1>0, <1>n, Zenon DEF RT!listAll, RT!Restrict
<1>2. rt_local = [g \in DOMAIN rt_polled |-> [nodes |-> rt_polled[g], ring |-> rt_polled[g]]]
  BY <1>0 DEF RT!update, RT!newLocalNodeGroup
<1>3. DOMAIN rt_local = DOMAIN rt_polled /\ \A g \in DOMAIN rt_polled :
        rt_local[g].nodes = rt_polled[g] /\ rt_local[g].ring = rt_polled[g]
  BY <1>2
<1>4. Known /\ FollowsPoll
  BY <1>0, <1>n, <1>1, <1>3, ZenonT(60) DEF Known, FollowsPoll
<1>5. Requested
  <2>1. RT!Idle \in ReqRec /\ RT!Idle.pc = "idle"
    BY DEF ReqRec, RT!Idle
  <2>. QED
    BY <1>0, <2>1, Zenon DEF Requested
<1>6. CountTypes
  <2>1. 0 \in Nat /\ rt_count \in [DOMAIN rt_count -> Int]
    BY <1>i
  <2>. QED
    BY <1>i, <2>1, Zenon DEF CountTypes
<1>7. Counted
  <2>1. \A n : RT!Running(n) = {}
    BY <1>0 DEF RT!Running, RT!Idle
  <2>2. \A n : Cardinality(RT!Running(n)) = 0
    BY <2>1, FiniteEmpty, Zenon
  <2>3. \A n \in RT!Keys : rt_unrefs[n] = 0 /\ rt_repeated[n] = 0 /\ RT!Count(n) = 0
    BY <1>i, Zenon DEF RT!Count
  <2>4. 0 + 0 <= 0 + 0 /\ 0 <= Quota + 0
    BY RoutingAssumption
  <2>. QED
    BY <2>2, <2>3, <2>4, Zenon DEF Counted
<1>. QED
  BY <1>4, <1>5, <1>6, <1>7, Zenon DEF RTInv

\* What stays when nothing that it speaks of changes.
LEMMA KnownStays ==
  ASSUME Known, FollowsPoll, UNCHANGED <<rt_nodes, rt_ring, rt_polled, rt_local>>
  PROVE  Known' /\ FollowsPoll'
BY Zenon DEF Known, FollowsPoll, RT!Groups

LEMMA CountsStay ==
  ASSUME CountTypes, Counted, UNCHANGED <<rt_req, rt_count, rt_unrefs, rt_lapsed, rt_repeated>>
  PROVE  CountTypes' /\ Counted'
<1>1. \A n : RT!Running(n)' = RT!Running(n) /\ RT!Count(n)' = RT!Count(n)
  BY Zenon DEF RT!Running, RT!Count
<1>2. RT!Keys' = RT!Keys
  BY Zenon DEF RT!Keys
<1>. QED
  BY <1>1, <1>2, Zenon DEF CountTypes, Counted

LEMMA RequestsStay ==
  ASSUME Requested, UNCHANGED <<rt_req, rt_clients>>
  PROVE  Requested'
BY Zenon DEF Requested, ReqRec, RT!Keys, RT!Groups

\* A request goes on, and does not start to run.
LEMMA RequestGoesOn ==
  ASSUME FiniteFacts, RTInv, NEW c \in Callers, NEW r \in ReqRec, rt_req' = [rt_req EXCEPT ![c] = r],
         r.pc # "running", r.pc # "idle" => r.node \in RT!Keys,
         r.pc = "routed" => r.group \in RT!Groups /\ r.node \in Nodes,
         rt_clients' \subseteq RT!Groups \X Nodes,
         UNCHANGED <<rt_nodes, rt_ring, rt_polled, rt_local, rt_count, rt_unrefs, rt_lapsed, rt_repeated>>
  PROVE  RTInv'
<1>1. Known' /\ FollowsPoll'
  BY KnownStays, Zenon DEF RTInv
<1>c. RT!Groups' = RT!Groups /\ RT!Keys' = RT!Keys /\ ReqRec' = ReqRec
  BY Zenon DEF RT!Groups, RT!Keys, ReqRec
<1>2. Requested'
  <2>1. rt_req' \in [Callers -> ReqRec]
    BY Zenon DEF RTInv, Requested
  <2>2. ASSUME NEW d \in Callers
        PROVE  /\ rt_req'[d].pc # "idle" => rt_req'[d].node \in RT!Keys
               /\ rt_req'[d].pc = "routed" => rt_req'[d].group \in RT!Groups /\ rt_req'[d].node \in Nodes
    BY Zenon DEF RTInv, Requested
  <2>. QED
    BY <1>c, <2>1, <2>2, Zenon DEF Requested
<1>3. CountTypes'
  BY <1>c, Zenon DEF RTInv, CountTypes
<1>4. Counted'
  <2>. SUFFICES ASSUME ~rt_lapsed', NEW n \in RT!Keys
                PROVE  /\ Cardinality(RT!Running(n))' + rt_unrefs[n] <= RT!Count(n) + rt_repeated[n]
                       /\ Cardinality(RT!Running(n))' <= Quota + rt_repeated[n]
    <3>1. \A n : RT!Count(n)' = RT!Count(n)
      BY Zenon DEF RT!Count
    <3>. QED
      BY <1>c, <3>1, Zenon DEF Counted
  <2>1. /\ Cardinality(RT!Running(n))' \in Nat
        /\ Cardinality(RT!Running(n))' <= Cardinality(RT!Running(n))
    BY RunningShrinks, Zenon DEF RTInv
  <2>2. Cardinality(RT!Running(n)) \in Nat
    BY RunningIsFinite, Zenon
  <2>3. rt_unrefs[n] \in Nat /\ rt_repeated[n] \in Nat /\ RT!Count(n) \in Int
    <3>1. 0 \in Int
      OBVIOUS
    <3>. QED
      BY <3>1, Zenon DEF RTInv, CountTypes, RT!Count
  <2>4. /\ Cardinality(RT!Running(n)) + rt_unrefs[n] <= RT!Count(n) + rt_repeated[n]
        /\ Cardinality(RT!Running(n)) <= Quota + rt_repeated[n]
    BY Zenon DEF RTInv, Counted
  <2>. QED
    BY ONLY <2>1, <2>2, <2>3, <2>4, RoutingAssumption, SMTT(60)
<1>. QED
  BY <1>1, <1>2, <1>3, <1>4, Zenon DEF RTInv

\* The operations of the node manager: its ring stays a part of its nodes.
LEMMA RTManager ==
  ASSUME RTInv, NEW g \in Varying, NEW n \in Nodes,
         RT!AddNode(g, n) \/ RT!RemoveNode(g, n) \/ RT!ToggleHealth(g, n) \/ RT!ToggleService
  PROVE  RTInv'
<1>0. UNCHANGED <<rt_polled, rt_local, rt_clients, rt_req, rt_count, rt_unrefs, rt_lapsed, rt_repeated>>
  BY Zenon DEF RT!AddNode, RT!RemoveNode, RT!ToggleHealth, RT!ToggleService, RT!throttle
<1>1. Requested' /\ CountTypes' /\ Counted'
  BY <1>0, RequestsStay, CountsStay, Zenon DEF RTInv
<1>2. FollowsPoll'
  BY <1>0, Zenon DEF RTInv, FollowsPoll
<1>g. g \in RT!Groups
  BY RoutingAssumption, Zenon
<1>k. /\ rt_nodes \in [RT!Groups -> SUBSET Nodes] /\ rt_ring \in [RT!Groups -> SUBSET Nodes]
      /\ \A h \in RT!Groups : rt_ring[h] \subseteq rt_nodes[h]
  BY Zenon DEF RTInv, Known
<1>3. /\ rt_nodes' \in [RT!Groups -> SUBSET Nodes] /\ rt_ring' \in [RT!Groups -> SUBSET Nodes]
      /\ \A h \in RT!Groups : rt_ring'[h] \subseteq rt_nodes'[h]
  <2>1. CASE rt_nodes' = [rt_nodes EXCEPT ![g] = @ \cup {n}] /\ rt_ring' = [rt_ring EXCEPT ![g] = @ \cup {n}]
    BY <2>1, <1>g, <1>k, SMTT(60)
  <2>2. CASE rt_nodes' = [rt_nodes EXCEPT ![g] = @ \ {n}] /\ rt_ring' = [rt_ring EXCEPT ![g] = @ \ {n}]
    BY <2>2, <1>g, <1>k, SMTT(60)
  <2>3. CASE /\ n \in rt_nodes[g] /\ UNCHANGED rt_nodes
             /\ rt_ring' = [rt_ring EXCEPT ![g] = IF n \in @ THEN @ \ {n} ELSE @ \cup {n}]
    BY <2>3, <1>g, <1>k, SMTT(60)
  <2>4. CASE UNCHANGED <<rt_nodes, rt_ring>>
    BY <2>4, <1>k, Zenon
  <2>. QED
    BY <2>1, <2>2, <2>3, <2>4, Zenon DEF RT!AddNode, RT!RemoveNode, RT!ToggleHealth, RT!ToggleService
<1>4. Known'
  BY <1>0, <1>3, Zenon DEF RTInv, Known, RT!Groups
<1>. QED
  BY <1>1, <1>2, <1>4, Zenon DEF RTInv

\* A group of the local router after a poll that listed it: the nodes listed, and
\* none besides them (update adds what is new and removes what is gone).
LEMMA UpdatedGroup ==
  ASSUME NEW item, NEW urls, item.ring \subseteq item.nodes
  PROVE  /\ RT!updatedGroup(item, urls).nodes = urls
         /\ RT!updatedGroup(item, urls).ring \subseteq urls
<1>1. /\ RT!updatedGroup(item, urls).nodes =
           (item.nodes \cup (urls \ item.nodes)) \ ((item.nodes \cup (urls \ item.nodes)) \ urls)
      /\ RT!updatedGroup(item, urls).ring =
           (item.ring \cup (urls \ item.nodes)) \ ((item.nodes \cup (urls \ item.nodes)) \ urls)
  BY Zenon DEF RT!updatedGroup
<1>. QED
  BY <1>1

LEMMA RTPoll ==
  ASSUME RTInv, RT!pollOnce
  PROVE  RTInv'
<1>. DEFINE listed == RT!listAll
<1>0. /\ rt_local' = RT!update(rt_local, listed)
      /\ rt_polled' = [g \in DOMAIN rt_polled \cup DOMAIN listed |->
                         IF g \in DOMAIN listed THEN listed[g] ELSE rt_polled[g]]
      /\ UNCHANGED <<rt_nodes, rt_ring, rt_clients, rt_req, rt_count, rt_unrefs, rt_lapsed, rt_repeated>>
  BY Zenon DEF RT!pollOnce, RT!manager, RT!throttle
<1>1. Requested' /\ CountTypes' /\ Counted'
  BY <1>0, RequestsStay, CountsStay, Zenon DEF RTInv
<1>2. DOMAIN listed \subseteq RT!Groups /\ \A g \in DOMAIN listed : listed[g] \subseteq Nodes
  BY Zenon DEF RTInv, Known, RT!listAll, RT!Restrict
<1>3. rt_local' = [g \in DOMAIN rt_local \cup DOMAIN listed |->
                     IF g \notin DOMAIN listed THEN rt_local[g]
                     ELSE IF g \notin DOMAIN rt_local THEN RT!newLocalNodeGroup(listed[g])
                     ELSE RT!updatedGroup(rt_local[g], listed[g])]
  BY <1>0, Zenon DEF RT!update
<1>. HIDE DEF listed
<1>d. DOMAIN rt_local' = DOMAIN rt_local \cup DOMAIN listed
  BY <1>3, Zenon
<1>4. ASSUME NEW g \in DOMAIN listed
      PROVE  rt_local'[g].nodes = listed[g] /\ rt_local'[g].ring \subseteq listed[g]
  <2>1. CASE g \notin DOMAIN rt_local
    BY <2>1, <1>3, Zenon DEF RT!newLocalNodeGroup
  <2>2. CASE g \in DOMAIN rt_local
    <3>1. rt_local[g].ring \subseteq rt_local[g].nodes
      BY <2>2, Zenon DEF RTInv, Known
    <3>2. rt_local'[g] = RT!updatedGroup(rt_local[g], listed[g])
      BY <2>2, <1>3, Zenon
    <3>. QED
      BY <3>1, <3>2, UpdatedGroup, Zenon
  <2>. QED
    BY <2>1, <2>2, Zenon
<1>5. ASSUME NEW g \in DOMAIN rt_local', g \notin DOMAIN listed
      PROVE  g \in DOMAIN rt_local /\ rt_local'[g] = rt_local[g]
  BY <1>3, <1>5, <1>d, Zenon
<1>6. FollowsPoll'
  <2>. SUFFICES ASSUME NEW g \in DOMAIN rt_local'
                PROVE  g \in DOMAIN rt_polled' /\ rt_local'[g].ring \subseteq rt_polled'[g]
    BY Zenon DEF FollowsPoll
  <2>1. CASE g \in DOMAIN listed
    BY <2>1, <1>0, <1>4, Zenon
  <2>2. CASE g \notin DOMAIN listed
    <3>1. g \in DOMAIN rt_polled /\ rt_local'[g].ring \subseteq rt_polled[g]
      BY <2>2, <1>5, Zenon DEF RTInv, FollowsPoll
    <3>. QED
      BY <2>2, <3>1, <1>0, Zenon
  <2>. QED
    BY <2>1, <2>2, Zenon
<1>7. DOMAIN rt_local' \subseteq RT!Groups /\ \A g \in DOMAIN rt_local' :
        rt_local'[g].nodes \subseteq Nodes /\ rt_local'[g].ring \subseteq rt_local'[g].nodes
  BY <1>2, <1>4, <1>5, <1>d, Zenon DEF RTInv, Known
<1>8. Known'
  BY <1>0, <1>7, Zenon DEF RTInv, Known, RT!Groups
<1>. QED
  BY <1>1, <1>6, <1>8, Zenon DEF RTInv

\* Where the chain of routers may send a request: a node of the group, as the
\* manager has it now or the local router was told, or the failover.
LEMMA RouteIsCurrent ==
  ASSUME RTInv, NEW g \in RT!Groups, NEW n \in RT!Route(g)
  PROVE  /\ n \in Nodes
         /\ \/ n \in rt_nodes[g]
            \/ g \in DOMAIN rt_polled /\ n \in rt_polled[g]
            \/ n = Failover[g]
<1>1. CASE n \in rt_ring[g]
  BY <1>1, Zenon DEF RTInv, Known
<1>2. CASE g \in DOMAIN rt_local /\ n \in rt_local[g].ring
  BY <1>2, Zenon DEF RTInv, Known, FollowsPoll
<1>3. CASE n = Failover[g] /\ n # None
  BY <1>3, RoutingAssumption, Zenon
<1>4. n \in rt_ring[g] \/ (g \in DOMAIN rt_local /\ n \in rt_local[g].ring) \/ (n = Failover[g] /\ n # None)
  <2>1. n \in RT!ManagerRoute(g) \/ n \in RT!LocalRoute(g) \/ n \in {Failover[g]} \ {None}
    BY Zenon DEF RT!Route
  <2>. QED
    BY <2>1, Zenon DEF RT!ManagerRoute, RT!LocalRoute
<1>. QED
  BY <1>1, <1>2, <1>3, <1>4, Zenon

\* A request is routed, or finds no node.
LEMMA RTGetClient ==
  ASSUME FiniteFacts, RTInv, NEW c \in Callers, NEW g \in RT!Groups, RT!getClient(c, g),
         UNCHANGED <<rt_nodes, rt_ring, rt_polled, rt_local, rt_clients, rt_count, rt_unrefs, rt_lapsed, rt_repeated>>
  PROVE  RTInv'
<1>k. rt_clients' \subseteq RT!Groups \X Nodes
  BY Zenon DEF RTInv, Requested
<1>1. CASE rt_req' = [rt_req EXCEPT ![c] = RT!Idle]
  <2>1. RT!Idle \in ReqRec /\ RT!Idle.pc = "idle"
    BY DEF ReqRec, RT!Idle
  <2>. QED
    BY <1>1, <1>k, <2>1, RequestGoesOn, Zenon
<1>2. ASSUME NEW n \in RT!Route(g), rt_req' = [rt_req EXCEPT ![c] = [pc |-> "routed", group |-> g, node |-> n]]
      PROVE  RTInv'
  <2>. DEFINE r == [pc |-> "routed", group |-> g, node |-> n]
  <2>1. n \in Nodes /\ n \in RT!Keys
    BY RouteIsCurrent, Zenon DEF RT!Keys
  <2>2. r \in ReqRec /\ r.pc = "routed" /\ r.group = g /\ r.node = n
    BY <2>1 DEF ReqRec
  <2>3. rt_req' = [rt_req EXCEPT ![c] = r]
    BY <1>2, Zenon
  <2>. HIDE DEF r
  <2>. QED
    BY <1>k, <2>1, <2>2, <2>3, RequestGoesOn, Zenon
<1>. QED
  BY <1>1, <1>2, Zenon DEF RT!getClient

LEMMA RTRoutes ==
  ASSUME FiniteFacts, RTInv, NEW c \in Callers, NEW m \in {"getLogs", "filter", "other"},
         RT!getEthClientFromProviderWithContext(c, m) \/ RT!getCfxClientFromProviderWithContext(c, m)
           \/ RT!prunedGetLogs(c)
  PROVE  RTInv'
<1>1. UNCHANGED <<rt_nodes, rt_ring, rt_polled, rt_local, rt_clients, rt_count, rt_unrefs, rt_lapsed, rt_repeated>>
  BY Zenon DEF RT!getEthClientFromProviderWithContext, RT!getCfxClientFromProviderWithContext,
               RT!prunedGetLogs, RT!manager, RT!throttle
<1>2. RT!ethGroup(m) \subseteq RT!Groups /\ RT!cfxGroup(m) \subseteq RT!Groups /\ "archives" \in RT!Groups
  BY DEF RT!ethGroup, RT!cfxGroup, RT!Groups
<1>3. \E g \in RT!Groups : RT!getClient(c, g)
  BY <1>2, Zenon DEF RT!getEthClientFromProviderWithContext, RT!getCfxClientFromProviderWithContext,
                     RT!prunedGetLogs
<1>. QED
  BY <1>1, <1>3, RTGetClient, Zenon

\* A request gets its client, or fails to.
LEMMA RTConnect ==
  ASSUME FiniteFacts, RTInv, NEW c \in Callers, RT!getOrRegisterClient(c) \/ RT!connectionFails(c)
  PROVE  RTInv'
<1>0. /\ rt_req[c].pc = "routed"
      /\ UNCHANGED <<rt_nodes, rt_ring, rt_polled, rt_local, rt_count, rt_unrefs, rt_lapsed, rt_repeated>>
      /\ rt_clients' \in {rt_clients, rt_clients \cup {<<rt_req[c].group, rt_req[c].node>>}}
  BY Zenon DEF RT!getOrRegisterClient, RT!connectionFails, RT!manager, RT!throttle
<1>1. rt_req[c].group \in RT!Groups /\ rt_req[c].node \in Nodes /\ rt_req[c].node \in RT!Keys
      /\ rt_clients \subseteq RT!Groups \X Nodes
  BY <1>0, Zenon DEF RTInv, Requested
<1>2. rt_clients' \subseteq RT!Groups \X Nodes
  BY <1>0, <1>1, SMTT(60)
<1>3. CASE rt_req' = [rt_req EXCEPT ![c] = RT!Idle]
  <2>1. RT!Idle \in ReqRec /\ RT!Idle.pc = "idle"
    BY DEF ReqRec, RT!Idle
  <2>. QED
    BY <1>0, <1>2, <1>3, <2>1, RequestGoesOn, Zenon
<1>4. CASE rt_req' = [rt_req EXCEPT ![c] = [pc |-> "throttle", group |-> rt_req[c].group, node |-> rt_req[c].node]]
  <2>. DEFINE r == [pc |-> "throttle", group |-> rt_req[c].group, node |-> rt_req[c].node]
  <2>1. r \in ReqRec /\ r.pc = "throttle" /\ r.node = rt_req[c].node
    BY <1>1 DEF ReqRec
  <2>2. rt_req' = [rt_req EXCEPT ![c] = r]
    BY <1>4, Zenon
  <2>. HIDE DEF r
  <2>. QED
    BY <1>0, <1>1, <1>2, <2>1, <2>2, RequestGoesOn, Zenon
<1>. QED
  BY <1>3, <1>4, Zenon DEF RT!getOrRegisterClient, RT!connectionFails

LEMMA RTRegister ==
  ASSUME RTInv, NEW g \in Varying, RT!RegisterAll(g)
  PROVE  RTInv'
<1>0. /\ rt_clients' = rt_clients \cup {<<g, n>> : n \in RT!ListNodesByGroup(g)}
      /\ UNCHANGED <<rt_nodes, rt_ring, rt_polled, rt_local, rt_req, rt_count, rt_unrefs, rt_lapsed, rt_repeated>>
  BY Zenon DEF RT!RegisterAll, RT!manager, RT!throttle
<1>1. g \in RT!Groups /\ RT!ListNodesByGroup(g) \subseteq Nodes
  BY RoutingAssumption, Zenon DEF RT!ListNodesByGroup, RTInv, Known
<1>2. rt_clients' \subseteq RT!Groups \X Nodes
  BY <1>0, <1>1 DEF RTInv, Requested
<1>3. Requested'
  BY <1>0, <1>2, Zenon DEF RTInv, Requested, ReqRec, RT!Keys, RT!Groups
<1>. QED
  BY <1>0, <1>3, KnownStays, CountsStay, Zenon DEF RTInv

LEMMA RTByUser ==
  ASSUME FiniteFacts, RTInv, NEW c \in Callers, RT!getLogsByUser(c)
  PROVE  RTInv'
<1>. DEFINE r == [pc |-> "throttle", group |-> None, node |-> UserNode]
<1>0. /\ rt_req' = [rt_req EXCEPT ![c] = r]
      /\ UNCHANGED <<rt_nodes, rt_ring, rt_polled, rt_local, rt_clients, rt_count, rt_unrefs, rt_lapsed, rt_repeated>>
  BY Zenon DEF RT!getLogsByUser, RT!manager, RT!throttle
<1>1. UserNode \in RT!Keys
  BY Zenon DEF RT!Keys
<1>2. r \in ReqRec /\ r.pc = "throttle" /\ r.node = UserNode
  BY <1>1 DEF ReqRec
<1>3. rt_clients' \subseteq RT!Groups \X Nodes
  BY <1>0, Zenon DEF RTInv, Requested
<1>. HIDE DEF r
<1>. QED
  BY <1>0, <1>1, <1>2, <1>3, RequestGoesOn, Zenon

\* What the quota's counters are.
LEMMA CountIs ==
  ASSUME FiniteFacts, RTInv, NEW n \in RT!Keys
  PROVE  /\ RT!Count(n) \in Int /\ rt_unrefs[n] \in Nat /\ rt_repeated[n] \in Nat
         /\ Cardinality(RT!Running(n)) \in Nat
         /\ ~rt_lapsed => /\ Cardinality(RT!Running(n)) + rt_unrefs[n] <= RT!Count(n) + rt_repeated[n]
                          /\ Cardinality(RT!Running(n)) <= Quota + rt_repeated[n]
<1>1. 0 \in Int
  OBVIOUS
<1>2. RT!Count(n) \in Int /\ rt_unrefs[n] \in Nat /\ rt_repeated[n] \in Nat
  BY <1>1, Zenon DEF RTInv, CountTypes, RT!Count
<1>. QED
  BY <1>2, RunningIsFinite, Zenon DEF RTInv, Counted

\* A counter that redis sets.
LEMMA CountSet ==
  ASSUME RTInv, NEW m \in RT!Keys, NEW v \in Int, rt_count' = RT!SetCount(m, v)
  PROVE  /\ rt_count' \in [DOMAIN rt_count' -> Int]
         /\ \A n : RT!Count(n)' = IF n = m THEN v ELSE RT!Count(n)
<1>1. rt_count' = [k \in DOMAIN rt_count \cup {m} |-> IF k = m THEN v ELSE rt_count[k]]
  BY Zenon DEF RT!SetCount
<1>2. rt_count \in [DOMAIN rt_count -> Int]
  BY Zenon DEF RTInv, CountTypes
<1>3. rt_count' \in [DOMAIN rt_count' -> Int]
  BY <1>1, <1>2, Zenon
<1>4. \A n : RT!Count(n)' = IF n = m THEN v ELSE RT!Count(n)
  BY <1>1, Zenon DEF RT!Count
<1>. QED
  BY <1>3, <1>4, Zenon

\* A request that does no more than change where it stands stays well-formed.
LEMMA RequestedNext ==
  ASSUME RTInv, NEW c \in Callers, NEW r \in ReqRec, rt_req' = [rt_req EXCEPT ![c] = r],
         r.pc # "idle" => r.node \in RT!Keys, r.pc # "routed", UNCHANGED rt_clients
  PROVE  Requested'
<1>c. RT!Groups' = RT!Groups /\ RT!Keys' = RT!Keys /\ ReqRec' = ReqRec
  BY Zenon DEF RT!Groups, RT!Keys, ReqRec
<1>1. rt_req' \in [Callers -> ReqRec] /\ rt_clients' \subseteq RT!Groups \X Nodes
  BY Zenon DEF RTInv, Requested
<1>2. ASSUME NEW d \in Callers
      PROVE  /\ rt_req'[d].pc # "idle" => rt_req'[d].node \in RT!Keys
             /\ rt_req'[d].pc = "routed" => rt_req'[d].group \in RT!Groups /\ rt_req'[d].node \in Nodes
  BY Zenon DEF RTInv, Requested
<1>. QED
  BY <1>c, <1>1, <1>2, Zenon DEF Requested

LEMMA IdleIs == RT!Idle \in ReqRec /\ RT!Idle.pc = "idle"
BY DEF ReqRec, RT!Idle

\* Ref within the quota: the query runs, and the counter counts it.
LEMMA RTRefRuns ==
  ASSUME FiniteFacts, RTInv, NEW c \in Callers, rt_req[c].pc = "throttle",
         rt_count' = RT!SetCount(rt_req[c].node, RT!Count(rt_req[c].node) + 1),
         RT!Count(rt_req[c].node) + 1 <= Quota,
         rt_req' = [rt_req EXCEPT ![c].pc = "running"],
         UNCHANGED <<rt_nodes, rt_ring, rt_polled, rt_local, rt_clients, rt_unrefs, rt_lapsed, rt_repeated>>
  PROVE  RTInv'
<1>. DEFINE m == rt_req[c].node
            r == [rt_req[c] EXCEPT !.pc = "running"]
<1>0. m \in RT!Keys /\ rt_req \in [Callers -> ReqRec] /\ Requested
  BY Zenon DEF RTInv, Requested
<1>1. rt_req' = [rt_req EXCEPT ![c] = r]
  BY Zenon
<1>2. r \in ReqRec /\ r.pc = "running" /\ r.node = m
  BY <1>0 DEF ReqRec
<1>3. Requested'
  <2>. HIDE DEF r
  <2>. QED
    BY <1>0, <1>1, <1>2, RequestedNext, Zenon
<1>4. \A n : Cardinality(RT!Running(n))' = IF n = m THEN Cardinality(RT!Running(n)) + 1
                                           ELSE Cardinality(RT!Running(n))
  BY <1>0, RunningGrows, Zenon
<1>. HIDE DEF m, r
<1>5. RT!Count(m) + 1 \in Int
  BY <1>0, CountIs
<1>6. rt_count' \in [DOMAIN rt_count' -> Int]
      /\ \A n : RT!Count(n)' = IF n = m THEN RT!Count(m) + 1 ELSE RT!Count(n)
  BY <1>0, <1>5, CountSet, Zenon DEF m
<1>7. CountTypes'
  BY <1>6, Zenon DEF RTInv, CountTypes, RT!Keys
<1>8. Counted'
  <2>. SUFFICES ASSUME ~rt_lapsed, NEW n \in RT!Keys
                PROVE  /\ Cardinality(RT!Running(n))' + rt_unrefs[n] <= RT!Count(n)' + rt_repeated[n]
                       /\ Cardinality(RT!Running(n))' <= Quota + rt_repeated[n]
    BY Zenon DEF Counted, RT!Keys
  <2>1. CASE n = m
    <3>1. RT!Count(m) + 1 <= Quota
      BY Zenon DEF m
    <3>2. Cardinality(RT!Running(n))' = Cardinality(RT!Running(n)) + 1 /\ RT!Count(n)' = RT!Count(n) + 1
      BY <2>1, <1>4, <1>6, Zenon
    <3>3. /\ RT!Count(n) \in Int /\ rt_unrefs[n] \in Nat /\ rt_repeated[n] \in Nat
          /\ Cardinality(RT!Running(n)) \in Nat
          /\ Cardinality(RT!Running(n)) + rt_unrefs[n] <= RT!Count(n) + rt_repeated[n]
      BY CountIs, Zenon
    <3>. QED
      BY ONLY <2>1, <3>1, <3>2, <3>3, RoutingAssumption, SMTT(60)
  <2>2. CASE n # m
    BY <2>2, <1>4, <1>6, CountIs, Zenon
  <2>. QED
    BY <2>1, <2>2, Zenon
<1>. QED
  BY <1>3, <1>7, <1>8, KnownStays, Zenon DEF RTInv

\* Ref beyond the quota: the query is counted, and to be counted out.
LEMMA RTRefRejects ==
  ASSUME FiniteFacts, RTInv, NEW c \in Callers, rt_req[c].pc = "throttle",
         rt_count' = RT!SetCount(rt_req[c].node, RT!Count(rt_req[c].node) + 1),
         rt_req' = [rt_req EXCEPT ![c] = RT!Idle],
         rt_unrefs' \in {rt_unrefs, [rt_unrefs EXCEPT ![rt_req[c].node] = @ + 1]},
         UNCHANGED <<rt_nodes, rt_ring, rt_polled, rt_local, rt_clients, rt_lapsed, rt_repeated>>
  PROVE  RTInv'
<1>. DEFINE m == rt_req[c].node
<1>0. m \in RT!Keys /\ Requested
  BY Zenon DEF RTInv, Requested
<1>u. rt_unrefs \in [RT!Keys -> Nat] /\ rt_unrefs' \in {rt_unrefs, [rt_unrefs EXCEPT ![m] = @ + 1]}
  BY Zenon DEF RTInv, CountTypes
<1>3. Requested'
  BY IdleIs, RequestedNext, Zenon
<1>4. \A n : Cardinality(RT!Running(n))' \in Nat /\ Cardinality(RT!Running(n))' <= Cardinality(RT!Running(n))
  BY <1>0, IdleIs, RunningShrinks, Zenon
<1>. HIDE DEF m
<1>5. RT!Count(m) + 1 \in Int
  BY <1>0, CountIs, SMTT(60)
<1>6. rt_count' \in [DOMAIN rt_count' -> Int]
      /\ \A n : RT!Count(n)' = IF n = m THEN RT!Count(m) + 1 ELSE RT!Count(n)
  BY <1>0, <1>5, CountSet, Zenon DEF m
<1>v. /\ rt_unrefs' \in [RT!Keys -> Nat]
      /\ \A n \in RT!Keys : rt_unrefs'[n] <= IF n = m THEN rt_unrefs[n] + 1 ELSE rt_unrefs[n]
  BY ONLY <1>0, <1>u, SMTT(60)
<1>7. CountTypes'
  BY <1>6, <1>v, Zenon DEF RTInv, CountTypes, RT!Keys
<1>8. Counted'
  <2>. SUFFICES ASSUME ~rt_lapsed, NEW n \in RT!Keys
                PROVE  /\ Cardinality(RT!Running(n))' + rt_unrefs'[n] <= RT!Count(n)' + rt_repeated[n]
                       /\ Cardinality(RT!Running(n))' <= Quota + rt_repeated[n]
    BY Zenon DEF Counted, RT!Keys
  <2>1. /\ RT!Count(n) \in Int /\ rt_unrefs[n] \in Nat /\ rt_repeated[n] \in Nat
        /\ Cardinality(RT!Running(n)) \in Nat
        /\ Cardinality(RT!Running(n)) + rt_unrefs[n] <= RT!Count(n) + rt_repeated[n]
        /\ Cardinality(RT!Running(n)) <= Quota + rt_repeated[n]
    BY CountIs, Zenon
  <2>2. Cardinality(RT!Running(n))' \in Nat /\ Cardinality(RT!Running(n))' <= Cardinality(RT!Running(n))
        /\ rt_unrefs'[n] \in Nat
    BY <1>4, <1>v, Zenon
  <2>3. CASE n = m
    <3>1. rt_unrefs'[n] <= rt_unrefs[n] + 1 /\ RT!Count(n)' = RT!Count(n) + 1
      BY <2>3, <1>v, <1>6, Zenon
    <3>. QED
      BY ONLY <2>1, <2>2, <3>1, RoutingAssumption, SMTT(60)
  <2>4. CASE n # m
    <3>1. rt_unrefs'[n] <= rt_unrefs[n] /\ RT!Count(n)' = RT!Count(n)
      BY <2>4, <1>v, <1>6, Zenon
    <3>. QED
      BY ONLY <2>1, <2>2, <3>1, RoutingAssumption, SMTT(60)
  <2>. QED
    BY <2>3, <2>4, Zenon
<1>. QED
  BY <1>3, <1>7, <1>8, KnownStays, Zenon DEF RTInv

LEMMA RTRef ==
  ASSUME FiniteFacts, RTInv, NEW c \in Callers, RT!Ref(c) \/ RT!RefFails(c)
  PROVE  RTInv'
<1>0. rt_req[c].pc = "throttle"
      /\ UNCHANGED <<rt_nodes, rt_ring, rt_polled, rt_local, rt_clients, rt_lapsed, rt_repeated>>
  BY Zenon DEF RT!Ref, RT!RefFails, RT!manager
<1>1. CASE RT!Ref(c) /\ RT!withinQuota(rt_req[c].node)
  BY <1>0, <1>1, RTRefRuns, Zenon DEF RT!Ref, RT!withinQuota
<1>2. CASE RT!Ref(c) /\ ~RT!withinQuota(rt_req[c].node)
  BY <1>0, <1>2, RTRefRejects, Zenon DEF RT!Ref
<1>3. CASE RT!RefFails(c) /\ rt_count' = RT!SetCount(rt_req[c].node, RT!Count(rt_req[c].node) + 1)
  BY <1>0, <1>3, RTRefRejects, Zenon DEF RT!RefFails
<1>4. CASE RT!RefFails(c) /\ UNCHANGED rt_count
  <2>1. rt_req' = [rt_req EXCEPT ![c] = RT!Idle] /\ UNCHANGED rt_unrefs
    BY <1>4, Zenon DEF RT!RefFails
  <2>2. rt_clients' \subseteq RT!Groups \X Nodes
    BY <1>0, Zenon DEF RTInv, Requested
  <2>. QED
    BY <1>0, <1>4, <2>1, <2>2, IdleIs, RequestGoesOn, Zenon
<1>. QED
  BY <1>1, <1>2, <1>3, <1>4, Zenon DEF RT!RefFails

\* A query that ends is to be counted out.
LEMMA RTEnd ==
  ASSUME FiniteFacts, RTInv, NEW c \in Callers, RT!getLogsThrottled(c)
  PROVE  RTInv'
<1>. DEFINE m == rt_req[c].node
<1>0. /\ rt_req[c].pc = "running" /\ rt_unrefs' = [rt_unrefs EXCEPT ![m] = @ + 1]
      /\ rt_req' = [rt_req EXCEPT ![c] = RT!Idle]
      /\ UNCHANGED <<rt_nodes, rt_ring, rt_polled, rt_local, rt_clients, rt_count, rt_lapsed, rt_repeated>>
  BY Zenon DEF RT!getLogsThrottled, RT!manager
<1>1. m \in RT!Keys /\ Requested /\ rt_unrefs \in [RT!Keys -> Nat]
  BY <1>0, Zenon DEF RTInv, Requested, CountTypes
<1>3. Requested'
  BY <1>0, IdleIs, RequestedNext, Zenon
<1>4. \A n : /\ Cardinality(RT!Running(n))' \in Nat
             /\ Cardinality(RT!Running(n))' <= Cardinality(RT!Running(n))
             /\ n = m => Cardinality(RT!Running(n))' = Cardinality(RT!Running(n)) - 1
  BY <1>0, <1>1, IdleIs, RunningShrinks, Zenon
<1>. HIDE DEF m
<1>5. /\ rt_unrefs' \in [RT!Keys -> Nat]
      /\ \A n \in RT!Keys : rt_unrefs'[n] = IF n = m THEN rt_unrefs[n] + 1 ELSE rt_unrefs[n]
  BY ONLY <1>0, <1>1
<1>6. \A n : RT!Count(n)' = RT!Count(n)
  BY <1>0, Zenon DEF RT!Count
<1>7. CountTypes'
  BY <1>0, <1>5, Zenon DEF RTInv, CountTypes, RT!Keys
<1>8. Counted'
  <2>. SUFFICES ASSUME ~rt_lapsed, NEW n \in RT!Keys
                PROVE  /\ Cardinality(RT!Running(n))' + rt_unrefs'[n] <= RT!Count(n) + rt_repeated[n]
                       /\ Cardinality(RT!Running(n))' <= Quota + rt_repeated[n]
    BY <1>0, <1>6, Zenon DEF Counted, RT!Keys
  <2>1. /\ RT!Count(n) \in Int /\ rt_unrefs[n] \in Nat /\ rt_repeated[n] \in Nat
        /\ Cardinality(RT!Running(n)) \in Nat
        /\ Cardinality(RT!Running(n)) + rt_unrefs[n] <= RT!Count(n) + rt_repeated[n]
        /\ Cardinality(RT!Running(n)) <= Quota + rt_repeated[n]
    BY CountIs, Zenon
  <2>. QED
    BY ONLY <2>1, <1>4, <1>5, n \in RT!Keys, RoutingAssumption, SMTT(60)
<1>. QED
  BY <1>0, <1>3, <1>7, <1>8, KnownStays, Zenon DEF RTInv

\* A query is counted out, and redis answers.
LEMMA RTUnref ==
  ASSUME FiniteFacts, RTInv, NEW m \in RT!Keys, RT!SafeUnref(m)
  PROVE  RTInv'
<1>0. /\ rt_unrefs[m] > 0 /\ rt_unrefs' = [rt_unrefs EXCEPT ![m] = @ - 1]
      /\ rt_count' = RT!SetCount(m, RT!Count(m) - 1)
      /\ UNCHANGED <<rt_nodes, rt_ring, rt_polled, rt_local, rt_clients, rt_req, rt_lapsed, rt_repeated>>
  BY Zenon DEF RT!SafeUnref, RT!manager
<1>1. rt_unrefs \in [RT!Keys -> Nat]
  BY Zenon DEF RTInv, CountTypes
<1>2. /\ rt_unrefs' \in [RT!Keys -> Nat]
      /\ \A n \in RT!Keys : rt_unrefs'[n] = IF n = m THEN rt_unrefs[n] - 1 ELSE rt_unrefs[n]
  BY ONLY <1>0, <1>1, m \in RT!Keys, SMTT(60)
<1>3. RT!Count(m) - 1 \in Int
  BY CountIs
<1>4. rt_count' \in [DOMAIN rt_count' -> Int]
      /\ \A n : RT!Count(n)' = IF n = m THEN RT!Count(m) - 1 ELSE RT!Count(n)
  BY <1>0, <1>3, CountSet, Zenon
<1>5. \A n : RT!Running(n)' = RT!Running(n)
  BY <1>0, Zenon DEF RT!Running
<1>6. CountTypes'
  BY <1>0, <1>2, <1>4, Zenon DEF RTInv, CountTypes, RT!Keys
<1>7. Counted'
  <2>. SUFFICES ASSUME ~rt_lapsed, NEW n \in RT!Keys
                PROVE  /\ Cardinality(RT!Running(n)) + rt_unrefs'[n] <= RT!Count(n)' + rt_repeated[n]
                       /\ Cardinality(RT!Running(n)) <= Quota + rt_repeated[n]
    BY <1>0, <1>5, Zenon DEF Counted, RT!Keys
  <2>1. /\ RT!Count(n) \in Int /\ rt_unrefs[n] \in Nat /\ rt_repeated[n] \in Nat
        /\ Cardinality(RT!Running(n)) \in Nat
        /\ Cardinality(RT!Running(n)) + rt_unrefs[n] <= RT!Count(n) + rt_repeated[n]
        /\ Cardinality(RT!Running(n)) <= Quota + rt_repeated[n]
    BY CountIs, Zenon
  <2>2. rt_unrefs'[n] = IF n = m THEN rt_unrefs[n] - 1 ELSE rt_unrefs[n]
    BY <1>2, Zenon
  <2>3. RT!Count(n)' = IF n = m THEN RT!Count(n) - 1 ELSE RT!Count(n)
    BY <1>4, Zenon
  <2>. QED
    BY ONLY <2>1, <2>2, <2>3, RoutingAssumption, SMTT(60)
<1>. QED
  BY <1>0, <1>6, <1>7, KnownStays, RequestsStay, Zenon DEF RTInv

\* The decrement is applied and its reply lost: what is repeated makes up for it.
LEMMA RTUnrefAgain ==
  ASSUME FiniteFacts, RTInv, NEW m \in RT!Keys, RT!SafeUnrefAgain(m)
  PROVE  RTInv'
<1>0. /\ rt_count' = RT!SetCount(m, RT!Count(m) - 1)
      /\ rt_repeated' = [rt_repeated EXCEPT ![m] = @ + 1]
      /\ UNCHANGED <<rt_nodes, rt_ring, rt_polled, rt_local, rt_clients, rt_req, rt_unrefs, rt_lapsed>>
  BY Zenon DEF RT!SafeUnrefAgain, RT!manager
<1>1. rt_repeated \in [RT!Keys -> Nat]
  BY Zenon DEF RTInv, CountTypes
<1>2. /\ rt_repeated' \in [RT!Keys -> Nat]
      /\ \A n \in RT!Keys : rt_repeated'[n] = IF n = m THEN rt_repeated[n] + 1 ELSE rt_repeated[n]
  BY ONLY <1>0, <1>1, m \in RT!Keys, SMTT(60)
<1>3. RT!Count(m) - 1 \in Int
  BY CountIs
<1>4. rt_count' \in [DOMAIN rt_count' -> Int]
      /\ \A n : RT!Count(n)' = IF n = m THEN RT!Count(m) - 1 ELSE RT!Count(n)
  BY <1>0, <1>3, CountSet, Zenon
<1>5. \A n : RT!Running(n)' = RT!Running(n)
  BY <1>0, Zenon DEF RT!Running
<1>6. CountTypes'
  BY <1>0, <1>2, <1>4, Zenon DEF RTInv, CountTypes, RT!Keys
<1>7. Counted'
  <2>. SUFFICES ASSUME ~rt_lapsed, NEW n \in RT!Keys
                PROVE  /\ Cardinality(RT!Running(n)) + rt_unrefs[n] <= RT!Count(n)' + rt_repeated'[n]
                       /\ Cardinality(RT!Running(n)) <= Quota + rt_repeated'[n]
    BY <1>0, <1>5, Zenon DEF Counted, RT!Keys
  <2>1. /\ RT!Count(n) \in Int /\ rt_unrefs[n] \in Nat /\ rt_repeated[n] \in Nat
        /\ Cardinality(RT!Running(n)) \in Nat
        /\ Cardinality(RT!Running(n)) + rt_unrefs[n] <= RT!Count(n) + rt_repeated[n]
        /\ Cardinality(RT!Running(n)) <= Quota + rt_repeated[n]
    BY CountIs, Zenon
  <2>2. rt_repeated'[n] = IF n = m THEN rt_repeated[n] + 1 ELSE rt_repeated[n]
    BY <1>2, Zenon
  <2>3. RT!Count(n)' = IF n = m THEN RT!Count(n) - 1 ELSE RT!Count(n)
    BY <1>4, Zenon
  <2>. QED
    BY ONLY <2>1, <2>2, <2>3, RoutingAssumption, SMTT(60)
<1>. QED
  BY <1>0, <1>6, <1>7, KnownStays, RequestsStay, Zenon DEF RTInv

\* A counter expires: unless a query holds it, none runs.
LEMMA RTExpire ==
  ASSUME FiniteFacts, RTInv, NEW m \in RT!Keys, RT!Expire(m)
  PROVE  RTInv'
<1>0. /\ rt_count' = RT!Restrict(rt_count, DOMAIN rt_count \ {m})
      /\ rt_lapsed' = (rt_lapsed \/ RT!Running(m) # {} \/ rt_unrefs[m] > 0)
      /\ rt_repeated' = [rt_repeated EXCEPT ![m] = 0]
      /\ UNCHANGED <<rt_nodes, rt_ring, rt_polled, rt_local, rt_clients, rt_req, rt_unrefs>>
  BY Zenon DEF RT!Expire, RT!manager
<1>1. rt_count' = [k \in DOMAIN rt_count \ {m} |-> rt_count[k]]
  BY <1>0, Zenon DEF RT!Restrict
<1>2. CountTypes'
  <2>1. rt_count' \in [DOMAIN rt_count' -> Int]
    BY <1>1, Zenon DEF RTInv, CountTypes
  <2>2. rt_lapsed' \in BOOLEAN /\ 0 \in Nat
    BY <1>0
  <2>3. rt_repeated' \in [RT!Keys -> Nat]
    BY <1>0, <2>2, Zenon DEF RTInv, CountTypes
  <2>. QED
    BY <1>0, <2>1, <2>2, <2>3, Zenon DEF RTInv, CountTypes, RT!Keys
<1>3. \A n : RT!Running(n)' = RT!Running(n)
  BY <1>0, Zenon DEF RT!Running
<1>4. \A n : RT!Count(n)' = IF n = m THEN 0 ELSE RT!Count(n)
  BY <1>1, Zenon DEF RT!Count
<1>r. \A n \in RT!Keys : rt_repeated'[n] = IF n = m THEN 0 ELSE rt_repeated[n]
  BY <1>0, Zenon DEF RTInv, CountTypes
<1>5. Counted'
  <2>. SUFFICES ASSUME ~rt_lapsed', NEW n \in RT!Keys
                PROVE  /\ Cardinality(RT!Running(n)) + rt_unrefs[n] <= RT!Count(n)' + rt_repeated'[n]
                       /\ Cardinality(RT!Running(n)) <= Quota + rt_repeated'[n]
    BY <1>0, <1>3, Zenon DEF Counted, RT!Keys
  <2>0. ~rt_lapsed /\ RT!Running(m) = {} /\ ~(rt_unrefs[m] > 0)
    BY <1>0, Zenon
  <2>1. CASE n = m
    <3>1. Cardinality(RT!Running(n)) = 0
      BY <2>0, <2>1, FiniteEmpty, Zenon
    <3>2. rt_unrefs[n] \in Nat /\ ~(rt_unrefs[n] > 0) /\ RT!Count(n)' = 0 /\ rt_repeated'[n] = 0
      BY <2>0, <2>1, <1>4, <1>r, CountIs, Zenon
    <3>. QED
      BY ONLY <3>1, <3>2, RoutingAssumption
  <2>2. CASE n # m
    BY <2>0, <2>2, <1>4, <1>r, CountIs, Zenon
  <2>. QED
    BY <2>1, <2>2, Zenon
<1>. QED
  BY <1>0, <1>2, <1>5, KnownStays, RequestsStay, Zenon DEF RTInv

LEMMA RTNext == FiniteFacts /\ RTInv /\ [RT!Next]_(RT!vars) => RTInv'
<1>. SUFFICES ASSUME FiniteFacts, RTInv, [RT!Next]_(RT!vars) PROVE RTInv'
  OBVIOUS
<1>1. ASSUME NEW g \in Varying, NEW n \in Nodes, RT!AddNode(g, n) \/ RT!RemoveNode(g, n) \/ RT!ToggleHealth(g, n)
      PROVE  RTInv'
  BY <1>1, RTManager, Zenon
<1>2. CASE RT!ToggleService
  BY <1>2, KnownStays, RequestsStay, CountsStay, Zenon DEF RT!ToggleService, RT!throttle, RTInv
<1>3. ASSUME NEW c \in Callers, NEW m \in {"getLogs", "filter", "other"},
             RT!getEthClientFromProviderWithContext(c, m) \/ RT!getCfxClientFromProviderWithContext(c, m)
      PROVE  RTInv'
  BY <1>3, RTRoutes, Zenon
<1>4. ASSUME NEW c \in Callers,
             \/ RT!getOrRegisterClient(c) \/ RT!connectionFails(c) \/ RT!prunedGetLogs(c)
             \/ RT!getLogsByUser(c) \/ RT!Ref(c) \/ RT!RefFails(c) \/ RT!getLogsThrottled(c)
      PROVE  RTInv'
  BY <1>4, RTConnect, RTRoutes, RTByUser, RTRef, RTEnd, Zenon
<1>5. ASSUME NEW g \in Varying, RT!cfxGetClientsByGroup(g) \/ RT!ethGetClientsByGroup(g)
      PROVE  RTInv'
  BY <1>5, RTRegister, Zenon DEF RT!cfxGetClientsByGroup, RT!ethGetClientsByGroup
<1>6. CASE UNCHANGED RT!vars
  BY <1>6, KnownStays, RequestsStay, CountsStay, Zenon DEF RT!vars, RTInv
<1>. QED
  BY <1>1, <1>2, <1>3, <1>4, <1>5, <1>6, RTPoll, RTUnref, RTUnrefAgain, RTExpire, Zenon DEF RT!Next

FT == INSTANCE FiniteSetTheorems

\* The facts hold: they are theorems of the library.
LEMMA FiniteFactsHold == FiniteFacts
<1>0. (\A S : FT!IsFiniteSet(S) <=> IsFiniteSet(S)) /\ (\A S : FT!Cardinality(S) = Cardinality(S))
  BY Zenon DEF FT!Cardinality, Cardinality, IsFiniteSet, FT!IsFiniteSet
<1>1. IsFiniteSet({}) /\ \A S : IsFiniteSet(S) => (Cardinality(S) = 0 <=> S = {})
  BY <1>0, FT!FS_EmptySet, Zenon
<1>2. \A S : IsFiniteSet(S) => Cardinality(S) \in Nat
  BY <1>0, FT!FS_CardinalityType, Zenon
<1>3. \A S : IsFiniteSet(S) => \A T \in SUBSET S : IsFiniteSet(T)
  BY <1>0, FT!FS_Subset, Zenon
<1>4. \A S, x : IsFiniteSet(S) =>
        /\ IsFiniteSet(S \cup {x})
        /\ x \notin S => Cardinality(S \cup {x}) = Cardinality(S) + 1
  BY <1>0, FT!FS_AddElement, Zenon
<1>5. \A S, x : IsFiniteSet(S) =>
        /\ IsFiniteSet(S \ {x})
        /\ x \in S => Cardinality(S \ {x}) = Cardinality(S) - 1
  BY <1>0, FT!FS_RemoveElement, Zenon
<1>. QED  BY <1>1, <1>2, <1>3, <1>4, <1>5, Zenon DEF FiniteFacts

\* The invariant of the routes holds of every behaviour.
LEMMA RTInvariant == RT!Spec => []RTInv
<1>1. (RT!Init => RTInv) /\ (RTInv /\ [RT!Next]_(RT!vars) => RTInv')
  BY FiniteFactsHold, RTInit, RTNext, Zenon
<1>. QED  BY <1>1, PTL DEF RT!Spec

\* As long as no counter expires while a query holds it, a node runs at most one
\* query of pruned logs beyond its quota for each decrement of its counter that was
\* repeated after a lost reply (RefCounter.Ref, SafeUnref): for any number of
\* callers and nodes and any quota, and whether or not the increments whose replies
\* are lost were applied.
THEOREM QuotaIsHeld ==
  /\ RT!Spec => [](RT!TypeOK /\ RT!QuotaHolds)
  /\ RT!Spec => []QuotaHolds
<1>1. RTInv => RT!TypeOK /\ RT!QuotaHolds
  <2>. SUFFICES ASSUME RTInv PROVE RT!TypeOK /\ RT!QuotaHolds
    OBVIOUS
  <2>1. \A c \in Callers : rt_req[c].pc \in {"idle", "routed", "throttle", "running"}
    BY Zenon DEF RTInv, Requested, ReqRec
  <2>2. RT!TypeOK
    BY <2>1, Zenon DEF RTInv, Known, Requested, RT!TypeOK
  <2>3. \A S : RT!Cardinality(S) = Cardinality(S)
    BY Zenon DEF RT!Cardinality, Cardinality
  <2>. QED
    BY <2>2, <2>3, Zenon DEF RTInv, Counted, RT!QuotaHolds
<1>2. RT!Spec => []RTInv
  BY RTInvariant
<1>. QED
  BY <1>1, <1>2, PTL DEF QuotaHolds

\* A request is routed to a node that is in its group now, that was in it when
\* the local router was last told of the group, or to the failover (Route, update):
\* for any groups, any changes of them and any number of requests.
THEOREM RoutesFollowPolls ==
  /\ RT!Spec => [][RT!RoutedToCurrent]_(RT!vars)
  /\ RT!Spec => RoutesAreCurrent
<1>1. ASSUME RTInv, RT!Next, NEW d \in Callers, rt_req[d].pc = "idle", rt_req'[d].pc = "routed"
      PROVE  \E g \in RT!Groups : \E n \in RT!Route(g) : rt_req'[d].group = g /\ rt_req'[d].node = n
  <2>0. rt_req'[d] # rt_req[d]
    BY <1>1, Zenon
  <2>t. rt_req \in [Callers -> ReqRec]
    BY <1>1, Zenon DEF RTInv, Requested
  <2>1. ASSUME NEW c \in Callers, NEW g \in RT!Groups, RT!getClient(c, g)
        PROVE  \E h \in RT!Groups : \E n \in RT!Route(h) : rt_req'[d].group = h /\ rt_req'[d].node = n
    <3>1. CASE rt_req' = [rt_req EXCEPT ![c] = RT!Idle]
      BY <3>1, <1>1, <2>t, IdleIs, Zenon
    <3>2. ASSUME NEW n \in RT!Route(g),
                 rt_req' = [rt_req EXCEPT ![c] = [pc |-> "routed", group |-> g, node |-> n]]
          PROVE  rt_req'[d].group = g /\ rt_req'[d].node = n
      <4>1. d = c
        BY <3>2, <2>0, <2>t, Zenon
      <4>. QED
        BY <3>2, <4>1, <2>t, SMTT(60)
    <3>. QED
      BY <2>1, <3>1, <3>2, Zenon DEF RT!getClient
  <2>2. ASSUME NEW c \in Callers, NEW m \in {"getLogs", "filter", "other"},
               RT!getEthClientFromProviderWithContext(c, m) \/ RT!getCfxClientFromProviderWithContext(c, m)
                 \/ RT!prunedGetLogs(c)
        PROVE  \E g \in RT!Groups : RT!getClient(c, g)
    <3>1. RT!ethGroup(m) \subseteq RT!Groups /\ RT!cfxGroup(m) \subseteq RT!Groups /\ "archives" \in RT!Groups
      BY DEF RT!ethGroup, RT!cfxGroup, RT!Groups
    <3>. QED
      BY <2>2, <3>1, Zenon DEF RT!getEthClientFromProviderWithContext,
                               RT!getCfxClientFromProviderWithContext, RT!prunedGetLogs
  <2>3. ASSUME NEW c \in Callers, RT!getLogsByUser(c) PROVE FALSE
    <3>1. rt_req' = [rt_req EXCEPT ![c] = [pc |-> "throttle", group |-> None, node |-> UserNode]]
      BY <2>3, Zenon DEF RT!getLogsByUser
    <3>. QED
      BY <3>1, <1>1, <2>0, <2>t, SMTT(60)
  <2>4. ASSUME NEW c \in Callers, rt_req[c].pc # "idle", NEW r, rt_req' = [rt_req EXCEPT ![c] = r] PROVE FALSE
    BY <2>4, <1>1, <2>0, <2>t, Zenon
  <2>5. ASSUME NEW c \in Callers,
               \/ RT!getOrRegisterClient(c) \/ RT!connectionFails(c)
               \/ RT!Ref(c) \/ RT!RefFails(c) \/ RT!getLogsThrottled(c)
        PROVE  FALSE
    <3>1. rt_req[c].pc # "idle" /\ \E r : rt_req' = [rt_req EXCEPT ![c] = r]
      BY <2>5, Zenon DEF RT!getOrRegisterClient, RT!connectionFails, RT!Ref, RT!RefFails, RT!getLogsThrottled
    <3>. QED
      BY <3>1, <2>4, Zenon
  <2>6. CASE UNCHANGED rt_req
    BY <2>0, <2>6, Zenon
  <2>7. "other" \in {"getLogs", "filter", "other"}
    BY Zenon
  <2>8. ASSUME NEW g, NEW n, \/ RT!AddNode(g, n) \/ RT!RemoveNode(g, n) \/ RT!ToggleHealth(g, n) \/ RT!ToggleService
                             \/ RT!pollOnce \/ RT!cfxGetClientsByGroup(g) \/ RT!ethGetClientsByGroup(g)
                             \/ RT!SafeUnref(n) \/ RT!SafeUnrefAgain(n) \/ RT!Expire(n)
        PROVE  UNCHANGED rt_req
    BY <2>8, Zenon DEF RT!AddNode, RT!RemoveNode, RT!ToggleHealth, RT!ToggleService, RT!pollOnce,
         RT!cfxGetClientsByGroup, RT!ethGetClientsByGroup, RT!RegisterAll, RT!SafeUnref, RT!SafeUnrefAgain,
         RT!Expire
  <2>. QED
    BY <1>1, <2>1, <2>2, <2>3, <2>5, <2>6, <2>7, <2>8, Zenon DEF RT!Next
<1>2. RTInv /\ [RT!Next]_(RT!vars) => [RT!RoutedToCurrent]_(RT!vars)
  BY <1>1, RouteIsCurrent, Zenon DEF RT!RoutedToCurrent
<1>3. RT!Spec => []RTInv
  BY RTInvariant
<1>4. [RT!RoutedToCurrent]_(RT!vars) => [part = "routes" => RT!RoutedToCurrent]_rtVars
  BY Zenon DEF RT!vars, rtVars
<1>. QED
  BY <1>2, <1>3, <1>4, PTL DEF RT!Spec, RoutesAreCurrent
=============================================================================
