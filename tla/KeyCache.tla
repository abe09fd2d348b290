------------------------------ MODULE KeyCache ------------------------------
(***************************************************************************)
(* The caches in front of the configuration in the database, on the        *)
(* ExpirableLruCache of util/lru.go: limit keys (util/rate/loader.go) and  *)
(* route groups (node/client.go).  Concurrent requests for one key look it *)
(* up, find it expired, give it another lifespan and load it again, while  *)
(* the configuration changes, the database fails and the LRU evicts it.    *)
(*                                                                         *)
(* A lifespan is a number of ticks.  None is the value of a key that the   *)
(* database does not hold: nil or the empty group, which is cached too.    *)
(***************************************************************************)
EXTENDS Integers

CONSTANTS
  Requesters,
  Values,
  TTL,          \* LimitKeyExpirationTTL, RouteCacheExpirationTTL
  MaxChanges,   \* bound: the changes in the database
  MaxFailures,  \* bound: the queries that fail
  None

VARIABLES
  cache,        \* the key's entry, None if missing
  db,           \* the key's value in the database
  pc,           \* where each request is
  loaded,       \* what a request has read from the database
  reply,        \* the last answer that each requester got
  use,          \* which of the caches it is
  quiet,        \* ticks since a failure was dealt with, up to TTL + 1
  removed,      \* whether the database has been without the key
  changes, failures

vars == <<cache, db, pc, loaded, reply, use, quiet, removed, changes, failures>>

Uses == {"limit key", "route group"}
Entry == [value : Values \cup {None}, left : 0 .. TTL]

TypeOK ==
  /\ cache \in Entry \cup {None} /\ db \in Values \cup {None}
  /\ pc \in [Requesters -> {"idle", "lock", "query", "store", "failed"}]
  /\ loaded \in [Requesters -> Values \cup {None}]
  /\ reply \in [Requesters -> Values \cup {None, "no answer", "error"}]
  /\ use \in Uses /\ quiet \in 0 .. TTL + 1 /\ removed \in BOOLEAN
  /\ changes \in 0 .. MaxChanges /\ failures \in 0 .. MaxFailures

\* The loader of limit keys warms its cache up; the one of routes does not.
Init ==
  /\ use \in Uses
  /\ db \in Values \cup {None}
  /\ cache \in IF use = "limit key" /\ db # None THEN {None, [value |-> db, left |-> TTL]} ELSE {None}
  /\ pc = [r \in Requesters |-> "idle"]
  /\ loaded = [r \in Requesters |-> None]
  /\ reply = [r \in Requesters |-> "no answer"]
  /\ quiet = TTL + 1
  /\ removed = (db = None)
  /\ changes = 0 /\ failures = 0
-----------------------------------------------------------------------------
(* ExpirableLruCache.                                                      *)

get == [found |-> cache # None, expired |-> cache # None /\ cache.left = 0]

add(v) == cache' = [value |-> v, left |-> TTL]

Hit == get.found /\ ~get.expired
-----------------------------------------------------------------------------
(* A request.                                                              *)

Idle == UNCHANGED <<db, use, quiet, removed, changes, failures>>

Goto(r, where) == pc' = [pc EXCEPT ![r] = where]

Answer(r, v) ==
  /\ reply' = [reply EXCEPT ![r] = v]
  /\ loaded' = [loaded EXCEPT ![r] = None]
  /\ Goto(r, "idle")

\* Mutant of Store: a key that has an entry already keeps it.
StoreOnce(r) ==
  /\ pc[r] = "store"
  /\ IF get.found THEN UNCHANGED cache ELSE add(loaded[r])
  /\ Answer(r, loaded[r])
  /\ Idle

\* Mutant of Store: a key that the database does not hold is not cached.
StoreKnown(r) ==
  /\ pc[r] = "store"
  /\ IF loaded[r] = None THEN UNCHANGED cache ELSE add(loaded[r])
  /\ Answer(r, loaded[r])
  /\ Idle

\* Both cacheLoads: a hit without the lock, or the double check with it.
Lookup(r) ==
  /\ Idle
  /\ \/ pc[r] = "idle" /\ ~Hit /\ Goto(r, "lock") /\ UNCHANGED <<cache, loaded, reply>>
     \/ pc[r] \in {"idle", "lock"} /\ Hit /\ Answer(r, cache.value) /\ UNCHANGED cache
     \/ /\ pc[r] = "lock" /\ ~Hit
        /\ IF get.found THEN add(cache.value) ELSE UNCHANGED cache
        /\ Goto(r, "query")
        /\ UNCHANGED <<loaded, reply>>

\* The query of the database: rawLoad, FindNodeRoute.
Query(r) ==
  /\ pc[r] = "query"
  /\ \/ /\ Goto(r, "store")
        /\ loaded' = [loaded EXCEPT ![r] = db]
        /\ UNCHANGED failures
     \/ /\ failures < MaxFailures /\ failures' = failures + 1
        /\ Goto(r, "failed") /\ UNCHANGED loaded
  /\ UNCHANGED <<cache, db, reply, use, quiet, removed, changes>>

\* What both populateCaches do with the result, under the lock.
Store(r) ==
  /\ pc[r] = "store"
  /\ add(loaded[r]) /\ Answer(r, loaded[r])
  /\ Idle

Fail(r) ==
  /\ pc[r] = "failed"
  /\ IF get.found THEN UNCHANGED cache ELSE add(None)
  /\ Answer(r, "error")
  /\ quiet' = 0
  /\ UNCHANGED <<db, use, removed, changes, failures>>

keyCacheLoad(r) == use = "limit key" /\ Lookup(r)
keyPopulateCache(r) == use = "limit key" /\ (Query(r) \/ Store(r) \/ Fail(r))
groupCacheLoad(r) == use = "route group" /\ Lookup(r)
groupPopulateCache(r) == use = "route group" /\ (Query(r) \/ Store(r) \/ Fail(r))
-----------------------------------------------------------------------------
(* The environment.                                                        *)

Tick ==
  /\ \/ cache # None /\ cache.left > 0
     \/ quiet <= TTL
  /\ cache' = IF cache # None /\ cache.left > 0 THEN [cache EXCEPT !.left = @ - 1] ELSE cache
  /\ quiet' = IF quiet <= TTL THEN quiet + 1 ELSE quiet
  /\ UNCHANGED <<db, pc, loaded, reply, use, removed, changes, failures>>

\* Another key takes the place of this one in the LRU.
Evict ==
  /\ cache # None /\ cache' = None
  /\ UNCHANGED <<db, pc, loaded, reply, use, quiet, removed, changes, failures>>

Change ==
  /\ changes < MaxChanges /\ changes' = changes + 1
  /\ db' \in (Values \cup {None}) \ {db}
  /\ removed' = (removed \/ db' = None)
  /\ UNCHANGED <<cache, pc, loaded, reply, use, quiet, failures>>

Next ==
  \/ \E r \in Requesters :
       keyCacheLoad(r) \/ keyPopulateCache(r) \/ groupCacheLoad(r) \/ groupPopulateCache(r)
  \/ Tick \/ Evict \/ Change

\* Requests keep coming and get on (goroutines), and time passes.
Request(r) == Lookup(r) \/ Query(r) \/ Store(r) \/ Fail(r)
Fairness == WF_vars(Tick) /\ \A r \in Requesters : WF_vars(Request(r))

Spec == Init /\ [][Next]_vars /\ Fairness
-----------------------------------------------------------------------------
\* A change of the configuration arrives: when the database changes and fails no
\* more, every request is answered from some time on with what it holds
\* (cacheLoad extends the life of an expired entry but also loads it again).
ChangesArrive == <>[](\A r \in Requesters : reply[r] = db)

\* A key that the database has held all along is taken for missing only for the
\* lifespan after a query that failed, or while a request loads it (populateCache
\* caches nil for a database error, cacheLoad extends it).
KnownKeysAreFound ==
  cache # None /\ cache.left > 0 /\ cache.value = None /\ ~removed =>
    quiet <= TTL \/ \E r \in Requesters : pc[r] # "idle"
=============================================================================
