------------------------------ MODULE RpcCache ------------------------------
(***************************************************************************)
(* The in-memory cache of node responses (util/rpc/cache, with its hook    *)
(* middlewareCache of util/rpc/client_middlewares.go).  A method has one   *)
(* expiryCache, one per node, or one per key in an LRU that itself expires. *)
(* Concurrent calls of one method share them; the node's state advances    *)
(* and its answers may fail.                                               *)
(*                                                                         *)
(* A node's answer is its version, the number of changes so far, or an     *)
(* error: a JSON-RPC error or any other.                                   *)
(***************************************************************************)
EXTENDS Integers

CONSTANTS
  Callers, Nodes,
  Timeout,     \* the expiration of every cache
  MaxTime,     \* bound: the clock
  MaxVersion,  \* bound: the changes at the nodes
  MaxFailures, \* bound: the answers that fail
  None

Methods == {"cfx_clientVersion", "cfx_gasPrice", "cfx_getStatus", "cfx_epochNumber",
            "cfx_getBestBlockHash", "eth_chainId", "eth_gasPrice", "eth_blockNumber",
            "eth_call", "net_version", "web3_clientVersion"}

VARIABLES
  method,    \* the method that is called
  now,
  version,   \* the nodes' version
  at,        \* the version there was at each time
  lru,       \* cache key => the expiryCache in use and when the LRU drops it
  store,     \* the expiryCaches: value and expireAt, None before the first value
  owner,     \* who holds each expiryCache's lock
  call,      \* the call that each caller makes, None if none
  result,    \* the last result of each caller
  failures

vars == <<method, now, version, at, lru, store, owner, call, result, failures>>

-----------------------------------------------------------------------------
(* Where a method's responses are cached: "one" for all nodes, one per     *)
(* "node", or one per "key" in an LRU.                                     *)

GetNetVersionWithFunc(n) == [layer |-> "one", key |-> "all"]
GetEthClientVersionWithFunc(n) == [layer |-> "one", key |-> "all"]
GetChainIdWithFunc(n) == [layer |-> "one", key |-> "all"]
GetEthGasPriceWithFunc(n) == [layer |-> "one", key |-> "all"]
GetBlockNumberWithFunc(n) == [layer |-> "node", key |-> n]
CallWithFunc(n) == [layer |-> "key", key |-> n]
GetCfxGasPriceWithFunc(n) == [layer |-> "one", key |-> "all"]
GetCfxClientVersionWithFunc(n) == [layer |-> "one", key |-> "all"]
GetStatusWithFunc(n) == [layer |-> "node", key |-> n]

\* What the code looks up "from status cache at first" is an expiryCache and
\* never a status, so both always go on to their own caches.
GetEpochNumberWithFunc(n) == [layer |-> "key", key |-> n]
GetBestBlockHashWithFunc(n) == [layer |-> "node", key |-> n]

cacheHandlers(n) ==
  [net_version |-> GetNetVersionWithFunc(n), web3_clientVersion |-> GetEthClientVersionWithFunc(n),
   eth_chainId |-> GetChainIdWithFunc(n), eth_gasPrice |-> GetEthGasPriceWithFunc(n),
   eth_blockNumber |-> GetBlockNumberWithFunc(n), eth_call |-> CallWithFunc(n),
   cfx_gasPrice |-> GetCfxGasPriceWithFunc(n), cfx_clientVersion |-> GetCfxClientVersionWithFunc(n),
   cfx_getStatus |-> GetStatusWithFunc(n), cfx_epochNumber |-> GetEpochNumberWithFunc(n),
   cfx_getBestBlockHash |-> GetBestBlockHashWithFunc(n)]

Location(n) == cacheHandlers(n)[method]
Keys == {Location(n).key : n \in Nodes}

\* A key has one expiryCache, or a sequence of them in an LRU that drops them,
\* at most one each time the clock advances.
Caches == Keys \X (0 .. MaxTime)
RpcError == -1
IoError == -2
Values == (0 .. MaxVersion) \cup {RpcError, IoError}

TypeOK ==
  /\ method \in Methods /\ now \in 0 .. MaxTime /\ version \in 0 .. MaxVersion
  /\ at \in [0 .. MaxTime -> 0 .. MaxVersion]
  /\ \A k \in Keys : lru[k].cache \in Caches /\ lru[k].until \in 0 .. MaxTime + Timeout + 1
  /\ \A c \in DOMAIN store : store[c] = None
                           \/ store[c] \in [value : Values, expireAt : 0 .. MaxTime + Timeout]
  /\ owner \in [DOMAIN store -> Callers \cup {None}]
  /\ \A c \in Callers : call[c] # None => call[c].cache \in DOMAIN store
  /\ failures \in 0 .. MaxFailures

Init ==
  /\ method \in Methods
  /\ now = 0 /\ version = 0
  /\ at = [t \in 0 .. MaxTime |-> 0]
  /\ lru = [k \in Keys |-> [cache |-> <<k, 0>>, until |-> Timeout]]
  /\ store = [c \in {<<k, 0>> : k \in Keys} |-> None]
  /\ owner = [c \in {<<k, 0>> : k \in Keys} |-> None]
  /\ call = [c \in Callers |-> None]
  /\ result = [c \in Callers |-> None]
  /\ failures = 0
-----------------------------------------------------------------------------
(* expiryCache.                                                            *)

getAt(k, time) == store[k] # None /\ ~(store[k].expireAt < time)

Return(c, v, hit) ==
  /\ result' = [result EXCEPT ![c] = [value |-> v, time |-> call[c].time, loaded |-> hit]]
  /\ call' = [call EXCEPT ![c] = None]

\* A hit, before the lock or, after waiting for it, with it.
Hit(c) ==
  /\ call[c] # None /\ call[c].pc \in {"get", "check"}
  /\ getAt(call[c].cache, call[c].time)
  /\ Return(c, store[call[c].cache].value, TRUE)
  /\ owner' = IF call[c].pc = "check" THEN [owner EXCEPT ![call[c].cache] = None] ELSE owner
  /\ UNCHANGED <<method, now, version, at, lru, store, failures>>

Miss(c) ==
  /\ call[c] # None /\ call[c].pc = "get"
  /\ ~getAt(call[c].cache, call[c].time)
  /\ call' = [call EXCEPT ![c].pc = "wait"]
  /\ UNCHANGED <<method, now, version, at, lru, store, owner, result, failures>>

Lock(c) ==
  /\ call[c] # None /\ call[c].pc = "wait"
  /\ owner[call[c].cache] = None
  /\ owner' = [owner EXCEPT ![call[c].cache] = c]
  /\ call' = [call EXCEPT ![c].pc = "check"]
  /\ UNCHANGED <<method, now, version, at, lru, store, result, failures>>

\* The call of the node, in updateFunc: what it answers, as of now.
Upstream(c) ==
  /\ call[c] # None /\ call[c].pc = "check"
  /\ ~getAt(call[c].cache, call[c].time)
  /\ \/ call' = [call EXCEPT ![c].pc = "store", ![c].value = version] /\ UNCHANGED failures
     \/ /\ failures < MaxFailures /\ failures' = failures + 1
        /\ \E e \in {RpcError, IoError} : call' = [call EXCEPT ![c].pc = "store", ![c].value = e]
  /\ UNCHANGED <<method, now, version, at, lru, store, owner, result>>

\* Mutant of Cached: every result is.
CachedAlways(v) == v \in Values

\* Errors are not cached, but for the JSON-RPC errors of eth_call.
Cached(v) == v \in 0 .. MaxVersion \/ (method = "eth_call" /\ v = RpcError)

\* Mutant of StoreValue: the value lives from when it is stored.
StoreLate(c) ==
  /\ call[c] # None /\ call[c].pc = "store"
  /\ store' = IF Cached(call[c].value)
              THEN [store EXCEPT ![call[c].cache] = [value |-> call[c].value,
                                                     expireAt |-> now + Timeout]]
              ELSE store
  /\ owner' = [owner EXCEPT ![call[c].cache] = None]
  /\ Return(c, call[c].value, FALSE)
  /\ UNCHANGED <<method, now, version, at, lru, failures>>

StoreValue(c) ==
  /\ call[c] # None /\ call[c].pc = "store"
  /\ store' = IF Cached(call[c].value)
              THEN [store EXCEPT ![call[c].cache] = [value |-> call[c].value,
                                                     expireAt |-> call[c].time + Timeout]]
              ELSE store
  /\ owner' = [owner EXCEPT ![call[c].cache] = None]
  /\ Return(c, call[c].value, FALSE)
  /\ UNCHANGED <<method, now, version, at, lru, failures>>

getOrUpdateAt(c) == Hit(c) \/ Miss(c) \/ Lock(c) \/ Upstream(c) \/ StoreValue(c)
-----------------------------------------------------------------------------
(* The layers above it.                                                    *)

Enter(c, k) ==
  call' = [call EXCEPT ![c] = [pc |-> "get", cache |-> k, time |-> now, value |-> 0]]

\* One cache, and one for each node, are there for good.
nodeGetOrUpdate(c, n) ==
  /\ call[c] = None
  /\ Location(n).layer # "key"
  /\ Enter(c, <<Location(n).key, 0>>)
  /\ UNCHANGED <<method, now, version, at, lru, store, owner, result, failures>>

\* ExpirableLruCache.GetOrUpdate: an entry that expired, or that was evicted,
\* is replaced by an empty cache.
keyGetOrUpdate(c, n) ==
  /\ call[c] = None
  /\ Location(n).layer = "key"
  /\ LET k == Location(n).key
         fresh == <<k, lru[k].cache[2] + 1>>
     IN  IF lru[k].until < now
         THEN /\ lru' = [lru EXCEPT ![k] = [cache |-> fresh, until |-> now + Timeout]]
              /\ store' = [x \in DOMAIN store \cup {fresh} |-> IF x = fresh THEN None ELSE store[x]]
              /\ owner' = [x \in DOMAIN store' |-> IF x = fresh THEN None ELSE owner[x]]
              /\ Enter(c, fresh)
         ELSE /\ Enter(c, lru[k].cache)
              /\ UNCHANGED <<lru, store, owner>>
  /\ UNCHANGED <<method, now, version, at, result, failures>>

Tick ==
  /\ now < MaxTime /\ now' = now + 1
  /\ at' = [at EXCEPT ![now'] = version]
  /\ UNCHANGED <<method, version, lru, store, owner, call, result, failures>>

Advance ==
  /\ version < MaxVersion /\ version' = version + 1
  /\ UNCHANGED <<method, now, at, lru, store, owner, call, result, failures>>

Next ==
  \/ \E c \in Callers : getOrUpdateAt(c) \/ \E n \in Nodes : nodeGetOrUpdate(c, n) \/ keyGetOrUpdate(c, n)
  \/ Tick \/ Advance

Spec == Init /\ [][Next]_vars
-----------------------------------------------------------------------------
\* A response is at most Timeout older than the call that gets it: what it says
\* was so then or later, however long the caller waited for the lock or the node
\* took to answer (getOrUpdateAt keeps the time at which the call began).
ResponsesAreRecent ==
  \A c \in Callers :
    result[c] # None /\ result[c].value \in 0 .. MaxVersion =>
      result[c].value >= at[IF result[c].time > Timeout THEN result[c].time - Timeout ELSE 0]

\* A caller gets the error of another caller's call only as the JSON-RPC error of
\* an eth_call (CallWithFunc: "Cache RPC JSON errors or successful results").
FailuresAreNotShared ==
  \A c \in Callers :
    result[c] # None /\ result[c].loaded /\ result[c].value \notin 0 .. MaxVersion =>
      method = "eth_call" /\ result[c].value = RpcError
=============================================================================
