# Formal model of Confura

Confura is an RPC service for the Conflux network.  It copies the chain of a
full node into MySQL and answers `getLogs` from there, spreads calls over a
cluster of full nodes, and serves filters and subscriptions.  This directory
models the parts of it whose correctness depends on the order of events: TLA+
modules, TLC configurations that check small instances, and proofs that TLAPS
checks for instances of any size.  `PROJECT.json` lists components, runs,
mutants, hazards, theorems, and the source lines behind every definition.

Two words are used throughout.  An *epoch* of the core space is identified by
its *pivot block*; the pivot chain may switch to another branch (a
*reorganisation*), and then stored epochs have to be removed again (*popped*).
In the EVM space blocks take the place of epochs.

## Inventory of the system

| Part | Code | Module |
|---|---|---|
| Core space syncer, leader election, pivot window | `sync/sync_db.go`, `sync/election`, `sync/epoch_pivot.go` | `HASync` |
| Start-up check of the stored epochs | `sync/sync_check.go` | `HASync`, as one step |
| EVM space syncer, receipts, sync monitor | `sync/sync_eth.go`, `store/eth_data.go`, `sync/monitor` | `EthSync` |
| Catch-up, boosted and epoch by epoch | `sync/catchup` | `Boost`, `CatchUp` |
| Transactions of push and pop | `store/mysql/store.go`, `store_map_epoch_block.go` | `Epochs`, `EpochStack`, `HASync`, `ContractLogs` |
| Reorg version, versioned reads | `store/mysql/store_conf.go`, `rpc/handler/cfx_logs.go` | `ReorgGuard` |
| `getLogs`: filters, split, limits, suggestions | `rpc/log_filter.go`, `rpc/handler/*_logs.go`, `store/mysql/store_log_filter.go` | `LogQuery` |
| Event logs partitioned by block number, pruner | `store/mysql/store_log.go`, `store_common_partition_bn.go`, `store_pruner.go` | `LogPartitions` |
| Event logs by address and of big contracts | `store/mysql/store_log_addr.go`, `store_log_big_contract.go`, `store_contract.go` | `ContractLogs` |
| Virtual filters and their log store | `virtualfilter`, `store/mysql/store_log_virtual_filter.go` | `VirtualFilter` |
| Pub/Sub delegation | `rpc/pubsub.go`, `eth_pubsub.go`, `*_api_pubsub.go` | `PubSub` |
| Gas station | `rpc/handler/*gasstation.go` | `GasStation` |
| Node groups, health, hash rings, node API | `node/pool.go`, `manager*.go`, `node_status.go`, `server.go` | `NodePool` |
| Routing, client cache, throttling of pruned logs | `node/router.go`, `*client.go`, `rpc/throttle`, `cfx_logs_pruned.go` | `Routing` |
| Rate limits | `util/rate`, `util/rpc/middlewares/rate_limit.go` | `RateRegistry` |
| Allowlists, authentication | `util/acl`, `util/rate/registry_acl.go` | `AllowLists` |
| Caches of limit keys and route groups | `util/lru.go`, `util/rate/loader.go`, `node/client.go` | `KeyCache` |
| Cached node responses | `util/rpc/cache` | `RpcCache` |
| Sending and relaying transactions | `util/relay`, `rpc/handler/*_txn.go` | `TxnRelay` |
| Redis store, KV pruner, repartition, bridges, validators, commands | see the end | none |

How the parts interact: several processes run the syncers against one database
per space; the election lets one of them write.  The write is a transaction on
the epoch map and the log tables, a pop also raises the reorg version.  Before
its first round a leader of the core space catches up with the stable epochs.
Readers in the RPC processes use the same tables without locks, and the pruner
removes the oldest log partitions under their feet; what is not in the database
is asked of a full node.  A request passes rate limits and allowlists, whose
configuration is reloaded from the database; it is routed to a full node of its
group by the hash ring that the node manager keeps in step with the health of
the nodes; and some answers are cached.  Filters, subscriptions and the gas
station follow the chain of a full node on their own.

## Modules

**`Epochs`** defines blocks, epochs and maps from epochs to blocks, with the
operations of the store on them (`MaxEpoch`, `RequireContinuous`, `Pushn`,
`Remove`) and `IsChain`.  The pivot block stands for all data of its epoch,
which never changes for a given hash.

**`EpochStack`** is the abstract specification: what `store.StackOperable`
promises.  Epochs enter as a continuous extension of the chain and leave by
popping everything from some epoch on.

**`HASync`** is the synchronisation.  A process has a campaign goroutine
(`Elect`, `Renew`, `Oust`, `AcquireReplyLost`) and a sync goroutine whose
`pc[s]` walks through `syncOnce`: `Load` (`loadLastSyncEpoch`), `Query` per
epoch, `Check` (the comparison with `getStoreLatestPivotHash`), then `Push`,
`PushTx`, `PushCommit`, `Window` or `Pop`, `PopTx`, `PopCommit`, `PopWin`.
Steps are cut where another process can come between two database or full node
calls: the maximum epoch is read before the transaction, the lease is extended
by the finalizer, the commit follows.  `Fail`, `QuerySwitched` and `Crash`
interrupt a round anywhere; `Start` is a new process, `Stop` an orderly end.
The chain grows and reverts at any time (`GrowChain`, `RevertChain`).  The lease
lock is external and modelled from its use: free, or owned by one identity.
`Oust` calls what the code calls: `onOusted` ranges over `electedCallbacks`
(`leader_manager.go:327`), so that the monitor of an ousted process goes on,
although `OnOusted` registers the callback that stops it.

Three mishaps are apart from this: a lease that ends under a working leader and a
start during the round of another process, switched on by the constant `Mishaps`,
and a commit whose reply is lost, which `LossyNext` adds to `Next`.  With
`Mishaps = {}` and `Next` the properties hold and are proved.  Each mishap breaks
`StoreIsChain`; `CoreCatchesUp` is checked with `LossyNext`.

**`ReorgGuard`** is one `getLogs` call beside the writer.  The call reads the
version, the largest epoch, up to three block ranges, the logs of each part of
the filter, and the version again (`GetLogs`, `ReadMax`, `ReadRange`,
`ReadFrom`, `ReadTo`, `Query`, `Fullnode`, `Verify`).  A pop begins, raises the
version outside its transaction, and commits or rolls back.

**`LogPartitions`** has a writer (`preparePartition` outside the transaction,
`Add`, `AddFails`, `Popn`), the pruner (`Prune` to `PruneEnd`, row first, table
second), a restart of their process, and a reader (`searchRange`,
`searchOverlapPartitions`, `QueryPart`).  The router rows (`count`, `bnMin`,
`bnMax`) are kept apart from what the tables hold (`table`); the number of logs in
a table is the number of its rows (`RowsOf`, `SumLogs`).

**`Boost`** is a boosted catch-up over all of its rounds.  The workers
(`WorkerTake`, `WorkerSend`), the dispatch loop (`DispatchTake`,
`DispatchResult`, `Flush`), the persister (`Fetch`, `Persist`) and the memory
monitor (`MemoryShort`, `MemoryFine`) are goroutines over channels of bounded
size.  `assignTasks` is run by two of them without a lock, by the dispatch loop
and by the goroutine that starts it, so its steps (`AssignRecall`, `AssignNew`,
`addPendingTask`, `AssignBump`) carry the name of the one that runs them.  Two
races are modelled: `nextAssignEpoch` is read, and written after the task has
been queued; and a pop from the heap of recalled tasks overlaps with a change
by the other goroutine (`AssignPop`), after which either change may be lost.
`OverlapNext` has both; `Next` lets the dispatch loop begin with results only when
the queue has been seeded, as the time of a query makes it in practice.  A
round ends when a write fails, on shutdown or at the last epoch (`NextRound`);
`Crash` ends it anywhere.  The estimate of the next task size is any size from
`MinTaskSize` to `MaxTaskSize`.

**`CatchUp`** is the other mode of the catch-up.  A worker fetches every n-th
epoch into its channel (`fetchEpoch`), the collector takes from the channels in
turn (`fetchResult`) and stores batches (`persist`, `persistFails`).  The
channels outlive a failed round.

**`EthSync`** is the syncer of the EVM space seen from one process.  A round
asks a client for a block and its receipts, by one of three methods, in
separate calls, compares, and pushes or reverts (`reorgRevert`).  The clients
are on forks of their own, switch, stop growing and fail; the monitor
(`checkOnce`) counts failures and moves the syncer to the next client.  Another
leader writes while this process does not hold the lease (`OtherWrites`).

**`ContractLogs`** keeps event logs in tables that contracts share by address
and in tables of big contracts.  A push first migrates what has become big, in
a transaction of its own (`preparePartitions`, `migrate`), and may then fail.
The reader asks contract by contract whether it is big and then for its logs.

**`LogQuery`** is one `getLogs` request of either space as a calculation in
steps: the type of the filter, normalisation and validation, the split between
the database and the full node, the checks of sizes, the suggested ranges.  The
answer is compared with the logs of the chain (`Reference`).

**`VirtualFilter`** has the worker (`Tick`, `Merge`, `ethOnPolled`,
`cfxOnPolled`), the linked list of blocks with its forks (`traverse`), the
bounded memory for logs and the log store behind it, and the requests of the
clients.  A history variable is what the client believes (`view`); it is
compared with the chain the worker has seen (`due`).

**`PubSub`** is one delegate context: run loops (several after errors), its lock
as a variable because loops send on channels with it held, and the sessions of
the subscribers with their bounded channels.  A loop that finds the status changed
(`Check`) sets it back in a step of its own (`Exit`, the deferred call), so that it
may undo what a loop started meanwhile has set.

**`GasStation`** follows one of several nodes on two forks (`sync`, `trySync`),
takes the blocks of a reverted epoch out of the window again
(`cfxHandleReorg`, `ethHandleReorg`), and calculates percentiles and averages.  Blocks
without a gas limit do not enter the window; then it is older than the hashes that
are kept to find a fork, and `skipped` records it.

**`NodePool`** is the node manager.  The goroutine of a node reads its groups,
makes a heartbeat and reports to one group after the other, a report changing
first the status and then the ring; requests add and delete nodes in memory and
in the database meanwhile.

**`Routing`** takes a request from its group through the chain of routers to a
client; the local router polls the node manager.  The quota on queries of pruned
logs is a Redis counter with a lifespan.  The reply to an increment or a decrement may
be lost; `SafeUnref` then repeats the decrement (`SafeUnrefAgain`), and `repeated`
counts how often that took a query off twice since the counter was made.

**`RateRegistry`** and **`AllowLists`** reload their configuration: it is read
(`reloadOnce`, `reloadAclAllowLists`), what is gone is removed (`RemoveGone`), the
rest is added or updated (`AddOrUpdate`), one id after the other in the order of
Go maps, that is, in any order.  The lock of the reload (`phase`) keeps out the
steps of requests that take it, the choice of a strategy or validator and the
creation of a limiter; the use of a limiter that exists, its expiry and changes of
the database go on between any two ids.
**`KeyCache`** and **`RpcCache`** are caches under concurrent requests, with
expiry, eviction and failures; **`TxnRelay`** is the path of raw transactions
through the relay queue and to the nodes of the group.

### Composites

The `MC...` modules give the components their instances.  `MCSyncLive`,
`MCStorage`, `MCServices`, `MCGateway` and `MCNotifications` hold several of
them side by side: the variable `part` says which one runs, the others do not
start, so that a run explores each of them in full and in turn.  `Syncers`
(`CatchUp`, `EthSync`), `Services` (`NodePool`, `TxnRelay`, `KeyCache`), `Gateway`
(`RpcCache`, `Routing`), `Registries` (`RateRegistry`, `AllowLists`) and
`Notifications` (`PubSub`) have parameters instead of values: `MCSyncLive`,
`MCServices`, `MCGateway` (of the third and the fourth) and `MCNotifications`
extend them and the proofs are about them.  The parts
do not interact there; what a component needs of another one is in its own module
(`OtherWrites` in `EthSync`, the writer in `ReorgGuard`, the node manager in
`Routing`).

## Runs

| Run | Result | What it shows |
|---|---|---|
| `ha_sync` | holds | `StoreIsChain`, `RoundsExclude`, `WindowAgrees`, `NoNeedlessPop`, and that the store implements `EpochStack` (`StoreIsStack`), for two processes without mishaps |
| `sync_live` | holds | `GuardedReads` and `GetLogsReturns` of `ReorgGuard`; `CoreCatchesUp`: the store reaches the head although replies of commits may be lost; `EpochsAreConsecutive` and `CatchUpEnds` of `CatchUp`; `StoredIsChain` and `HealthyNodeIsReached` of `EthSync` |
| `boost` | holds | `NothingLost`, `DeliveredInOrder`, `RoundsReturn`, `Finishes`: queries, writes and processes fail, memory gets short |
| `storage` | holds | `CountsMatch`, `Routed`, `ReadsComplete` of `LogPartitions`; `SeedingIsSafe`: no epoch is lost while the queue of the boosted catch-up is seeded beside the dispatch loop; `ContractLogsAreExact`; `QueriesAreComplete` |
| `services` | holds | `SharedNodesAreCounted`, `RingsFollowHealth`; `OnlyAcceptedTravel`, `RelayDelivers`; `KnownKeysAreFound`, `ChangesArrive` |
| `gateway` | holds | `RatesFollowRules`, `AccessFollowsLists`, `ResponsesAreRecent`, `QuotaHolds`, `RoutesAreCurrent` |
| `notifications` | holds | `FiltersDeliver`, `SubscriptionsDeliver`, `FeesAreOrdered` |
| `ha_sync_lease` | violated | nothing ties a write to the lease under which the parent hash was compared |
| `ha_sync_start` | violated | the start-up check pops epochs without leadership |
| `reorg_guard_bump` | violated | a version read between its increment and the commit protects nothing |
| `log_partitions_pop` | violated | a pop into an earlier partition always fails |
| `catch_up_start` | violated | after a failed write, epochs of the failed round become the first ones of an empty database |

Each violated property states what a comment in the source says; the comment is
quoted under `findings` in `PROJECT.json`.

Some statements of comments are in the modules, and TLC refutes them when they
are added to the configurations, but no run keeps them:

* `StoreIsChain` with `LossyNext`: a committed pop that is reported as
  failed leaves the block in the pivot window.
* `PrunedIsReported` (`LogPartitions`): a range that ends at the first kept block
  is not reported as pruned.
* `NoLostLogs` (`VirtualFilter`) in the core space: an epoch that is reverted and
  becomes the fork point again between two polls is dropped by the client and
  not sent again.
* `NeverBlocked` (`PubSub`): a second overflow waits on the error channel with the
  lock held that the session needs to leave.
* `GroupedNodesAreMonitored` (`NodePool`): a group's removal closes a node that
  other groups share.
* `AddressQueriesFollowEntries` (`AllowLists`): the address of a query and the
  rules are written in different forms.
* `RatesFollowRules` and `AccessFollowsLists` with `ReuseNames`: a name that goes
  to another id within one reload may get lost.
* `BigLogsLeaveTheIndex` (`ContractLogs`): a pop takes a big contract below the
  threshold, and its next logs go where reads do not look.
* `UnboundedAnswersAreComplete` (`LogQuery`): without bound checks an answer is cut
  at the limit.
* `FollowersAreNotMonitored` (`EthSync`): `onOusted` ranges over the callbacks for
  `elected`.
* `QuotaIsExact` (`Routing`): a decrement that is repeated after a lost reply lets in
  a query more than the quota.
* `WindowIsOfOneFork` (`GasStation`): where blocks without a gas limit keep the window
  behind, a fork leaves blocks of the branch that is gone in it.

What the checked properties except because of these is said beside them in the
modules, mostly as a history variable (`raced`, `moved`, `lapsed`, `repeated`,
`skipped`, `excused`).  A hazard that a property excepts is listed in `PROJECT.json`
without it, with a note.

### Bounds

* `ha_sync`: epochs 0 to 3, a fork two epochs deep, batches of two epochs, a
  window of two epochs (so that it overflows), two reorganisations and two
  faults.  Two epochs per batch and three above genesis allow a push after a
  full one, a cut slice, and a revert of two rounds.
* `sync_live`: epochs 0 to 2 and two branches for the core syncer (one
  reorganisation, one fault) and for the reader (two parts, three pops: a pop and
  a push of the other branch between any two reads, twice).  Two workers and four
  epochs for the catch-up, with a failed write between batches of two.  Two
  clients of the EVM space with blocks 0 to 2, one fork switch and one fault.
* `boost`: two workers, three epochs in tasks of one or two, two failed queries,
  one failed write, shutdown or crash, one memory alarm: a task is split,
  recalled and overtaken by a later one, and the write buffer of one epoch is
  full.  The result queue holds more results than there can be; see below.
* `storage`: four blocks of up to two logs, three partitions of two logs, two
  pops, one archived partition: partitions overflow by a batch, are emptied by a
  pop, and are pruned during a search.  For the seeding, results may be handled
  before it ends (`OverlapNext`), which makes the space much larger: two epochs above
  the first, one failed query, no faults.  Two contracts in one table, a threshold
  of two logs and one pop.  Queries by epoch, block and hash over six chains of
  five blocks, cut at every stored height.
* `services`: two nodes, two groups, three changes; two senders and a queue of
  one, so that a sender waits; two requests for one key, one change, one failure.
* `gateway`: two strategies or allowlists, two names and three changes, which fall
  between any two steps of a reload (a rename, a change of a rule, a removal and an
  addition in one configuration); two callers of a
  response, time 0 to 2 and a timeout of 1; two requests, two nodes, a quota of 1,
  and three changes and a fault, with which a repeated decrement lets both requests
  run at once.
* `notifications`: a fork of four blocks with room for the logs of one; two
  subscribers with channels of one item, two items, two run loops; two nodes on
  forks of up to four epochs, with room for two blocks in the window and for the
  hashes of two epochs (the code has 100 for both), and one block without a gas
  limit on each fork, so that the window lags behind the hashes.

Deadlock is checked in `ha_sync`.  The other passing runs have parts that
come to an end (a request is answered, the last epoch is stored, a bound on
changes is used up).

### Fairness

`CoreCatchesUp` assumes weak fairness of the growth of the chain, of the end of
leases, of the start of processes (a supervisor restarts them), of the
campaign loop and of the sync loop; both loops retry for ever by ticker or
back-off.  Faults and reorganisations need not happen and are bounded, so the
property is about the time after the last of them.  `GetLogsReturns` assumes
only that a call goes on, and that the number of pops is bounded.  `CatchUpEnds`
assumes that the goroutines go on and that fetches succeed in the end; and it
claims the end only if no write fails, because the epochs left in the channels
may be refused round after round otherwise.  `HealthyNodeIsReached` assumes that
the sync loop, the ticks of the monitor and the campaign go on.
`RingsFollowHealth` assumes weak fairness of the goroutine of a node, a ticker,
and strong fairness of its reminder, whose time comes again and again.
`RelayDelivers` assumes that senders and relay workers go on: calls of nodes end
by their timeout.  `ChangesArrive` assumes that time passes and requests come.

`RoundsReturn` and `Finishes` assume that every goroutine goes on and every
query ends, with or without an error; `Finishes` also that memory is not short
for ever, since nothing is processed then, not even what would release memory.
`RoundsReturn` depends on the size of the result queue: the send of a worker
(`boost.go:210`) does not watch the context, so with room for less than the
outstanding results a worker that is busy when the dispatch loop stops waits for
ever, and so does `doSync`.  With two workers a queue of one or two is too small
and TLC shows it; the default of 1000 is far above the few tasks per worker
that are assigned at a time.  `NothingLost` excepts the rounds in which the two
users of the heap overlapped (`raced`): without this exception TLC finds, in
`OverlapNext`, a recalled task that is lost, and the round waits for its epochs
for ever.  `Finishes` is about `Next`, where they do not overlap.

## Proofs

`HASyncProofs` proves, for every number of processes, every tree of blocks, all
batch sizes, window capacities and bounds, and with `Mishaps = {}`: `TypeOK`,
`StoreIsChain`, `RoundsExclude`, `WindowAgrees`, `NoNeedlessPop`, and
`StoreIsStack` (the refinement of `EpochStack`).  `StoreIsChain` is not
inductive: that a push extends the chain follows from a comparison several
steps before it.  The inductive invariant `IInv` adds

* `Leads`: who is elected or in a round owns the lock, so no one else acts;
* `RoundInv`: `from` is the epoch after the latest stored one, the slice is
  consecutive, and once checked its first block is the child of the latest
  stored block; a pop removes exactly the latest epoch;
* `WinInv`: the window of a leader never contradicts the store, which makes
  the comparison with a cached hash as good as one with the stored hash.

There is a lemma for each group of actions, and the lemmas about `Pushn`,
`Remove` and `IsChain` are stated once.

`LogPartitionsProofs` proves `Routed` and `ReadsComplete` for all sizes of
batches, volumes and archives.  Neither is inductive.  The invariant adds that
every block with logs from the first block of the router on has its rows in a
partition of the router (`Rows`); that ranges end at the stored height and
follow the order of the indexes (`Ranges`), by which the loop of
`shrinkBnRange` reaches every partition a pop must cut, and by which the rows
of a pruned partition lie below all ranges that are left; that a table is
dropped only after its row (`Indexes`); and what the reader has still to query
(`Reads`), as long as nothing is popped or pruned under it.

It also proves `TypeOK` and `CountsMatch`.  `deltaUpdateCount` stops at zero, so
that the count after a pop is right only if it was right before: the invariant
`Counted` says that every count is that of the rows in its table, and that the
counts above the latest partition are zero, from which a new partition starts.
The number of rows is a cardinality, and the lemmas about it (`RowsSplit`,
`RowsSame`, `RowsNone`) come from the theorems about finite sets: a batch adds to
the rows of the latest partition a set that is disjoint from them, and a pop
splits the rows of every partition in two.

`BoostProofs` proves `DeliveredInOrder`, `TypeOK` and `NothingLost` for every
number of workers and all sizes of queues, buffers and tasks, for `Next` and for
`OverlapNext` with its races; so `SeedingIsSafe` of the run `storage` holds for every
size too.  The invariant `OInv` says epoch by epoch what the store, the collected
epochs and the channel hold, up to `nextWriteEpoch` (`Order`), as long as the
persister works.  `NothingLost` speaks of the epochs below `nextAssignEpoch` and is
not inductive: a task is queued before the variable is raised, and two
goroutines do so.  `Kept` therefore asks it of every epoch below the value that
any call of `assignTasks` is about to write (`Due`), and says where such an epoch
is (`Held`): in a queue, with a worker, in a call that is queueing it, on the
heap, in the cache or on the way to the persister.  It needs the order of the steps of a
call and of the dispatch loop (`Control`) and the types (`Types`), by which a
recalled task is split into halves that cover it.

`SyncersProofs` proves `TypeOK` and `GuardedReads` of `ReorgGuard` first.  The
invariant `RGInv` says that while the version is the one recorded, and no pop
stood between increment and commit at that time, no increment has been followed by
a commit since: the store has only grown, and what the call has read is still in
it.

It then proves the two safety properties of the syncers in the run `sync_live`.

* `EpochsAreConsecutive`, for every number of workers, all sizes and every range.
  The channels may hold anything that an interrupted round left:
  `RequireContinuous` alone keeps the store in order, and the proof uses nothing
  else.
* `StoredIsChain`, for every number of clients, every height and every point where
  the two forks split.  It is not inductive, since `pushBlocks` appends a batch that
  was read from a client in earlier steps.  The invariant `ESInv` says that the batch
  of a round is itself one chain, each block with its own receipts, although the
  client may change forks between any two queries (`Fetched`), and that the block
  just read is the right one by number only.  While the lease is held (`Led`) the
  round starts after the last block stored and its first block is a child of that
  one (`Attached`), which `getStoreLatestBlockHash` finds in the window or the
  database, and what the window holds is stored (`Windowed`).  Without the lease
  nothing of this holds, as another leader writes; the lease comes back only with an
  empty window and between two rounds.  `ChainGoesOn` is the lemma behind both
  kinds of steps: a chain goes on with a child of its last block, because two forks
  that share a block share all before it (`SharedPast`).

`ServicesProofs` proves the safety properties of the run `services`, each for its
component and for the composite `ServicesSpec`.

* `OnlyAcceptedTravel`: the invariant adds that a request past the call of the
  serving node was accepted (`PastSending`).
* `KnownKeysAreFound`: an entry that takes a known key for missing was made by a
  failed query or extended by a request that is loading, and what is left of its
  life and the time since the failure add up to the lifespan at most
  (`MissingIsNew`); what a request found missing in the database was missing
  (`ReadIsReal`).
* `SharedNodesAreCounted`: the count of a node is the cardinality of the set of
  groups that hold it, through every interleaving of requests, failed saves,
  heartbeats and restarts.  The types are the harder half: that the median of the
  known epochs is one of them (`MedianType`) takes an argument about
  cardinalities.

`GatewayProofs` proves three properties of the run `gateway` for `RpcCache` and
`Routing`; the steps of the other parts of `GatewaySpec` leave their variables
alone.

* `ResponsesAreRecent`: a caller takes the time before it waits for the lock and
  uses it afterwards for the second look and for the expiry.  The invariant dates
  every value: what is stored was current at the time `expireAt - Timeout` or
  later (`Stored`), what a call is about to store was current when the call began
  or later (`Calling`), and versions only grow (`History`).  In an LRU a cache is
  replaced when its entry expires, and callers go on with the old one; `Entries`
  bounds the number of caches a key has had by the time that has passed.
* `QuotaHolds`: the counter and the decrements that were repeated are together never
  less than the queries that run and the decrements that are still to come
  (`Counted`).  So a node runs at most one query beyond its quota for each decrement
  that was repeated after a lost reply, and none beyond it otherwise, as long as its
  counter does not expire while it is held (`lapsed`); a lost reply to an increment
  leaves the counter too high.
* `RoutesAreCurrent`, an action property: the ring of the local router holds only
  nodes of the last answer that listed the group (`FollowsPoll`).

`RegistriesProofs` proves the other two properties of that run, for any strategies,
allowlists, requests and changes, with `~ReuseNames`: a name goes to another id
only after a reload has freed it.  Without this the properties are false (see
above): a reload that visits the new owner of a name first deletes its entry
again when it comes to the one that had the name before.

* `RatesFollowRules`: neither half is inductive.  `RRLoaded` says for each id where the
  reload stands, that what it has visited is as loaded and the rest as before, and
  `RRApart` that no two ids use one name in the database, the configuration that is
  loaded and the one before together.  So the name of a strategy that is added or
  renamed is free in the index (`RRFree`), and no removal hits an entry of another
  id (`RROwner`).  A limiter is used without the lock, in the middle of a reload;
  `LimitersFollowRules` holds there too, because a rule and its limiters go in one
  step of the loop.
* `AccessFollowsLists`: the same for allowlists (`ALLoaded`, `ALApart`), with
  `ALDefault`, the default validator as that of the one list with the name, in
  place of the choice of one that `DefaultIsCurrent` makes.  That a verdict follows
  the entries is a case analysis of `Validate`, validation by validation.

`NotificationsProofs` proves `SubscriptionsDeliver`, for any number of
subscribers, items and run loops, any filters and all sizes of the channels.  That
what a subscriber was sent is, in order and each once, what it wants of the items
up to some item is not inductive, because it does not say which item comes next.
`InStep` ties that item to the run loop: it is the one before the head of the
loop's channel, or the head itself once `notify` has passed the subscriber.  Then
the channel must hold consecutive items up to the last one published (`FeedRuns`),
only one loop may be alive (`OneLoop`), and a loop must know the state of the
context where it stands (`LoopKnows`).  All of it is asked only while no
subscriber has registered with a loop that was ending after an error (`raced`),
where the code really loses it.

The facts about finite sets that `ServicesProofs`, `GatewayProofs` and
`LogPartitionsProofs` use are collected and derived from the library's theorems in
each module (`FiniteFacts` and `FiniteFactsHold` in the first two).

The assumptions are those named in the modules (`EpochsAssumption`,
`HASyncAssumption`, `ReorgGuardAssumption`, `LogPartitionsAssumption`,
`BoostAssumption`, `CatchUpAssumption`, `EthSyncAssumption`, `PoolAssumption`,
`RelayAssumption`, `CacheAssumption`, `ResponsesAssumption`, `RoutingAssumption`,
`RatesAssumption`, `AccessAssumption`, `PubSubAssumption`), and TLC evaluates them.
They say that sizes, bounds and times are numbers, that configurations name known
nodes, keys and names, that allowlists and requests have their types, and
where something is counted that the set is finite.  `CatchUpAssumption` also asks
for at least one worker and a database that is consecutive at the start,
`EthSyncAssumption` for clients that each offer a way to get receipts.

Only model-checked:

* the liveness properties, which need fairness, and with them `Finishes`,
  `RoundsReturn`, `RingsFollowHealth`, `RelayDelivers` and `ChangesArrive`;
* `ContractLogsAreExact`, `QueriesAreComplete` and `FeesAreOrdered`, which compare
  calculations over sequences: what a fold or a sort computes for every input needs
  induction over data;
* `FiltersDeliver`: the chain of blocks is a linked list, and what `traverse` finds
  in it is recursive.

`SeedingIsSafe` has no theorem of its own: its two parts are those of
`OrderIsKept` and `NoEpochIsLost`, which speak of `OverlapNext` too.

## What is left out of the modelled parts

* `HASync`: `fastCatchup`, which a process runs before its first round, under
  the same election, over stable epochs only (`Boost` and `CatchUp`); the probes
  of the start-up search, taken as one step; the switch of the full node by
  the monitor, which looks like a reorganisation (`RevertChain`).
* `EthSync`: the election, seen as a lease that is held or not, and which is not
  regained within the round in which it was lost; who else writes keeps to one
  chain.
* `ReorgGuard`: block hash filters, suggested ranges and result limits
  (`LogQuery`), and what the full node returns for its part.
* `LogQuery`: a chain that moves, addresses and several partitions.
* `LogPartitions`: epochs of several blocks; `ContractLogs`: partitions beyond
  the first and several logs of a contract in an epoch.
* `Boost`: the contents of the queries (`queryEpochData`, all or nothing), the
  weights of the task size estimate, and a latest stable epoch that rises
  between the rounds.
* `VirtualFilter`: the partitions of the log store, of which a block's last change
  counts, and block and transaction filters that are passed on to the full node;
  `PubSub`: what is in an item.
* `NodePool`: percentiles of latencies, which are a condition of the node.
* `RateRegistry`: the limiter algorithm, a library; `AllowLists`: wildcards, an
  entry being the set of values it matches.
* `GasStation`: the values of fees are small numbers.

## Not modelled

* The Redis store, the KV cache pruner and the epoch window (`store/redis`,
  `sync/prune.go`, `sync/epoch_window.go`): the store can be opened for reading,
  but nothing in the code writes to it or starts the pruner.
* Repartition resolvers and the Redis router (`node/repartition*.go`): only the
  empty resolver is installed, and nothing else writes what the router reads.
* The estimator of `util/gasstation`: no caller.
* Tables of blocks, transactions, users, routes and rate limits: single
  statements on one table, within the transactions of `HASync` or on their own.
* State and store handlers: one forwarded call or one row, no state kept.
* Bridges between the spaces (`rpc/cfxbridge`, `rpc/ethbridge`): conversion of
  data field by field.
* Middlewares for logging, metrics and uniform errors: output.  Billing: an
  external service decides.
* Validators (`test`): clients that compare two endpoints.
* Commands, configuration, metrics: wiring and output.

To check a module: `tlc -config MCHASync.cfg MCHASync`, `tlapm HASyncProofs.tla`.
