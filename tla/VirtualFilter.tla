---------------------------- MODULE VirtualFilter ----------------------------
(***************************************************************************)
(* The virtual filter service (virtualfilter/*.go): one worker polls a     *)
(* proxy log filter of a full node and keeps a linked list of the blocks   *)
(* with their logs, forks included; every virtual log filter delegated to  *)
(* the worker is a cursor into that list.  A poll of the client walks from *)
(* its cursor back to the canonical chain and forward to the tail.         *)
(*                                                                         *)
(* A block stands for its logs.  The list is a record: prev and next are   *)
(* the pointers of the nodes, Root the sentinel; hashToNodes holds the     *)
(* blocks whose prev is not Nil.  The memory of a block's logs is bounded  *)
(* by an LRU cache, evicted logs are read back from the log store.         *)
(***************************************************************************)
EXTENDS Integers, FiniteSets, SequencesExt

CONSTANTS
  Spaces,     \* the network spaces: "eth", "cfx"
  Blocks,     \* the blocks with logs
  Parent,     \* the tree of the blocks; the parent of the first one is Root
  Height,     \* their heights, from 1
  Filters,    \* the virtual log filters
  Crit,       \* the blocks with logs that match the criteria of a filter
  CacheSize,  \* MaxFullFilterBlocks, MaxFullFilterEpochs
  MaxPending, \* bound: the changes between two polls
  MaxMoves,   \* bound: the moves of the full node
  DeepReorgs, \* the full node may revert blocks older than the session
  Root, Nil, Marker

VARIABLES
  space,      \* the space of the service
  tip,        \* the full node: the head of its chain,
  pending,    \* the changes its filter has not returned yet,
  installed,  \* whether it knows the filter
  moves,
  shutdown,   \* the graceful shutdown context is done
  wpc,        \* the worker: "none" (nil session), "idle", "polled", "merged", "closing"
  batch,      \* the changes it has fetched
  chain,      \* the filter chain of its session
  cursor,     \* fcursors: Nil for a filter it does not know, Root for the nil cursor
  store,      \* the logs of a block in VirtualFilterLogStore: "none", "added", "removed"
  managed,    \* filterManager.filters
  fpc,        \* the request of a filter in progress: "idle", "accept", "load"
  got,        \* what fetchPollingChanges has returned to it
  view,       \* the client: the blocks whose logs it believes in
  start,      \* history: the chain of the full node when the session began
  seen,       \* history: its chain as of the last merge
  due,        \* history: what seen was when the client last polled
  base,       \* history: the blocks on the chain when its filter was created
  excused     \* history: filters whose poll failed, or read evicted logs before they were stored

fullNode == <<space, tip, pending, installed, moves>>
worker == <<wpc, batch, chain, start, seen>>
client == <<fpc, got, view, due, base, excused>>
vars == <<fullNode, shutdown, worker, cursor, store, managed, client>>

TypeOK ==
  /\ space \in Spaces
  /\ tip \in Blocks /\ installed \in BOOLEAN /\ moves \in 0 .. MaxMoves
  /\ pending \in Seq([block : Blocks \cup {Nil}, to : Nat])
  /\ shutdown \in BOOLEAN
  /\ wpc \in {"none", "idle", "polled", "merged", "closing"}
  /\ batch \in Seq([block : Blocks \cup {Nil}, to : Nat])
  /\ chain.genesis \in Blocks \cup {Nil, Marker} /\ chain.len \in 0 .. Cardinality(Blocks)
  /\ start \subseteq Blocks /\ seen \subseteq Blocks
  /\ cursor \in [Filters -> Blocks \cup {Root, Nil}]
  /\ store \in [Blocks -> {"none", "added", "removed"}]
  /\ managed \subseteq Filters /\ excused \subseteq Filters
  /\ fpc \in [Filters -> {"idle", "accept", "load"}]
  /\ got \in [Filters -> Seq([block : Blocks \cup {Nil}, to : Nat, full : BOOLEAN])]
  /\ view \in [Filters -> SUBSET Blocks]
  /\ due \in [Filters -> SUBSET Blocks] /\ base \in [Filters -> SUBSET Blocks]
-----------------------------------------------------------------------------
(* The filter chain (chain.go, eth_chain.go, cfx_chain.go).                *)

EmptyChain ==
  [genesis |-> Nil, len |-> 0, markerTo |-> 0,
   prev |-> [n \in Blocks \cup {Root} |-> IF n = Root THEN Root ELSE Nil],
   next |-> [n \in Blocks \cup {Root} |-> IF n = Root THEN Root ELSE Nil],
   rev |-> [b \in Blocks |-> 0],
   full |-> {}, lru |-> <<>>]

Known(fc, b) == fc.prev[b] # Nil
Back(fc) == IF fc.len = 0 THEN Nil ELSE fc.prev[Root]
Foremost(fc) == IF fc.len = 0 THEN Nil ELSE fc.next[Root]
GetPrev(fc, n) == IF fc.prev[n] = Root THEN Nil ELSE fc.prev[n]
GetNext(fc, n) == IF fc.next[n] = Root THEN Nil ELSE fc.next[n]
snapshotLatestCursor(fc) == IF Back(fc) = Nil THEN Root ELSE Back(fc)

Insert(fc, n, at) ==
  LET after == fc.next[at]
      next == [fc.next EXCEPT ![n] = after, ![at] = n]
      prev == [fc.prev EXCEPT ![n] = at]
  IN  [fc EXCEPT !.genesis = IF @ = Nil THEN n ELSE @,
                 !.next = next,
                 !.prev = [prev EXCEPT ![after] = n],
                 !.len = @ + 1]

\* Adding a hash to the LRU cache may evict the oldest one, whose logs go.
CacheAdd(fc, b) ==
  LET lru == Append(Remove(fc.lru, b), b)
  IN  IF Len(lru) > CacheSize
      THEN [fc EXCEPT !.lru = Tail(lru), !.full = @ \ {Head(lru)}]
      ELSE [fc EXCEPT !.lru = lru]

\* A block with its logs (and its reverted mark) put into the list after at.
Push(fc, b, to, at) ==
  CacheAdd([Insert(fc, b, at) EXCEPT !.rev[b] = to, !.full = @ \cup {b}], b)

\* The nodes from n back to the first of the canonical chain.
RECURSIVE Backwards(_, _)
Backwards(fc, n) == IF n = Nil THEN <<>> ELSE <<n>> \o Backwards(fc, GetPrev(fc, n))

RECURSIVE Onwards(_, _)
Onwards(fc, n) == IF n = Nil THEN <<>> ELSE <<n>> \o Onwards(fc, GetNext(fc, n))

Rewind(fc, n) ==
  IF n = Nil
  THEN [fc EXCEPT !.prev[Root] = Root, !.next[Root] = Root, !.len = 0]
  ELSE LET back == Backwards(fc, Back(fc))
           steps == CHOOSE i \in 1 .. Len(back) : back[i] = n
       IN  [fc EXCEPT !.prev[Root] = n, !.next[n] = Root, !.len = @ - (steps - 1)]

\* What fails half-way leaves the chain as it is by then.
Failed(fc) == [ok |-> FALSE, fc |-> fc]

\* ethFilterChain.reorg: the reverted blocks must be the tail, newest first;
\* past the first block of the session they are put in front.
RECURSIVE ReorgFrom(_, _, _)
ReorgFrom(fc, rnode, reverted) ==
  IF reverted = <<>> THEN [ok |-> TRUE, fc |-> Rewind(fc, rnode)]
  ELSE LET b == Head(reverted).block
           fresh == rnode = Nil /\ ~Known(fc, b)
           fc1 == IF fresh THEN Push(fc, b, 1, Root) ELSE fc
       IN  IF ~fresh /\ rnode # b THEN Failed(fc)
           ELSE ReorgFrom([fc1 EXCEPT !.rev[b] = 1, !.full = @ \cup {b}],
                          GetPrev(fc1, b), Tail(reverted))

\* cfxFilterChain.reorg: every epoch above the reorg point is reverted to it;
\* a reorg of the empty chain leaves at most a marker, as the first node.
RECURSIVE RevertAll(_, _)
RevertAll(fc, reverted) ==
  IF reverted = <<>> THEN [ok |-> TRUE, fc |-> fc]
  ELSE LET to == Head(reverted).to
           back == Backwards(fc, Back(fc))
           above == SelectSeq(back, LAMBDA b : Height[b] > to)
           keep == SelectSeq(back, LAMBDA b : Height[b] <= to)
           fc1 == [fc EXCEPT !.rev = [b \in Blocks |-> IF b \in ToSet(above) THEN to ELSE @[b]],
                             !.genesis = IF @ = Nil THEN Marker ELSE @,
                             !.markerTo = IF fc.genesis = Nil THEN to ELSE @]
       IN  RevertAll(Rewind(fc1, IF keep = <<>> THEN Nil ELSE Head(keep)), Tail(reverted))

ethReorg(fc, reverted) == ReorgFrom(fc, Back(fc), reverted)
cfxReorg(fc, reverted) == RevertAll(fc, reverted)

\* extend: a new block goes to the tail; a block that was reverted before comes
\* back only after the node it followed then.
RECURSIVE ethExtend(_, _)
ethExtend(fc, extended) ==
  IF extended = <<>> THEN [ok |-> TRUE, fc |-> fc]
  ELSE LET b == Head(extended).block
       IN  IF Known(fc, b) /\ (fc.rev[b] = 0 \/ GetPrev(fc, b) # Back(fc)) THEN Failed(fc)
           ELSE ethExtend(Push(fc, b, 0, fc.prev[Root]), Tail(extended))

\* The same for epochs: one is reverted when it has an epoch it is reverted to.
cfxExtend(fc, extended) == ethExtend(fc, extended)

\* The changes split into runs of reverted and of new blocks.
parseFilterChanges(changes, reverted) ==
  FoldLeft(LAMBDA runs, c :
             IF runs # <<>> /\ (Last(Last(runs)) \in reverted <=> c \in reverted)
             THEN Append(Front(runs), Append(Last(runs), c))
             ELSE Append(runs, <<c>>),
           <<>>, changes)

Removed(c) == c.to > 0
IsRevertLog(c) == c.block = Nil
parseEthFilterChanges(changes) == parseFilterChanges(changes, {c \in ToSet(changes) : Removed(c)})
parseCfxFilterChanges(changes) == parseFilterChanges(changes, {c \in ToSet(changes) : IsRevertLog(c)})

ethMerge(fc, changes) ==
  FoldLeft(LAMBDA r, run : IF ~r.ok THEN r
                           ELSE IF Removed(run[1]) THEN ethReorg(r.fc, run)
                           ELSE ethExtend(r.fc, run),
           [ok |-> TRUE, fc |-> fc], parseEthFilterChanges(changes))

cfxMerge(fc, changes) ==
  FoldLeft(LAMBDA r, run : IF ~r.ok THEN r
                           ELSE IF IsRevertLog(run[1]) THEN cfxReorg(r.fc, run)
                           ELSE cfxExtend(r.fc, run),
           [ok |-> TRUE, fc |-> fc], parseCfxFilterChanges(changes))

merge(fc, changes) ==
  IF space = "eth" THEN ethMerge(fc, changes) ELSE cfxMerge(fc, changes)

\* Mutant: the blocks after the cursor, also when the cursor was reverted.
traverseOnwards(fc, cur) ==
  LET from == IF cur = Root THEN Foremost(fc) ELSE GetNext(fc, cur)
      nodes == Onwards(fc, from)
  IN  [i \in 1 .. Len(nodes) |-> [block |-> nodes[i], to |-> fc.rev[nodes[i]], full |-> nodes[i] \in fc.full]]

\* traverse, as fetchPollingChanges uses it: the reverted nodes from the cursor
\* back to the canonical chain, then the nodes after the fork point.  The nil
\* cursor starts at the first node ever inserted, and takes every node.
traverse(fc, cur) ==
  LET from == IF cur = Root THEN fc.genesis ELSE cur
      back == IF from = Marker THEN <<>> ELSE Backwards(fc, from)
      live == SelectInSeq(back, LAMBDA b : fc.rev[b] = 0)
      fork == IF live = 0 THEN back ELSE SubSeq(back, 1, live - 1)
      forkPoint == IF live = 0 THEN Nil ELSE back[live]
      onwards == IF forkPoint = Nil THEN Onwards(fc, Foremost(fc))
                 ELSE IF cur = Root THEN Onwards(fc, forkPoint)
                 ELSE Onwards(fc, GetNext(fc, forkPoint))
      Entry(b) == [block |-> b, to |-> fc.rev[b], full |-> b \in fc.full]
      marker == IF from = Marker
                THEN <<[block |-> Nil, to |-> fc.markerTo, full |-> FALSE]>> ELSE <<>>
  IN  IF fc.genesis = Nil THEN <<>>
      ELSE marker \o [i \in 1 .. Len(fork) + Len(onwards) |-> Entry((fork \o onwards)[i])]
-----------------------------------------------------------------------------
(* The full node (external): blocks are mined on the tip or reverted.      *)

RECURSIVE Ancestors(_)
Ancestors(b) == IF b = Root THEN <<>> ELSE <<b>> \o Ancestors(Parent[b])

Observed(changes) == IF installed THEN pending \o changes ELSE pending

Mine ==
  /\ moves < MaxMoves /\ moves' = moves + 1
  /\ Len(pending) < MaxPending
  /\ tip' \in {b \in Blocks : Parent[b] = tip}
  /\ pending' = Observed(<<[block |-> tip', to |-> 0]>>)
  /\ UNCHANGED <<space, installed, shutdown, worker, cursor, store, managed, client>>

Revert ==
  /\ moves < MaxMoves /\ moves' = moves + 1
  /\ \E i \in 2 .. Len(Ancestors(tip)) :
       LET path == Ancestors(tip)
           changes == IF space = "eth"
                      THEN [j \in 1 .. i - 1 |-> [block |-> path[j], to |-> 1]]
                      ELSE <<[block |-> Nil, to |-> Height[path[i]]]>>
       IN  /\ DeepReorgs \/ \A j \in 1 .. i - 1 : path[j] \notin start
           /\ tip' = path[i]
           /\ pending' = Observed(changes)
           /\ Len(pending') <= MaxPending
  /\ UNCHANGED <<space, installed, shutdown, worker, cursor, store, managed, client>>

\* The full node restarts and forgets the filter.
Reboot ==
  /\ installed
  /\ moves < MaxMoves /\ moves' = moves + 1
  /\ installed' = FALSE /\ pending' = <<>>
  /\ UNCHANGED <<space, tip, shutdown, worker, cursor, store, managed, client>>
-----------------------------------------------------------------------------
(* The worker: poll, pollOnce, gc and close (worker.go).                   *)

\* close: the proxy filter is uninstalled, the session reset and the
\* partitions of its logs deleted (onClosed).
close ==
  /\ wpc' = "none" /\ batch' = <<>> /\ chain' = EmptyChain /\ start' = {} /\ seen' = {}
  /\ cursor' = [f \in Filters |-> Nil]
  /\ installed' = FALSE /\ pending' = <<>>
  /\ store' = [b \in Blocks |-> "none"]

\* No virtual filter is delegated to the worker any more.
gc == \A f \in Filters : cursor[f] = Nil

\* A tick: gc closes an idle session, otherwise the changes are fetched.
Tick ==
  /\ wpc = "idle"
  /\ IF gc
     THEN close
     ELSE IF installed
     THEN /\ wpc' = "polled" /\ batch' = pending /\ pending' = <<>>
          /\ UNCHANGED <<installed, chain, start, seen, cursor, store>>
     ELSE wpc' = "closing" /\ UNCHANGED <<installed, pending, batch, chain, start, seen, cursor, store>>
  /\ UNCHANGED <<space, tip, moves, shutdown, managed, client>>

\* The request fails for longer than maxPollingDelayDuration; a failure before
\* that changes nothing.
TickFails ==
  /\ wpc = "idle"
  /\ ~gc
  /\ wpc' = "closing"
  /\ UNCHANGED <<fullNode, batch, chain, start, seen, shutdown, cursor, store, managed, client>>

\* What the changes say of the chain, replayed one by one.
Replay(blocks, changes) ==
  FoldLeft(LAMBDA s, c : IF c.to = 0 THEN s \cup {c.block}
                         ELSE IF space = "eth" THEN s \ {c.block}
                         ELSE {b \in s : Height[b] <= c.to},
           blocks, changes)

Merge ==
  /\ wpc = "polled"
  /\ LET r == merge(chain, batch)
     IN  /\ wpc' = IF r.ok THEN "merged" ELSE "closing"
         /\ chain' = r.fc
         /\ seen' = IF r.ok THEN Replay(seen, batch) ELSE seen
  /\ UNCHANGED <<fullNode, batch, start, shutdown, cursor, store, managed, client>>

\* onPolled: Append deletes the logs of the same blocks and inserts the new.
Stored(changes) ==
  FoldLeft(LAMBDA s, c : IF c.block = Nil THEN s
                         ELSE [s EXCEPT ![c.block] = IF c.to = 0 THEN "added" ELSE "removed"],
           store, changes)

\* Entries whose logs are evicted from memory and not yet in the store.
Unsettled(entries) ==
  \E i \in 1 .. Len(entries), j \in 1 .. Len(batch) :
    ~entries[i].full /\ entries[i].block = batch[j].block

PolledChanges ==
  /\ wpc = "merged"
  /\ wpc' = "idle" /\ store' = Stored(batch) /\ batch' = <<>>
  /\ excused' = excused \cup {f \in Filters : Unsettled(got[f])}
  /\ UNCHANGED <<fullNode, chain, start, seen, shutdown, cursor, managed, fpc, got, view, due, base>>

ethOnPolled == space = "eth" /\ PolledChanges
cfxOnPolled == space = "cfx" /\ PolledChanges

\* The partition cannot be prepared or the logs cannot be inserted.
onPolledFails ==
  /\ wpc = "merged"
  /\ wpc' = "closing"
  /\ UNCHANGED <<fullNode, batch, chain, start, seen, shutdown, cursor, store, managed, client>>

Close ==
  /\ wpc = "closing" \/ (wpc = "idle" /\ shutdown)
  /\ close
  /\ UNCHANGED <<space, tip, moves, shutdown, managed, client>>

Shutdown ==
  /\ ~shutdown /\ shutdown' = TRUE
  /\ UNCHANGED <<fullNode, worker, cursor, store, managed, client>>
-----------------------------------------------------------------------------
(* The requests of the clients (eth_system.go, cfx_system.go).             *)

Idle(f) == fpc[f] = "idle"

\* accept looks at the quit flag before it takes the lock,
Delegate(f) ==
  /\ Idle(f) /\ f \notin managed
  /\ ~shutdown
  /\ fpc' = [fpc EXCEPT ![f] = "accept"]
  /\ UNCHANGED <<fullNode, shutdown, worker, cursor, store, managed, got, view, due, base, excused>>

ethNewFilter(f) == space = "eth" /\ Delegate(f)
cfxNewFilter(f) == space = "cfx" /\ Delegate(f)

\* establishes the session if there is none, and takes the cursor of the tail.
accept(f) ==
  /\ fpc[f] = "accept"
  /\ IF wpc = "none"
     THEN wpc' = "idle" /\ installed' = TRUE /\ start' = ToSet(Ancestors(tip)) /\ seen' = start'
     ELSE UNCHANGED <<wpc, installed, start, seen>>
  /\ cursor' = [cursor EXCEPT ![f] = snapshotLatestCursor(chain)]
  /\ managed' = managed \cup {f}
  /\ fpc' = [fpc EXCEPT ![f] = "idle"]
  /\ view' = [view EXCEPT ![f] = {}]
  /\ due' = [due EXCEPT ![f] = seen']
  /\ base' = [base EXCEPT ![f] = seen' \cup ToSet(Ancestors(tip))]
  /\ UNCHANGED <<space, tip, pending, moves, shutdown, batch, chain, store, got>>
  /\ excused' = excused \ {f}

\* The session cannot be established.
acceptFails(f) ==
  /\ fpc[f] = "accept" /\ wpc = "none"
  /\ fpc' = [fpc EXCEPT ![f] = "idle"]
  /\ UNCHANGED <<fullNode, shutdown, worker, cursor, store, managed, got, view, due, base, excused>>

\* fetchPollingChanges, under the lock of the worker, moves the cursor.
fetchPollingChanges(f) ==
  /\ Idle(f) /\ f \in managed /\ cursor[f] # Nil
  /\ got' = [got EXCEPT ![f] = traverse(chain, cursor[f])]
  /\ due' = [due EXCEPT ![f] = seen]
  /\ cursor' = [cursor EXCEPT ![f] = snapshotLatestCursor(chain)]
  /\ fpc' = [fpc EXCEPT ![f] = "load"]
  /\ excused' = IF wpc # "polled" /\ Unsettled(got'[f]) THEN excused \cup {f} ELSE excused
  /\ UNCHANGED <<fullNode, shutdown, worker, store, managed, view, base>>

ethGetFilterChanges(f) == space = "eth" /\ fetchPollingChanges(f)
cfxGetFilterChanges(f) == space = "cfx" /\ fetchPollingChanges(f)

\* Mutant: evicted logs of blocks on the chain are not read back.
MarkInMemory(e) ==
  IF e.full THEN IF e.to = 0 THEN "added" ELSE "removed"
  ELSE IF store[e.block] = "added" THEN "none" ELSE store[e.block]

\* What the logs of an entry say: their own mark, or the one in the store.
Mark(e) ==
  IF e.full THEN IF e.to = 0 THEN "added" ELSE "removed"
  ELSE store[e.block]

\* The logs of the blocks in order, those removed again with their mark.
ethDelivered(f) ==
  FoldLeft(LAMBDA v, e : CASE Mark(e) = "added" -> v \cup ({e.block} \cap Crit[f])
                           [] Mark(e) = "removed" -> v \ {e.block}
                           [] OTHER -> v,
           view[f], got[f])

\* One chain reorg, to where the last of the leading reverted epochs was
\* reverted to, then the logs of the others.
cfxDelivered(f) ==
  LET first == SelectInSeq(got[f], LAMBDA e : e.to = 0)
      last == IF first = 0 THEN Len(got[f]) ELSE first - 1
      kept == IF last = 0 THEN view[f]
              ELSE {b \in view[f] : Height[b] <= got[f][last].to}
  IN  kept \cup {b \in Crit[f] : \E i \in last + 1 .. Len(got[f]) :
                    got[f][i].block = b /\ Mark(got[f][i]) = "added"}

Deliver(f, logs) ==
  /\ fpc[f] = "load"
  /\ view' = [view EXCEPT ![f] = logs]
  /\ got' = [got EXCEPT ![f] = <<>>]
  /\ fpc' = [fpc EXCEPT ![f] = "idle"]
  /\ UNCHANGED <<fullNode, shutdown, worker, cursor, store, managed, due, base, excused>>

ethFetch(f) == space = "eth" /\ Deliver(f, ethDelivered(f))
cfxFetch(f) == space = "cfx" /\ Deliver(f, cfxDelivered(f))

\* The query of the log store fails: the client gets an error, and its cursor
\* has moved already.
fetchFails(f) ==
  /\ fpc[f] = "load"
  /\ \E i \in 1 .. Len(got[f]) : ~got[f][i].full /\ (space = "eth" \/ got[f][i].to = 0)
  /\ excused' = excused \cup {f}
  /\ got' = [got EXCEPT ![f] = <<>>]
  /\ fpc' = [fpc EXCEPT ![f] = "idle"]
  /\ UNCHANGED <<fullNode, shutdown, worker, cursor, store, managed, view, due, base>>

reject(f) == cursor' = [cursor EXCEPT ![f] = Nil]

\* The manager forgets the filter, then the worker rejects it.
Uninstall(f) ==
  /\ f \in managed
  /\ managed' = managed \ {f}
  /\ reject(f)
  /\ UNCHANGED <<fullNode, shutdown, worker, store, client>>

ethUninstallFilter(f) == space = "eth" /\ Uninstall(f)
cfxUninstallFilter(f) == space = "cfx" /\ Uninstall(f)
\* A filter that nobody polls is dropped in the same way.
timeoutLoop(f) == Idle(f) /\ Uninstall(f)

Init ==
  /\ space \in Spaces
  /\ tip \in {b \in Blocks : Parent[b] = Root}
  /\ pending = <<>> /\ installed = FALSE /\ moves = 0
  /\ shutdown = FALSE
  /\ wpc = "none" /\ batch = <<>> /\ chain = EmptyChain /\ start = {} /\ seen = {}
  /\ cursor = [f \in Filters |-> Nil]
  /\ store = [b \in Blocks |-> "none"]
  /\ managed = {}
  /\ fpc = [f \in Filters |-> "idle"] /\ got = [f \in Filters |-> <<>>]
  /\ view = [f \in Filters |-> {}]
  /\ due = [f \in Filters |-> {}] /\ base = [f \in Filters |-> {}] /\ excused = {}

Next ==
  \/ Mine \/ Revert \/ Reboot
  \/ Tick \/ TickFails \/ Merge \/ ethOnPolled \/ cfxOnPolled \/ onPolledFails
  \/ Close \/ Shutdown
  \/ \E f \in Filters :
       \/ ethNewFilter(f) \/ cfxNewFilter(f) \/ accept(f) \/ acceptFails(f)
       \/ ethGetFilterChanges(f) \/ cfxGetFilterChanges(f)
       \/ ethFetch(f) \/ cfxFetch(f) \/ fetchFails(f)
       \/ ethUninstallFilter(f) \/ cfxUninstallFilter(f) \/ timeoutLoop(f)

Spec == Init /\ [][Next]_vars
-----------------------------------------------------------------------------
Polled(f) == cursor[f] # Nil /\ Idle(f) /\ f \notin excused

\* Once a poll has returned, the client believes in no log that a reorg has
\* removed from the chain (the fork walk of traverse).
NoStaleLogs == \A f \in Filters : Polled(f) => view[f] \subseteq due[f]

\* and it has every matching log that came to the chain since it installed its
\* filter ("fetch filter changes since last polling").
NoLostLogs == \A f \in Filters : Polled(f) => Crit[f] \cap (due[f] \ base[f]) \subseteq view[f]

\* In the EVM space no log is lost, whatever is reverted, mined again, evicted
\* from memory and read back (ethLogFilter.fetch).
NoLostEthLogs == space = "eth" => NoLostLogs
=============================================================================
