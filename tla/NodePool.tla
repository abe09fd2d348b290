------------------------------ MODULE NodePool ------------------------------
(***************************************************************************)
(* The management of full nodes (node/): the pool that shares a node among *)
(* groups, the goroutine of a node that heartbeats and reports to the      *)
(* manager of every group, the manager that takes an unhealthy node off    *)
(* its hash ring, and the requests that change a group in memory and in    *)
(* the database.                                                           *)
(*                                                                         *)
(* A heartbeat sees the condition of the full node; the latency            *)
(* percentile is the condition "slow".  A tick of the goroutine of a node  *)
(* and a request interleave: the goroutine reports to the groups it read   *)
(* at the start of the tick, one by one, and a report changes the status   *)
(* and then the ring.  A node is not added again while the last tick of    *)
(* its closed predecessor runs.                                            *)
(***************************************************************************)
EXTENDS Integers, FiniteSets

CONSTANTS
  Nodes, Groups,
  Conf,        \* the nodes of a group in the configuration
  Failures,    \* Monitor.Unhealth.Failures
  Successes,   \* Monitor.Recover.SuccessCounter
  FallBehind,  \* Monitor.Unhealth.EpochsFallBehind
  MaxHead,    \* bound: the epochs of the full nodes
  MaxOps,      \* bound: the requests and the changes of the full nodes
  None

VARIABLES
  cond,     \* a full node: "ok", "slow", "down"
  head,     \* its latest epoch
  pool,     \* nodePool.nodes, with the state of the node
  managers, \* nodePool.managers: the groups installed
  mgr,      \* the manager of a group
  tick,     \* the monitor goroutine of a node
  saved,    \* the route groups in the database, None if absent
  ops

vars == <<cond, head, pool, managers, mgr, tick, saved, ops>>

Node == [refCnt : Nat, monitors : SUBSET Groups, running : BOOLEAN,
         failure : 0 .. Failures, success : 0 .. Successes, epoch : 0 .. MaxHead, slow : BOOLEAN]
Manager == [nodes : SUBSET Nodes, ring : SUBSET Nodes, known : SUBSET Nodes,
            unhealthy : SUBSET Nodes, epoch : [Nodes -> 0 .. MaxHead], mid : 0 .. MaxHead]
Goroutine == [pc : {"idle", "report", "ringAdd", "ringRemove"}, todo : SUBSET Groups,
              at : Groups \cup {None}]

TypeOK ==
  /\ cond \in [Nodes -> {"ok", "slow", "down"}] /\ head \in [Nodes -> 0 .. MaxHead]
  /\ pool \in [Nodes -> Node]
  /\ managers \subseteq Groups /\ mgr \in [Groups -> Manager]
  /\ tick \in [Nodes -> Goroutine]
  /\ saved \in [Groups -> (SUBSET Nodes) \cup {None}]
  /\ ops \in 0 .. MaxOps

Op == ops < MaxOps /\ ops' = ops + 1
-----------------------------------------------------------------------------
(* The pool as a pair of its nodes and its managers.                       *)

NewManager == [nodes |-> {}, ring |-> {}, known |-> {}, unhealthy |-> {},
               epoch |-> [n \in Nodes |-> 0], mid |-> 0]
NoNode == [refCnt |-> 0, monitors |-> {}, running |-> FALSE,
           failure |-> 0, success |-> 0, epoch |-> 0, slow |-> FALSE]
NewNode == [NoNode EXCEPT !.running = TRUE]
Idle == [pc |-> "idle", todo |-> {}, at |-> None]

\* Manager.Add and Manager.Remove.
Add(m, n) == [m EXCEPT !.nodes = @ \cup {n}, !.ring = @ \cup {n}]
Remove(m, n) == [m EXCEPT !.nodes = @ \ {n}, !.ring = @ \ {n},
                          !.known = @ \ {n}, !.unhealthy = @ \ {n}, !.epoch[n] = 0]

\* Node.Register, Node.Deregister and Node.Close.
Register(r, g) == [r EXCEPT !.monitors = @ \cup {g}, !.refCnt = @ + 1]
\* Mutant of Deregister: a node that is shared keeps its count.
DeregisterUncounted(r, g) ==
  IF r.refCnt > 1 THEN [r EXCEPT !.monitors = @ \ {g}, !.running = FALSE] ELSE NoNode

Deregister(r, g) ==
  IF r.refCnt > 1
  THEN [r EXCEPT !.monitors = @ \ {g}, !.running = FALSE, !.refCnt = @ - 1]
  ELSE NoNode

\* nodePool.add: a node of the group is left alone, a node of another group shared.
add(g, n) ==
  /\ managers' = managers \cup {g}
  /\ IF n \in mgr[g].nodes THEN UNCHANGED <<pool, mgr>>
     ELSE /\ mgr' = [mgr EXCEPT ![g] = Add(@, n)]
          /\ pool' = [pool EXCEPT ![n] = Register(IF @.refCnt > 0 THEN @ ELSE NewNode, g)]
          /\ pool[n].refCnt = 0 => tick[n] = Idle
  /\ UNCHANGED tick

\* nodePool.del: the manager closes the node, whoever shares it; a group without
\* nodes is uninstalled, and what is reported to it has no effect any more.
del(g, n) ==
  LET in == n \in mgr[g].nodes
      m == IF in THEN Remove(mgr[g], n) ELSE mgr[g]
      gone == m.nodes = {}
  IN  /\ pool' = IF in THEN [pool EXCEPT ![n] = Deregister(@, g)] ELSE pool
      /\ managers' = IF gone THEN managers \ {g} ELSE managers
      /\ mgr' = [mgr EXCEPT ![g] = IF gone THEN NewManager ELSE m]
      /\ tick' = IF gone
                 THEN [k \in Nodes |->
                         IF tick[k].at = g
                         THEN [pc |-> "report", todo |-> tick[k].todo, at |-> None]
                         ELSE [tick[k] EXCEPT !.todo = @ \ {g}]]
                 ELSE tick
-----------------------------------------------------------------------------
(* The requests of the management API.                                     *)

\* addGroupNode: in memory only, or in memory and then in the database; when the
\* database fails the node is deleted again.
addGroupNode(g, n, save) ==
  /\ Op
  /\ add(g, n)
  /\ saved' = IF save THEN [saved EXCEPT ![g] = mgr[g].nodes \cup {n}] ELSE saved
  /\ UNCHANGED <<cond, head>>

addGroupNodeFails(g, n) ==
  /\ Op
  /\ del(g, n) /\ n \in mgr[g].nodes
  /\ UNCHANGED <<cond, head, saved>>

\* A node that was not in the group is closed, also one that others share.
addGroupNodeReverted(g, n) ==
  /\ Op
  /\ n \notin mgr[g].nodes
  /\ managers' = IF mgr[g].nodes = {} THEN managers \ {g} ELSE managers
  /\ pool' = [pool EXCEPT ![n].running = FALSE]
  /\ UNCHANGED <<cond, head, mgr, tick, saved>>

\* The factory cannot connect: a group that was not installed is left without nodes.
addFails(g, n) ==
  /\ Op
  /\ pool[n].refCnt = 0
  /\ managers' = managers \cup {g}
  /\ UNCHANGED <<cond, head, pool, mgr, tick, saved>>

\* delGroupNode: the database first; an empty group is deleted from it.
delGroupNode(g, n, save) ==
  /\ Op
  /\ LET left == mgr[g].nodes \ {n}
     IN  saved' = IF save THEN [saved EXCEPT ![g] = IF left = {} THEN None ELSE left] ELSE saved
  /\ del(g, n)
  /\ UNCHANGED <<cond, head>>

\* MustNewServer: the groups of the database replace those of the configuration.
Startup ==
  LET nodesOf(g) == IF saved[g] = None THEN Conf[g] ELSE saved[g]
  IN  /\ managers' = {g \in Groups : nodesOf(g) # {}}
      /\ mgr' = [g \in Groups |->
                   [NewManager EXCEPT !.nodes = nodesOf(g), !.ring = nodesOf(g)]]
      /\ pool' = [n \in Nodes |->
                    LET gs == {g \in Groups : n \in nodesOf(g)}
                    IN  IF gs = {} THEN NoNode
                        ELSE [NewNode EXCEPT !.monitors = gs, !.refCnt = Cardinality(gs)]]

Restart ==
  /\ Op
  /\ Startup
  /\ tick' = [n \in Nodes |-> Idle]
  /\ UNCHANGED <<cond, head, saved>>
-----------------------------------------------------------------------------
(* The full nodes (external) and the monitor goroutines.                   *)

Change(n, c) ==
  /\ Op
  /\ c # cond[n]
  /\ cond' = [cond EXCEPT ![n] = c]
  /\ UNCHANGED <<head, pool, managers, mgr, tick, saved>>

Advance(n) ==
  /\ Op
  /\ head[n] < MaxHead
  /\ head' = [head EXCEPT ![n] = @ + 1]
  /\ UNCHANGED <<cond, pool, managers, mgr, tick, saved>>

\* Mutant of heartbeat: a success does not end a series of failures.
heartbeatSticky(r, n) ==
  IF cond[n] = "down"
  THEN [r EXCEPT !.failure = IF @ < Failures THEN @ + 1 ELSE @, !.success = 0]
  ELSE [r EXCEPT !.success = IF @ < Successes THEN @ + 1 ELSE @,
                 !.epoch = head[n], !.slow = (cond[n] = "slow")]

\* The counters are cut off where the thresholds no longer tell values apart.
heartbeat(r, n) ==
  IF cond[n] = "down"
  THEN [r EXCEPT !.failure = IF @ < Failures THEN @ + 1 ELSE @, !.success = 0]
  ELSE [r EXCEPT !.failure = 0, !.success = IF @ < Successes THEN @ + 1 ELSE @,
                 !.epoch = head[n], !.slow = (cond[n] = "slow")]

Tick(n) ==
  /\ pool[n].running /\ tick[n].pc = "idle"
  /\ pool' = [pool EXCEPT ![n] = heartbeat(@, n)]
  /\ tick' = [tick EXCEPT ![n] = [pc |-> "report", todo |-> pool[n].monitors, at |-> None]]
  /\ UNCHANGED <<cond, head, managers, mgr, saved, ops>>

TickEnd(n) ==
  /\ tick[n].pc = "report" /\ tick[n].todo = {}
  /\ tick' = [tick EXCEPT ![n] = Idle]
  /\ UNCHANGED <<cond, head, pool, managers, mgr, saved, ops>>

\* checkHealth: whether there is a reason to call the node unhealthy.
checkHealth(n, target) ==
  \/ pool[n].failure >= Failures
  \/ pool[n].epoch + FallBehind < target
  \/ pool[n].slow

\* ReportEpoch: the middle one of the epochs that have a status in the group.
Median(m) ==
  LET half == Cardinality(m.known) \div 2
  IN  CHOOSE e \in {m.epoch[k] : k \in m.known} :
        /\ Cardinality({k \in m.known : m.epoch[k] < e}) <= half
        /\ Cardinality({k \in m.known : m.epoch[k] <= e}) > half

updateEpoch(m, n, e) == [m EXCEPT !.known = @ \cup {n}, !.epoch[n] = e]

ReportEpoch(m, n) ==
  LET u == updateEpoch(m, n, pool[n].epoch) IN [u EXCEPT !.mid = Median(u)]

updateUnhealthy(m, n) == [m EXCEPT !.known = @ \cup {n}, !.unhealthy = @ \cup {n}]

Reported(n, g, pc) ==
  tick' = [tick EXCEPT ![n] = [pc |-> pc, todo |-> @.todo \ {g},
                               at |-> IF pc = "report" THEN None ELSE g]]

\* updateHealth, by the health found and the health recorded: a healthy node
\* reports its epoch,
ReportsEpoch(n, g) ==
  /\ tick[n].pc = "report" /\ g \in tick[n].todo
  /\ n \notin mgr[g].unhealthy /\ ~checkHealth(n, mgr[g].mid)
  /\ mgr' = [mgr EXCEPT ![g] = ReportEpoch(@, n)]
  /\ Reported(n, g, "report")
  /\ UNCHANGED <<cond, head, pool, managers, saved, ops>>

\* one that becomes unhealthy, or still is when the reminder is due, is recorded
\* and then taken off the ring,
ReportUnhealthy(n, g) ==
  /\ mgr' = [mgr EXCEPT ![g] = updateUnhealthy(@, n)]
  /\ Reported(n, g, "ringRemove")
  /\ UNCHANGED <<cond, head, pool, managers, saved, ops>>

BecomesUnhealthy(n, g) ==
  /\ tick[n].pc = "report" /\ g \in tick[n].todo
  /\ n \notin mgr[g].unhealthy /\ checkHealth(n, mgr[g].mid)
  /\ ReportUnhealthy(n, g)

Remind(n, g) ==
  /\ tick[n].pc = "report" /\ g \in tick[n].todo
  /\ n \in mgr[g].unhealthy /\ checkHealth(n, mgr[g].mid)
  /\ ReportUnhealthy(n, g)

\* one that recovered goes back on the ring if it is still in the group,
ReportHealthy(n, g) ==
  /\ tick[n].pc = "report" /\ g \in tick[n].todo
  /\ n \in mgr[g].unhealthy /\ ~checkHealth(n, mgr[g].mid)
  /\ pool[n].success >= Successes
  /\ Reported(n, g, IF n \in mgr[g].nodes THEN "ringAdd" ELSE "report")
  /\ UNCHANGED <<cond, head, pool, managers, mgr, saved, ops>>

\* and otherwise nothing is reported.
NothingToReport(n, g) ==
  /\ tick[n].pc = "report" /\ g \in tick[n].todo
  /\ n \in mgr[g].unhealthy
  /\ checkHealth(n, mgr[g].mid) \/ pool[n].success < Successes
  /\ Reported(n, g, "report")
  /\ UNCHANGED <<cond, head, pool, managers, mgr, saved, ops>>

ChangeRing(n) ==
  /\ tick[n].pc \in {"ringAdd", "ringRemove"}
  /\ mgr' = [mgr EXCEPT ![tick[n].at].ring =
               IF tick[n].pc = "ringAdd" THEN @ \cup {n} ELSE @ \ {n}]
  /\ tick' = [tick EXCEPT ![n].pc = "report", ![n].at = None]
  /\ UNCHANGED <<cond, head, pool, managers, saved, ops>>
-----------------------------------------------------------------------------
Init ==
  /\ cond = [n \in Nodes |-> "ok"] /\ head = [n \in Nodes |-> 0]
  /\ managers = {g \in Groups : Conf[g] # {}}
  /\ mgr = [g \in Groups |-> [NewManager EXCEPT !.nodes = Conf[g], !.ring = Conf[g]]]
  /\ pool = [n \in Nodes |->
               LET gs == {g \in Groups : n \in Conf[g]}
               IN  IF gs = {} THEN NoNode
                   ELSE [NewNode EXCEPT !.monitors = gs, !.refCnt = Cardinality(gs)]]
  /\ tick = [n \in Nodes |-> Idle]
  /\ saved = [g \in Groups |-> None]
  /\ ops = 0

Next ==
  \/ \E g \in Groups, n \in Nodes :
       \/ \E save \in BOOLEAN : addGroupNode(g, n, save) \/ delGroupNode(g, n, save)
       \/ addGroupNodeFails(g, n) \/ addGroupNodeReverted(g, n) \/ addFails(g, n)
       \/ ReportsEpoch(n, g) \/ BecomesUnhealthy(n, g) \/ Remind(n, g)
       \/ ReportHealthy(n, g) \/ NothingToReport(n, g)
  \/ \E n \in Nodes : Tick(n) \/ TickEnd(n) \/ ChangeRing(n) \/ Advance(n)
                      \/ \E c \in {"ok", "slow", "down"} : Change(n, c)
  \/ Restart

\* The tickers run, and a reminder becomes due again and again.
Monitor(n) ==
  \/ Tick(n) \/ TickEnd(n) \/ ChangeRing(n)
  \/ \E g \in Groups : ReportsEpoch(n, g) \/ BecomesUnhealthy(n, g)
                        \/ ReportHealthy(n, g) \/ NothingToReport(n, g)

Fairness == \A n \in Nodes : WF_vars(Monitor(n)) /\ \A g \in Groups : SF_vars(Remind(n, g))

Spec == Init /\ [][Next]_vars /\ Fairness
-----------------------------------------------------------------------------
\* A node counts the groups that share it and reports to each of them
\* (nodePool.add, nodePool.del).
SharedNodesAreCounted ==
  \A n \in Nodes :
    LET gs == {g \in Groups : n \in mgr[g].nodes}
    IN  pool[n].refCnt = Cardinality(gs) /\ pool[n].monitors = gs

\* A full node that stays down is off the hash ring of every group it reports to
\* in the end, also one that had recovered before (updateHealth, ReportUnhealthy).
FailingNodesLeave ==
  \A n \in Nodes, g \in Groups :
    <>[](cond[n] = "down" /\ pool[n].running /\ g \in pool[n].monitors)
      => <>[](n \notin mgr[g].ring)

\* A full node that stays healthy is back on the ring of every group in the end
\* (updateHealth, ReportHealthy).
HealthyNodesReturn ==
  \A n \in Nodes, g \in Groups :
    <>[](cond[n] = "ok" /\ pool[n].running /\ g \in pool[n].monitors
         /\ head[n] + FallBehind >= mgr[g].mid)
      => <>[](n \in mgr[g].ring)

\* "reusable nodes with reference count": a node of a group is monitored.
GroupedNodesAreMonitored ==
  \A n \in Nodes : pool[n].refCnt > 0 => pool[n].running
=============================================================================
