---------------------------- MODULE RateRegistry ----------------------------
(***************************************************************************)
(* The registry of rate limit strategies (util/rate/registry.go and        *)
(* registry_reload.go): a periodic reload compares the strategies of the   *)
(* database with the ones in memory, which are indexed by name and by id,  *)
(* and drops the limiters whose rule changed; a request (the middlewares   *)
(* of rate_limit.go) picks a strategy and then gets or creates a limiter.  *)
(*                                                                         *)
(* One resource is followed; a rule None is the absence of a rule for it.  *)
(* The limiters of a strategy are one entry per strategy name: removing    *)
(* them removes those of every key.  The reload visits the strategies in   *)
(* the order of a Go map, that is, in any order, with the lock held that   *)
(* picking a strategy and creating a limiter take, but not the use of a    *)
(* limiter that is there nor the collection of idle ones.                  *)
(***************************************************************************)
EXTENDS Integers

CONSTANTS
  Ids, Names, Rules,
  DefaultStrategy, VipStrategy,  \* names of strategies
  Keyed,         \* the strategy id of a request with a limit key, None without one
  Vips,          \* the requests of VIP users
  Requests,
  MaxChanges,    \* bound: the changes of the configuration
  ReuseNames,    \* whether a name may be used again before the reload that frees it
  None

VARIABLES
  conf,          \* the strategies in the database
  rc,            \* the configuration that is loaded or was loaded last
  lastCs,        \* the checksums of the configuration before
  phase,         \* the loop that the reload is in, "idle" when the lock is free
  todo,          \* the ids that the loop has yet to visit
  strategies,    \* by name
  id2Strategies, \* by id
  limiters,      \* the rule of the limiters of a strategy name
  group,         \* the strategy picked for a request; None before, "none" without one
  changes

reload == <<rc, lastCs, phase, todo>>
registry == <<strategies, id2Strategies, limiters>>
vars == <<conf, reload, registry, group, changes>>

Strategy == [id : Ids, name : Names, rule : Rules \cup {None}]
Strategies == [Ids -> Strategy \cup {None}]

TypeOK ==
  /\ conf \in Strategies /\ rc \in Strategies /\ lastCs \in Strategies
  /\ phase \in {"idle", "remove", "update"} /\ todo \subseteq Ids
  /\ strategies \in [Names -> Strategy \cup {None}]
  /\ id2Strategies \in Strategies
  /\ limiters \in [Names -> Rules \cup {None}]
  /\ group \in [Requests -> Names \cup {None, "none"}]
  /\ changes \in 0 .. MaxChanges

Init ==
  /\ conf = [i \in Ids |-> None] /\ rc = conf /\ lastCs = conf
  /\ phase = "idle" /\ todo = {}
  /\ strategies = [n \in Names |-> None] /\ id2Strategies = [i \in Ids |-> None]
  /\ limiters = [n \in Names |-> None]
  /\ group = [r \in Requests |-> None]
  /\ changes = 0
-----------------------------------------------------------------------------
(* The reload.                                                             *)

\* http.Registry.Remove (external): the limiters of a strategy name go.
RemoveLimiters(s) ==
  limiters' = IF s.rule = None THEN limiters ELSE [limiters EXCEPT ![s.name] = None]

removeStrategy(s) ==
  /\ RemoveLimiters(s)
  /\ strategies' = [strategies EXCEPT ![s.name] = None]
  /\ id2Strategies' = [id2Strategies EXCEPT ![s.id] = None]

addStrategy(s) ==
  /\ strategies' = [strategies EXCEPT ![s.name] = s]
  /\ id2Strategies' = [id2Strategies EXCEPT ![s.id] = s]
  /\ UNCHANGED limiters

\* Mutant of updateStrategy: the limiters of a rule that changed stay.
updateStrategyKeeping(old, new) ==
  /\ id2Strategies' = [id2Strategies EXCEPT ![new.id] = new]
  /\ \/ /\ old.name # new.name
        /\ strategies' = [strategies EXCEPT ![new.name] = new, ![old.name] = None]
        /\ RemoveLimiters(old)
     \/ /\ old.name = new.name
        /\ strategies' = [strategies EXCEPT ![new.name] = new]
        /\ UNCHANGED limiters

\* A new name: the old one is dropped with its limiters.  The same name: the
\* limiters are dropped if the rule changed.
updateStrategy(old, new) ==
  /\ id2Strategies' = [id2Strategies EXCEPT ![new.id] = new]
  /\ \/ /\ old.name # new.name
        /\ strategies' = [strategies EXCEPT ![new.name] = new, ![old.name] = None]
        /\ RemoveLimiters(old)
     \/ /\ old.name = new.name
        /\ strategies' = [strategies EXCEPT ![new.name] = new]
        /\ IF old.rule # new.rule THEN RemoveLimiters(old) ELSE UNCHANGED limiters

\* The configuration is loaded, and the lock is taken.
reloadOnce ==
  /\ phase = "idle"
  /\ rc' = conf
  /\ phase' = "remove"
  /\ todo' = {i \in Ids : id2Strategies[i] # None}
  /\ UNCHANGED <<conf, lastCs, registry, group, changes>>

RemoveGone(i) ==
  /\ phase = "remove" /\ i \in todo
  /\ todo' = todo \ {i}
  /\ IF rc[i] = None THEN removeStrategy(id2Strategies[i]) ELSE UNCHANGED registry
  /\ UNCHANGED <<conf, rc, lastCs, phase, group, changes>>

RemovedAll ==
  /\ phase = "remove" /\ todo = {}
  /\ phase' = "update"
  /\ todo' = {i \in Ids : rc[i] # None}
  /\ UNCHANGED <<conf, rc, lastCs, registry, group, changes>>

AddOrUpdate(i) ==
  /\ phase = "update" /\ i \in todo
  /\ todo' = todo \ {i}
  /\ \/ id2Strategies[i] = None /\ addStrategy(rc[i])
     \/ id2Strategies[i] # None /\ lastCs[i] # rc[i] /\ updateStrategy(id2Strategies[i], rc[i])
     \/ id2Strategies[i] # None /\ lastCs[i] = rc[i] /\ UNCHANGED registry
  /\ UNCHANGED <<conf, rc, lastCs, phase, group, changes>>

Reloaded ==
  /\ phase = "update" /\ todo = {}
  /\ phase' = "idle"
  /\ lastCs' = rc
  /\ UNCHANGED <<conf, rc, todo, registry, group, changes>>

\* The database (external): names are unique in it.
Configure(i) ==
  /\ changes < MaxChanges /\ changes' = changes + 1
  /\ \E s \in Strategy \cup {None} :
       /\ s # conf[i]
       /\ s # None =>
            /\ s.id = i
            /\ \A j \in Ids \ {i} : conf[j] # None => conf[j].name # s.name
            /\ \/ ReuseNames
               \/ \A j \in Ids \ {i} : /\ lastCs[j] # None => lastCs[j].name # s.name
                                       /\ rc[j] # None => rc[j].name # s.name
       /\ conf' = [conf EXCEPT ![i] = s]
  /\ UNCHANGED <<reload, registry, group>>
-----------------------------------------------------------------------------
(* A request.                                                              *)

\* The strategy of a request that is not authenticated, of a VIP, and of a key.
genDefaultGroupAndKey == strategies[DefaultStrategy]
genVipGroupAndKey == strategies[VipStrategy]
genKeyInfoGroupAndKey(i) == id2Strategies[i]

\* A request without a strategy, or whose strategy has no rule, is not limited.
GetGroupAndKey(r) ==
  /\ group[r] = None
  /\ phase = "idle"
  /\ LET s == IF r \in Vips THEN genVipGroupAndKey
              ELSE IF Keyed[r] # None THEN genKeyInfoGroupAndKey(Keyed[r])
              ELSE genDefaultGroupAndKey
     IN  group' = [group EXCEPT ![r] =
                     IF s = None THEN "none" ELSE IF s.rule = None THEN "none" ELSE s.name]
  /\ UNCHANGED <<conf, reload, registry, changes>>

\* The limiter exists, or is created by the rule of the strategy now.
Limit(r) ==
  /\ group[r] \in Names
  /\ \/ limiters[group[r]] # None /\ UNCHANGED limiters
     \/ /\ limiters[group[r]] = None
        /\ phase = "idle"
        /\ strategies[group[r]] # None /\ strategies[group[r]].rule # None
        /\ limiters' = [limiters EXCEPT ![group[r]] = strategies[group[r]].rule]
  /\ group' = [group EXCEPT ![r] = None]
  /\ UNCHANGED <<conf, reload, strategies, id2Strategies, changes>>

\* Create: "strategy not found" or "limit rule not found".
CreateFails(r) ==
  /\ group[r] \in Names
  /\ limiters[group[r]] = None
  /\ phase = "idle"
  /\ strategies[group[r]] # None => strategies[group[r]].rule = None
  /\ group' = [group EXCEPT ![r] = None]
  /\ UNCHANGED <<conf, reload, registry, changes>>

NotLimited(r) ==
  /\ group[r] = "none"
  /\ group' = [group EXCEPT ![r] = None]
  /\ UNCHANGED <<conf, reload, registry, changes>>

\* ScheduleGC: idle limiters go.
GC(n) ==
  /\ limiters[n] # None
  /\ limiters' = [limiters EXCEPT ![n] = None]
  /\ UNCHANGED <<conf, reload, strategies, id2Strategies, group, changes>>

Next ==
  \/ reloadOnce \/ RemovedAll \/ Reloaded
  \/ \E i \in Ids : RemoveGone(i) \/ AddOrUpdate(i) \/ Configure(i)
  \/ \E n \in Names : GC(n)
  \/ \E r \in Requests : GetGroupAndKey(r) \/ Limit(r) \/ CreateFails(r) \/ NotLimited(r)

Spec == Init /\ [][Next]_vars
-----------------------------------------------------------------------------
\* The two indexes hold the same strategies: a strategy found by its id is found
\* by its name (addStrategy, removeStrategy, updateStrategy).
StrategiesAreIndexed ==
  /\ \A i \in Ids : id2Strategies[i] # None => strategies[id2Strategies[i].name] = id2Strategies[i]
  /\ \A n \in Names : strategies[n] # None => id2Strategies[strategies[n].id] = strategies[n]

\* A limiter that is in use enforces the rule of its strategy, however requests
\* and reloads interleave (reloadRateLimitStrategies, Create).
LimitersFollowRules ==
  \A n \in Names :
    limiters[n] # None => strategies[n] # None /\ limiters[n] = strategies[n].rule
=============================================================================
