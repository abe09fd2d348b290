-------------------------- MODULE RegistriesProofs --------------------------
(***************************************************************************)
(* What holds of the strategies of the rate limits and of the allowlists,  *)
(* for any number of them and of requests, any contents and rules, and any *)
(* changes of the configuration.                                           *)
(***************************************************************************)
EXTENDS Registries, TLAPS

-----------------------------------------------------------------------------
(* The strategies of the rate limits.                                      *)

\* A strategy is configured, loaded and indexed under its id and its name.
RRNamed ==
  /\ \A i \in StrategyIds : /\ rr_conf[i] # Nothing => rr_conf[i].id = i
                            /\ rr_rc[i] # Nothing => rr_rc[i].id = i
                            /\ rr_lastCs[i] # Nothing => rr_lastCs[i].id = i
                            /\ rr_id2Strategies[i] # Nothing => rr_id2Strategies[i].id = i
  /\ \A n \in StrategyNames : rr_strategies[n] # Nothing => rr_strategies[n].name = n

\* An id uses a name, in the database, in the configuration that is loaded or in
\* the one before; no two ids use one.
RRUses(i, n) ==
  \/ rr_conf[i] # Nothing /\ rr_conf[i].name = n
  \/ rr_rc[i] # Nothing /\ rr_rc[i].name = n
  \/ rr_lastCs[i] # Nothing /\ rr_lastCs[i].name = n
RRApart == \A n \in StrategyNames : \A i, j \in StrategyIds : RRUses(i, n) /\ RRUses(j, n) => i = j

\* How far the reload is: what it has visited is as loaded.
RRLoaded ==
  /\ rr_phase = "idle" => rr_rc = rr_lastCs /\ \A i \in StrategyIds : rr_id2Strategies[i] = rr_rc[i]
  /\ rr_phase = "remove" =>
       \A i \in StrategyIds :
         rr_id2Strategies[i] = IF i \notin rr_todo /\ rr_rc[i] = Nothing THEN Nothing ELSE rr_lastCs[i]
  /\ rr_phase = "update" =>
       \A i \in StrategyIds :
         IF i \in rr_todo THEN rr_rc[i] # Nothing /\ rr_id2Strategies[i] = rr_lastCs[i]
         ELSE rr_id2Strategies[i] = rr_rc[i]
  /\ rr_phase = "remove" => \A i \in rr_todo : rr_id2Strategies[i] # Nothing

RRInv ==
  /\ RR!TypeOK /\ RRNamed /\ RRApart /\ RRLoaded
  /\ RR!StrategiesAreIndexed /\ RR!LimitersFollowRules

LEMMA RRInit == RR!Init => RRInv
<1>. SUFFICES ASSUME RR!Init PROVE RRInv
  OBVIOUS
<1>1. RR!TypeOK
  <2>1. 0 \in 0 .. MaxStrategyChanges
    BY ONLY RatesAssumption
  <2>. QED  BY <2>1, Zenon DEF RR!Init, RR!TypeOK, RR!Strategies
<1>2. \A i \in StrategyIds : rr_conf[i] = Nothing /\ rr_rc[i] = Nothing /\ rr_lastCs[i] = Nothing /\ rr_id2Strategies[i] = Nothing
  BY Zenon DEF RR!Init
<1>3. \A n \in StrategyNames : rr_strategies[n] = Nothing /\ rr_limiters[n] = Nothing
  BY Zenon DEF RR!Init
<1>4. RRNamed /\ RRApart
  BY <1>2, <1>3, Zenon DEF RRNamed, RRApart, RRUses
<1>5. RRLoaded
  BY <1>2, Zenon DEF RRLoaded, RR!Init
<1>6. RR!StrategiesAreIndexed /\ RR!LimitersFollowRules
  BY <1>2, <1>3, Zenon DEF RR!StrategiesAreIndexed, RR!LimitersFollowRules
<1>. QED  BY <1>1, <1>4, <1>5, <1>6, Zenon DEF RRInv

\* What is indexed is what is loaded or was loaded before.
LEMMA RRKnown ==
  ASSUME RRInv
  PROVE  \A i \in StrategyIds : rr_id2Strategies[i] \in {Nothing, rr_rc[i], rr_lastCs[i]}
<1>1. rr_phase \in {"idle", "remove", "update"}
  BY Zenon DEF RRInv, RR!TypeOK
<1>2. CASE rr_phase = "idle"
  BY <1>2, Zenon DEF RRInv, RRLoaded
<1>3. CASE rr_phase = "remove"
  BY <1>3, Zenon DEF RRInv, RRLoaded
<1>4. CASE rr_phase = "update"
  BY <1>4, Zenon DEF RRInv, RRLoaded
<1>. QED  BY <1>1, <1>2, <1>3, <1>4, Zenon

\* A name that is in use belongs to the id that has it.
LEMMA RROwner ==
  ASSUME RRInv, NEW i \in StrategyIds, NEW s \in {rr_rc[i], rr_lastCs[i]}, s # Nothing,
         NEW j \in StrategyIds, j # i, rr_id2Strategies[j] # Nothing
  PROVE  rr_id2Strategies[j].name # s.name
<1>1. s.name \in StrategyNames
  <2>1. rr_rc[i] \in RR!Strategy \cup {Nothing} /\ rr_lastCs[i] \in RR!Strategy \cup {Nothing}
    BY Zenon DEF RRInv, RR!TypeOK, RR!Strategies
  <2>. QED  BY <2>1, Zenon DEF RR!Strategy
<1>2. RRUses(i, s.name)
  BY Zenon DEF RRUses
<1>3. RRUses(j, rr_id2Strategies[j].name)
  BY RRKnown, Zenon DEF RRUses
<1>. QED  BY <1>1, <1>2, <1>3, Zenon DEF RRInv, RRApart

\* The name of a strategy that is added, or that is new to its id, is free.
LEMMA RRFree ==
  ASSUME RRInv, NEW i \in StrategyIds, rr_rc[i] # Nothing,
         rr_id2Strategies[i] = Nothing \/ rr_id2Strategies[i].name # rr_rc[i].name
  PROVE  rr_strategies[rr_rc[i].name] = Nothing /\ rr_limiters[rr_rc[i].name] = Nothing
<1>. DEFINE n == rr_rc[i].name
<1>1. n \in StrategyNames
  BY Zenon DEF RRInv, RR!TypeOK, RR!Strategies, RR!Strategy
<1>2. SUFFICES ASSUME rr_strategies[n] # Nothing PROVE FALSE
  BY <1>1, Zenon DEF RRInv, RR!LimitersFollowRules
<1>. DEFINE j == rr_strategies[n].id
<1>3. j \in StrategyIds /\ rr_strategies[n].name = n
  BY <1>1, <1>2, ZenonT(60) DEF RRInv, RR!TypeOK, RR!Strategy, RRNamed
<1>4. rr_id2Strategies[j] = rr_strategies[n]
  BY <1>1, <1>2, Zenon DEF RRInv, RR!StrategiesAreIndexed
<1>5. CASE j = i
  BY <1>2, <1>3, <1>4, <1>5, Zenon
<1>6. CASE j # i
  BY <1>2, <1>3, <1>4, <1>6, RROwner, Zenon
<1>. QED  BY <1>5, <1>6, Zenon

\* The steps that leave the indexes alone.
LEMMA RRFrame ==
  ASSUME RRInv, UNCHANGED <<rr_conf, rr_rc, rr_lastCs, rr_phase, rr_todo, rr_strategies, rr_id2Strategies>>,
         rr_limiters' \in [StrategyNames -> Rules \cup {Nothing}],
         rr_group' \in [Limited -> StrategyNames \cup {Nothing, "none"}],
         rr_changes' = rr_changes,
         \A n \in StrategyNames : rr_limiters'[n] # Nothing =>
           rr_limiters'[n] = rr_limiters[n] \/ (rr_strategies[n] # Nothing /\ rr_limiters'[n] = rr_strategies[n].rule)
  PROVE  RRInv'
<1>1. RR!TypeOK'
  BY Zenon DEF RRInv, RR!TypeOK, RR!Strategies, RR!Strategy
<1>2. RRNamed' /\ RRApart' /\ RRLoaded'
  <2>1. RRNamed'
    BY Zenon DEF RRInv, RRNamed
  <2>2. RRApart'
    <3>1. ASSUME NEW n \in StrategyNames, NEW i \in StrategyIds, NEW j \in StrategyIds,
                 RRUses(i, n)', RRUses(j, n)'
          PROVE  i = j
      <4>1. RRUses(i, n) /\ RRUses(j, n)
        BY <3>1, Zenon DEF RRUses
      <4>. QED  BY <4>1, Zenon DEF RRInv, RRApart
    <3>. QED  BY <3>1, Zenon DEF RRApart
  <2>3. RRLoaded'
    BY Zenon DEF RRInv, RRLoaded
  <2>. QED  BY <2>1, <2>2, <2>3, Zenon
<1>3. RR!StrategiesAreIndexed'
  BY Zenon DEF RRInv, RR!StrategiesAreIndexed
<1>4. RR!LimitersFollowRules'
  BY Zenon DEF RRInv, RR!LimitersFollowRules
<1>. QED  BY <1>1, <1>2, <1>3, <1>4, Zenon DEF RRInv

LEMMA RRRequest ==
  ASSUME RRInv, NEW r \in Limited,
         RR!GetGroupAndKey(r) \/ RR!Limit(r) \/ RR!CreateFails(r) \/ RR!NotLimited(r)
  PROVE  RRInv'
<1>0. /\ rr_group \in [Limited -> StrategyNames \cup {Nothing, "none"}]
      /\ rr_limiters \in [StrategyNames -> Rules \cup {Nothing}]
      /\ rr_strategies \in [StrategyNames -> RR!Strategy \cup {Nothing}]
      /\ rr_id2Strategies \in [StrategyIds -> RR!Strategy \cup {Nothing}]
  BY Zenon DEF RRInv, RR!TypeOK, RR!Strategies
<1>1. CASE RR!GetGroupAndKey(r)
  <2>1. PICK s \in RR!Strategy \cup {Nothing} :
          rr_group' = [rr_group EXCEPT ![r] = IF s = Nothing THEN "none"
                                              ELSE IF s.rule = Nothing THEN "none" ELSE s.name]
    <3>. DEFINE s == IF r \in Vips THEN RR!genVipGroupAndKey
                     ELSE IF Keyed[r] # Nothing THEN RR!genKeyInfoGroupAndKey(Keyed[r])
                     ELSE RR!genDefaultGroupAndKey
    <3>1. s \in RR!Strategy \cup {Nothing}
      BY <1>0, RatesAssumption, Zenon
         DEF RR!genVipGroupAndKey, RR!genKeyInfoGroupAndKey, RR!genDefaultGroupAndKey
    <3>. QED  BY <1>1, <3>1, Zenon DEF RR!GetGroupAndKey
  <2>2. s # Nothing => s.name \in StrategyNames
    BY Zenon DEF RR!Strategy
  <2>3. rr_group' \in [Limited -> StrategyNames \cup {Nothing, "none"}]
    BY <1>0, <2>1, <2>2, Zenon
  <2>. QED  BY <1>0, <1>1, <2>3, RRFrame, Zenon DEF RR!GetGroupAndKey, RR!reload, RR!registry
<1>2. CASE RR!Limit(r)
  <2>1. rr_group' \in [Limited -> StrategyNames \cup {Nothing, "none"}]
    BY <1>0, <1>2, Zenon DEF RR!Limit
  <2>2. CASE UNCHANGED rr_limiters
    BY <1>0, <1>2, <2>1, <2>2, RRFrame, Zenon DEF RR!Limit, RR!reload
  <2>3. CASE /\ rr_strategies[rr_group[r]] # Nothing
             /\ rr_limiters' = [rr_limiters EXCEPT ![rr_group[r]] = rr_strategies[rr_group[r]].rule]
    <3>1. rr_strategies[rr_group[r]].rule \in Rules \cup {Nothing}
      BY <1>0, <1>2, <2>3, Zenon DEF RR!Limit, RR!Strategy
    <3>2. rr_limiters' \in [StrategyNames -> Rules \cup {Nothing}]
      BY <1>0, <2>3, <3>1, Zenon
    <3>. QED  BY <1>0, <1>2, <2>1, <2>3, <3>2, RRFrame, Zenon DEF RR!Limit, RR!reload
  <2>. QED  BY <1>2, <2>2, <2>3, Zenon DEF RR!Limit
<1>3. CASE RR!CreateFails(r) \/ RR!NotLimited(r)
  <2>1. rr_group' \in [Limited -> StrategyNames \cup {Nothing, "none"}]
    BY <1>0, <1>3, Zenon DEF RR!CreateFails, RR!NotLimited
  <2>. QED  BY <1>0, <1>3, <2>1, RRFrame, Zenon DEF RR!CreateFails, RR!NotLimited, RR!reload, RR!registry
<1>. QED  BY <1>1, <1>2, <1>3, Zenon

LEMMA RRGC ==
  ASSUME RRInv, NEW n \in StrategyNames, RR!GC(n)
  PROVE  RRInv'
<1>0. /\ rr_group \in [Limited -> StrategyNames \cup {Nothing, "none"}]
      /\ rr_limiters \in [StrategyNames -> Rules \cup {Nothing}]
  BY Zenon DEF RRInv, RR!TypeOK
<1>1. rr_limiters' \in [StrategyNames -> Rules \cup {Nothing}]
  BY <1>0, Zenon DEF RR!GC
<1>. QED  BY <1>0, <1>1, RRFrame, Zenon DEF RR!GC, RR!reload

\* The database lets no two ids use a name at a time.
LEMMA RRConfigure ==
  ASSUME RRInv, ~ReuseNames, NEW i \in StrategyIds, RR!Configure(i)
  PROVE  RRInv'
<1>1. UNCHANGED <<rr_rc, rr_lastCs, rr_phase, rr_todo, rr_strategies, rr_id2Strategies, rr_limiters, rr_group>>
  BY Zenon DEF RR!Configure, RR!reload, RR!registry
<1>2. PICK s \in RR!Strategy \cup {Nothing} :
        /\ s # Nothing =>
             /\ s.id = i
             /\ \A j \in StrategyIds \ {i} : /\ rr_conf[j] # Nothing => rr_conf[j].name # s.name
                                             /\ rr_lastCs[j] # Nothing => rr_lastCs[j].name # s.name
                                             /\ rr_rc[j] # Nothing => rr_rc[j].name # s.name
        /\ rr_conf' = [rr_conf EXCEPT ![i] = s]
  BY Zenon DEF RR!Configure
<1>3. rr_conf \in [StrategyIds -> RR!Strategy \cup {Nothing}]
  BY Zenon DEF RRInv, RR!TypeOK, RR!Strategies
<1>4. rr_conf' \in RR!Strategies /\ \A j \in StrategyIds : rr_conf'[j] = IF j = i THEN s ELSE rr_conf[j]
  BY <1>2, <1>3, Zenon DEF RR!Strategies
<1>5. rr_changes' \in 0 .. MaxStrategyChanges
  <2>1. rr_changes \in 0 .. MaxStrategyChanges /\ rr_changes < MaxStrategyChanges /\ rr_changes' = rr_changes + 1
    BY Zenon DEF RRInv, RR!TypeOK, RR!Configure
  <2>. QED  BY ONLY <2>1, RatesAssumption
<1>6. RR!TypeOK'
  BY <1>1, <1>4, <1>5, Zenon DEF RRInv, RR!TypeOK, RR!Strategies, RR!Strategy
<1>7. RRNamed'
  <2>1. \A j \in StrategyIds : rr_conf'[j] # Nothing => rr_conf'[j].id = j
    <3>1. \A j \in StrategyIds : j # i => rr_conf'[j] = rr_conf[j]
      BY <1>4, Zenon
    <3>2. rr_conf'[i] = s
      BY <1>4, Zenon
    <3>. QED  BY <1>2, <3>1, <3>2, Zenon DEF RRInv, RRNamed
  <2>. QED  BY <1>1, <2>1, Zenon DEF RRInv, RRNamed
<1>8. RRApart'
  <2>1. ASSUME NEW j \in StrategyIds, NEW n \in StrategyNames, RRUses(j, n)'
        PROVE  RRUses(j, n) \/ (j = i /\ s # Nothing /\ n = s.name)
    BY <1>1, <1>4, <2>1, Zenon DEF RRUses
  <2>2. s # Nothing => \A j \in StrategyIds : j # i => ~RRUses(j, s.name)
    BY <1>2, Zenon DEF RRUses
  <2>3. ASSUME NEW n \in StrategyNames, NEW j \in StrategyIds, NEW k \in StrategyIds,
               RRUses(j, n)', RRUses(k, n)'
        PROVE  j = k
    <3>1. RRUses(j, n) \/ (j = i /\ s # Nothing /\ n = s.name)
      BY <2>1, <2>3, Zenon
    <3>2. RRUses(k, n) \/ (k = i /\ s # Nothing /\ n = s.name)
      BY <2>1, <2>3, Zenon
    <3>. QED  BY <2>2, <3>1, <3>2, Zenon DEF RRInv, RRApart
  <2>. QED  BY <2>3, Zenon DEF RRApart
<1>9. RRLoaded' /\ RR!StrategiesAreIndexed' /\ RR!LimitersFollowRules'
  BY <1>1, Zenon DEF RRInv, RRLoaded, RR!StrategiesAreIndexed, RR!LimitersFollowRules
<1>. QED  BY <1>6, <1>7, <1>8, <1>9, Zenon DEF RRInv

\* The strategy of one id is replaced, in both indexes and with its limiters, by
\* one whose name is free or was its own.
RRReplaced(i, old, v) ==
  /\ v # Nothing =>
       /\ v.id = i
       /\ rr_strategies[v.name] = Nothing \/ (old # Nothing /\ old.name = v.name)
  /\ rr_id2Strategies' = [rr_id2Strategies EXCEPT ![i] = v]
  /\ \A m \in StrategyNames :
       rr_strategies'[m] = IF v # Nothing /\ m = v.name THEN v
                           ELSE IF old # Nothing /\ m = old.name THEN Nothing ELSE rr_strategies[m]
  /\ \A m \in StrategyNames : rr_limiters'[m] # Nothing =>
       \/ rr_limiters'[m] = rr_limiters[m] /\ (old # Nothing => m # old.name)
       \/ v # Nothing /\ m = v.name /\ rr_limiters'[m] = v.rule

LEMMA RRReplace ==
  ASSUME RRInv, NEW i \in StrategyIds, NEW v \in RR!Strategy \cup {Nothing},
         RRReplaced(i, rr_id2Strategies[i], v)
  PROVE  /\ RR!StrategiesAreIndexed' /\ RR!LimitersFollowRules'
         /\ \A j \in StrategyIds : rr_id2Strategies'[j] = IF j = i THEN v ELSE rr_id2Strategies[j]
         /\ \A j \in StrategyIds : rr_id2Strategies'[j] # Nothing => rr_id2Strategies'[j].id = j
         /\ \A n \in StrategyNames : rr_strategies'[n] # Nothing => rr_strategies'[n].name = n
<1>. DEFINE old == rr_id2Strategies[i]
<1>r. /\ v # Nothing =>
           /\ v.id = i
           /\ rr_strategies[v.name] = Nothing \/ (old # Nothing /\ old.name = v.name)
      /\ rr_id2Strategies' = [rr_id2Strategies EXCEPT ![i] = v]
      /\ \A m \in StrategyNames :
           rr_strategies'[m] = IF v # Nothing /\ m = v.name THEN v
                               ELSE IF old # Nothing /\ m = old.name THEN Nothing ELSE rr_strategies[m]
      /\ \A m \in StrategyNames : rr_limiters'[m] # Nothing =>
           \/ rr_limiters'[m] = rr_limiters[m] /\ (old # Nothing => m # old.name)
           \/ v # Nothing /\ m = v.name /\ rr_limiters'[m] = v.rule
  BY Zenon DEF RRReplaced
<1>o. old = rr_id2Strategies[i]
  BY Zenon
<1>. HIDE DEF old
<1>0. /\ rr_id2Strategies \in [StrategyIds -> RR!Strategy \cup {Nothing}]
      /\ rr_strategies \in [StrategyNames -> RR!Strategy \cup {Nothing}]
  BY Zenon DEF RRInv, RR!TypeOK, RR!Strategies
<1>1. \A s \in RR!Strategy : s.name \in StrategyNames /\ s.id \in StrategyIds
  BY Zenon DEF RR!Strategy
<1>2. rr_id2Strategies'[i] = v /\ \A j \in StrategyIds : j # i => rr_id2Strategies'[j] = rr_id2Strategies[j]
  BY <1>0, <1>r, Zenon
<1>3. \A j \in StrategyIds : rr_id2Strategies[j] # Nothing =>
        /\ rr_id2Strategies[j].id = j /\ rr_id2Strategies[j].name \in StrategyNames
        /\ rr_strategies[rr_id2Strategies[j].name] = rr_id2Strategies[j]
  BY <1>0, <1>1, ZenonT(60) DEF RRInv, RRNamed, RR!StrategiesAreIndexed
<1>4. \A n \in StrategyNames : rr_strategies[n] # Nothing =>
        /\ rr_strategies[n].name = n /\ rr_strategies[n].id \in StrategyIds
        /\ rr_id2Strategies[rr_strategies[n].id] = rr_strategies[n]
  <2>1. \A n \in StrategyNames : rr_strategies[n] # Nothing => rr_strategies[n].id \in StrategyIds
    BY <1>0, <1>1, Zenon
  <2>. QED  BY <2>1, Zenon DEF RRInv, RRNamed, RR!StrategiesAreIndexed
<1>a. old # Nothing => old.id = i /\ rr_strategies[old.name] = old
  BY <1>3, <1>o, Zenon
<1>5. ASSUME NEW j \in StrategyIds, rr_id2Strategies'[j] # Nothing
      PROVE  rr_strategies'[rr_id2Strategies'[j].name] = rr_id2Strategies'[j]
  <2>1. CASE j = i
    BY <1>1, <1>2, <1>5, <1>r, <2>1, Zenon
  <2>2. CASE j # i
    <3>. DEFINE t == rr_id2Strategies[j]
    <3>1. t = rr_id2Strategies'[j] /\ t # Nothing /\ t.name \in StrategyNames /\ rr_strategies[t.name] = t /\ t.id = j
      BY <1>2, <1>3, <1>5, <2>2, Zenon
    <3>2. old # Nothing => t.name # old.name
      <4>1. SUFFICES ASSUME old # Nothing, t.name = old.name PROVE FALSE
        BY Zenon
      <4>2. rr_strategies[t.name] = old
        BY <1>a, <4>1, Zenon
      <4>3. t = old
        BY <3>1, <4>2, Zenon
      <4>. QED  BY <1>a, <2>2, <3>1, <4>1, <4>3, Zenon
    <3>3. v # Nothing => t.name # v.name
      BY <1>r, <3>1, <3>2, Zenon
    <3>. QED  BY <1>r, <3>1, <3>2, <3>3, Zenon
  <2>. QED  BY <2>1, <2>2, Zenon
<1>6. ASSUME NEW n \in StrategyNames, rr_strategies'[n] # Nothing
      PROVE  rr_strategies'[n].name = n /\ rr_id2Strategies'[rr_strategies'[n].id] = rr_strategies'[n]
  <2>1. CASE v # Nothing /\ n = v.name
    BY <1>2, <1>r, <2>1, ZenonT(60)
  <2>2. CASE ~(v # Nothing /\ n = v.name)
    <3>1. rr_strategies'[n] = rr_strategies[n] /\ (old # Nothing => n # old.name)
      BY <1>6, <1>r, <2>2, Zenon
    <3>2. rr_strategies[n].id # i
      <4>1. SUFFICES ASSUME rr_strategies[n].id = i PROVE FALSE
        BY Zenon
      <4>2. old = rr_strategies[n]
        BY <1>4, <1>6, <1>o, <3>1, <4>1, Zenon
      <4>3. rr_strategies[n].name = n /\ rr_strategies[n] # Nothing
        BY <1>4, <1>6, <3>1, Zenon
      <4>. QED  BY <3>1, <4>2, <4>3, Zenon
    <3>3. /\ rr_strategies[n].name = n /\ rr_strategies[n].id \in StrategyIds
          /\ rr_id2Strategies[rr_strategies[n].id] = rr_strategies[n]
      BY <1>4, <1>6, <3>1, Zenon
    <3>4. rr_id2Strategies'[rr_strategies[n].id] = rr_strategies[n]
      BY <1>2, <3>2, <3>3, Zenon
    <3>. QED  BY <3>1, <3>3, <3>4, Zenon
  <2>. QED  BY <2>1, <2>2, Zenon
<1>7. ASSUME NEW n \in StrategyNames, rr_limiters'[n] # Nothing
      PROVE  rr_strategies'[n] # Nothing /\ rr_limiters'[n] = rr_strategies'[n].rule
  <2>1. CASE rr_limiters'[n] = rr_limiters[n] /\ (old # Nothing => n # old.name)
    <3>1. rr_strategies[n] # Nothing /\ rr_limiters[n] = rr_strategies[n].rule
      BY <1>7, <2>1, Zenon DEF RRInv, RR!LimitersFollowRules
    <3>2. rr_strategies'[n] = rr_strategies[n]
      BY <1>r, <2>1, <3>1, Zenon
    <3>. QED  BY <2>1, <3>1, <3>2, Zenon
  <2>2. CASE v # Nothing /\ n = v.name /\ rr_limiters'[n] = v.rule
    BY <1>r, <2>2, Zenon
  <2>. QED  BY <1>7, <1>r, <2>1, <2>2, Zenon
<1>8. RR!StrategiesAreIndexed' /\ RR!LimitersFollowRules'
  BY <1>5, <1>6, <1>7, Zenon DEF RR!StrategiesAreIndexed, RR!LimitersFollowRules
<1>9. \A j \in StrategyIds : rr_id2Strategies'[j] # Nothing => rr_id2Strategies'[j].id = j
  BY <1>2, <1>3, <1>r, ZenonT(60)
<1>. QED  BY <1>2, <1>6, <1>8, <1>9, Zenon

\* The limiters that a strategy has, if any, are dropped.
LEMMA RRDropped ==
  ASSUME RRInv, NEW i \in StrategyIds, rr_id2Strategies[i] # Nothing, RR!RemoveLimiters(rr_id2Strategies[i])
  PROVE  /\ rr_limiters' \in [StrategyNames -> Rules \cup {Nothing}]
         /\ \A m \in StrategyNames : rr_limiters'[m] # Nothing =>
              rr_limiters'[m] = rr_limiters[m] /\ m # rr_id2Strategies[i].name
<1>. DEFINE s == rr_id2Strategies[i]
<1>0. s.name \in StrategyNames /\ rr_strategies[s.name] = s
  BY Zenon DEF RRInv, RR!TypeOK, RR!Strategies, RR!Strategy, RR!StrategiesAreIndexed
<1>1. rr_limiters \in [StrategyNames -> Rules \cup {Nothing}]
  BY Zenon DEF RRInv, RR!TypeOK
<1>2. CASE s.rule = Nothing
  <2>1. rr_limiters[s.name] = Nothing
    BY <1>0, <1>2, Zenon DEF RRInv, RR!LimitersFollowRules
  <2>. QED  BY <1>1, <1>2, <2>1, Zenon DEF RR!RemoveLimiters
<1>3. CASE s.rule # Nothing
  BY <1>0, <1>1, <1>3, Zenon DEF RR!RemoveLimiters
<1>. QED  BY <1>2, <1>3, Zenon

\* The names stay apart when a configuration is loaded, and when it is done with.
LEMMA RRStillApart ==
  ASSUME RRApart, rr_conf' = rr_conf, rr_rc' \in {rr_rc, rr_conf}, rr_lastCs' \in {rr_lastCs, rr_rc}
  PROVE  RRApart'
<1>1. ASSUME NEW n \in StrategyNames, NEW i \in StrategyIds, NEW j \in StrategyIds, RRUses(i, n)', RRUses(j, n)'
      PROVE  i = j
  <2>1. RRUses(i, n) /\ RRUses(j, n)
    BY <1>1, Zenon DEF RRUses
  <2>. QED  BY <2>1, Zenon DEF RRApart
<1>. QED  BY <1>1, Zenon DEF RRApart

LEMMA RRPhases ==
  ASSUME RRInv, RR!reloadOnce \/ RR!RemovedAll \/ RR!Reloaded
  PROVE  RRInv'
<1>1. UNCHANGED <<rr_conf, rr_strategies, rr_id2Strategies, rr_limiters, rr_group, rr_changes>>
  BY Zenon DEF RR!reloadOnce, RR!RemovedAll, RR!Reloaded, RR!registry
<1>2. rr_rc' \in {rr_rc, rr_conf} /\ rr_lastCs' \in {rr_lastCs, rr_rc}
  BY Zenon DEF RR!reloadOnce, RR!RemovedAll, RR!Reloaded
<1>3. rr_phase' \in {"idle", "remove", "update"} /\ rr_todo' \subseteq StrategyIds
  BY Zenon DEF RRInv, RR!TypeOK, RR!reloadOnce, RR!RemovedAll, RR!Reloaded
<1>4. RR!TypeOK'
  <2>1. rr_rc' \in RR!Strategies /\ rr_lastCs' \in RR!Strategies
    BY <1>2, Zenon DEF RRInv, RR!TypeOK
  <2>. QED  BY <1>1, <1>3, <2>1, Zenon DEF RRInv, RR!TypeOK, RR!Strategies, RR!Strategy
<1>5. RRNamed'
  <2>1. \A i \in StrategyIds : /\ rr_rc'[i] # Nothing => rr_rc'[i].id = i
                               /\ rr_lastCs'[i] # Nothing => rr_lastCs'[i].id = i
    BY <1>2, ZenonT(60) DEF RRInv, RRNamed
  <2>. QED  BY <1>1, <2>1, Zenon DEF RRInv, RRNamed
<1>6. RRApart'
  BY <1>1, <1>2, RRStillApart, Zenon DEF RRInv
<1>7. RRLoaded'
  <2>1. CASE RR!reloadOnce
    <3>1. \A i \in StrategyIds : rr_id2Strategies[i] = rr_lastCs[i]
      BY <2>1, Zenon DEF RRInv, RRLoaded, RR!reloadOnce
    <3>2. rr_phase' = "remove" /\ rr_todo' = {i \in StrategyIds : rr_id2Strategies[i] # Nothing} /\ rr_lastCs' = rr_lastCs
      BY <2>1, Zenon DEF RR!reloadOnce
    <3>3. \A i \in StrategyIds :
            rr_id2Strategies[i] = IF i \notin rr_todo' /\ rr_rc'[i] = Nothing THEN Nothing ELSE rr_lastCs'[i]
      BY <3>1, <3>2, Zenon
    <3>4. \A i \in rr_todo' : rr_id2Strategies[i] # Nothing
      BY <3>2, Zenon
    <3>. QED  BY <1>1, <3>2, <3>3, <3>4, Zenon DEF RRLoaded
  <2>2. CASE RR!RemovedAll
    <3>1. \A i \in StrategyIds : rr_id2Strategies[i] = IF rr_rc[i] = Nothing THEN Nothing ELSE rr_lastCs[i]
      BY <2>2, Zenon DEF RRInv, RRLoaded, RR!RemovedAll
    <3>2. /\ rr_phase' = "update" /\ rr_todo' = {i \in StrategyIds : rr_rc[i] # Nothing}
          /\ rr_lastCs' = rr_lastCs /\ rr_rc' = rr_rc
      BY <2>2, Zenon DEF RR!RemovedAll
    <3>3. \A i \in StrategyIds :
            IF i \in rr_todo' THEN rr_rc[i] # Nothing /\ rr_id2Strategies[i] = rr_lastCs[i]
            ELSE rr_id2Strategies[i] = rr_rc[i]
      BY <3>1, <3>2, Zenon
    <3>. QED  BY <1>1, <3>2, <3>3, Zenon DEF RRLoaded
  <2>3. CASE RR!Reloaded
    <3>1. \A i \in StrategyIds : rr_id2Strategies[i] = rr_rc[i]
      BY <2>3, Zenon DEF RRInv, RRLoaded, RR!Reloaded
    <3>2. rr_phase' = "idle" /\ rr_lastCs' = rr_rc /\ rr_rc' = rr_rc
      BY <2>3, Zenon DEF RR!Reloaded
    <3>. QED  BY <1>1, <3>1, <3>2, Zenon DEF RRLoaded
  <2>. QED  BY <2>1, <2>2, <2>3, Zenon
<1>8. RR!StrategiesAreIndexed' /\ RR!LimitersFollowRules'
  BY <1>1, Zenon DEF RRInv, RR!StrategiesAreIndexed, RR!LimitersFollowRules
<1>. QED  BY <1>4, <1>5, <1>6, <1>7, <1>8, Zenon DEF RRInv

\* A step of the reload for one id.
LEMMA RRVisit ==
  ASSUME RRInv, NEW i \in StrategyIds, i \in rr_todo, rr_todo' = rr_todo \ {i},
         UNCHANGED <<rr_conf, rr_rc, rr_lastCs, rr_phase, rr_group, rr_changes>>,
         rr_phase # "idle", rr_phase = "remove" => rr_rc[i] = Nothing,
         NEW v \in RR!Strategy \cup {Nothing}, v = rr_rc[i],
         rr_id2Strategies' = [rr_id2Strategies EXCEPT ![i] = v],
         rr_strategies' \in [StrategyNames -> RR!Strategy \cup {Nothing}],
         rr_limiters' \in [StrategyNames -> Rules \cup {Nothing}],
         \A n \in StrategyNames : rr_strategies'[n] # Nothing => rr_strategies'[n].name = n,
         RR!StrategiesAreIndexed', RR!LimitersFollowRules'
  PROVE  RRInv'
<1>1. rr_id2Strategies \in [StrategyIds -> RR!Strategy \cup {Nothing}]
  BY Zenon DEF RRInv, RR!TypeOK, RR!Strategies
<1>2. /\ rr_id2Strategies' \in RR!Strategies
      /\ \A j \in StrategyIds : rr_id2Strategies'[j] = IF j = i THEN rr_rc[i] ELSE rr_id2Strategies[j]
  BY <1>1, Zenon DEF RR!Strategies
<1>3. RR!TypeOK'
  BY <1>2, Zenon DEF RRInv, RR!TypeOK, RR!Strategies, RR!Strategy
<1>4. RRNamed'
  <2>1. \A j \in StrategyIds : rr_id2Strategies'[j] # Nothing => rr_id2Strategies'[j].id = j
    <3>1. \A j \in StrategyIds : j # i => rr_id2Strategies'[j] = rr_id2Strategies[j]
      BY <1>2, Zenon
    <3>2. rr_id2Strategies'[i] = rr_rc[i]
      BY <1>2, Zenon
    <3>3. rr_rc[i] # Nothing => rr_rc[i].id = i
      BY Zenon DEF RRInv, RRNamed
    <3>4. \A j \in StrategyIds : rr_id2Strategies[j] # Nothing => rr_id2Strategies[j].id = j
      BY Zenon DEF RRInv, RRNamed
    <3>. QED  BY <3>1, <3>2, <3>3, <3>4, Zenon
  <2>. QED  BY <2>1, Zenon DEF RRInv, RRNamed
<1>5. RRApart'
  BY RRStillApart, Zenon DEF RRInv
<1>6. RRLoaded'
  <2>1. CASE rr_phase = "remove"
    <3>1. \A j \in StrategyIds :
            rr_id2Strategies'[j] = IF j \notin rr_todo' /\ rr_rc[j] = Nothing THEN Nothing ELSE rr_lastCs[j]
      BY <1>2, <2>1, Zenon DEF RRInv, RRLoaded
    <3>2. \A j \in rr_todo' : rr_id2Strategies'[j] # Nothing
      BY <1>2, <2>1, Zenon DEF RRInv, RRLoaded, RR!TypeOK
    <3>. QED  BY <2>1, <3>1, <3>2, Zenon DEF RRLoaded
  <2>2. CASE rr_phase = "update"
    <3>1. \A j \in StrategyIds :
            IF j \in rr_todo' THEN rr_rc[j] # Nothing /\ rr_id2Strategies'[j] = rr_lastCs[j]
            ELSE rr_id2Strategies'[j] = rr_rc[j]
      BY <1>2, <2>2, Zenon DEF RRInv, RRLoaded
    <3>. QED  BY <2>2, <3>1, Zenon DEF RRLoaded
  <2>. QED  BY <2>1, <2>2, Zenon DEF RRInv, RR!TypeOK
<1>. QED  BY <1>3, <1>4, <1>5, <1>6, Zenon DEF RRInv

LEMMA RRRemoveGone ==
  ASSUME RRInv, NEW i \in StrategyIds, RR!RemoveGone(i)
  PROVE  RRInv'
<1>0. /\ rr_phase = "remove" /\ i \in rr_todo /\ rr_todo' = rr_todo \ {i}
      /\ UNCHANGED <<rr_conf, rr_rc, rr_lastCs, rr_phase, rr_group, rr_changes>>
  BY Zenon DEF RR!RemoveGone
<1>1. /\ rr_strategies \in [StrategyNames -> RR!Strategy \cup {Nothing}]
      /\ rr_id2Strategies[i] \in RR!Strategy \cup {Nothing}
      /\ rr_id2Strategies[i] # Nothing
  BY <1>0, Zenon DEF RRInv, RR!TypeOK, RR!Strategies, RRLoaded
<1>2. CASE rr_rc[i] = Nothing
  <2>. DEFINE s == rr_id2Strategies[i]
  <2>1. /\ RR!RemoveLimiters(s)
        /\ rr_strategies' = [rr_strategies EXCEPT ![s.name] = Nothing]
        /\ rr_id2Strategies' = [rr_id2Strategies EXCEPT ![s.id] = Nothing]
    BY <1>2, Zenon DEF RR!RemoveGone, RR!removeStrategy
  <2>2. s.id = i /\ s.name \in StrategyNames
    BY <1>1, Zenon DEF RRInv, RRNamed, RR!Strategy
  <2>3. rr_strategies' \in [StrategyNames -> RR!Strategy \cup {Nothing}]
    BY <1>1, <2>1, Zenon
  <2>4. \A m \in StrategyNames : rr_strategies'[m] = IF m = s.name THEN Nothing ELSE rr_strategies[m]
    BY <1>1, <2>1, Zenon
  <2>5. /\ rr_limiters' \in [StrategyNames -> Rules \cup {Nothing}]
        /\ \A m \in StrategyNames : rr_limiters'[m] # Nothing => rr_limiters'[m] = rr_limiters[m] /\ m # s.name
    BY <1>1, <2>1, RRDropped, Zenon
  <2>6. rr_id2Strategies' = [rr_id2Strategies EXCEPT ![i] = Nothing]
    BY <2>1, <2>2, Zenon
  <2>7. \A m \in StrategyNames :
          rr_strategies'[m] = IF Nothing # Nothing /\ m = Nothing.name THEN Nothing
                              ELSE IF s # Nothing /\ m = s.name THEN Nothing ELSE rr_strategies[m]
    BY <1>1, <2>4, Zenon
  <2>8. /\ RR!StrategiesAreIndexed' /\ RR!LimitersFollowRules'
        /\ \A n \in StrategyNames : rr_strategies'[n] # Nothing => rr_strategies'[n].name = n
    <3>1. Nothing \in RR!Strategy \cup {Nothing}
      BY Zenon
    <3>2. RRReplaced(i, s, Nothing)
      BY <2>5, <2>6, <2>7, Zenon DEF RRReplaced
    <3>. QED  BY <3>1, <3>2, RRReplace, Zenon
  <2>9. Nothing \in RR!Strategy \cup {Nothing} /\ rr_phase # "idle"
    BY <1>0, Zenon
  <2>. QED  BY <1>0, <1>2, <2>3, <2>5, <2>6, <2>8, <2>9, RRVisit, Zenon
<1>3. CASE rr_rc[i] # Nothing
  <2>1. UNCHANGED <<rr_strategies, rr_id2Strategies, rr_limiters>>
    BY <1>3, Zenon DEF RR!RemoveGone, RR!registry
  <2>2. RR!TypeOK'
    BY <1>0, <2>1, Zenon DEF RRInv, RR!TypeOK, RR!Strategies, RR!Strategy
  <2>3. RRNamed' /\ RR!StrategiesAreIndexed' /\ RR!LimitersFollowRules'
    BY <1>0, <2>1, Zenon DEF RRInv, RRNamed, RR!StrategiesAreIndexed, RR!LimitersFollowRules
  <2>4. RRApart'
    BY <1>0, RRStillApart, Zenon DEF RRInv
  <2>5. RRLoaded'
    <3>1. \A j \in StrategyIds :
            rr_id2Strategies[j] = IF j \notin rr_todo' /\ rr_rc[j] = Nothing THEN Nothing ELSE rr_lastCs[j]
      BY <1>0, <1>3, Zenon DEF RRInv, RRLoaded
    <3>2. \A j \in rr_todo' : rr_id2Strategies[j] # Nothing
      BY <1>0, Zenon DEF RRInv, RRLoaded
    <3>. QED  BY <1>0, <2>1, <3>1, <3>2, Zenon DEF RRLoaded
  <2>. QED  BY <2>2, <2>3, <2>4, <2>5, Zenon DEF RRInv
<1>. QED  BY <1>2, <1>3, Zenon

LEMMA RRAddOrUpdate ==
  ASSUME RRInv, NEW i \in StrategyIds, RR!AddOrUpdate(i)
  PROVE  RRInv'
<1>. DEFINE old == rr_id2Strategies[i]
            new == rr_rc[i]
<1>0. /\ rr_phase = "update" /\ i \in rr_todo /\ rr_todo' = rr_todo \ {i}
      /\ UNCHANGED <<rr_conf, rr_rc, rr_lastCs, rr_phase, rr_group, rr_changes>>
  BY Zenon DEF RR!AddOrUpdate
<1>1. /\ rr_strategies \in [StrategyNames -> RR!Strategy \cup {Nothing}]
      /\ rr_id2Strategies \in [StrategyIds -> RR!Strategy \cup {Nothing}]
      /\ rr_limiters \in [StrategyNames -> Rules \cup {Nothing}]
      /\ new \in RR!Strategy \cup {Nothing}
  BY Zenon DEF RRInv, RR!TypeOK, RR!Strategies
<1>2. new # Nothing /\ old = rr_lastCs[i]
  BY <1>0, Zenon DEF RRInv, RRLoaded
<1>3. new.id = i /\ new.name \in StrategyNames /\ new \in RR!Strategy
  BY <1>1, <1>2, Zenon DEF RRInv, RRNamed, RR!Strategy
<1>4. old # Nothing => old.name \in StrategyNames /\ rr_strategies[old.name] = old
  BY <1>1, Zenon DEF RRInv, RR!Strategy, RR!StrategiesAreIndexed
<1>5. SUFFICES /\ rr_id2Strategies' = [rr_id2Strategies EXCEPT ![i] = new]
               /\ rr_strategies' \in [StrategyNames -> RR!Strategy \cup {Nothing}]
               /\ rr_limiters' \in [StrategyNames -> Rules \cup {Nothing}]
               /\ rr_strategies[new.name] = Nothing \/ (old # Nothing /\ old.name = new.name)
               /\ \A m \in StrategyNames :
                    rr_strategies'[m] = IF m = new.name THEN new
                                        ELSE IF old # Nothing /\ m = old.name THEN Nothing ELSE rr_strategies[m]
               /\ \A m \in StrategyNames : rr_limiters'[m] # Nothing =>
                    \/ rr_limiters'[m] = rr_limiters[m] /\ (old # Nothing => m # old.name)
                    \/ m = new.name /\ rr_limiters'[m] = new.rule
  <2>1. /\ RR!StrategiesAreIndexed' /\ RR!LimitersFollowRules'
        /\ \A n \in StrategyNames : rr_strategies'[n] # Nothing => rr_strategies'[n].name = n
    <3>1. new # Nothing =>
            /\ new.id = i
            /\ rr_strategies[new.name] = Nothing \/ (old # Nothing /\ old.name = new.name)
      BY <1>3, <1>5, Zenon
    <3>2. \A m \in StrategyNames :
            rr_strategies'[m] = IF new # Nothing /\ m = new.name THEN new
                                ELSE IF old # Nothing /\ m = old.name THEN Nothing ELSE rr_strategies[m]
      BY <1>2, <1>5, Zenon
    <3>3. \A m \in StrategyNames : rr_limiters'[m] # Nothing =>
            \/ rr_limiters'[m] = rr_limiters[m] /\ (old # Nothing => m # old.name)
            \/ new # Nothing /\ m = new.name /\ rr_limiters'[m] = new.rule
      BY <1>2, <1>5, Zenon
    <3>4. RRReplaced(i, old, new)
      BY <1>5, <3>1, <3>2, <3>3, Zenon DEF RRReplaced
    <3>. QED  BY <1>1, <3>4, RRReplace, Zenon
  <2>2. rr_phase # "idle" /\ rr_phase # "remove"
    BY <1>0, Zenon
  <2>3. new = rr_rc[i]
    BY Zenon
  <2>. HIDE DEF new
  <2>. QED  BY <1>0, <1>1, <1>5, <2>1, <2>2, <2>3, RRVisit, Zenon
<1>6. CASE old = Nothing
  <2>1. /\ rr_strategies' = [rr_strategies EXCEPT ![new.name] = new]
        /\ rr_id2Strategies' = [rr_id2Strategies EXCEPT ![new.id] = new]
        /\ rr_limiters' = rr_limiters
    BY <1>6, Zenon DEF RR!AddOrUpdate, RR!addStrategy
  <2>2. rr_strategies[new.name] = Nothing
    BY <1>2, <1>6, RRFree, Zenon
  <2>. HIDE DEF new, old
  <2>. QED  BY <1>1, <1>3, <1>6, <2>1, <2>2, Zenon
<1>7. CASE old # Nothing /\ rr_lastCs[i] = new
  <2>1. old = new /\ rr_strategies' = rr_strategies /\ rr_id2Strategies' = rr_id2Strategies /\ rr_limiters' = rr_limiters
    BY <1>2, <1>7, Zenon DEF RR!AddOrUpdate, RR!registry
  <2>2. rr_id2Strategies' = [rr_id2Strategies EXCEPT ![i] = new]
    BY <1>1, <2>1, Zenon
  <2>3. \A m \in StrategyNames : rr_limiters[m] # Nothing /\ m = new.name => rr_limiters[m] = new.rule
    BY <1>4, <1>7, <2>1, Zenon DEF RRInv, RR!LimitersFollowRules
  <2>4. rr_strategies[new.name] = new /\ old # Nothing /\ old.name = new.name
    BY <1>4, <1>7, <2>1, Zenon
  <2>5. \A m \in StrategyNames :
          rr_strategies'[m] = IF m = new.name THEN new
                              ELSE IF old # Nothing /\ m = old.name THEN Nothing ELSE rr_strategies[m]
    <3>. HIDE DEF new, old
    <3>. QED  BY <2>1, <2>4, Zenon
  <2>6. \A m \in StrategyNames : rr_limiters'[m] # Nothing =>
          \/ rr_limiters'[m] = rr_limiters[m] /\ (old # Nothing => m # old.name)
          \/ m = new.name /\ rr_limiters'[m] = new.rule
    <3>. HIDE DEF new, old
    <3>. QED  BY <2>1, <2>3, <2>4, Zenon
  <2>. HIDE DEF new, old
  <2>. QED  BY <1>1, <2>1, <2>2, <2>4, <2>5, <2>6, Zenon
<1>8. CASE old # Nothing /\ rr_lastCs[i] # new
  <2>0. RR!updateStrategy(old, new)
    BY <1>8, Zenon DEF RR!AddOrUpdate
  <2>1. rr_id2Strategies' = [rr_id2Strategies EXCEPT ![i] = new]
    BY <1>3, <2>0, Zenon DEF RR!updateStrategy
  <2>2. CASE old.name # new.name
    <3>1. /\ rr_strategies' = [rr_strategies EXCEPT ![new.name] = new, ![old.name] = Nothing]
          /\ RR!RemoveLimiters(old)
      BY <2>0, <2>2, Zenon DEF RR!updateStrategy
    <3>2. rr_strategies[new.name] = Nothing
      BY <1>2, <2>2, RRFree, Zenon
    <3>3. /\ rr_limiters' \in [StrategyNames -> Rules \cup {Nothing}]
          /\ \A m \in StrategyNames : rr_limiters'[m] # Nothing => rr_limiters'[m] = rr_limiters[m] /\ m # old.name
      BY <1>8, <3>1, RRDropped, Zenon
    <3>. HIDE DEF new, old
    <3>4. rr_strategies' \in [StrategyNames -> RR!Strategy \cup {Nothing}]
      BY <1>1, <1>3, <3>1, Zenon
    <3>5. \A m \in StrategyNames :
            rr_strategies'[m] = IF m = new.name THEN new
                                ELSE IF old # Nothing /\ m = old.name THEN Nothing ELSE rr_strategies[m]
      BY <1>1, <1>3, <1>4, <1>8, <2>2, <3>1, Zenon
    <3>. QED  BY <2>1, <3>2, <3>3, <3>4, <3>5, Zenon
  <2>3. CASE old.name = new.name
    <3>1. /\ rr_strategies' = [rr_strategies EXCEPT ![new.name] = new]
          /\ IF old.rule # new.rule THEN RR!RemoveLimiters(old) ELSE rr_limiters' = rr_limiters
      BY <2>0, <2>3, Zenon DEF RR!updateStrategy
    <3>2. /\ rr_limiters' \in [StrategyNames -> Rules \cup {Nothing}]
          /\ \A m \in StrategyNames : rr_limiters'[m] # Nothing =>
               \/ rr_limiters'[m] = rr_limiters[m] /\ m # old.name
               \/ m = new.name /\ rr_limiters'[m] = new.rule
      <4>1. CASE old.rule # new.rule
        BY <1>8, <3>1, <4>1, RRDropped, Zenon
      <4>2. CASE old.rule = new.rule
        <5>1. rr_limiters' = rr_limiters
          BY <3>1, <4>2, Zenon
        <5>2. rr_limiters[old.name] # Nothing => rr_limiters[old.name] = old.rule
          BY <1>4, <1>8, Zenon DEF RRInv, RR!LimitersFollowRules
        <5>. HIDE DEF new, old
        <5>. QED  BY <1>1, <2>3, <4>2, <5>1, <5>2, Zenon
      <4>. QED  BY <4>1, <4>2, Zenon
    <3>. HIDE DEF new, old
    <3>3. rr_strategies' \in [StrategyNames -> RR!Strategy \cup {Nothing}]
      BY <1>1, <1>3, <3>1, Zenon
    <3>4. \A m \in StrategyNames :
            rr_strategies'[m] = IF m = new.name THEN new
                                ELSE IF old # Nothing /\ m = old.name THEN Nothing ELSE rr_strategies[m]
      BY <1>1, <1>3, <2>3, <3>1, Zenon
    <3>. QED  BY <1>8, <2>1, <2>3, <3>2, <3>3, <3>4, Zenon
  <2>. QED  BY <2>2, <2>3, Zenon
<1>. QED  BY <1>6, <1>7, <1>8, Zenon

LEMMA RRNext == ~ReuseNames /\ RRInv /\ [RR!Next]_rrVars => RRInv'
<1>. SUFFICES ASSUME ~ReuseNames, RRInv, [RR!Next]_rrVars PROVE RRInv'
  BY Zenon
<1>1. CASE RR!reloadOnce \/ RR!RemovedAll \/ RR!Reloaded
  BY <1>1, RRPhases, Zenon
<1>2. CASE \E i \in StrategyIds : RR!RemoveGone(i) \/ RR!AddOrUpdate(i) \/ RR!Configure(i)
  BY <1>2, RRRemoveGone, RRAddOrUpdate, RRConfigure, Zenon
<1>3. CASE \E n \in StrategyNames : RR!GC(n)
  BY <1>3, RRGC, Zenon
<1>4. CASE \E r \in Limited : RR!GetGroupAndKey(r) \/ RR!Limit(r) \/ RR!CreateFails(r) \/ RR!NotLimited(r)
  BY <1>4, RRRequest, Zenon
<1>5. CASE UNCHANGED rrVars
  <2>1. rr_limiters \in [StrategyNames -> Rules \cup {Nothing}] /\ rr_group \in [Limited -> StrategyNames \cup {Nothing, "none"}]
    BY Zenon DEF RRInv, RR!TypeOK
  <2>. QED  BY <1>5, <2>1, RRFrame, Zenon DEF rrVars
<1>. QED  BY <1>1, <1>2, <1>3, <1>4, <1>5, Zenon DEF RR!Next

\* The limiters follow the rules: however the database changes, reloads and
\* requests interleave, a limiter in use enforces the rule that its strategy has
\* now, and a strategy is found alike by id and by name (reloadRateLimitStrategies,
\* Create), as long as no name is used again before the reload that frees it.
THEOREM RatesAreFollowed ==
  ASSUME ~ReuseNames
  PROVE  /\ RR!Spec => [](RR!TypeOK /\ RR!StrategiesAreIndexed /\ RR!LimitersFollowRules)
         /\ RR!Spec => []RatesFollowRules
<1>1. RR!Init => RRInv
  BY RRInit
<1>2. RRInv /\ [RR!Next]_(RR!vars) => RRInv'
  <2>. SUFFICES ASSUME RRInv, [RR!Next]_(RR!vars) PROVE RRInv'
    BY Zenon
  <2>1. [RR!Next]_rrVars
    BY Zenon DEF rrVars, RR!vars, RR!reload, RR!registry
  <2>. QED  BY <2>1, RRNext, Zenon
<1>3. RRInv => RR!TypeOK /\ RR!StrategiesAreIndexed /\ RR!LimitersFollowRules
  BY Zenon DEF RRInv
<1>4. RRInv => RatesFollowRules
  BY Zenon DEF RRInv, RatesFollowRules
<1>. QED  BY <1>1, <1>2, <1>3, <1>4, PTL DEF RR!Spec

-----------------------------------------------------------------------------
(* The allowlists.                                                         *)

\* An allowlist is configured, loaded and kept under its id.
ALNamed ==
  \A i \in ListIds : /\ al_conf[i] # Nothing => al_conf[i].id = i
                     /\ al_rc[i] # Nothing => al_rc[i].id = i
                     /\ al_lastCs[i] # Nothing => al_lastCs[i].id = i
                     /\ al_allowlists[i] # Nothing => al_allowlists[i].id = i

\* An id uses a name, as for the strategies; no two ids use one.
ALUses(i, n) ==
  \/ al_conf[i] # Nothing /\ al_conf[i].name = n
  \/ al_rc[i] # Nothing /\ al_rc[i].name = n
  \/ al_lastCs[i] # Nothing /\ al_lastCs[i].name = n
ALApart == \A n \in ListNames : \A i, j \in ListIds : ALUses(i, n) /\ ALUses(j, n) => i = j

\* How far the reload is: what it has visited is as loaded.
ALLoaded ==
  /\ al_phase = "idle" => al_rc = al_lastCs /\ \A i \in ListIds : al_allowlists[i] = al_rc[i]
  /\ al_phase = "remove" =>
       \A i \in ListIds :
         al_allowlists[i] = IF i \notin al_todo /\ al_rc[i] = Nothing THEN Nothing ELSE al_lastCs[i]
  /\ al_phase = "update" =>
       \A i \in ListIds :
         IF i \in al_todo THEN al_rc[i] # Nothing /\ al_allowlists[i] = al_lastCs[i]
         ELSE al_allowlists[i] = al_rc[i]
  /\ al_phase = "remove" => \A i \in al_todo : al_allowlists[i] # Nothing

\* The default validator is that of every allowlist named default, of which
\* there is one at most.
ALIsDefault(i) == al_allowlists[i] # Nothing /\ al_allowlists[i].name = "default"
ALDefault ==
  /\ \A i \in ListIds : al_validators[i] = IF al_allowlists[i] = Nothing THEN Nothing ELSE al_allowlists[i].list
  /\ \A i \in ListIds : ALIsDefault(i) => al_defaultValidator = al_allowlists[i].list
  /\ (\A i \in ListIds : ~ALIsDefault(i)) => al_defaultValidator = Nothing

ALInv ==
  AL!TypeOK /\ ALNamed /\ ALApart /\ ALLoaded /\ ALDefault /\ AL!VerdictsFollowEntries

LEMMA ALInit == AL!Init => ALInv
<1>. SUFFICES ASSUME AL!Init PROVE ALInv
  OBVIOUS
<1>1. AL!TypeOK
  <2>1. 0 \in 0 .. MaxListChanges
    BY ONLY AccessAssumption
  <2>. QED  BY <2>1, Zenon DEF AL!Init, AL!TypeOK, AL!Configuration
<1>2. \A i \in ListIds : /\ al_conf[i] = Nothing /\ al_rc[i] = Nothing /\ al_lastCs[i] = Nothing
                         /\ al_allowlists[i] = Nothing /\ al_validators[i] = Nothing
  BY Zenon DEF AL!Init
<1>3. ALNamed /\ ALApart
  BY <1>2, Zenon DEF ALNamed, ALApart, ALUses
<1>4. ALLoaded
  BY <1>2, Zenon DEF ALLoaded, AL!Init
<1>5. ALDefault
  BY <1>2, Zenon DEF ALDefault, ALIsDefault, AL!Init
<1>6. AL!VerdictsFollowEntries
  BY Zenon DEF AL!Init, AL!VerdictsFollowEntries
<1>. QED  BY <1>1, <1>3, <1>4, <1>5, <1>6, Zenon DEF ALInv

\* The default allowlist is found, whichever one is chosen.
LEMMA ALDefaultIsCurrent == ALDefault => AL!DefaultIsCurrent
<1>. SUFFICES ASSUME ALDefault PROVE AL!DefaultIsCurrent
  OBVIOUS
<1>. DEFINE ids == {i \in ListIds : al_allowlists[i] # Nothing /\ al_allowlists[i].name = "default"}
<1>1. CASE ids = {}
  <2>1. al_defaultValidator = Nothing
    BY <1>1, Zenon DEF ALDefault, ALIsDefault
  <2>. QED  BY <1>1, <2>1, Zenon DEF ALDefault, AL!DefaultIsCurrent
<1>2. CASE ids # {}
  <2>1. (CHOOSE i \in ids : TRUE) \in ids
    BY <1>2, Zenon
  <2>2. al_defaultValidator = al_allowlists[CHOOSE i \in ids : TRUE].list
    BY <2>1, Zenon DEF ALDefault, ALIsDefault
  <2>. QED  BY <1>2, <2>2, Zenon DEF ALDefault, AL!DefaultIsCurrent
<1>. QED  BY <1>1, <1>2, Zenon

\* What a request is decided by does not change afterwards.
LEMMA ALDecided ==
  ASSUME AL!VerdictsFollowEntries, UNCHANGED <<al_space, al_verdict>>
  PROVE  AL!VerdictsFollowEntries'
<1>1. AL!FollowsEntries(al_verdict)' <=> AL!FollowsEntries(al_verdict)
  <2>1. (AL!Entries(al_verdict.by, al_verdict.req))' = AL!Entries(al_verdict.by, al_verdict.req)
    BY SMTT(30) DEF AL!Entries, AL!Parsed
  <2>. QED  BY <2>1, Zenon DEF AL!FollowsEntries
<1>. QED  BY <1>1, Zenon DEF AL!VerdictsFollowEntries

\* The rules for addresses and the addresses of a request are in the same form.
LEMMA ALAddresses ==
  ASSUME NEW v \in Lists, NEW r \in Asked, al_space \in {"eth", "cfx"}, r.method \in AL!Parsed,
         ~(al_space = "cfx" /\ r.method = "getBalance")
  PROVE  AL!cntAddrs(r) \subseteq AL!cntAddrRules(v) <=> \A a \in r.addrs : \E c \in v.contracts : a = c
<1>1. AL!cntAddrRules(v) = {<<c, "plain">> : c \in v.contracts \ {"malformed"}}
  BY Zenon DEF AL!cntAddrRules, AL!ethRules, AL!uniformContractAddrRulesets
<1>2. AL!cntAddrs(r) = {<<c, "plain">> : c \in r.addrs}
  <2>1. r.method \in {"call", "getLogs", "getBalance"}
    BY Zenon DEF AL!Parsed
  <2>2. AL!ethCntAddrParsers(r) = {<<c, "plain">> : c \in r.addrs}
    BY <2>1 DEF AL!ethCntAddrParsers, AL!ethParseCallRequest, AL!ethParseFilterQuery, AL!ethParseAddr
  <2>3. r.method # "getBalance" => AL!cfxCntAddrParsers(r) = {<<c, "plain">> : c \in r.addrs}
    BY <2>1 DEF AL!cfxCntAddrParsers, AL!cfxParseCallRequest, AL!cfxParseLogFilter
  <2>. QED  BY <2>2, <2>3, Zenon DEF AL!cntAddrs
<1>3. \A a \in r.addrs : a # "malformed"
  BY AccessAssumption, Zenon DEF AL!Request
<1>4. ASSUME AL!cntAddrs(r) \subseteq AL!cntAddrRules(v), NEW a \in r.addrs
      PROVE  a \in v.contracts
  <2>1. <<a, "plain">> \in {<<c, "plain">> : c \in v.contracts \ {"malformed"}}
    BY <1>1, <1>2, <1>4, Zenon
  <2>2. PICK c \in v.contracts : <<a, "plain">> = <<c, "plain">>
    BY <2>1, Zenon
  <2>. QED  BY <2>2, Zenon
<1>5. ASSUME \A a \in r.addrs : \E c \in v.contracts : a = c, NEW p \in AL!cntAddrs(r)
      PROVE  p \in AL!cntAddrRules(v)
  <2>1. PICK a \in r.addrs : p = <<a, "plain">>
    BY <1>2, <1>5, Zenon
  <2>2. a \in v.contracts \ {"malformed"}
    BY <1>3, <1>5, Zenon
  <2>. QED  BY <1>1, <2>1, <2>2, Zenon
<1>. QED  BY <1>4, <1>5, Zenon

\* What a validator says of a request is what the entries of its allowlist say.
LEMMA ALValidates ==
  ASSUME NEW v \in Lists, NEW r \in Asked, al_space \in {"eth", "cfx"},
         ~(al_space = "cfx" /\ r.method = "getBalance"),
         NEW d, d.by = v, d.req = r, d.err = AL!Validate(v, r)
  PROVE  AL!FollowsEntries(d)
<1>. DEFINE met == /\ v.origins # {} => r.origin \in v.origins
                   /\ v.agents # {} => r.agent \in v.agents
                   /\ v.allow # {} => r.method \in v.allow
                   /\ v.allow = {} => r.method \notin v.disallow
                   /\ v.contracts # {} /\ r.method \in AL!Parsed =>
                        /\ r.wellFormed /\ (r.method = "call" => r.addrs # {})
                        /\ \A a \in r.addrs : \E c \in v.contracts : a = c
<1>1. AL!validateContractAddresses(v, r) = "ok" <=>
        (v.contracts # {} /\ r.method \in AL!Parsed =>
           /\ r.wellFormed /\ (r.method = "call" => r.addrs # {})
           /\ \A a \in r.addrs : \E c \in v.contracts : a = c)
  <2>1. CASE v.contracts = {} \/ r.method \notin AL!Parsed
    BY <2>1, Zenon DEF AL!validateContractAddresses
  <2>2. CASE v.contracts # {} /\ r.method \in AL!Parsed
    <3>1. AL!cntAddrs(r) \subseteq AL!cntAddrRules(v) <=> \A a \in r.addrs : \E c \in v.contracts : a = c
      BY <2>2, ALAddresses, Zenon
    <3>. QED  BY <2>2, <3>1, Zenon DEF AL!validateContractAddresses, AL!Panics
  <2>. QED  BY <2>1, <2>2, Zenon
<1>2. AL!validateAllowMethods(v, r) <=>
        (v.allow # {} => r.method \in v.allow) /\ (v.allow = {} => r.method \notin v.disallow)
  BY Zenon DEF AL!validateAllowMethods
<1>3. AL!Validate(v, r) = "ok" <=> met
  BY <1>1, <1>2, Zenon DEF AL!Validate, AL!validateOrigin, AL!validateUserAgents
<1>. DEFINE e1 == [some |-> v.origins # {}, met |-> \E o \in v.origins : o = r.origin]
            e2 == [some |-> v.agents # {}, met |-> \E a \in v.agents : a = r.agent]
            e3 == [some |-> v.allow # {}, met |-> \E m \in v.allow : m = r.method]
            e4 == [some |-> v.allow = {}, met |-> \A m \in v.disallow : m # r.method]
            e5 == [some |-> v.contracts # {} /\ r.method \in AL!Parsed,
                   met |-> /\ r.wellFormed /\ (r.method = "call" => r.addrs # {})
                           /\ \A a \in r.addrs : \E c \in v.contracts : a = c]
            E == AL!Entries(v, r)
<1>4. E = <<e1, e2, e3, e4, e5>>
  BY Zenon DEF AL!Entries
<1>5. (e1.some => e1.met) /\ (e2.some => e2.met) /\ (e3.some => e3.met) /\ (e4.some => e4.met) /\ (e5.some => e5.met) <=> met
  BY Zenon
<1>6. (\A i \in DOMAIN E : E[i].some => E[i].met) <=> met
  <2>. HIDE DEF E, e1, e2, e3, e4, e5, met
  <2>1. DOMAIN E = {1, 2, 3, 4, 5} /\ E[1] = e1 /\ E[2] = e2 /\ E[3] = e3 /\ E[4] = e4 /\ E[5] = e5
    BY ONLY <1>4
  <2>. QED  BY <1>5, <2>1, Zenon
<1>. QED  BY <1>3, <1>6, Zenon DEF AL!FollowsEntries

\* The validator of a request is one of an allowlist, or none.
LEMMA ALAssigned ==
  ASSUME ALInv, NEW r \in Asked, NEW loaded \in BOOLEAN
  PROVE  AL!assignValidator(r, loaded) \in Lists \cup {Nothing}
<1>1. /\ al_defaultValidator \in Lists \cup {Nothing}
      /\ \A i \in ListIds : al_validators[i] \in Lists \cup {Nothing}
  BY Zenon DEF ALInv, AL!TypeOK
<1>2. AL!getVipValidator \in Lists \cup {Nothing}
  <2>. DEFINE ids == {i \in ListIds : al_allowlists[i] # Nothing /\ al_allowlists[i].name = "vip1"}
  <2>1. CASE ids = {}
    BY <2>1, Zenon DEF AL!getVipValidator
  <2>2. CASE ids # {}
    <3>1. (CHOOSE i \in ids : TRUE) \in ListIds
      BY <2>2, Zenon
    <3>. QED  BY <1>1, <2>2, <3>1, Zenon DEF AL!getVipValidator
  <2>. QED  BY <2>1, <2>2, Zenon
<1>3. ~r.vip /\ AL!authId(r) # Nothing => AL!getKeyInfoValidator(KeyInfos[r.token]) \in Lists \cup {Nothing}
  <2>1. SUFFICES ASSUME ~r.vip, AL!authId(r) # Nothing
                 PROVE  AL!getKeyInfoValidator(KeyInfos[r.token]) \in Lists \cup {Nothing}
    BY Zenon
  <2>2. r.token \in DOMAIN KeyInfos
    BY <2>1, AccessAssumption, Zenon DEF AL!authId, AL!Request
  <2>3. KeyInfos[r.token] \in ListIds \cup {0}
    BY <2>2, AccessAssumption, Zenon
  <2>. QED  BY <1>1, <2>3, Zenon DEF AL!getKeyInfoValidator
<1>. QED  BY <1>1, <1>2, <1>3, Zenon DEF AL!assignValidator

\* The steps that leave the registry alone.
LEMMA ALFrame ==
  ASSUME ALInv, UNCHANGED <<al_space, al_conf, al_rc, al_lastCs, al_phase, al_todo, al_allowlists, al_validators,
                            al_defaultValidator, al_changes>>,
         al_verdict' = Nothing \/ al_verdict' \in [req : Asked, by : Lists \cup {Nothing}, err : AL!Outcomes],
         AL!VerdictsFollowEntries'
  PROVE  ALInv'
<1>1. AL!TypeOK'
  BY Zenon DEF ALInv, AL!TypeOK, AL!Configuration, AL!AllowList
<1>2. ALNamed'
  BY Zenon DEF ALInv, ALNamed
<1>3. ALApart'
  <2>1. ASSUME NEW n \in ListNames, NEW i \in ListIds, NEW j \in ListIds, ALUses(i, n)', ALUses(j, n)'
        PROVE  i = j
    <3>1. ALUses(i, n) /\ ALUses(j, n)
      BY <2>1, Zenon DEF ALUses
    <3>. QED  BY <3>1, Zenon DEF ALInv, ALApart
  <2>. QED  BY <2>1, Zenon DEF ALApart
<1>4. ALLoaded'
  BY Zenon DEF ALInv, ALLoaded
<1>5. ALDefault'
  BY Zenon DEF ALInv, ALDefault, ALIsDefault
<1>. QED  BY <1>1, <1>2, <1>3, <1>4, <1>5, Zenon DEF ALInv

LEMMA ALAllow ==
  ASSUME ALInv, NEW r \in Asked, AL!Allow(r)
  PROVE  ALInv'
<1>1. UNCHANGED <<al_space, al_conf, al_rc, al_lastCs, al_phase, al_todo, al_allowlists, al_validators,
                  al_defaultValidator, al_changes>>
  BY Zenon DEF AL!Allow, AL!reload, AL!registry
<1>2. PICK loaded \in BOOLEAN :
        al_verdict' = [req |-> r, by |-> AL!assignValidator(r, loaded),
                       err |-> IF AL!assignValidator(r, loaded) = Nothing THEN "ok"
                               ELSE AL!Validate(AL!assignValidator(r, loaded), r)]
  BY Zenon DEF AL!Allow
<1>3. PICK v \in Lists \cup {Nothing} : v = AL!assignValidator(r, loaded)
  BY ALAssigned, Zenon
<1>4. al_verdict' = [req |-> r, by |-> v, err |-> IF v = Nothing THEN "ok" ELSE AL!Validate(v, r)]
  BY <1>2, <1>3, Zenon
<1>5. AL!Validate(v, r) \in AL!Outcomes /\ "ok" \in AL!Outcomes
  BY Zenon DEF AL!Validate, AL!validateContractAddresses, AL!Outcomes
<1>6. al_verdict' \in [req : Asked, by : Lists \cup {Nothing}, err : AL!Outcomes]
  BY <1>4, <1>5, Zenon
<1>7. AL!VerdictsFollowEntries'
  <2>1. al_verdict'.req = r /\ al_verdict'.by = v /\ (v # Nothing => al_verdict'.err = AL!Validate(v, r))
    BY <1>4, Zenon
  <2>2. CASE v = Nothing \/ (al_space = "cfx" /\ r.method = "getBalance")
    BY <1>1, <2>1, <2>2, Zenon DEF AL!VerdictsFollowEntries
  <2>3. CASE v # Nothing /\ ~(al_space = "cfx" /\ r.method = "getBalance")
    <3>1. PICK d : d = al_verdict'
      BY Zenon
    <3>2. AL!FollowsEntries(d)
      <4>1. al_space \in {"eth", "cfx"}
        BY Zenon DEF ALInv, AL!TypeOK
      <4>2. v \in Lists /\ d.by = v /\ d.req = r /\ d.err = AL!Validate(v, r)
        BY <2>1, <2>3, <3>1, ZenonT(60)
      <4>. QED  BY <2>3, <4>1, <4>2, ALValidates, Zenon
    <3>3. AL!FollowsEntries(al_verdict)'
      BY <3>1, <3>2, Zenon DEF AL!FollowsEntries
    <3>. QED  BY <3>3, Zenon DEF AL!VerdictsFollowEntries
  <2>. QED  BY <2>2, <2>3, Zenon
<1>. QED  BY <1>1, <1>6, <1>7, ALFrame, Zenon

\* The database lets no two ids use a name at a time.
LEMMA ALConfigure ==
  ASSUME ALInv, ~ReuseNames, NEW i \in ListIds, AL!Configure(i)
  PROVE  ALInv'
<1>1. UNCHANGED <<al_space, al_rc, al_lastCs, al_phase, al_todo, al_allowlists, al_validators, al_defaultValidator, al_verdict>>
  BY Zenon DEF AL!Configure, AL!reload, AL!registry
<1>2. PICK al \in AL!AllowList \cup {Nothing} :
        /\ al # Nothing =>
             /\ al.id = i
             /\ \A j \in ListIds \ {i} : /\ al_conf[j] # Nothing => al_conf[j].name # al.name
                                         /\ al_lastCs[j] # Nothing => al_lastCs[j].name # al.name
                                         /\ al_rc[j] # Nothing => al_rc[j].name # al.name
        /\ al_conf' = [al_conf EXCEPT ![i] = al]
  BY Zenon DEF AL!Configure
<1>3. al_conf \in [ListIds -> AL!AllowList \cup {Nothing}]
  BY Zenon DEF ALInv, AL!TypeOK, AL!Configuration
<1>4. al_conf' \in AL!Configuration /\ \A j \in ListIds : al_conf'[j] = IF j = i THEN al ELSE al_conf[j]
  BY <1>2, <1>3, Zenon DEF AL!Configuration
<1>5. al_changes' \in 0 .. MaxListChanges
  <2>1. al_changes \in 0 .. MaxListChanges /\ al_changes < MaxListChanges /\ al_changes' = al_changes + 1
    BY Zenon DEF ALInv, AL!TypeOK, AL!Configure
  <2>. QED  BY ONLY <2>1, AccessAssumption
<1>6. AL!TypeOK'
  BY <1>1, <1>4, <1>5, Zenon DEF ALInv, AL!TypeOK, AL!Configuration, AL!AllowList
<1>7. ALNamed'
  <2>1. \A j \in ListIds : al_conf'[j] # Nothing => al_conf'[j].id = j
    <3>1. \A j \in ListIds : j # i => al_conf'[j] = al_conf[j]
      BY <1>4, Zenon
    <3>2. al_conf'[i] = al
      BY <1>4, Zenon
    <3>. QED  BY <1>2, <3>1, <3>2, Zenon DEF ALInv, ALNamed
  <2>. QED  BY <1>1, <2>1, Zenon DEF ALInv, ALNamed
<1>8. ALApart'
  <2>1. ASSUME NEW j \in ListIds, NEW n \in ListNames, ALUses(j, n)'
        PROVE  ALUses(j, n) \/ (j = i /\ al # Nothing /\ n = al.name)
    BY <1>1, <1>4, <2>1, Zenon DEF ALUses
  <2>2. al # Nothing => \A j \in ListIds : j # i => ~ALUses(j, al.name)
    BY <1>2, Zenon DEF ALUses
  <2>3. ASSUME NEW n \in ListNames, NEW j \in ListIds, NEW k \in ListIds, ALUses(j, n)', ALUses(k, n)'
        PROVE  j = k
    <3>1. ALUses(j, n) \/ (j = i /\ al # Nothing /\ n = al.name)
      BY <2>1, <2>3, Zenon
    <3>2. ALUses(k, n) \/ (k = i /\ al # Nothing /\ n = al.name)
      BY <2>1, <2>3, Zenon
    <3>. QED  BY <2>2, <3>1, <3>2, Zenon DEF ALInv, ALApart
  <2>. QED  BY <2>3, Zenon DEF ALApart
<1>9. ALLoaded' /\ ALDefault'
  BY <1>1, Zenon DEF ALInv, ALLoaded, ALDefault, ALIsDefault
<1>10. AL!VerdictsFollowEntries'
  BY <1>1, ALDecided, Zenon DEF ALInv
<1>. QED  BY <1>6, <1>7, <1>8, <1>9, <1>10, Zenon DEF ALInv

LEMMA ALStillApart ==
  ASSUME ALApart, al_conf' = al_conf, al_rc' \in {al_rc, al_conf}, al_lastCs' \in {al_lastCs, al_rc}
  PROVE  ALApart'
<1>1. ASSUME NEW n \in ListNames, NEW i \in ListIds, NEW j \in ListIds, ALUses(i, n)', ALUses(j, n)'
      PROVE  i = j
  <2>1. ALUses(i, n) /\ ALUses(j, n)
    BY <1>1, Zenon DEF ALUses
  <2>. QED  BY <2>1, Zenon DEF ALApart
<1>. QED  BY <1>1, Zenon DEF ALApart

LEMMA ALPhases ==
  ASSUME ALInv, AL!reloadAclAllowLists \/ AL!RemovedAll \/ AL!Reloaded
  PROVE  ALInv'
<1>1. UNCHANGED <<al_space, al_conf, al_allowlists, al_validators, al_defaultValidator, al_verdict, al_changes>>
  BY Zenon DEF AL!reloadAclAllowLists, AL!RemovedAll, AL!Reloaded, AL!registry
<1>2. al_rc' \in {al_rc, al_conf} /\ al_lastCs' \in {al_lastCs, al_rc}
  BY Zenon DEF AL!reloadAclAllowLists, AL!RemovedAll, AL!Reloaded
<1>3. al_phase' \in {"idle", "remove", "update"} /\ al_todo' \subseteq ListIds
  BY Zenon DEF ALInv, AL!TypeOK, AL!reloadAclAllowLists, AL!RemovedAll, AL!Reloaded
<1>4. AL!TypeOK'
  <2>1. al_rc' \in AL!Configuration /\ al_lastCs' \in AL!Configuration
    BY <1>2, Zenon DEF ALInv, AL!TypeOK
  <2>. QED  BY <1>1, <1>3, <2>1, Zenon DEF ALInv, AL!TypeOK, AL!Configuration, AL!AllowList, AL!Outcomes
<1>5. ALNamed'
  <2>1. \A i \in ListIds : /\ al_rc'[i] # Nothing => al_rc'[i].id = i
                           /\ al_lastCs'[i] # Nothing => al_lastCs'[i].id = i
    BY <1>2, Zenon DEF ALInv, ALNamed
  <2>. QED  BY <1>1, <2>1, Zenon DEF ALInv, ALNamed
<1>6. ALApart'
  BY <1>1, <1>2, ALStillApart, Zenon DEF ALInv
<1>7. ALLoaded'
  <2>1. CASE AL!reloadAclAllowLists
    <3>1. \A i \in ListIds : al_allowlists[i] = al_lastCs[i]
      BY <2>1, Zenon DEF ALInv, ALLoaded, AL!reloadAclAllowLists
    <3>2. al_phase' = "remove" /\ al_todo' = {i \in ListIds : al_allowlists[i] # Nothing} /\ al_lastCs' = al_lastCs
      BY <2>1, Zenon DEF AL!reloadAclAllowLists
    <3>3. \A i \in ListIds :
            al_allowlists[i] = IF i \notin al_todo' /\ al_rc'[i] = Nothing THEN Nothing ELSE al_lastCs'[i]
      BY <3>1, <3>2, Zenon
    <3>4. \A i \in al_todo' : al_allowlists[i] # Nothing
      BY <3>2, Zenon
    <3>. QED  BY <1>1, <3>2, <3>3, <3>4, Zenon DEF ALLoaded
  <2>2. CASE AL!RemovedAll
    <3>1. \A i \in ListIds : al_allowlists[i] = IF al_rc[i] = Nothing THEN Nothing ELSE al_lastCs[i]
      BY <2>2, Zenon DEF ALInv, ALLoaded, AL!RemovedAll
    <3>2. /\ al_phase' = "update" /\ al_todo' = {i \in ListIds : al_rc[i] # Nothing}
          /\ al_lastCs' = al_lastCs /\ al_rc' = al_rc
      BY <2>2, Zenon DEF AL!RemovedAll
    <3>3. \A i \in ListIds :
            IF i \in al_todo' THEN al_rc[i] # Nothing /\ al_allowlists[i] = al_lastCs[i]
            ELSE al_allowlists[i] = al_rc[i]
      BY <3>1, <3>2, Zenon
    <3>. QED  BY <1>1, <3>2, <3>3, Zenon DEF ALLoaded
  <2>3. CASE AL!Reloaded
    <3>1. \A i \in ListIds : al_allowlists[i] = al_rc[i]
      BY <2>3, Zenon DEF ALInv, ALLoaded, AL!Reloaded
    <3>2. al_phase' = "idle" /\ al_lastCs' = al_rc /\ al_rc' = al_rc
      BY <2>3, Zenon DEF AL!Reloaded
    <3>. QED  BY <1>1, <3>1, <3>2, Zenon DEF ALLoaded
  <2>. QED  BY <2>1, <2>2, <2>3, Zenon
<1>8. ALDefault'
  BY <1>1, Zenon DEF ALInv, ALDefault, ALIsDefault
<1>9. AL!VerdictsFollowEntries'
  BY <1>1, ALDecided, Zenon DEF ALInv
<1>. QED  BY <1>4, <1>5, <1>6, <1>7, <1>8, <1>9, Zenon DEF ALInv

\* A step of the reload for one id, whose allowlist becomes the one that is loaded.
ALReplaced(i, old, v) ==
  /\ al_allowlists' = [al_allowlists EXCEPT ![i] = v]
  /\ al_validators' = [al_validators EXCEPT ![i] = IF v = Nothing THEN Nothing ELSE v.list]
  /\ al_defaultValidator' = IF v # Nothing /\ v.name = "default" THEN v.list
                            ELSE IF old # Nothing /\ old.name = "default" THEN Nothing ELSE al_defaultValidator

\* No other allowlist has the name of the one that is there or is loaded.
LEMMA ALOwner ==
  ASSUME ALInv, NEW i \in ListIds, NEW s \in {al_rc[i], al_allowlists[i]}, s # Nothing,
         NEW j \in ListIds, j # i, al_allowlists[j] # Nothing
  PROVE  al_allowlists[j].name # s.name
<1>1. \A k \in ListIds : al_allowlists[k] \in {Nothing, al_rc[k], al_lastCs[k]}
  <2>1. al_phase \in {"idle", "remove", "update"}
    BY Zenon DEF ALInv, AL!TypeOK
  <2>2. CASE al_phase = "idle"
    BY <2>2, Zenon DEF ALInv, ALLoaded
  <2>3. CASE al_phase = "remove"
    BY <2>3, Zenon DEF ALInv, ALLoaded
  <2>4. CASE al_phase = "update"
    BY <2>4, Zenon DEF ALInv, ALLoaded
  <2>. QED  BY <2>1, <2>2, <2>3, <2>4, Zenon
<1>2. s.name \in ListNames
  <2>1. al_rc[i] \in AL!AllowList \cup {Nothing} /\ al_allowlists[i] \in AL!AllowList \cup {Nothing}
    BY Zenon DEF ALInv, AL!TypeOK, AL!Configuration
  <2>. QED  BY <2>1, Zenon DEF AL!AllowList
<1>3. ALUses(i, s.name)
  <2>1. s = al_rc[i] \/ s = al_lastCs[i]
    BY <1>1, Zenon
  <2>. QED  BY <2>1, Zenon DEF ALUses
<1>4. ALUses(j, al_allowlists[j].name)
  <2>1. al_allowlists[j] = al_rc[j] \/ al_allowlists[j] = al_lastCs[j]
    BY <1>1, Zenon
  <2>. QED  BY <2>1, Zenon DEF ALUses
<1>. QED  BY <1>2, <1>3, <1>4, Zenon DEF ALInv, ALApart

LEMMA ALReplace ==
  ASSUME ALInv, NEW i \in ListIds, ALReplaced(i, al_allowlists[i], al_rc[i])
  PROVE  /\ ALDefault'
         /\ al_allowlists' \in AL!Configuration /\ al_validators' \in [ListIds -> Lists \cup {Nothing}]
         /\ al_defaultValidator' \in Lists \cup {Nothing}
         /\ \A j \in ListIds : al_allowlists'[j] = IF j = i THEN al_rc[i] ELSE al_allowlists[j]
<1>. DEFINE old == al_allowlists[i]
            v == al_rc[i]
<1>1. /\ al_allowlists \in [ListIds -> AL!AllowList \cup {Nothing}]
      /\ al_validators \in [ListIds -> Lists \cup {Nothing}]
      /\ al_defaultValidator \in Lists \cup {Nothing}
      /\ v \in AL!AllowList \cup {Nothing}
  BY Zenon DEF ALInv, AL!TypeOK, AL!Configuration
<1>2. v # Nothing => v.list \in Lists
  BY <1>1, Zenon DEF AL!AllowList
<1>3. /\ al_allowlists' = [al_allowlists EXCEPT ![i] = v]
      /\ al_validators' = [al_validators EXCEPT ![i] = IF v = Nothing THEN Nothing ELSE v.list]
      /\ al_defaultValidator' = IF v # Nothing /\ v.name = "default" THEN v.list
                                ELSE IF old # Nothing /\ old.name = "default" THEN Nothing ELSE al_defaultValidator
  BY Zenon DEF ALReplaced
<1>4. /\ \A j \in ListIds : j # i /\ al_allowlists[j] # Nothing /\ v # Nothing => al_allowlists[j].name # v.name
      /\ \A j \in ListIds : j # i /\ al_allowlists[j] # Nothing /\ old # Nothing => al_allowlists[j].name # old.name
  BY ALOwner, Zenon
<1>5. old = al_allowlists[i]
  BY Zenon
<1>d. /\ \A j \in ListIds : al_validators[j] = IF al_allowlists[j] = Nothing THEN Nothing ELSE al_allowlists[j].list
      /\ \A j \in ListIds : al_allowlists[j] # Nothing /\ al_allowlists[j].name = "default" =>
           al_defaultValidator = al_allowlists[j].list
      /\ (\A j \in ListIds : ~(al_allowlists[j] # Nothing /\ al_allowlists[j].name = "default")) =>
           al_defaultValidator = Nothing
  BY Zenon DEF ALInv, ALDefault, ALIsDefault
<1>. HIDE DEF old, v
<1>6. al_allowlists' \in AL!Configuration /\ al_validators' \in [ListIds -> Lists \cup {Nothing}]
  BY <1>1, <1>2, <1>3, Zenon DEF AL!Configuration
<1>7. al_defaultValidator' \in Lists \cup {Nothing}
  BY <1>1, <1>2, <1>3, Zenon
<1>8. /\ al_allowlists'[i] = v /\ \A j \in ListIds : j # i => al_allowlists'[j] = al_allowlists[j]
      /\ al_validators'[i] = IF v = Nothing THEN Nothing ELSE v.list
      /\ \A j \in ListIds : j # i => al_validators'[j] = al_validators[j]
  BY <1>1, <1>3, Zenon
<1>9. \A j \in ListIds : al_validators'[j] = IF al_allowlists'[j] = Nothing THEN Nothing ELSE al_allowlists'[j].list
  BY <1>8, <1>d, Zenon
<1>10. ASSUME NEW j \in ListIds, al_allowlists'[j] # Nothing, al_allowlists'[j].name = "default"
       PROVE  al_defaultValidator' = al_allowlists'[j].list
  <2>1. CASE j = i
    BY <1>3, <1>8, <1>10, <2>1, Zenon
  <2>2. CASE j # i
    <3>1. al_allowlists[j] # Nothing /\ al_allowlists[j].name = "default" /\ al_allowlists'[j] = al_allowlists[j]
      BY <1>8, <1>10, <2>2, Zenon
    <3>2. ~(v # Nothing /\ v.name = "default") /\ ~(old # Nothing /\ old.name = "default")
      BY <1>4, <2>2, <3>1, Zenon
    <3>3. al_defaultValidator' = al_defaultValidator
      BY <1>3, <3>2, Zenon
    <3>. QED  BY <1>d, <3>1, <3>3, Zenon
  <2>. QED  BY <2>1, <2>2, Zenon
<1>11. ASSUME \A j \in ListIds : ~(al_allowlists'[j] # Nothing /\ al_allowlists'[j].name = "default")
       PROVE  al_defaultValidator' = Nothing
  <2>1. ~(v # Nothing /\ v.name = "default")
    BY <1>8, <1>11, Zenon
  <2>2. CASE old # Nothing /\ old.name = "default"
    BY <1>3, <2>1, <2>2, Zenon
  <2>3. CASE ~(old # Nothing /\ old.name = "default")
    <3>1. \A j \in ListIds : ~(al_allowlists[j] # Nothing /\ al_allowlists[j].name = "default")
      <4>1. ~(al_allowlists[i] # Nothing /\ al_allowlists[i].name = "default")
        BY <1>5, <2>3, Zenon
      <4>. QED  BY <1>8, <1>11, <4>1, Zenon
    <3>2. al_defaultValidator' = al_defaultValidator
      BY <1>3, <2>1, <2>3, Zenon
    <3>. QED  BY <1>d, <3>1, <3>2, Zenon
  <2>. QED  BY <2>2, <2>3, Zenon
<1>12. ALDefault'
  BY <1>9, <1>10, <1>11, Zenon DEF ALDefault, ALIsDefault
<1>13. \A j \in ListIds : al_allowlists'[j] = IF j = i THEN al_rc[i] ELSE al_allowlists[j]
  BY <1>8, Zenon DEF v
<1>. QED  BY <1>6, <1>7, <1>12, <1>13, Zenon

\* A step of the reload for one id.
LEMMA ALVisit ==
  ASSUME ALInv, NEW i \in ListIds, i \in al_todo, al_todo' = al_todo \ {i},
         UNCHANGED <<al_space, al_conf, al_rc, al_lastCs, al_phase, al_verdict, al_changes>>,
         al_phase # "idle", al_phase = "remove" => al_rc[i] = Nothing,
         ALReplaced(i, al_allowlists[i], al_rc[i])
  PROVE  ALInv'
<1>1. /\ ALDefault'
      /\ al_allowlists' \in AL!Configuration /\ al_validators' \in [ListIds -> Lists \cup {Nothing}]
      /\ al_defaultValidator' \in Lists \cup {Nothing}
      /\ \A j \in ListIds : al_allowlists'[j] = IF j = i THEN al_rc[i] ELSE al_allowlists[j]
  BY ALReplace, Zenon
<1>2. AL!TypeOK'
  <2>1. al_todo' \subseteq ListIds
    BY Zenon DEF ALInv, AL!TypeOK
  <2>. QED  BY <1>1, <2>1, Zenon DEF ALInv, AL!TypeOK, AL!Configuration, AL!AllowList, AL!Outcomes
<1>3. ALNamed'
  <2>1. \A j \in ListIds : al_allowlists'[j] # Nothing => al_allowlists'[j].id = j
    <3>1. \A j \in ListIds : j # i => al_allowlists'[j] = al_allowlists[j]
      BY <1>1, Zenon
    <3>2. al_allowlists'[i] = al_rc[i]
      BY <1>1, Zenon
    <3>3. al_rc[i] # Nothing => al_rc[i].id = i
      BY Zenon DEF ALInv, ALNamed
    <3>4. \A j \in ListIds : al_allowlists[j] # Nothing => al_allowlists[j].id = j
      BY Zenon DEF ALInv, ALNamed
    <3>. QED  BY <3>1, <3>2, <3>3, <3>4, Zenon
  <2>. QED  BY <2>1, Zenon DEF ALInv, ALNamed
<1>4. ALApart'
  BY ALStillApart, Zenon DEF ALInv
<1>5. ALLoaded'
  <2>1. CASE al_phase = "remove"
    <3>1. \A j \in ListIds :
            al_allowlists'[j] = IF j \notin al_todo' /\ al_rc[j] = Nothing THEN Nothing ELSE al_lastCs[j]
      BY <1>1, <2>1, Zenon DEF ALInv, ALLoaded
    <3>2. \A j \in al_todo' : al_allowlists'[j] # Nothing
      BY <1>1, <2>1, Zenon DEF ALInv, ALLoaded, AL!TypeOK
    <3>. QED  BY <2>1, <3>1, <3>2, Zenon DEF ALLoaded
  <2>2. CASE al_phase = "update"
    <3>1. \A j \in ListIds :
            IF j \in al_todo' THEN al_rc[j] # Nothing /\ al_allowlists'[j] = al_lastCs[j]
            ELSE al_allowlists'[j] = al_rc[j]
      BY <1>1, <2>2, Zenon DEF ALInv, ALLoaded
    <3>. QED  BY <2>2, <3>1, Zenon DEF ALLoaded
  <2>. QED  BY <2>1, <2>2, Zenon DEF ALInv, AL!TypeOK
<1>6. AL!VerdictsFollowEntries'
  BY ALDecided, Zenon DEF ALInv
<1>. QED  BY <1>1, <1>2, <1>3, <1>4, <1>5, <1>6, Zenon DEF ALInv

LEMMA ALRemoveGone ==
  ASSUME ALInv, NEW i \in ListIds, AL!RemoveGone(i)
  PROVE  ALInv'
<1>0. /\ al_phase = "remove" /\ i \in al_todo /\ al_todo' = al_todo \ {i}
      /\ UNCHANGED <<al_space, al_conf, al_rc, al_lastCs, al_phase, al_verdict, al_changes>>
  BY Zenon DEF AL!RemoveGone
<1>1. CASE al_rc[i] = Nothing
  <2>1. al_allowlists[i] # Nothing /\ al_allowlists[i].id = i
    BY <1>0, Zenon DEF ALInv, ALLoaded, ALNamed
  <2>2. /\ al_allowlists' = [al_allowlists EXCEPT ![i] = Nothing]
        /\ al_validators' = [al_validators EXCEPT ![i] = Nothing]
        /\ al_defaultValidator' = IF al_allowlists[i].name = "default" THEN Nothing ELSE al_defaultValidator
    BY <1>1, <2>1, Zenon DEF AL!RemoveGone, AL!removeAllowList
  <2>3. ALReplaced(i, al_allowlists[i], al_rc[i])
    BY <1>1, <2>1, <2>2, Zenon DEF ALReplaced
  <2>4. al_phase # "idle"
    BY <1>0, Zenon
  <2>. QED  BY <1>0, <1>1, <2>3, <2>4, ALVisit, Zenon
<1>2. CASE al_rc[i] # Nothing
  <2>1. UNCHANGED <<al_allowlists, al_validators, al_defaultValidator>>
    BY <1>2, Zenon DEF AL!RemoveGone, AL!registry
  <2>2. AL!TypeOK'
    BY <1>0, <2>1, Zenon DEF ALInv, AL!TypeOK, AL!Configuration, AL!AllowList, AL!Outcomes
  <2>3. ALNamed' /\ ALDefault'
    BY <1>0, <2>1, Zenon DEF ALInv, ALNamed, ALDefault, ALIsDefault
  <2>4. ALApart'
    BY <1>0, ALStillApart, Zenon DEF ALInv
  <2>5. ALLoaded'
    <3>1. \A j \in ListIds :
            al_allowlists[j] = IF j \notin al_todo' /\ al_rc[j] = Nothing THEN Nothing ELSE al_lastCs[j]
      BY <1>0, <1>2, Zenon DEF ALInv, ALLoaded
    <3>2. \A j \in al_todo' : al_allowlists[j] # Nothing
      BY <1>0, Zenon DEF ALInv, ALLoaded
    <3>. QED  BY <1>0, <2>1, <3>1, <3>2, Zenon DEF ALLoaded
  <2>6. AL!VerdictsFollowEntries'
    BY <1>0, ALDecided, Zenon DEF ALInv
  <2>. QED  BY <2>2, <2>3, <2>4, <2>5, <2>6, Zenon DEF ALInv
<1>. QED  BY <1>1, <1>2, Zenon

LEMMA ALAddOrUpdate ==
  ASSUME ALInv, NEW i \in ListIds, AL!AddOrUpdate(i)
  PROVE  ALInv'
<1>. DEFINE old == al_allowlists[i]
            new == al_rc[i]
<1>0. /\ al_phase = "update" /\ i \in al_todo /\ al_todo' = al_todo \ {i}
      /\ UNCHANGED <<al_space, al_conf, al_rc, al_lastCs, al_phase, al_verdict, al_changes>>
  BY Zenon DEF AL!AddOrUpdate
<1>1. new # Nothing /\ new.id = i /\ old = al_lastCs[i] /\ (old # Nothing => old.id = i)
  BY <1>0, Zenon DEF ALInv, ALLoaded, ALNamed
<1>2. /\ al_allowlists \in [ListIds -> AL!AllowList \cup {Nothing}]
      /\ al_validators \in [ListIds -> Lists \cup {Nothing}]
  BY Zenon DEF ALInv, AL!TypeOK, AL!Configuration
<1>3. SUFFICES ALReplaced(i, old, new)
  <2>1. al_phase # "idle" /\ al_phase # "remove"
    BY <1>0, Zenon
  <2>. QED  BY <1>0, <1>3, <2>1, ALVisit, Zenon
<1>4. CASE old = Nothing
  <2>1. AL!addAllowList(new)
    BY <1>4, Zenon DEF AL!AddOrUpdate
  <2>. QED  BY <1>1, <1>4, <2>1, Zenon DEF AL!addAllowList, ALReplaced
<1>5. CASE old # Nothing /\ al_lastCs[i] # new
  <2>1. AL!updateAllowList(old, new)
    BY <1>5, Zenon DEF AL!AddOrUpdate
  <2>2. /\ al_allowlists' = [al_allowlists EXCEPT ![i] = Nothing, ![i] = new]
        /\ al_validators' = [al_validators EXCEPT ![i] = Nothing, ![i] = new.list]
        /\ al_defaultValidator' = IF new.name = "default" THEN new.list
                                  ELSE IF old.name = "default" THEN Nothing ELSE al_defaultValidator
    BY <1>1, <1>5, <2>1, Zenon DEF AL!updateAllowList
  <2>. HIDE DEF new, old
  <2>3. al_allowlists' = [al_allowlists EXCEPT ![i] = new] /\ al_validators' = [al_validators EXCEPT ![i] = new.list]
    BY <1>2, <2>2, Zenon
  <2>. QED  BY <1>1, <1>5, <2>2, <2>3, Zenon DEF ALReplaced
<1>6. CASE old # Nothing /\ al_lastCs[i] = new
  <2>1. old = new /\ al_allowlists' = al_allowlists /\ al_validators' = al_validators /\ al_defaultValidator' = al_defaultValidator
    BY <1>1, <1>6, Zenon DEF AL!AddOrUpdate, AL!registry
  <2>2. al_validators[i] = new.list /\ (new.name = "default" => al_defaultValidator = new.list)
    BY <1>1, <2>1, Zenon DEF ALInv, ALDefault, ALIsDefault
  <2>3. old = al_allowlists[i]
    BY Zenon
  <2>. HIDE DEF new, old
  <2>4. al_allowlists' = [al_allowlists EXCEPT ![i] = new] /\ al_validators' = [al_validators EXCEPT ![i] = new.list]
    BY <1>2, <2>1, <2>2, <2>3, Zenon
  <2>5. al_defaultValidator' = IF new # Nothing /\ new.name = "default" THEN new.list
                               ELSE IF old # Nothing /\ old.name = "default" THEN Nothing ELSE al_defaultValidator
    BY <1>1, <2>1, <2>2, Zenon
  <2>. QED  BY <1>1, <2>4, <2>5, Zenon DEF ALReplaced
<1>. QED  BY <1>4, <1>5, <1>6, Zenon

LEMMA ALNext == ~ReuseNames /\ ALInv /\ [AL!Next]_alVars => ALInv'
<1>. SUFFICES ASSUME ~ReuseNames, ALInv, [AL!Next]_alVars PROVE ALInv'
  BY Zenon
<1>1. CASE AL!reloadAclAllowLists \/ AL!RemovedAll \/ AL!Reloaded
  BY <1>1, ALPhases, Zenon
<1>2. CASE \E i \in ListIds : AL!RemoveGone(i) \/ AL!AddOrUpdate(i) \/ AL!Configure(i)
  BY <1>2, ALRemoveGone, ALAddOrUpdate, ALConfigure, Zenon
<1>3. CASE \E r \in Asked : AL!Allow(r)
  BY <1>3, ALAllow, Zenon
<1>4. CASE UNCHANGED alVars
  <2>1. al_verdict' = Nothing \/ al_verdict' \in [req : Asked, by : Lists \cup {Nothing}, err : AL!Outcomes]
    BY <1>4, Zenon DEF alVars, ALInv, AL!TypeOK
  <2>2. AL!VerdictsFollowEntries'
    BY <1>4, ALDecided, Zenon DEF alVars, ALInv
  <2>. QED  BY <1>4, <2>1, <2>2, ALFrame, Zenon DEF alVars
<1>. QED  BY <1>1, <1>2, <1>3, <1>4, Zenon DEF AL!Next

\* Access follows the allowlists: however the database changes, reloads and
\* requests interleave, the default validator is that of the current default
\* allowlist (addAllowList, removeAllowList, updateAllowList), and a request passes
\* exactly if every type of entry that its allowlist has has an entry for it
\* (Validate), as long as no name is used again before the reload that frees it.
THEOREM AccessIsByList ==
  ASSUME ~ReuseNames
  PROVE  /\ AL!Spec => [](AL!TypeOK /\ AL!DefaultIsCurrent /\ AL!VerdictsFollowEntries)
         /\ AL!Spec => []AccessFollowsLists
<1>1. AL!Init => ALInv
  BY ALInit
<1>2. ALInv /\ [AL!Next]_(AL!vars) => ALInv'
  <2>. SUFFICES ASSUME ALInv, [AL!Next]_(AL!vars) PROVE ALInv'
    BY Zenon
  <2>1. [AL!Next]_alVars
    BY Zenon DEF alVars, AL!vars, AL!reload, AL!registry
  <2>. QED  BY <2>1, ALNext, Zenon
<1>3. ALInv => AL!TypeOK /\ AL!DefaultIsCurrent /\ AL!VerdictsFollowEntries
  BY ALDefaultIsCurrent, Zenon DEF ALInv
<1>4. ALInv => AccessFollowsLists
  BY ALDefaultIsCurrent, Zenon DEF ALInv, AccessFollowsLists
<1>. QED  BY <1>1, <1>2, <1>3, <1>4, PTL DEF AL!Spec
=============================================================================
