----------------------------- MODULE AllowLists -----------------------------
(***************************************************************************)
(* Access control by allowlists (util/acl, util/rate/registry_acl.go and   *)
(* the middlewares auth.go and allowlists.go): a periodic reload keeps a   *)
(* validator per allowlist and the default validator; a request is         *)
(* authenticated, is assigned a validator and is validated by it.  The     *)
(* reload visits the allowlists in the order of a Go map, that is, in any  *)
(* order, with the lock held that the choice of a validator takes.         *)
(*                                                                         *)
(* An entry that matches by wildcard or by substring is the set of the     *)
(* values that it matches.  Key infos are those of the database; the       *)
(* cache in front of it is the module KeyCache.                            *)
(***************************************************************************)
EXTENDS Integers

CONSTANTS
  Ids, Names, Origins, Agents,
  Contracts,    \* the addresses
  Lists,        \* the contents an allowlist may have, records of Content
  Requests,     \* the requests, records of Request
  KeyInfos,     \* a limit key's allowlist id, 0 without one
  MaxChanges,   \* bound: the changes of the configuration
  ReuseNames,   \* whether a name may be used again before the reload that frees it
  None

Methods == {"call", "getLogs", "getBalance", "chainId"}

\* The address entries of an allowlist need not be addresses of the space.
Content == [origins : SUBSET Origins, agents : SUBSET Agents,
            allow : SUBSET Methods, disallow : SUBSET Methods,
            contracts : SUBSET (Contracts \cup {"malformed"})]
Request == [origin : Origins \cup {None}, agent : Agents \cup {None}, method : Methods,
            addrs : SUBSET Contracts, wellFormed : BOOLEAN,
            token : DOMAIN KeyInfos \cup {None}, vip : BOOLEAN]

VARIABLES
  space,            \* "eth" or "cfx", the validators' factory
  conf,             \* the allowlists in the database
  rc,               \* the configuration that is loaded or was loaded last
  lastCs,           \* the checksums of the configuration before
  phase,            \* the loop that the reload is in, "idle" when the lock is free
  todo,             \* the ids that the loop has yet to visit
  allowlists,       \* aclRegistry.allowlists
  validators,       \* aclRegistry.validators
  defaultValidator, \* aclRegistry.defaultValidator
  verdict,          \* the last request decided: its validator and what came of it
  changes

reload == <<rc, lastCs, phase, todo>>
registry == <<allowlists, validators, defaultValidator>>
vars == <<space, conf, reload, registry, verdict, changes>>

AllowList == [id : Ids, name : Names, list : Lists]
Configuration == [Ids -> AllowList \cup {None}]
Outcomes == {"ok", "invalid request origin", "invalid user agent", "bad request method",
             "bad RPC parameters", "panic", "invalid contract address"}

TypeOK ==
  /\ space \in {"eth", "cfx"}
  /\ conf \in Configuration /\ rc \in Configuration /\ lastCs \in Configuration
  /\ phase \in {"idle", "remove", "update"} /\ todo \subseteq Ids
  /\ allowlists \in Configuration /\ validators \in [Ids -> Lists \cup {None}]
  /\ defaultValidator \in Lists \cup {None}
  /\ verdict = None \/ verdict \in [req : Requests, by : Lists \cup {None}, err : Outcomes]
  /\ changes \in 0 .. MaxChanges

Init ==
  /\ space \in {"eth", "cfx"}
  /\ conf = [i \in Ids |-> None] /\ rc = conf /\ lastCs = conf
  /\ phase = "idle" /\ todo = {}
  /\ allowlists = [i \in Ids |-> None] /\ validators = [i \in Ids |-> None]
  /\ defaultValidator = None
  /\ verdict = None
  /\ changes = 0
-----------------------------------------------------------------------------
(* The reload.                                                             *)

\* What becomes of the maps and of the default validator when an allowlist is
\* added, and when one is removed.
addAllowList(al) ==
  /\ allowlists' = [allowlists EXCEPT ![al.id] = al]
  /\ validators' = [validators EXCEPT ![al.id] = al.list]
  /\ defaultValidator' = IF al.name = "default" THEN al.list ELSE defaultValidator

\* Mutant of removeAllowList: the default validator stays.
removeAllowListKeeping(al) ==
  /\ allowlists' = [allowlists EXCEPT ![al.id] = None]
  /\ validators' = [validators EXCEPT ![al.id] = None]
  /\ UNCHANGED defaultValidator

removeAllowList(al) ==
  /\ allowlists' = [allowlists EXCEPT ![al.id] = None]
  /\ validators' = [validators EXCEPT ![al.id] = None]
  /\ defaultValidator' = IF al.name = "default" THEN None ELSE defaultValidator

\* The old one is removed, and the new one added.
updateAllowList(old, new) ==
  /\ allowlists' = [allowlists EXCEPT ![old.id] = None, ![new.id] = new]
  /\ validators' = [validators EXCEPT ![old.id] = None, ![new.id] = new.list]
  /\ defaultValidator' = IF new.name = "default" THEN new.list
                         ELSE IF old.name = "default" THEN None ELSE defaultValidator

\* The configuration is loaded, and the lock is taken.
reloadAclAllowLists ==
  /\ phase = "idle"
  /\ rc' = conf
  /\ phase' = "remove"
  /\ todo' = {i \in Ids : allowlists[i] # None}
  /\ UNCHANGED <<space, conf, lastCs, registry, verdict, changes>>

RemoveGone(i) ==
  /\ phase = "remove" /\ i \in todo
  /\ todo' = todo \ {i}
  /\ IF rc[i] = None THEN removeAllowList(allowlists[i]) ELSE UNCHANGED registry
  /\ UNCHANGED <<space, conf, rc, lastCs, phase, verdict, changes>>

RemovedAll ==
  /\ phase = "remove" /\ todo = {}
  /\ phase' = "update"
  /\ todo' = {i \in Ids : rc[i] # None}
  /\ UNCHANGED <<space, conf, rc, lastCs, registry, verdict, changes>>

AddOrUpdate(i) ==
  /\ phase = "update" /\ i \in todo
  /\ todo' = todo \ {i}
  /\ \/ allowlists[i] = None /\ addAllowList(rc[i])
     \/ allowlists[i] # None /\ lastCs[i] # rc[i] /\ updateAllowList(allowlists[i], rc[i])
     \/ allowlists[i] # None /\ lastCs[i] = rc[i] /\ UNCHANGED registry
  /\ UNCHANGED <<space, conf, rc, lastCs, phase, verdict, changes>>

Reloaded ==
  /\ phase = "update" /\ todo = {}
  /\ phase' = "idle"
  /\ lastCs' = rc
  /\ UNCHANGED <<space, conf, rc, todo, registry, verdict, changes>>

\* The database (external): names are unique in it.
Configure(i) ==
  /\ changes < MaxChanges /\ changes' = changes + 1
  /\ \E al \in AllowList \cup {None} :
       /\ al # conf[i]
       /\ al # None =>
            /\ al.id = i
            /\ \A j \in Ids \ {i} : conf[j] # None => conf[j].name # al.name
            /\ \/ ReuseNames
               \/ \A j \in Ids \ {i} : /\ lastCs[j] # None => lastCs[j].name # al.name
                                       /\ rc[j] # None => rc[j].name # al.name
       /\ conf' = [conf EXCEPT ![i] = al]
  /\ UNCHANGED <<space, reload, registry, verdict>>
-----------------------------------------------------------------------------
(* The validation of a request by an allowlist: the first error, or "ok".  *)

validateOrigin(v, r) == v.origins # {} => r.origin \in v.origins

validateUserAgents(v, r) == v.agents # {} => r.agent \in v.agents

validateAllowMethods(v, r) ==
  \/ v.allow = {} /\ v.disallow = {}
  \/ r.method \in v.allow
  \/ v.allow = {} /\ r.method \notin v.disallow

\* The rules for addresses: entries that are no addresses of the space are left
\* out.  A rule is an address in the form without its type.
ethRules(v) == {<<c, "plain">> : c \in v.contracts \ {"malformed"}}

uniformContractAddrRulesets(v) == {<<c, "plain">> : c \in v.contracts \ {"malformed"}}

cntAddrRules(v) == IF space = "eth" THEN ethRules(v) ELSE uniformContractAddrRulesets(v)

\* The addresses in the parameters.  A call without a recipient makes its parser
\* panic, which the request reports as an error.
ethParseCallRequest(r) == {<<c, "plain">> : c \in r.addrs}
ethParseFilterQuery(r) == {<<c, "plain">> : c \in r.addrs}
ethParseAddr(r) == {<<c, "plain">> : c \in r.addrs}

cfxParseCallRequest(r) == {<<c, "plain">> : c \in r.addrs}
cfxParseLogFilter(r) == {<<c, "plain">> : c \in r.addrs}
cfxParseAddr(r) == {<<c, "verbose">> : c \in r.addrs}

ethCntAddrParsers(r) ==
  CASE r.method = "call" -> ethParseCallRequest(r)
    [] r.method = "getLogs" -> ethParseFilterQuery(r)
    [] r.method = "getBalance" -> ethParseAddr(r)

cfxCntAddrParsers(r) ==
  CASE r.method = "call" -> cfxParseCallRequest(r)
    [] r.method = "getLogs" -> cfxParseLogFilter(r)
    [] r.method = "getBalance" -> cfxParseAddr(r)

Parsed == {"call", "getLogs", "getBalance"}

cntAddrs(r) == IF space = "eth" THEN ethCntAddrParsers(r) ELSE cfxCntAddrParsers(r)

Panics(r) == r.method = "call" /\ r.addrs = {}

validateContractAddresses(v, r) ==
  IF v.contracts = {} \/ r.method \notin Parsed THEN "ok"
  ELSE IF ~r.wellFormed THEN "bad RPC parameters"
  ELSE IF Panics(r) THEN "panic"
  ELSE IF cntAddrs(r) \subseteq cntAddrRules(v) THEN "ok"
  ELSE "invalid contract address"

Validate(v, r) ==
  IF ~validateOrigin(v, r) THEN "invalid request origin"
  ELSE IF ~validateUserAgents(v, r) THEN "invalid user agent"
  ELSE IF ~validateAllowMethods(v, r) THEN "bad request method"
  ELSE validateContractAddresses(v, r)

\* Authenticate: the id of a VIP, or of a limit key that is known.
authId(r) == IF r.vip THEN "vip" ELSE r.token

getVipValidator ==
  LET ids == {i \in Ids : allowlists[i] # None /\ allowlists[i].name = "vip1"}
  IN  IF ids = {} THEN None ELSE validators[CHOOSE i \in ids : TRUE]

getKeyInfoValidator(id) == IF id = 0 THEN None ELSE validators[id]

\* A key's info may be missing, or fail to load.
assignValidator(r, loaded) ==
  IF authId(r) = None THEN defaultValidator
  ELSE IF r.vip THEN getVipValidator
  ELSE IF loaded THEN getKeyInfoValidator(KeyInfos[r.token])
  ELSE defaultValidator

\* The middleware Allowlists: without a validator everything is allowed.
Allow(r) ==
  /\ phase = "idle"
  /\ \E loaded \in BOOLEAN :
       LET v == assignValidator(r, loaded)
       IN  verdict' = [req |-> r, by |-> v, err |-> IF v = None THEN "ok" ELSE Validate(v, r)]
  /\ UNCHANGED <<space, conf, reload, registry, changes>>

Next ==
  \/ reloadAclAllowLists \/ RemovedAll \/ Reloaded
  \/ \E i \in Ids : RemoveGone(i) \/ AddOrUpdate(i) \/ Configure(i)
  \/ \E r \in Requests : Allow(r)

Spec == Init /\ [][Next]_vars
-----------------------------------------------------------------------------
\* The default validator is the one of the allowlist named default, if there is
\* one, and validators are those of the allowlists (addAllowList, removeAllowList).
DefaultIsCurrent ==
  /\ \A i \in Ids : validators[i] = IF allowlists[i] = None THEN None ELSE allowlists[i].list
  /\ defaultValidator =
       LET ids == {i \in Ids : allowlists[i] # None /\ allowlists[i].name = "default"}
       IN  IF ids = {} THEN None ELSE allowlists[CHOOSE i \in ids : TRUE].list

\* "Each allowlist type is ANDed together, while multiple entries of the same
\* type are ORed": a request passes exactly if every type of entry that is there
\* has an entry for it (Validate); methods that are disallowed count only when
\* none is allowed, addresses only for methods that take one.
Entries(v, r) ==
  <<[some |-> v.origins # {}, met |-> \E o \in v.origins : o = r.origin],
    [some |-> v.agents # {}, met |-> \E a \in v.agents : a = r.agent],
    [some |-> v.allow # {}, met |-> \E m \in v.allow : m = r.method],
    [some |-> v.allow = {}, met |-> \A m \in v.disallow : m # r.method],
    [some |-> v.contracts # {} /\ r.method \in Parsed,
     met |-> /\ r.wellFormed /\ (r.method = "call" => r.addrs # {})
             /\ \A a \in r.addrs : \E c \in v.contracts : a = c]>>

FollowsEntries(d) ==
  d.err = "ok" <=> \A i \in DOMAIN Entries(d.by, d.req) :
                      LET e == Entries(d.by, d.req)[i] IN e.some => e.met

\* The queries about one address of the Conflux space are left out: their parser
\* gives the address in a form that no rule has, so that with address entries all
\* of them are refused (AddressQueriesFollowEntries).
VerdictsFollowEntries ==
  verdict # None /\ verdict.by # None =>
    \/ space = "cfx" /\ verdict.req.method = "getBalance"
    \/ FollowsEntries(verdict)

\* What the comment says of the entries, for every query: refuted in the Conflux
\* space, where a query about an address that an entry allows is refused.
AddressQueriesFollowEntries ==
  verdict # None /\ verdict.by # None => FollowsEntries(verdict)
=============================================================================
