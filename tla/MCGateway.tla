----------------------------- MODULE MCGateway ------------------------------
(***************************************************************************)
(* What a request passes on its way to the full nodes, one part at a time  *)
(* in small instances: the rate limits, the allowlists, the cached         *)
(* responses and the routing.  The behaviours are those of the four        *)
(* specifications: the variables registry and part say which one runs, and *)
(* the others do not start.                                                *)
(***************************************************************************)
EXTENDS Gateway, Registries

\* Contents of allowlists: one by origin, one by agent, method and contract, and
\* one with an entry that is no address.
List(o, a, yes, no, c) ==
  [origins |-> o, agents |-> a, allow |-> yes, disallow |-> no, contracts |-> c]

SomeLists == {List({"o1"}, {}, {}, {"call"}, {}),
              List({}, {"a1", "a2"}, {"call"}, {"call"}, {"c1"}),
              List({}, {}, {}, {"getLogs"}, {"c1", "malformed"})}

Ask(o, m, as, ok, token, vip) ==
  [origin |-> o, agent |-> "a1", method |-> m, addrs |-> as, wellFormed |-> ok,
   token |-> token, vip |-> vip]

SomeRequests == {Ask("o1", "call", {"c1"}, TRUE, Nothing, FALSE),
                 Ask("o1", "call", {"c1", "c2"}, TRUE, "k1", FALSE),
                 Ask("o2", "getLogs", {}, TRUE, Nothing, FALSE),
                 Ask(Nothing, "call", {}, FALSE, "k1", FALSE),
                 Ask("o1", "getBalance", {"c1"}, TRUE, "k1", FALSE),
                 Ask("o1", "chainId", {}, TRUE, "k0", TRUE)}

KeysOfLists == [k0 |-> 0, k1 |-> 1]
KeysOfStrategies == [anon |-> Nothing, keyed |-> 1, vip |-> Nothing]

Groups == {"http", "logs", "filter", "vip", "archives"}

\* Node groups: one of two nodes, one without nodes, the others of one node.
GroupsAtStart ==
  [g \in Groups |-> CASE g = "vip" -> {"n1", "n2"} [] g = "filter" -> {} [] OTHER -> {"n1"}]
FailoverNodes == [g \in Groups |-> IF g = "vip" THEN "n2" ELSE None]

-----------------------------------------------------------------------------
GatewayInit ==
  /\ \/ registry \in {"rates", "allowlists"} /\ part = "none"
     \/ part \in {"responses", "routes"} /\ registry = "none"
  /\ RR!Init
  /\ AL!Init /\ (registry # "allowlists" => al_space = "eth")
  /\ RC!Init /\ (part # "responses" => rc_method = "eth_call")
  /\ RT!Init /\ (part # "routes" => rt_space = "eth")

Rates == registry = "rates" /\ RR!Next
         /\ UNCHANGED <<registry, part, alVars, rcVars, rtVars>>
Access == registry = "allowlists" /\ AL!Next
         /\ UNCHANGED <<registry, part, rrVars, rcVars, rtVars>>
Responses == part = "responses" /\ RC!Next
         /\ UNCHANGED <<registry, part, rrVars, alVars, rtVars>>
Routes == part = "routes" /\ RT!Next
         /\ UNCHANGED <<registry, part, rrVars, alVars, rcVars>>

GatewayNext == Rates \/ Access \/ Responses \/ Routes

GatewaySpec ==
  GatewayInit /\ [][GatewayNext]_<<registry, part, rrVars, alVars, rcVars, rtVars>>
=============================================================================
