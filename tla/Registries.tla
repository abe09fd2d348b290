----------------------------- MODULE Registries -----------------------------
(***************************************************************************)
(* The two registries that reload their configuration while requests use   *)
(* it, the strategies of the rate limits and the allowlists, with their    *)
(* parameters.                                                             *)
(***************************************************************************)
EXTENDS Integers

CONSTANTS
  StrategyIds, StrategyNames, Rules, DefaultStrategy, VipStrategy, Keyed, Vips, Limited,
  MaxStrategyChanges,
  ListIds, ListNames, Origins, Agents, Contracts, Lists, Asked, KeyInfos, MaxListChanges,
  ReuseNames, Nothing

VARIABLE registry   \* the registry that is followed

VARIABLES rr_conf, rr_rc, rr_lastCs, rr_phase, rr_todo, rr_strategies, rr_id2Strategies,
  rr_limiters, rr_group, rr_changes

rrVars == <<rr_conf, rr_rc, rr_lastCs, rr_phase, rr_todo, rr_strategies,
           rr_id2Strategies, rr_limiters, rr_group, rr_changes>>

VARIABLES al_space, al_conf, al_rc, al_lastCs, al_phase, al_todo, al_allowlists,
  al_validators, al_defaultValidator, al_verdict, al_changes

alVars == <<al_space, al_conf, al_rc, al_lastCs, al_phase, al_todo, al_allowlists,
           al_validators, al_defaultValidator, al_verdict, al_changes>>

RR == INSTANCE RateRegistry WITH
  Ids <- StrategyIds, Names <- StrategyNames, Requests <- Limited,
  MaxChanges <- MaxStrategyChanges, None <- Nothing,
  conf <- rr_conf, rc <- rr_rc, lastCs <- rr_lastCs, phase <- rr_phase, todo <- rr_todo,
  strategies <- rr_strategies, id2Strategies <- rr_id2Strategies,
  limiters <- rr_limiters, group <- rr_group, changes <- rr_changes

AL == INSTANCE AllowLists WITH
  Ids <- ListIds, Names <- ListNames, Requests <- Asked,
  MaxChanges <- MaxListChanges, None <- Nothing,
  space <- al_space, conf <- al_conf, rc <- al_rc, lastCs <- al_lastCs,
  phase <- al_phase, todo <- al_todo, allowlists <- al_allowlists,
  validators <- al_validators, defaultValidator <- al_defaultValidator,
  verdict <- al_verdict, changes <- al_changes

\* What the code takes for granted: the strategies of requests without a key and
\* of VIPs have names, and a limit key names a strategy.
ASSUME RatesAssumption ==
  /\ DefaultStrategy \in StrategyNames /\ VipStrategy \in StrategyNames
  /\ Keyed \in [Limited -> StrategyIds \cup {Nothing}]
  /\ MaxStrategyChanges \in Nat

\* Allowlists and requests are of their types, and a limit key names an allowlist
\* or none.
ASSUME AccessAssumption ==
  /\ Lists \subseteq AL!Content /\ Asked \subseteq AL!Request
  /\ KeyInfos \in [DOMAIN KeyInfos -> ListIds \cup {0}]
  /\ "malformed" \notin Contracts
  /\ MaxListChanges \in Nat
-----------------------------------------------------------------------------
\* A limiter in use enforces the rule its strategy has now, and the strategies
\* are found alike by id and by name, however requests and reloads interleave
\* (reloadRateLimitStrategies, Create).
RatesFollowRules ==
  registry = "rates" => RR!TypeOK /\ RR!StrategiesAreIndexed /\ RR!LimitersFollowRules

\* The default validator is the one of the current default allowlist, and a
\* request passes exactly if every type of entry that is there has an entry for
\* it (reloadAclAllowLists, Validate).
AccessFollowsLists ==
  registry = "allowlists" => AL!TypeOK /\ AL!DefaultIsCurrent /\ AL!VerdictsFollowEntries
=============================================================================
