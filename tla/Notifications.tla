---------------------------- MODULE Notifications ----------------------------
(***************************************************************************)
(* What follows the chain for users of the RPC service: the subscriptions, *)
(* with their parameters.  The variable part says which of the components  *)
(* composed in MCNotifications runs.                                       *)
(***************************************************************************)
EXTENDS PubSub

VARIABLE part   \* the component that runs

-----------------------------------------------------------------------------
\* A subscriber that missed an item, or got one twice or out of order, has left or
\* is told of an error, and while any is registered a run loop serves it, unless
\* one registered while a run loop ended after an error (deliver, cancel, notify).
SubscriptionsDeliver ==
  part = "subscriptions" => TypeOK /\ GapsAreReported /\ RegisteredAreServed
=============================================================================
