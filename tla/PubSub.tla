------------------------------- MODULE PubSub -------------------------------
(***************************************************************************)
(* Delegated subscriptions (rpc/pubsub.go, eth_pubsub.go and the handlers  *)
(* of cfx_api_pubsub.go and eth_api_pubsub.go): one subscription to the    *)
(* full node per context (new heads, epochs or logs of a node), whose run  *)
(* loop notifies every client subscription of the context through a        *)
(* channel of bounded size.                                                *)
(*                                                                         *)
(* The contexts differ in the item published and in the filter; kind says  *)
(* which one this is.  A run loop is started by the first registration and *)
(* again after an error of the full node, so several may be alive.  The    *)
(* lock of the context is a variable, since a loop sends on channels while *)
(* it holds it; a step that holds it without sending is one action.        *)
(***************************************************************************)
EXTENDS Integers, Sequences, FiniteSets

CONSTANTS
  Clients,   \* the client subscriptions
  Kinds,     \* the contexts considered
  Wants,     \* the items whose address and topics pass the filter of a subscription
  Reverts,   \* the items that are revert logs of the core space
  ChanSize,  \* pubsubChannelBufferSize
  MaxItems,  \* bound: the items of the full node
  MaxLoops,  \* bound: the run loops
  None

ASSUME PubSubAssumption ==
  /\ ChanSize \in Nat /\ MaxItems \in Nat /\ MaxLoops \in Nat
  /\ None \notin Int

Item == 1 .. MaxItems
Loop == 1 .. MaxLoops

VARIABLES
  kind,     \* the context: space and item
  head,     \* the items the full node has published
  status,   \* delegateContext.status
  once,     \* its oncer has run
  holder,   \* the run loop that holds its lock, or None
  subs,     \* delegateSubs
  lpc,      \* the next step of a run loop
  csub,     \* its subscription at the full node: "on", "err", "off"
  feed,     \* the items in its channel
  todo,     \* the subscriptions it has yet to notify or to cancel
  cpc,      \* the session of a client: "none", "checked", "run", "leaving", "gone"
  chan,     \* its channel of items
  errs,     \* the number of errors in its channel err, whose size is 1
  first,    \* history: the items up to which it was registered too late
  received, \* history: the items it was sent
  raced     \* history: a client registered that checked the status before the last error

ctx == <<status, once, holder, subs>>
loops == <<lpc, csub, feed, todo>>
session == <<cpc, chan, errs, first, received>>
vars == <<kind, head, ctx, loops, session, raced>>

TypeOK ==
  /\ kind \in Kinds
  /\ head \in 0 .. MaxItems
  /\ status \in {"init", "err", "ok"} /\ once \in BOOLEAN
  /\ holder \in Loop \cup {None}
  /\ subs \subseteq Clients
  /\ lpc \in [Loop -> {"none", "start", "check", "select", "notify", "fail", "cancel", "exit", "done"}]
  /\ csub \in [Loop -> {"on", "err", "off"}]
  /\ feed \in [Loop -> Seq(Item)] /\ todo \in [Loop -> SUBSET Clients]
  /\ cpc \in [Clients -> {"none", "checked", "run", "leaving", "gone"}]
  /\ chan \in [Clients -> Seq(Item)] /\ errs \in [Clients -> 0 .. 1]
  /\ first \in [Clients -> 0 .. MaxItems]
  /\ received \in [Clients -> Seq(Item)]
  /\ raced \in BOOLEAN

Init ==
  /\ kind \in Kinds
  /\ head = 0
  /\ status = "init" /\ once = FALSE /\ holder = None /\ subs = {}
  /\ lpc = [l \in Loop |-> "none"] /\ csub = [l \in Loop |-> "off"]
  /\ feed = [l \in Loop |-> <<>>] /\ todo = [l \in Loop |-> {}]
  /\ cpc = [c \in Clients |-> "none"]
  /\ chan = [c \in Clients |-> <<>>] /\ errs = [c \in Clients |-> 0]
  /\ first = [c \in Clients |-> 0] /\ received = [c \in Clients |-> <<>>]
  /\ raced = FALSE
-----------------------------------------------------------------------------
(* The lock of the context.                                                *)

Reading(l) == lpc[l] = "notify"
CanLock == holder = None /\ \A l \in Loop : ~Reading(l)
CanRLock == holder = None
-----------------------------------------------------------------------------
(* The full node (external).                                               *)

Publish ==
  /\ head < MaxItems
  /\ head' = head + 1
  /\ feed' = [l \in Loop |-> IF csub[l] = "on" THEN Append(feed[l], head + 1) ELSE feed[l]]
  /\ UNCHANGED <<kind, ctx, lpc, csub, todo, session, raced>>

Break(l) ==
  /\ csub[l] = "on"
  /\ csub' = [csub EXCEPT ![l] = "err"]
  /\ UNCHANGED <<kind, head, ctx, lpc, feed, todo, session, raced>>
-----------------------------------------------------------------------------
(* The requests of the clients.                                            *)

\* delegateSubscribe...: a context in error refuses.
delegateSubscribe(c) ==
  /\ cpc[c] = "none"
  /\ status # "err"
  /\ cpc' = [cpc EXCEPT ![c] = "checked"]
  /\ UNCHANGED <<kind, head, ctx, loops, chan, errs, first, received, raced>>

\* The handlers of the subscribe methods.
cfxNewHeads(c) == kind = "cfxHeads" /\ delegateSubscribe(c)
cfxEpochs(c) == kind = "cfxEpochs" /\ delegateSubscribe(c)
cfxLogs(c) == kind = "cfxLogs" /\ delegateSubscribe(c)
ethNewHeads(c) == kind = "ethHeads" /\ delegateSubscribe(c)
ethLogs(c) == kind = "ethLogs" /\ delegateSubscribe(c)

\* The items a run loop has notified or will not notify any more.
Unsent ==
  LET ready == {Head(feed[l]) - 1 : l \in {k \in Loop : lpc[k] # "done" /\ feed[k] # <<>>}}
  IN  IF ready = {} THEN head ELSE CHOOSE i \in ready : \A j \in ready : i <= j

Join(c) ==
  /\ subs' = subs \cup {c}
  /\ cpc' = [cpc EXCEPT ![c] = "run"]
  /\ first' = [first EXCEPT ![c] = Unsent]
  /\ raced' = (raced \/ \E l \in Loop : lpc[l] \notin {"none", "done"} /\ csub[l] = "off")

\* registerDelegateSub with a run loop that was started before,
registerDelegateSub(c) ==
  /\ cpc[c] = "checked" /\ CanLock
  /\ once
  /\ Join(c)
  /\ UNCHANGED <<kind, head, status, once, holder, loops, chan, errs, received>>

\* and with a run loop to be started, which subscribes at the full node.
RunLoop(c) ==
  /\ cpc[c] = "checked" /\ CanLock
  /\ ~once
  /\ once' = TRUE
  /\ \E l \in Loop :
       /\ lpc[l] = "none" /\ \A k \in Loop : k < l => lpc[k] # "none"
       /\ lpc' = [lpc EXCEPT ![l] = "start"]
       /\ csub' = [csub EXCEPT ![l] = "on"]
  /\ Join(c)
  /\ UNCHANGED <<kind, head, status, holder, feed, todo, chan, errs, received>>

proxySubscribeNewHeads(c) == kind = "cfxHeads" /\ RunLoop(c)
proxySubscribeEpochs(c) == kind = "cfxEpochs" /\ RunLoop(c)
proxySubscribeLogs(c) == kind = "cfxLogs" /\ RunLoop(c)
ethProxySubscribeNewHeads(c) == kind = "ethHeads" /\ RunLoop(c)
ethProxySubscribeLogs(c) == kind = "ethLogs" /\ RunLoop(c)

\* The subscription at the full node fails; the oncer is reset.
proxySubscribeFails(c) ==
  /\ cpc[c] = "checked" /\ CanLock
  /\ ~once
  /\ cpc' = [cpc EXCEPT ![c] = "none"]
  /\ UNCHANGED <<kind, head, ctx, loops, chan, errs, first, received, raced>>

\* The session: an item from the channel is sent to the client,
Forward(c) ==
  /\ cpc[c] = "run" /\ chan[c] # <<>>
  /\ received' = [received EXCEPT ![c] = Append(@, Head(chan[c]))]
  /\ chan' = [chan EXCEPT ![c] = Tail(@)]
  /\ UNCHANGED <<kind, head, ctx, loops, cpc, errs, first, raced>>

\* an error of the delegate closes the connection,
TakeErr(c) ==
  /\ cpc[c] = "run" /\ errs[c] = 1
  /\ errs' = [errs EXCEPT ![c] = 0]
  /\ cpc' = [cpc EXCEPT ![c] = "leaving"]
  /\ UNCHANGED <<kind, head, ctx, loops, chan, first, received, raced>>

\* or the client has closed it.
Disconnect(c) ==
  /\ cpc[c] = "run"
  /\ cpc' = [cpc EXCEPT ![c] = "leaving"]
  /\ UNCHANGED <<kind, head, ctx, loops, chan, errs, first, received, raced>>

unsubscribe(c) ==
  /\ cpc[c] = "leaving" /\ CanLock
  /\ subs' = subs \ {c}
  /\ cpc' = [cpc EXCEPT ![c] = "gone"]
  /\ chan' = [chan EXCEPT ![c] = <<>>] /\ errs' = [errs EXCEPT ![c] = 0]
  /\ UNCHANGED <<kind, head, status, once, holder, loops, first, received, raced>>
-----------------------------------------------------------------------------
(* The run loop.                                                           *)

Start(l) ==
  /\ lpc[l] = "start"
  /\ status' = "ok"
  /\ lpc' = [lpc EXCEPT ![l] = "check"]
  /\ UNCHANGED <<kind, head, once, holder, subs, csub, feed, todo, session, raced>>

\* The condition of the loop,
Check(l) ==
  /\ lpc[l] = "check"
  /\ lpc' = [lpc EXCEPT ![l] = IF status = "ok" THEN "select" ELSE "exit"]
  /\ UNCHANGED <<kind, head, ctx, csub, feed, todo, session, raced>>

\* and the deferred setStatus(delegateStatusInit).
Exit(l) ==
  /\ lpc[l] = "exit"
  /\ status' = "init"
  /\ lpc' = [lpc EXCEPT ![l] = "done"]
  /\ UNCHANGED <<kind, head, once, holder, subs, csub, feed, todo, session, raced>>

\* An error of the subscription; a subscription that is off reports one again.
Fail(l) ==
  /\ lpc[l] = "select" /\ csub[l] # "on"
  /\ status' = "err"
  /\ csub' = [csub EXCEPT ![l] = "off"]
  /\ lpc' = [lpc EXCEPT ![l] = "fail"]
  /\ UNCHANGED <<kind, head, once, holder, subs, feed, todo, session, raced>>

\* cancel takes the lock, sends the error to every subscription, and lets the
\* next one start a run loop.
cancel(l) ==
  /\ lpc[l] = "fail" /\ CanLock
  /\ holder' = l
  /\ todo' = [todo EXCEPT ![l] = subs]
  /\ lpc' = [lpc EXCEPT ![l] = "cancel"]
  /\ UNCHANGED <<kind, head, status, once, subs, csub, feed, session, raced>>

CancelOne(l, c) ==
  /\ lpc[l] = "cancel" /\ c \in todo[l]
  /\ errs[c] = 0
  /\ errs' = [errs EXCEPT ![c] = 1]
  /\ subs' = subs \ {c}
  /\ todo' = [todo EXCEPT ![l] = @ \ {c}]
  /\ UNCHANGED <<kind, head, status, once, holder, lpc, csub, feed, cpc, chan, first, received, raced>>

\* Mutant: the oncer is not reset.
CancelEndOnce(l) ==
  /\ lpc[l] = "cancel" /\ todo[l] = {}
  /\ holder' = None
  /\ lpc' = [lpc EXCEPT ![l] = "check"]
  /\ UNCHANGED <<kind, head, status, once, subs, csub, feed, todo, session, raced>>

CancelEnd(l) ==
  /\ lpc[l] = "cancel" /\ todo[l] = {}
  /\ once' = FALSE /\ holder' = None
  /\ lpc' = [lpc EXCEPT ![l] = "check"]
  /\ UNCHANGED <<kind, head, status, subs, csub, feed, todo, session, raced>>

\* notify, under the read lock, delivers an item to every subscription.
notify(l) ==
  /\ lpc[l] = "select" /\ feed[l] # <<>> /\ CanRLock
  /\ todo' = [todo EXCEPT ![l] = subs]
  /\ lpc' = [lpc EXCEPT ![l] = "notify"]
  /\ UNCHANGED <<kind, head, ctx, csub, feed, session, raced>>

\* The filters; heads and epochs are not filtered.
matchPubSubLogFilter(c, i) == i \in Reverts \/ i \in Wants[c]
matchEthPubSubLogFilter(c, i) == i \in Wants[c]

Passes(c, i) ==
  /\ kind = "cfxLogs" => matchPubSubLogFilter(c, i)
  /\ kind = "ethLogs" => matchEthPubSubLogFilter(c, i)

\* deliver: what the filter drops, what the channel takes,
deliver(l, c) ==
  /\ lpc[l] = "notify" /\ c \in todo[l]
  /\ \/ ~Passes(c, Head(feed[l])) /\ UNCHANGED chan
     \/ /\ Passes(c, Head(feed[l]))
        /\ Len(chan[c]) < ChanSize
        /\ chan' = [chan EXCEPT ![c] = Append(@, Head(feed[l]))]
  /\ todo' = [todo EXCEPT ![l] = @ \ {c}]
  /\ UNCHANGED <<kind, head, ctx, lpc, csub, feed, cpc, errs, first, received, raced>>

\* Mutant: an item that overflows the channel is dropped and no error is sent.
OverflowSilent(l, c) ==
  /\ lpc[l] = "notify" /\ c \in todo[l]
  /\ Passes(c, Head(feed[l])) /\ Len(chan[c]) >= ChanSize
  /\ todo' = [todo EXCEPT ![l] = @ \ {c}]
  /\ UNCHANGED <<kind, head, ctx, lpc, csub, feed, session, raced>>

\* and what overflows it: the item is dropped and the error sent.
Overflow(l, c) ==
  /\ lpc[l] = "notify" /\ c \in todo[l]
  /\ Passes(c, Head(feed[l])) /\ Len(chan[c]) >= ChanSize
  /\ errs[c] = 0
  /\ errs' = [errs EXCEPT ![c] = 1]
  /\ todo' = [todo EXCEPT ![l] = @ \ {c}]
  /\ UNCHANGED <<kind, head, ctx, lpc, csub, feed, cpc, chan, first, received, raced>>

Notified(l) ==
  /\ lpc[l] = "notify" /\ todo[l] = {}
  /\ feed' = [feed EXCEPT ![l] = Tail(@)]
  /\ lpc' = [lpc EXCEPT ![l] = "check"]
  /\ UNCHANGED <<kind, head, ctx, csub, todo, session, raced>>

Next ==
  \/ Publish
  \/ \E c \in Clients :
       \/ cfxNewHeads(c) \/ cfxEpochs(c) \/ cfxLogs(c) \/ ethNewHeads(c) \/ ethLogs(c)
       \/ proxySubscribeNewHeads(c) \/ proxySubscribeEpochs(c) \/ proxySubscribeLogs(c)
       \/ ethProxySubscribeNewHeads(c) \/ ethProxySubscribeLogs(c)
       \/ registerDelegateSub(c) \/ proxySubscribeFails(c)
       \/ Forward(c) \/ TakeErr(c) \/ Disconnect(c) \/ unsubscribe(c)
  \/ \E l \in Loop :
       \/ Break(l) \/ Start(l) \/ Check(l) \/ Exit(l) \/ Fail(l)
       \/ cancel(l) \/ CancelEnd(l) \/ notify(l) \/ Notified(l)
       \/ \E c \in Clients : CancelOne(l, c) \/ deliver(l, c) \/ Overflow(l, c)

Spec == Init /\ [][Next]_vars
-----------------------------------------------------------------------------
\* What a client was sent or has in its channel.
Sent(c) == received[c] \o chan[c]

\* The items sent to a client are those it wants of the items published since it
\* subscribed and up to n, each once and in order.
SentUpTo(c, n) ==
  /\ \A i, j \in DOMAIN Sent(c) : i < j => Sent(c)[i] < Sent(c)[j]
  /\ {Sent(c)[i] : i \in DOMAIN Sent(c)} = {i \in first[c] + 1 .. n : Passes(c, i)}

\* A run loop that has nothing left to notify.
Quiet == \E l \in Loop : lpc[l] = "select" /\ csub[l] = "on" /\ feed[l] = <<>>

\* A client that missed an item, or got one twice or out of order, has left or
\* has an error on its way (deliver, cancel).
GapsAreReported ==
  ~raced => \A c \in Clients :
    cpc[c] = "run" /\ errs[c] = 0 =>
      /\ \E n \in first[c] .. head : SentUpTo(c, n)
      /\ c \in subs /\ Quiet => SentUpTo(c, head)

\* A registered client is served: a run loop is alive and will notify it or
\* cancel it (the oncer, the status and the restart after an error).
RegisteredAreServed ==
  ~raced /\ subs # {} =>
    \E l \in Loop : lpc[l] \in {"start", "check", "select", "notify", "fail", "cancel"}
                    /\ (lpc[l] = "check" => status = "ok")

\* "never blocking for subscription queue overflow": no run loop waits on the
\* error channel of a client whose session is itself waiting for the lock.
NeverBlocked ==
  \A l \in Loop, c \in Clients :
    ~(Reading(l) /\ c \in todo[l] /\ Passes(c, Head(feed[l]))
      /\ Len(chan[c]) >= ChanSize /\ errs[c] = 1 /\ cpc[c] = "leaving")
=============================================================================
