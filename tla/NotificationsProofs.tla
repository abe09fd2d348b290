------------------------- MODULE NotificationsProofs -------------------------
(***************************************************************************)
(* A subscriber is sent every item it wants, once and in order, or learns  *)
(* that it was not, and is served as long as it is registered: for any     *)
(* number of subscribers, items and run loops, any filters and any size of *)
(* the channels.                                                           *)
(***************************************************************************)
EXTENDS Notifications, WellFoundedInduction, TLAPS

Live(l) == lpc[l] \notin {"none", "done"}

\* A run loop that notifies has the item it notifies.
Holding == \A l \in Loop : lpc[l] = "notify" => feed[l] # <<>>

\* At most one run loop is alive, and one as long as the oncer says so.
OneLoop ==
  /\ \A l, k \in Loop : Live(l) /\ Live(k) => l = k
  /\ once => \E l \in Loop : Live(l)
  /\ ~once => subs = {}
  /\ holder # None => lpc[holder] = "cancel"

\* What a run loop knows of its context where it stands.
LoopKnows(l) ==
  /\ lpc[l] = "none" => csub[l] = "off" /\ feed[l] = <<>>
  /\ lpc[l] = "start" => once /\ csub[l] # "off"
  /\ lpc[l] \in {"select", "notify"} => once /\ status = "ok" /\ csub[l] # "off"
  /\ lpc[l] = "check" => IF once THEN status = "ok" /\ csub[l] # "off"
                                 ELSE status = "err" /\ csub[l] = "off"
  /\ lpc[l] = "exit" => ~once /\ status = "err" /\ csub[l] = "off"
  /\ lpc[l] \in {"fail", "cancel"} => once /\ status = "err" /\ csub[l] = "off"
  /\ lpc[l] = "cancel" => holder = l /\ todo[l] = subs
  /\ lpc[l] = "notify" => todo[l] \subseteq subs

\* The items in the channel of a run loop are consecutive, up to the last one
\* published as long as its subscription is on.
FeedRuns(l) ==
  /\ \A i, j \in DOMAIN feed[l] : feed[l][j] = feed[l][i] + (j - i)
  /\ \A i \in DOMAIN feed[l] : feed[l][i] <= head
  /\ csub[l] = "on" /\ feed[l] # <<>> => feed[l][Len(feed[l])] = head

\* Where a client stands before and after it is registered.
Registered(c) ==
  /\ cpc[c] \in {"none", "checked"} => chan[c] = <<>> /\ received[c] = <<>> /\ errs[c] = 0
  /\ c \in subs => cpc[c] \in {"run", "leaving"}
  /\ cpc[c] = "run" /\ errs[c] = 0 => c \in subs

\* n is the last item that run loop l has brought to client c.
Brought(l, c, n) ==
  /\ feed[l] # <<>> => n = IF lpc[l] = "notify" /\ c \notin todo[l]
                           THEN feed[l][1] ELSE feed[l][1] - 1
  /\ csub[l] = "on" /\ feed[l] = <<>> => n = head

InStep(c) ==
  cpc[c] = "run" /\ errs[c] = 0 =>
    \E n \in first[c] .. head :
      SentUpTo(c, n) /\ \A l \in Loop : Live(l) => Brought(l, c, n)

Served ==
  /\ OneLoop
  /\ \A l \in Loop : LoopKnows(l)
  /\ \A l \in Loop : Live(l) => FeedRuns(l)
  /\ \A c \in Clients : Registered(c) /\ InStep(c)

IInv == TypeOK /\ Holding /\ (~raced => Served)
-----------------------------------------------------------------------------
(* Facts about numbers and sequences.                                      *)

LEMMA Numbers ==
  /\ Item \subseteq Nat \ {0} /\ \A i \in Item : i <= MaxItems
  /\ None \notin Loop
  /\ \A h \in 0 .. MaxItems : h \in Nat /\ (h < MaxItems => h + 1 \in Item /\ h + 1 \in 0 .. MaxItems)
<1>1. Item \subseteq Nat \ {0} /\ \A i \in Item : i <= MaxItems
  BY PubSubAssumption DEF Item
<1>2. None \notin Loop
  BY PubSubAssumption DEF Loop
<1>3. \A h \in 0 .. MaxItems : h \in Nat /\ (h < MaxItems => h + 1 \in Item /\ h + 1 \in 0 .. MaxItems)
  BY PubSubAssumption DEF Item
<1>. QED  BY <1>1, <1>2, <1>3, Zenon

\* A set of numbers that is not empty has a least element.
LEMMA Least ==
  ASSUME NEW S \in SUBSET Nat, S # {}
  PROVE  \E i \in S : \A j \in S : i <= j
<1>. DEFINE R == OpToRel(<, Nat)
<1>1. IsWellFoundedOn(R, Nat)
  BY NatLessThanWellFounded, Zenon
<1>2. \A i, j \in Nat : <<i, j>> \in R <=> i < j
  BY DEF OpToRel
<1>. HIDE DEF R
<1>3. PICK i \in S : \A j \in S : ~(<<j, i>> \in R)
  BY <1>1, WFMin, Zenon
<1>4. \A j \in S : ~(j < i)
  BY <1>2, <1>3, Zenon
<1>. QED  BY <1>4

LEMMA Appended ==
  ASSUME NEW S, NEW q \in Seq(S), NEW x \in S
  PROVE  /\ Append(q, x) \in Seq(S) /\ Append(q, x) # <<>> /\ Len(Append(q, x)) = Len(q) + 1
         /\ DOMAIN Append(q, x) = 1 .. Len(q) + 1 /\ Len(q) \in Nat /\ DOMAIN q = 1 .. Len(q)
         /\ \A i \in 1 .. Len(q) : Append(q, x)[i] = q[i]
         /\ Append(q, x)[Len(q) + 1] = x
OBVIOUS

LEMMA Widened ==
  ASSUME NEW S, NEW T, S \subseteq T, NEW q \in Seq(S)
  PROVE  q \in Seq(T)
<1>1. \A i \in 1 .. Len(q) : q[i] \in T
  OBVIOUS
<1>. QED  BY <1>1

LEMMA Shortened ==
  ASSUME NEW S, NEW q \in Seq(S), q # <<>>
  PROVE  /\ Head(q) = q[1] /\ q[1] \in S /\ Tail(q) \in Seq(S) /\ Len(Tail(q)) = Len(q) - 1
         /\ Len(q) \in Nat \ {0} /\ DOMAIN q = 1 .. Len(q) /\ DOMAIN Tail(q) = 1 .. Len(q) - 1
         /\ \A i \in 1 .. Len(q) - 1 : Tail(q)[i] = q[i + 1]
         /\ (Tail(q) = <<>> <=> Len(q) = 1)
<1>1. /\ Head(q) = q[1] /\ q[1] \in S /\ Tail(q) \in Seq(S) /\ Len(Tail(q)) = Len(q) - 1
      /\ Len(q) \in Nat \ {0} /\ DOMAIN q = 1 .. Len(q) /\ DOMAIN Tail(q) = 1 .. Len(q) - 1
      /\ \A i \in 1 .. Len(q) - 1 : Tail(q)[i] = q[i + 1]
  OBVIOUS
<1>2. \A r \in Seq(S) : r = <<>> <=> Len(r) = 0
  OBVIOUS
<1>3. Tail(q) = <<>> <=> Len(Tail(q)) = 0
  BY <1>1, <1>2, Zenon
<1>. QED  BY <1>1, <1>3
-----------------------------------------------------------------------------
(* The types.                                                              *)

\* The steps by what they do, whatever the kind of the context.
LEMMA Steps ==
  ASSUME Next
  PROVE  \/ Publish
         \/ \E c \in Clients :
              \/ delegateSubscribe(c) \/ RunLoop(c)
              \/ registerDelegateSub(c) \/ proxySubscribeFails(c)
              \/ Forward(c) \/ TakeErr(c) \/ Disconnect(c) \/ unsubscribe(c)
         \/ \E l \in Loop :
              \/ Break(l) \/ Start(l) \/ Check(l) \/ Exit(l) \/ Fail(l)
              \/ cancel(l) \/ CancelEnd(l) \/ notify(l) \/ Notified(l)
              \/ \E c \in Clients : CancelOne(l, c) \/ deliver(l, c) \/ Overflow(l, c)
BY Zenon DEF Next, cfxNewHeads, cfxEpochs, cfxLogs, ethNewHeads, ethLogs,
             proxySubscribeNewHeads, proxySubscribeEpochs, proxySubscribeLogs,
             ethProxySubscribeNewHeads, ethProxySubscribeLogs

LEMMA UnsentType ==
  ASSUME TypeOK
  PROVE  Unsent \in 0 .. MaxItems
<1>. DEFINE ready == {Head(feed[l]) - 1 : l \in {k \in Loop : lpc[k] # "done" /\ feed[k] # <<>>}}
<1>1. CASE ready = {}
  BY <1>1, Zenon DEF Unsent, TypeOK
<1>2. CASE ready # {}
  <2>1. ASSUME NEW l \in Loop, feed[l] # <<>>
        PROVE  Head(feed[l]) - 1 \in 0 .. MaxItems
    <3>1. feed[l] \in Seq(Item)
      BY Zenon DEF TypeOK
    <3>2. Head(feed[l]) \in Item
      BY ONLY <2>1, <3>1
    <3>. QED  BY ONLY <3>2, PubSubAssumption DEF Item
  <2>2. ready \in SUBSET (0 .. MaxItems)
    BY <2>1, Zenon
  <2>3. ready \in SUBSET Nat
    BY <2>2
  <2>4. \E i \in ready : \A j \in ready : i <= j
    BY <1>2, <2>3, Least, Zenon
  <2>5. Unsent = CHOOSE i \in ready : \A j \in ready : i <= j
    BY <1>2, Zenon DEF Unsent
  <2>6. Unsent \in ready
    BY <2>4, <2>5, Zenon
  <2>. QED  BY <2>2, <2>6, Zenon
<1>. QED  BY <1>1, <1>2, Zenon

LEMMA TypeStep ==
  ASSUME TypeOK, Holding, Next
  PROVE  TypeOK' /\ Holding'
<1>1. CASE Publish
  <2>1. head' \in 0 .. MaxItems /\ head + 1 \in Item
    BY <1>1, Numbers, Zenon DEF Publish, TypeOK
  <2>2. ASSUME NEW l \in Loop
        PROVE  Append(feed[l], head + 1) \in Seq(Item) /\ Append(feed[l], head + 1) # <<>>
    <3>1. feed[l] \in Seq(Item)
      BY Zenon DEF TypeOK
    <3>. QED  BY ONLY <2>1, <3>1
  <2>3. feed' \in [Loop -> Seq(Item)]
    <3>1. \A l \in Loop : (IF csub[l] = "on" THEN Append(feed[l], head + 1) ELSE feed[l]) \in Seq(Item)
      BY <2>2, Zenon DEF TypeOK
    <3>. QED  BY <1>1, <3>1, Zenon DEF Publish
  <2>4. Holding'
    BY <1>1, <2>2, Zenon DEF Publish, Holding
  <2>. QED  BY <1>1, <2>1, <2>3, <2>4, Zenon DEF Publish, TypeOK, ctx, session
<1>2. ASSUME NEW c \in Clients,
             delegateSubscribe(c) \/ proxySubscribeFails(c) \/ TakeErr(c) \/ Disconnect(c) \/ unsubscribe(c)
      PROVE  TypeOK' /\ Holding'
  <2>1. 0 \in 0 .. 1 /\ <<>> \in Seq(Item)
    OBVIOUS
  <2>2. CASE unsubscribe(c)
    <3>1. errs' \in [Clients -> 0 .. 1] /\ chan' \in [Clients -> Seq(Item)]
      BY <2>1, <2>2, Zenon DEF unsubscribe, TypeOK
    <3>2. cpc' \in [Clients -> {"none", "checked", "run", "leaving", "gone"}]
      BY <2>2, Zenon DEF unsubscribe, TypeOK
    <3>. QED  BY <2>2, <3>1, <3>2, Zenon DEF unsubscribe, TypeOK, Holding, loops
  <2>3. CASE TakeErr(c)
    BY <2>1, <2>3, ZenonT(60) DEF TakeErr, TypeOK, Holding, ctx, loops
  <2>4. CASE delegateSubscribe(c) \/ proxySubscribeFails(c) \/ Disconnect(c)
    BY <2>4, ZenonT(60) DEF delegateSubscribe, proxySubscribeFails, Disconnect, TypeOK, Holding, ctx, loops
  <2>. QED  BY <1>2, <2>2, <2>3, <2>4, Zenon
<1>3. ASSUME NEW c \in Clients, RunLoop(c) \/ registerDelegateSub(c)
      PROVE  TypeOK' /\ Holding'
  <2>1. first' \in [Clients -> 0 .. MaxItems]
    BY <1>3, UnsentType, ZenonT(60) DEF RunLoop, registerDelegateSub, Join, TypeOK
  <2>2. subs' \subseteq Clients /\ raced' \in BOOLEAN /\ cpc' \in [Clients -> {"none", "checked", "run", "leaving", "gone"}]
    BY <1>3, ZenonT(60) DEF RunLoop, registerDelegateSub, Join, TypeOK
  <2>3. CASE RunLoop(c)
    <3>1. lpc' \in [Loop -> {"none", "start", "check", "select", "notify", "fail", "cancel", "exit", "done"}]
          /\ csub' \in [Loop -> {"on", "err", "off"}] /\ Holding'
      BY <2>3, Zenon DEF RunLoop, TypeOK, Holding
    <3>. QED  BY <2>1, <2>2, <2>3, <3>1, Zenon DEF RunLoop, TypeOK
  <2>4. CASE registerDelegateSub(c)
    BY <2>1, <2>2, <2>4, Zenon DEF registerDelegateSub, TypeOK, Holding, loops
  <2>. QED  BY <1>3, <2>3, <2>4, Zenon
<1>4. ASSUME NEW c \in Clients, Forward(c)
      PROVE  TypeOK' /\ Holding'
  <2>1. Append(received[c], Head(chan[c])) \in Seq(Item) /\ Tail(chan[c]) \in Seq(Item)
    <3>1. received[c] \in Seq(Item) /\ chan[c] \in Seq(Item) /\ chan[c] # <<>>
      BY <1>4, Zenon DEF TypeOK, Forward
    <3>. QED  BY ONLY <3>1
  <2>. QED  BY <1>4, <2>1, Zenon DEF Forward, TypeOK, Holding, ctx, loops
<1>5. ASSUME NEW l \in Loop, Break(l) \/ Start(l) \/ Check(l) \/ Exit(l) \/ Fail(l)
      PROVE  TypeOK' /\ Holding'
  BY <1>5, ZenonT(60) DEF Break, Start, Check, Exit, Fail, TypeOK, Holding, ctx, session
<1>6. ASSUME NEW l \in Loop, cancel(l) \/ CancelEnd(l) \/ notify(l)
      PROVE  TypeOK' /\ Holding'
  BY <1>6, ZenonT(60) DEF cancel, CancelEnd, notify, TypeOK, Holding, ctx, session
<1>7. ASSUME NEW l \in Loop, Notified(l)
      PROVE  TypeOK' /\ Holding'
  <2>1. feed[l] # <<>> /\ feed[l] \in Seq(Item)
    BY <1>7, Zenon DEF Notified, Holding, TypeOK
  <2>2. Tail(feed[l]) \in Seq(Item)
    BY <2>1, Shortened, Zenon
  <2>. QED  BY <1>7, <2>2, ZenonT(60) DEF Notified, TypeOK, Holding, ctx, session
<1>8. ASSUME NEW l \in Loop, NEW c \in Clients, CancelOne(l, c) \/ Overflow(l, c)
      PROVE  TypeOK' /\ Holding'
  <2>1. 1 \in 0 .. 1
    OBVIOUS
  <2>2. errs' \in [Clients -> 0 .. 1]
    BY <1>8, <2>1, ZenonT(60) DEF CancelOne, Overflow, TypeOK
  <2>3. todo' \in [Loop -> SUBSET Clients]
    <3>1. todo' = [todo EXCEPT ![l] = todo[l] \ {c}]
      BY <1>8, Zenon DEF CancelOne, Overflow
    <3>2. todo[l] \ {c} \in SUBSET Clients
      BY Zenon DEF TypeOK
    <3>. QED  BY <3>1, <3>2, Zenon DEF TypeOK
  <2>4. subs' \subseteq Clients
    BY <1>8, Zenon DEF CancelOne, Overflow, TypeOK, ctx
  <2>. QED  BY <1>8, <2>2, <2>3, <2>4, Zenon DEF CancelOne, Overflow, TypeOK, Holding, ctx
<1>9. ASSUME NEW l \in Loop, NEW c \in Clients, deliver(l, c)
      PROVE  TypeOK' /\ Holding'
  <2>1. feed[l] # <<>> /\ feed[l] \in Seq(Item) /\ chan[c] \in Seq(Item)
    BY <1>9, Zenon DEF deliver, Holding, TypeOK
  <2>2. Append(chan[c], Head(feed[l])) \in Seq(Item)
    BY ONLY <2>1
  <2>3. chan' \in [Clients -> Seq(Item)]
    BY <1>9, <2>2, Zenon DEF deliver, TypeOK
  <2>4. todo' \in [Loop -> SUBSET Clients]
    BY <1>9, Zenon DEF deliver, TypeOK
  <2>. QED  BY <1>9, <2>3, <2>4, Zenon DEF deliver, TypeOK, Holding, ctx
<1>. QED
  BY Steps, <1>1, <1>2, <1>3, <1>4, <1>5, <1>6, <1>7, <1>8, <1>9, Zenon
-----------------------------------------------------------------------------
(* What steps leave alone.                                                 *)

\* What a client was sent stays what it was while its items do.
LEMMA SentStays ==
  ASSUME NEW c \in Clients, NEW n, SentUpTo(c, n), kind' = kind, Sent(c)' = Sent(c), first'[c] = first[c]
  PROVE  SentUpTo(c, n)'
BY Zenon DEF SentUpTo, Passes, matchPubSubLogFilter, matchEthPubSubLogFilter

LEMMA InStepStays ==
  ASSUME NEW c \in Clients, InStep(c), kind' = kind, head' = head,
         Sent(c)' = Sent(c), first'[c] = first[c],
         cpc'[c] = "run" /\ errs'[c] = 0 => cpc[c] = "run" /\ errs[c] = 0,
         \A l \in Loop : Live(l)' => Live(l),
         \A l \in Loop : Live(l)' => \A n : Brought(l, c, n) => Brought(l, c, n)'
  PROVE  InStep(c)'
<1>1. CASE ~(cpc'[c] = "run" /\ errs'[c] = 0)
  BY <1>1, Zenon DEF InStep
<1>2. CASE cpc'[c] = "run" /\ errs'[c] = 0
  <2>1. PICK n \in first[c] .. head : SentUpTo(c, n) /\ \A l \in Loop : Live(l) => Brought(l, c, n)
    BY <1>2, Zenon DEF InStep
  <2>2. SentUpTo(c, n)'
    BY <2>1, SentStays, Zenon
  <2>3. \A l \in Loop : Live(l)' => Brought(l, c, n)'
    BY <2>1, Zenon
  <2>4. n \in first'[c] .. head'
    BY Zenon
  <2>. QED  BY <2>2, <2>3, <2>4, Zenon DEF InStep
<1>. QED  BY <1>1, <1>2, Zenon

\* A run loop that is not alive stays so while another one takes a step.
LEMMA OthersRest ==
  ASSUME OneLoop, NEW l \in Loop, Live(l), NEW k \in Loop, k # l, LoopKnows(k),
         lpc'[k] = lpc[k], csub'[k] = csub[k], feed'[k] = feed[k]
  PROVE  ~Live(k) /\ ~Live(k)' /\ LoopKnows(k)'
<1>1. ~Live(k) /\ ~Live(k)'
  BY Zenon DEF OneLoop, Live
<1>2. lpc[k] \in {"none", "done"}
  BY <1>1, Zenon DEF Live
<1>. QED  BY <1>1, <1>2 DEF LoopKnows

\* A step of the run loop l that leaves the other ones alone.
LEMMA LoopStep ==
  ASSUME Served, NEW l \in Loop, Live(l),
         \A k \in Loop : k # l => lpc'[k] = lpc[k] /\ csub'[k] = csub[k] /\ feed'[k] = feed[k],
         LoopKnows(l)', Live(l)' => FeedRuns(l)',
         once' => Live(l)', ~once' => subs' = {}, holder' # None => lpc'[holder'] = "cancel",
         \A c \in Clients : Registered(c)' /\ InStep(c)'
  PROVE  Served'
<1>1. \A k \in Loop : k # l => ~Live(k)' /\ LoopKnows(k)'
  BY OthersRest, Zenon DEF Served
<1>2. OneLoop'
  BY <1>1, Zenon DEF OneLoop
<1>3. \A k \in Loop : LoopKnows(k)' /\ (Live(k)' => FeedRuns(k)')
  BY <1>1, Zenon
<1>. QED  BY <1>2, <1>3, Zenon DEF Served

\* The same with the clients left alone too: they keep their place.
LEMMA LoopOnlyStep ==
  ASSUME Served, NEW l \in Loop, Live(l), UNCHANGED <<kind, head, session, subs, feed>>,
         \A k \in Loop : k # l => lpc'[k] = lpc[k] /\ csub'[k] = csub[k],
         csub'[l] = "on" => csub[l] = "on",
         Live(l)' => \A c \in Clients : c \in subs =>
             (lpc'[l] = "notify" /\ c \notin todo'[l] <=> lpc[l] = "notify" /\ c \notin todo[l]),
         LoopKnows(l)',
         once' => Live(l)', ~once' => subs' = {}, holder' # None => lpc'[holder'] = "cancel"
  PROVE  Served'
<1>1. ASSUME NEW c \in Clients
      PROVE  Registered(c)' /\ InStep(c)'
  <2>1. Registered(c) /\ InStep(c)
    BY Zenon DEF Served
  <2>2. Registered(c)'
    BY <2>1, Zenon DEF Registered, session
  <2>3. CASE c \in subs
    <3>1. \A k \in Loop : Live(k)' => k = l
      BY OthersRest, Zenon DEF Served
    <3>2. Live(l)' => \A n : Brought(l, c, n) => Brought(l, c, n)'
      BY <2>3, Zenon DEF Brought
    <3>3. Sent(c)' = Sent(c) /\ first'[c] = first[c]
      BY Zenon DEF Sent, session
    <3>4. cpc'[c] = cpc[c] /\ errs'[c] = errs[c]
      BY Zenon DEF session
    <3>. QED  BY <2>1, <2>2, <3>1, <3>2, <3>3, <3>4, InStepStays, Zenon
  <2>4. CASE c \notin subs
    BY <2>1, <2>2, <2>4, Zenon DEF Registered, InStep, session
  <2>. QED  BY <2>3, <2>4, Zenon
<1>2. Live(l)' => FeedRuns(l)'
  BY Zenon DEF Served, FeedRuns
<1>. QED  BY <1>1, <1>2, LoopStep, Zenon
-----------------------------------------------------------------------------
(* The steps of the run loop that bring nothing to a client.               *)

LEMMA StartStep ==
  ASSUME TypeOK, Served, NEW l \in Loop, Start(l)
  PROVE  Served'
<1>1. LoopKnows(l) /\ Live(l) /\ OneLoop
  BY Zenon DEF Served, Start, Live
<1>2. lpc'[l] = "check" /\ \A k \in Loop : k # l => lpc'[k] = lpc[k]
  BY Zenon DEF Start, TypeOK
<1>3. LoopKnows(l)'
  BY <1>1, <1>2, Zenon DEF LoopKnows, Start
<1>4. Live(l)'
  BY <1>2 DEF Live
<1>5. holder' # None => lpc'[holder'] = "cancel"
  BY <1>1, <1>2, Zenon DEF OneLoop, Start, TypeOK
<1>. QED  BY <1>1, <1>2, <1>3, <1>4, <1>5, LoopOnlyStep, Zenon DEF Start, OneLoop, session

LEMMA CheckStep ==
  ASSUME TypeOK, Served, NEW l \in Loop, Check(l)
  PROVE  Served'
<1>1. LoopKnows(l) /\ Live(l) /\ OneLoop
  BY Zenon DEF Served, Check, Live
<1>2. \A k \in Loop : k # l => lpc'[k] = lpc[k]
  BY Zenon DEF Check, TypeOK
<1>3. holder' # None => lpc'[holder'] = "cancel"
  BY <1>1, <1>2, Zenon DEF OneLoop, Check, TypeOK, ctx
<1>4. CASE once
  <2>1. status = "ok" /\ csub[l] # "off"
    BY <1>1, <1>4, Zenon DEF LoopKnows, Check
  <2>2. lpc'[l] = "select" /\ status' = status
    BY <2>1, Zenon DEF Check, TypeOK, ctx
  <2>3. LoopKnows(l)' /\ Live(l)'
    BY <1>4, <2>1, <2>2 DEF LoopKnows, Live, Check, ctx
  <2>. QED  BY <1>1, <1>2, <1>3, <1>4, <2>2, <2>3, LoopOnlyStep, Zenon DEF Check, ctx, session
<1>5. CASE ~once
  <2>1. status = "err" /\ csub[l] = "off"
    BY <1>1, <1>5, Zenon DEF LoopKnows, Check
  <2>2. lpc'[l] = "exit"
    BY <2>1, Zenon DEF Check, TypeOK
  <2>3. LoopKnows(l)' /\ Live(l)'
    BY <1>5, <2>1, <2>2 DEF LoopKnows, Live, Check, ctx
  <2>. QED  BY <1>1, <1>2, <1>3, <1>5, <2>2, <2>3, LoopOnlyStep, Zenon DEF Check, OneLoop, ctx, session
<1>. QED  BY <1>4, <1>5, Zenon

LEMMA ExitStep ==
  ASSUME TypeOK, Served, NEW l \in Loop, Exit(l)
  PROVE  Served'
<1>1. LoopKnows(l) /\ Live(l) /\ OneLoop
  BY Zenon DEF Served, Exit, Live
<1>2. lpc'[l] = "done" /\ \A k \in Loop : k # l => lpc'[k] = lpc[k]
  BY Zenon DEF Exit, TypeOK
<1>3. holder' # None => lpc'[holder'] = "cancel"
  BY <1>1, <1>2, Zenon DEF OneLoop, Exit, TypeOK
<1>4. ~once
  BY <1>1, Zenon DEF LoopKnows, Exit
<1>5. LoopKnows(l)' /\ ~Live(l)'
  BY <1>2 DEF LoopKnows, Live
<1>. QED  BY <1>1, <1>2, <1>3, <1>4, <1>5, LoopOnlyStep, Zenon DEF Exit, OneLoop, session

LEMMA FailStep ==
  ASSUME TypeOK, Served, NEW l \in Loop, Fail(l)
  PROVE  Served'
<1>1. LoopKnows(l) /\ Live(l) /\ OneLoop
  BY Zenon DEF Served, Fail, Live
<1>2. lpc'[l] = "fail" /\ csub'[l] = "off" /\ \A k \in Loop : k # l => lpc'[k] = lpc[k] /\ csub'[k] = csub[k]
  BY Zenon DEF Fail, TypeOK
<1>3. LoopKnows(l)' /\ Live(l)'
  BY <1>1, <1>2 DEF LoopKnows, Live, Fail
<1>4. holder' # None => lpc'[holder'] = "cancel"
  BY <1>1, <1>2, Zenon DEF OneLoop, Fail, TypeOK
<1>. QED  BY <1>1, <1>2, <1>3, <1>4, LoopOnlyStep, Zenon DEF Fail, OneLoop, session

LEMMA CancelStep ==
  ASSUME TypeOK, Served, NEW l \in Loop, cancel(l)
  PROVE  Served'
<1>1. LoopKnows(l) /\ Live(l) /\ OneLoop
  BY Zenon DEF Served, cancel, Live
<1>2. /\ lpc'[l] = "cancel" /\ todo'[l] = subs /\ holder' = l
      /\ \A k \in Loop : k # l => lpc'[k] = lpc[k]
  BY Zenon DEF cancel, TypeOK
<1>3. LoopKnows(l)' /\ Live(l)'
  BY <1>1, <1>2 DEF LoopKnows, Live, cancel
<1>. QED  BY <1>1, <1>2, <1>3, LoopOnlyStep, Zenon DEF cancel, OneLoop, session

LEMMA CancelEndStep ==
  ASSUME TypeOK, Served, NEW l \in Loop, CancelEnd(l)
  PROVE  Served'
<1>1. LoopKnows(l) /\ Live(l) /\ OneLoop
  BY Zenon DEF Served, CancelEnd, Live
<1>2. /\ lpc'[l] = "check" /\ holder' = None /\ ~once'
      /\ \A k \in Loop : k # l => lpc'[k] = lpc[k]
  BY Zenon DEF CancelEnd, TypeOK
<1>3. subs' = {} /\ status' = "err" /\ csub'[l] = "off"
  BY <1>1, Zenon DEF LoopKnows, CancelEnd
<1>4. LoopKnows(l)' /\ Live(l)'
  BY <1>2, <1>3 DEF LoopKnows, Live
<1>. QED  BY <1>1, <1>2, <1>3, <1>4, LoopOnlyStep, Zenon DEF CancelEnd, session

LEMMA NotifyStep ==
  ASSUME TypeOK, Served, NEW l \in Loop, notify(l)
  PROVE  Served'
<1>1. LoopKnows(l) /\ Live(l) /\ OneLoop
  BY Zenon DEF Served, notify, Live
<1>2. /\ lpc'[l] = "notify" /\ todo'[l] = subs
      /\ \A k \in Loop : k # l => lpc'[k] = lpc[k]
  BY Zenon DEF notify, TypeOK
<1>3. LoopKnows(l)' /\ Live(l)'
  BY <1>1, <1>2 DEF LoopKnows, Live, notify, ctx
<1>4. holder' = None
  BY Zenon DEF notify, CanRLock, ctx
<1>. QED  BY <1>1, <1>2, <1>3, <1>4, LoopOnlyStep, Zenon DEF notify, OneLoop, ctx, session

LEMMA BreakStep ==
  ASSUME TypeOK, Served, NEW l \in Loop, Break(l)
  PROVE  Served'
<1>1. /\ csub'[l] = "err" /\ \A k \in Loop : k # l => csub'[k] = csub[k]
      /\ UNCHANGED <<kind, head, status, once, holder, subs, lpc, feed, todo, cpc, chan, errs, first, received>>
  BY Zenon DEF Break, TypeOK, ctx, session
<1>2. \A k \in Loop : (Live(k)' <=> Live(k)) /\ (csub'[k] = "on" => csub[k] = "on")
                      /\ (csub'[k] = "off" <=> csub[k] = "off")
  BY <1>1 DEF Live, Break
<1>3. OneLoop'
  BY <1>1, <1>2, Zenon DEF Served, OneLoop
<1>4. \A k \in Loop : LoopKnows(k)'
  BY <1>1, <1>2, Zenon DEF Served, LoopKnows
<1>5. \A k \in Loop : Live(k)' => FeedRuns(k)'
  BY <1>1, <1>2, Zenon DEF Served, FeedRuns
<1>6. ASSUME NEW c \in Clients
      PROVE  Registered(c)' /\ InStep(c)'
  <2>1. Registered(c) /\ InStep(c)
    BY Zenon DEF Served
  <2>2. Registered(c)'
    BY <1>1, <2>1, Zenon DEF Registered
  <2>3. Sent(c)' = Sent(c) /\ \A k \in Loop : \A n : Brought(k, c, n) => Brought(k, c, n)'
    BY <1>1, <1>2, Zenon DEF Sent, Brought
  <2>. QED  BY <1>1, <1>2, <2>1, <2>2, <2>3, InStepStays, Zenon
<1>. QED  BY <1>3, <1>4, <1>5, <1>6, Zenon DEF Served
-----------------------------------------------------------------------------
(* The items: published, brought to the clients, and taken from the feed.  *)

\* A client that is due item n + 1 and does not want it, or is sent it, has been
\* sent what it wants up to n + 1.
LEMMA SentMore ==
  ASSUME TypeOK, NEW c \in Clients, NEW n \in Nat, SentUpTo(c, n), first[c] <= n,
         kind' = kind, first'[c] = first[c],
         \/ ~Passes(c, n + 1) /\ Sent(c)' = Sent(c)
         \/ Passes(c, n + 1) /\ Sent(c)' = Append(Sent(c), n + 1)
  PROVE  SentUpTo(c, n + 1)'
<1>. DEFINE q == Sent(c)
            up == \A i, j \in DOMAIN q : i < j => q[i] < q[j]
            due(m) == {i \in first[c] + 1 .. m : Passes(c, i)}
<1>1. q \in Seq(Item) /\ q \in Seq(Nat) /\ first[c] \in Nat
  <2>1. received[c] \in Seq(Item) /\ chan[c] \in Seq(Item) /\ first[c] \in 0 .. MaxItems
    BY Zenon DEF TypeOK
  <2>2. q \in Seq(Item) /\ Item \subseteq Nat
    BY <2>1, Numbers DEF Sent
  <2>3. q \in Seq(Nat)
    BY <2>2, Widened, Zenon
  <2>4. first[c] \in Nat
    BY ONLY <2>1
  <2>. QED  BY <2>2, <2>3, <2>4, Zenon
<1>2. up /\ {q[i] : i \in DOMAIN q} = due(n)
  BY Zenon DEF SentUpTo
<1>3. \A i : Passes(c, i)' <=> Passes(c, i)
  BY Zenon DEF Passes, matchPubSubLogFilter, matchEthPubSubLogFilter
<1>4. \A m : due(m)' = due(m)
  BY <1>3, Zenon
<1>5. CASE ~Passes(c, n + 1) /\ Sent(c)' = Sent(c)
  <2>1. due(n + 1) = due(n)
    <3>1. \A i \in first[c] + 1 .. n + 1 : i # n + 1 => i \in first[c] + 1 .. n
      BY ONLY <1>1, n \in Nat
    <3>2. \A i \in first[c] + 1 .. n : i \in first[c] + 1 .. n + 1
      BY ONLY <1>1, n \in Nat
    <3>. QED  BY <1>5, <3>1, <3>2, Zenon
  <2>2. due(n + 1)' = due(n)
    BY <1>4, <2>1, Zenon
  <2>. HIDE DEF due
  <2>3. SentUpTo(c, n + 1)' <=> up /\ {q[i] : i \in DOMAIN q} = due(n + 1)'
    BY <1>5, Zenon DEF SentUpTo, due
  <2>. QED  BY <1>2, <2>2, <2>3, Zenon
<1>6. CASE Passes(c, n + 1) /\ Sent(c)' = Append(Sent(c), n + 1)
  <2>. DEFINE r == Append(q, n + 1)
  <2>1. \A x : x \in due(n + 1) <=> x \in due(n) \/ x = n + 1
    <3>1. \A i \in first[c] + 1 .. n + 1 : i # n + 1 => i \in first[c] + 1 .. n
      BY ONLY <1>1, n \in Nat
    <3>2. \A i \in first[c] + 1 .. n : i \in first[c] + 1 .. n + 1
      BY ONLY <1>1, n \in Nat
    <3>3. n + 1 \in first[c] + 1 .. n + 1
      BY <1>1
    <3>. QED  BY <1>6, <3>1, <3>2, <3>3, Zenon
  <2>2. /\ DOMAIN r = 1 .. Len(q) + 1 /\ DOMAIN q = 1 .. Len(q) /\ Len(q) \in Nat
        /\ \A i \in 1 .. Len(q) : r[i] = q[i] /\ q[i] \in Nat
        /\ r[Len(q) + 1] = n + 1
    BY ONLY <1>1, n \in Nat
  <2>3. \A i \in DOMAIN q : q[i] < n + 1
    <3>1. \A x \in due(n) : x < n + 1
      BY ONLY <1>1, n \in Nat
    <3>. QED  BY <1>2, <3>1, Zenon
  <2>. HIDE DEF q, r
  <2>4. \A i, j \in DOMAIN r : i < j => r[i] < r[j]
    BY <1>2, <2>2, <2>3
  <2>5. {r[i] : i \in DOMAIN r} = due(n + 1)
    <3>1. \A i \in DOMAIN r : r[i] \in due(n + 1)
      <4>1. \A i \in DOMAIN q : q[i] \in due(n)
        BY <1>2, Zenon
      <4>2. \A i \in DOMAIN r : (i \in DOMAIN q /\ r[i] = q[i]) \/ r[i] = n + 1
        BY ONLY <2>2
      <4>. QED  BY <2>1, <4>1, <4>2, Zenon
    <3>2. \A x \in due(n + 1) : \E i \in DOMAIN r : r[i] = x
      <4>1. \A x \in due(n) : \E i \in DOMAIN q : q[i] = x
        BY <1>2, Zenon
      <4>2. Len(q) + 1 \in DOMAIN r /\ \A i \in DOMAIN q : i \in DOMAIN r /\ r[i] = q[i]
        BY ONLY <2>2
      <4>. QED  BY <2>1, <2>2, <4>1, <4>2, Zenon
    <3>. HIDE DEF due
    <3>. QED  BY <3>1, <3>2, Zenon
  <2>6. Sent(c)' = r
    BY <1>6, Zenon DEF r, q
  <2>7. {r[i] : i \in DOMAIN r} = due(n + 1)'
    BY <1>4, <2>5, Zenon
  <2>. HIDE DEF due
  <2>8. SentUpTo(c, n + 1)' <=> (\A i, j \in DOMAIN r : i < j => r[i] < r[j]) /\ {r[i] : i \in DOMAIN r} = due(n + 1)'
    BY <2>6, Zenon DEF SentUpTo, due
  <2>. QED  BY <2>4, <2>7, <2>8, Zenon
<1>. QED  BY <1>5, <1>6, Zenon

\* Consecutive numbers up to h stay consecutive with the next one.
LEMMA RunsOn ==
  ASSUME NEW q \in Seq(Nat), NEW h \in Nat,
         \A i, j \in DOMAIN q : q[j] = q[i] + (j - i), \A i \in DOMAIN q : q[i] <= h,
         q # <<>> => q[Len(q)] = h
  PROVE  LET r == Append(q, h + 1)
         IN  /\ \A i, j \in DOMAIN r : r[j] = r[i] + (j - i)
             /\ \A i \in DOMAIN r : r[i] <= h + 1
             /\ r[Len(r)] = h + 1
<1>. DEFINE r == Append(q, h + 1)
<1>1. /\ Len(q) \in Nat /\ DOMAIN q = 1 .. Len(q) /\ DOMAIN r = 1 .. Len(q) + 1 /\ Len(r) = Len(q) + 1
      /\ \A i \in 1 .. Len(q) : r[i] = q[i] /\ q[i] \in Nat
      /\ r[Len(q) + 1] = h + 1
  BY SMTT(60)
<1>. HIDE DEF r
<1>2. ASSUME NEW i \in 1 .. Len(q)
      PROVE  h + 1 = r[i] + (Len(q) + 1 - i)
  <2>1. q # <<>> /\ Len(q) \in DOMAIN q /\ i \in DOMAIN q /\ q[i] \in Nat /\ r[i] = q[i] /\ i \in Int
    BY <1>1
  <2>2. q[Len(q)] = q[i] + (Len(q) - i) /\ q[Len(q)] = h
    BY <2>1, Zenon
  <2>. QED  BY ONLY <1>1, <2>1, <2>2, h \in Nat, SMTT(60)
<1>3. ASSUME NEW i \in DOMAIN r, NEW j \in DOMAIN r
      PROVE  r[j] = r[i] + (j - i)
  <2>1. CASE i \in 1 .. Len(q) /\ j \in 1 .. Len(q)
    <3>1. r[i] = q[i] /\ r[j] = q[j] /\ q[j] = q[i] + (j - i)
      BY <1>1, <2>1, Zenon
    <3>. QED  BY <3>1, Zenon
  <2>2. CASE i \in 1 .. Len(q) /\ j = Len(q) + 1
    <3>1. h + 1 = r[i] + (Len(q) + 1 - i)
      BY <1>2, <2>2, Zenon
    <3>2. r[j] = h + 1
      BY <1>1, <2>2, Zenon
    <3>. QED  BY ONLY <2>2, <3>1, <3>2
  <2>3. CASE i = Len(q) + 1 /\ j \in 1 .. Len(q)
    <3>1. h + 1 = r[j] + (Len(q) + 1 - j) /\ r[i] = h + 1 /\ r[j] \in Nat
      BY <1>1, <1>2, <2>3, Zenon
    <3>. QED  BY ONLY <1>1, <2>3, <3>1, SMTT(60)
  <2>4. CASE i = Len(q) + 1 /\ j = Len(q) + 1
    BY ONLY <1>1, <2>4, h \in Nat
  <2>. QED  BY ONLY <1>1, <2>1, <2>2, <2>3, <2>4, i \in DOMAIN r, j \in DOMAIN r, SMTT(60)
<1>4. \A i \in DOMAIN r : r[i] <= h + 1
  BY <1>1, SMTT(60)
<1>. QED  BY <1>1, <1>3, <1>4 DEF r

LEMMA PublishStep ==
  ASSUME TypeOK, Holding, Served, Publish
  PROVE  Served'
<1>1. /\ head' = head + 1 /\ head \in Nat /\ head + 1 \in Item
      /\ UNCHANGED <<kind, status, once, holder, subs, lpc, csub, todo, cpc, chan, errs, first, received>>
      /\ \A l \in Loop : feed'[l] = IF csub[l] = "on" THEN Append(feed[l], head + 1) ELSE feed[l]
  BY Numbers, Zenon DEF Publish, TypeOK, ctx, session
<1>2. \A l \in Loop : (Live(l)' <=> Live(l)) /\ (csub[l] # "on" => feed'[l] = feed[l])
  BY <1>1, Zenon DEF Live
<1>3. OneLoop'
  BY <1>1, <1>2, Zenon DEF Served, OneLoop
<1>4. ASSUME NEW l \in Loop
      PROVE  LoopKnows(l)'
  <2>1. LoopKnows(l) /\ (lpc[l] = "none" => feed'[l] = feed[l])
    BY <1>2 DEF Served, LoopKnows
  <2>. QED  BY <1>1, <2>1, Zenon DEF LoopKnows
<1>5. ASSUME NEW l \in Loop, csub[l] = "on"
      PROVE  feed[l] \in Seq(Nat) /\ feed'[l] = Append(feed[l], head + 1)
  <2>1. feed[l] \in Seq(Item) /\ Item \subseteq Nat /\ feed'[l] = Append(feed[l], head + 1)
    BY <1>1, <1>5, Numbers, Zenon DEF TypeOK
  <2>. QED  BY <2>1, Widened, Zenon
<1>6. ASSUME NEW l \in Loop, Live(l)'
      PROVE  FeedRuns(l)'
  <2>1. FeedRuns(l)
    BY <1>2, <1>6, Zenon DEF Served
  <2>2. CASE csub[l] # "on"
    <3>1. feed'[l] = feed[l] /\ csub'[l] = csub[l]
      BY <1>1, <1>2, <2>2, Zenon
    <3>2. \A i \in DOMAIN feed[l] : feed[l][i] <= head + 1
      <4>1. feed[l] \in Seq(Item) /\ Item \subseteq Nat
        BY Numbers, Zenon DEF TypeOK
      <4>2. feed[l] \in Seq(Nat)
        BY <4>1, Widened, Zenon
      <4>3. \A i \in DOMAIN feed[l] : feed[l][i] <= head
        BY <2>1, Zenon DEF FeedRuns
      <4>. QED  BY ONLY <1>1, <4>2, <4>3
    <3>. QED  BY <1>1, <2>1, <2>2, <3>1, <3>2, Zenon DEF FeedRuns
  <2>3. CASE csub[l] = "on"
    <3>1. /\ \A i, j \in DOMAIN feed[l] : feed[l][j] = feed[l][i] + (j - i)
          /\ \A i \in DOMAIN feed[l] : feed[l][i] <= head
          /\ feed[l] # <<>> => feed[l][Len(feed[l])] = head
      BY <2>1, <2>3, Zenon DEF FeedRuns
    <3>2. feed[l] \in Seq(Nat) /\ feed'[l] = Append(feed[l], head + 1)
      BY <1>5, <2>3, Zenon
    <3>3. /\ \A i, j \in DOMAIN feed'[l] : feed'[l][j] = feed'[l][i] + (j - i)
          /\ \A i \in DOMAIN feed'[l] : feed'[l][i] <= head'
          /\ feed'[l][Len(feed'[l])] = head'
      <4>. DEFINE r == Append(feed[l], head + 1)
      <4>1. head \in Nat /\ head' = head + 1 /\ feed'[l] = r
        BY <1>1, <3>2, Zenon
      <4>2. /\ \A i, j \in DOMAIN r : r[j] = r[i] + (j - i)
            /\ \A i \in DOMAIN r : r[i] <= head + 1
            /\ r[Len(r)] = head + 1
        BY ONLY <3>1, <3>2, <4>1, RunsOn, Zenon
      <4>. HIDE DEF r
      <4>. QED  BY <4>1, <4>2, Zenon
    <3>. QED  BY <3>3, Zenon DEF FeedRuns
  <2>. QED  BY <2>2, <2>3, Zenon
<1>7. ASSUME NEW c \in Clients
      PROVE  Registered(c)' /\ InStep(c)'
  <2>1. Registered(c)'
    BY <1>1, Zenon DEF Registered, Served
  <2>2. ASSUME cpc[c] = "run", errs[c] = 0
        PROVE  InStep(c)'
    <3>1. PICK n \in first[c] .. head : SentUpTo(c, n) /\ \A l \in Loop : Live(l) => Brought(l, c, n)
      BY <2>2, Zenon DEF InStep, Served
    <3>2. SentUpTo(c, n)'
      <4>1. Sent(c)' = Sent(c)
        BY <1>1, Zenon DEF Sent
      <4>. QED  BY <1>1, <3>1, <4>1, SentStays, Zenon
    <3>3. n \in first'[c] .. head'
      <4>1. first[c] \in 0 .. MaxItems
        BY Zenon DEF TypeOK
      <4>. QED  BY ONLY <1>1, <4>1, n \in first[c] .. head
    <3>4. ASSUME NEW l \in Loop, Live(l)'
          PROVE  Brought(l, c, n)'
      <4>1. Brought(l, c, n)
        BY <1>2, <3>1, <3>4, Zenon
      <4>2. CASE csub[l] # "on"
        BY <1>1, <1>2, <4>1, <4>2, Zenon DEF Brought
      <4>3. CASE csub[l] = "on" /\ feed[l] # <<>>
        <5>1. feed[l] \in Seq(Nat) /\ feed'[l] = Append(feed[l], head + 1)
          BY <1>5, <4>3, Zenon
        <5>2. feed'[l][1] = feed[l][1] /\ feed'[l] # <<>>
          BY ONLY <1>1, <4>3, <5>1, SMTT(60)
        <5>. QED  BY <1>1, <4>1, <4>3, <5>2, Zenon DEF Brought
      <4>4. CASE csub[l] = "on" /\ feed[l] = <<>>
        <5>1. feed'[l][1] = head + 1 /\ feed'[l] # <<>>
          <6>1. feed'[l] = Append(feed[l], head + 1)
            BY <1>5, <4>4, Zenon
          <6>. QED  BY ONLY <1>1, <4>4, <6>1
        <5>2. n = head /\ n = feed'[l][1] - 1
          <6>1. n = head
            BY <4>1, <4>4, Zenon DEF Brought
          <6>. QED  BY ONLY <1>1, <5>1, <6>1
        <5>3. lpc'[l] # "notify"
          BY <1>1, <4>4, Zenon DEF Holding
        <5>. QED  BY <5>1, <5>2, <5>3, Zenon DEF Brought
      <4>. QED  BY <4>2, <4>3, <4>4, Zenon
    <3>. QED  BY <3>2, <3>3, <3>4, Zenon DEF InStep
  <2>. QED  BY <1>1, <2>1, <2>2, Zenon DEF InStep
<1>. QED  BY <1>3, <1>4, <1>6, <1>7, Zenon DEF Served

\* The items a run loop brings: what the client at hand has, the others keep.
LEMMA BringStep ==
  ASSUME TypeOK, Holding, Served, NEW l \in Loop, NEW c \in Clients, lpc[l] = "notify", c \in todo[l],
         todo' = [todo EXCEPT ![l] = @ \ {c}],
         UNCHANGED <<kind, head, status, once, holder, subs, lpc, csub, feed, cpc, first, received>>,
         \A d \in Clients : d # c => chan'[d] = chan[d] /\ errs'[d] = errs[d],
         InStep(c)', errs'[c] = 0 => errs[c] = 0
  PROVE  Served'
<1>1. LoopKnows(l) /\ Live(l) /\ OneLoop /\ FeedRuns(l)
  BY Zenon DEF Served, Live
<1>2. todo'[l] = todo[l] \ {c}
  BY Zenon DEF TypeOK
<1>3. LoopKnows(l)' /\ FeedRuns(l)' /\ Live(l)'
  BY <1>1, <1>2, Zenon DEF LoopKnows, FeedRuns, Live
<1>4. ASSUME NEW d \in Clients
      PROVE  Registered(d)' /\ InStep(d)'
  <2>1. Registered(d) /\ InStep(d)
    BY Zenon DEF Served
  <2>2. CASE d = c
    <3>1. c \in subs
      BY <1>1, Zenon DEF LoopKnows
    <3>2. cpc[c] \in {"run", "leaving"}
      BY <2>1, <2>2, <3>1, Zenon DEF Registered
    <3>3. Registered(c)'
      BY <3>1, <3>2 DEF Registered
    <3>. QED  BY <2>2, <3>3, Zenon
  <2>3. CASE d # c
    <3>1. \A k \in Loop : Live(k)' => k = l
      BY <1>1, Zenon DEF OneLoop, Live
    <3>2. \A n : Brought(l, d, n) => Brought(l, d, n)'
      BY <1>2, <2>3, Zenon DEF Brought
    <3>3. Sent(d)' = Sent(d) /\ Registered(d)'
      BY <2>1, <2>3, Zenon DEF Sent, Registered
    <3>. QED  BY <1>1, <2>1, <2>3, <3>1, <3>2, <3>3, InStepStays, Zenon
  <2>. QED  BY <2>2, <2>3, Zenon
<1>. QED  BY <1>1, <1>3, <1>4, LoopStep, Zenon DEF OneLoop

LEMMA DeliverStep ==
  ASSUME TypeOK, Holding, Served, NEW l \in Loop, NEW c \in Clients, deliver(l, c)
  PROVE  Served'
<1>1. /\ lpc[l] = "notify" /\ c \in todo[l] /\ todo' = [todo EXCEPT ![l] = @ \ {c}]
      /\ UNCHANGED <<kind, head, status, once, holder, subs, lpc, csub, feed, cpc, first, received, errs>>
  BY Zenon DEF deliver, ctx
<1>2. \A d \in Clients : d # c => chan'[d] = chan[d]
  BY Zenon DEF deliver, TypeOK
<1>3. feed[l] # <<>> /\ feed[l] \in Seq(Item) /\ Live(l) /\ OneLoop /\ FeedRuns(l)
  BY <1>1, Zenon DEF Holding, TypeOK, Served, Live
<1>4. PICK x \in Item : x = Head(feed[l]) /\ x = feed[l][1] /\ x \in Nat \ {0} /\ x <= head /\ head \in Nat
  <2>1. Head(feed[l]) = feed[l][1] /\ feed[l][1] \in Item /\ 1 \in DOMAIN feed[l]
    BY ONLY <1>3
  <2>. QED  BY <1>3, <2>1, Numbers, Zenon DEF FeedRuns, TypeOK
<1>5. ASSUME cpc[c] = "run", errs[c] = 0
      PROVE  InStep(c)'
  <2>1. PICK n \in first[c] .. head : SentUpTo(c, n) /\ Brought(l, c, n)
    BY <1>3, <1>5, Zenon DEF InStep, Served
  <2>2. n = x - 1
    BY <1>1, <1>3, <1>4, <2>1, Zenon DEF Brought
  <2>3. n \in Nat /\ n + 1 = x /\ first[c] <= n /\ x \in first[c] .. head
    <3>1. first[c] \in 0 .. MaxItems
      BY Zenon DEF TypeOK
    <3>. QED  BY ONLY <1>4, <2>2, <3>1, n \in first[c] .. head
  <2>4. \/ ~Passes(c, x) /\ Sent(c)' = Sent(c)
        \/ Passes(c, x) /\ Sent(c)' = Append(Sent(c), x)
    <3>1. CASE ~Passes(c, x)
      BY <1>1, <1>4, <3>1, Zenon DEF deliver, Sent
    <3>2. CASE Passes(c, x)
      <4>1. chan'[c] = Append(chan[c], x) /\ chan[c] \in Seq(Item) /\ received[c] \in Seq(Item)
        BY <1>4, <3>2, ZenonT(60) DEF deliver, TypeOK
      <4>2. received[c] \o Append(chan[c], x) = Append(received[c] \o chan[c], x)
        <5>. DEFINE a == received[c]
                    b == chan[c]
        <5>1. a \in Seq(Item) /\ b \in Seq(Item)
          BY <4>1, Zenon
        <5>. HIDE DEF a, b
        <5>2. a \o Append(b, x) = Append(a \o b, x)
          BY <5>1
        <5>. QED  BY <5>2, Zenon DEF a, b
      <4>. QED  BY <1>1, <3>2, <4>1, <4>2, Zenon DEF Sent
    <3>. QED  BY <3>1, <3>2, Zenon
  <2>5. SentUpTo(c, x)'
    <3>1. SentUpTo(c, n + 1)'
      BY <1>1, <2>1, <2>3, <2>4, SentMore, Zenon
    <3>. QED  BY <2>3, <3>1, Zenon
  <2>6. ASSUME NEW k \in Loop, Live(k)'
        PROVE  Brought(k, c, x)'
    <3>1. k = l
      BY <1>1, <1>3, <2>6, Zenon DEF OneLoop, Live
    <3>2. todo'[l] = todo[l] \ {c}
      BY <1>1, Zenon DEF TypeOK
    <3>. QED  BY <1>1, <1>3, <1>4, <3>1, <3>2, Zenon DEF Brought
  <2>7. x \in first'[c] .. head'
    BY <1>1, <2>3, Zenon
  <2>. QED  BY <2>5, <2>6, <2>7, Zenon DEF InStep
<1>6. InStep(c)'
  BY <1>1, <1>5, Zenon DEF InStep
<1>. QED  BY <1>1, <1>2, <1>6, BringStep, Zenon

LEMMA OverflowStep ==
  ASSUME TypeOK, Holding, Served, NEW l \in Loop, NEW c \in Clients, Overflow(l, c)
  PROVE  Served'
<1>1. /\ lpc[l] = "notify" /\ c \in todo[l] /\ todo' = [todo EXCEPT ![l] = @ \ {c}]
      /\ UNCHANGED <<kind, head, status, once, holder, subs, lpc, csub, feed, cpc, first, received, chan>>
      /\ errs'[c] = 1 /\ \A d \in Clients : d # c => errs'[d] = errs[d]
  BY Zenon DEF Overflow, ctx, TypeOK
<1>2. errs'[c] # 0
  BY ONLY <1>1
<1>3. InStep(c)'
  BY <1>2, Zenon DEF InStep
<1>. QED  BY <1>1, <1>2, <1>3, BringStep, Zenon

\* The item that every registered client has been brought leaves the feed.
LEMMA NotifiedStep ==
  ASSUME TypeOK, Holding, Served, NEW l \in Loop, Notified(l)
  PROVE  Served'
<1>1. /\ lpc[l] = "notify" /\ todo[l] = {}
      /\ UNCHANGED <<kind, head, status, once, holder, subs, csub, todo, cpc, chan, errs, first, received>>
      /\ feed'[l] = Tail(feed[l]) /\ lpc'[l] = "check"
      /\ \A k \in Loop : k # l => lpc'[k] = lpc[k] /\ feed'[k] = feed[k]
  BY Zenon DEF Notified, TypeOK, ctx, session
<1>2. LoopKnows(l) /\ Live(l) /\ OneLoop /\ FeedRuns(l)
  BY <1>1, Zenon DEF Served, Live
<1>3. feed[l] # <<>> /\ feed[l] \in Seq(Item) /\ feed[l] \in Seq(Nat) /\ head \in Nat
  BY <1>1, Numbers, Widened, Zenon DEF Holding, TypeOK
<1>4. LoopKnows(l)' /\ Live(l)'
  BY <1>1, <1>2 DEF LoopKnows, Live
<1>5. /\ \A i, j \in DOMAIN feed[l] : feed[l][j] = feed[l][i] + (j - i)
      /\ \A i \in DOMAIN feed[l] : feed[l][i] <= head
      /\ csub[l] = "on" => feed[l][Len(feed[l])] = head
  BY <1>2, <1>3, Zenon DEF FeedRuns
<1>. DEFINE q == feed[l]
            r == feed'[l]
<1>6. /\ Len(q) \in Nat \ {0} /\ DOMAIN q = 1 .. Len(q) /\ \A i \in DOMAIN q : q[i] \in Nat
      /\ DOMAIN r = 1 .. Len(q) - 1 /\ Len(r) = Len(q) - 1 /\ \A i \in DOMAIN r : r[i] = q[i + 1]
      /\ (r = <<>> <=> Len(q) = 1)
  <2>1. q \in Seq(Nat) /\ q # <<>> /\ r = Tail(q)
    BY <1>1, <1>3, Zenon
  <2>2. r \in Seq(Nat) /\ Len(r) = Len(q) - 1 /\ Len(q) \in Nat \ {0}
    BY <2>1, Shortened, ZenonT(60)
  <2>. HIDE DEF q, r
  <2>3. r = <<>> <=> Len(q) = 1
    BY <2>1, Shortened, Zenon
  <2>4. DOMAIN q = 1 .. Len(q) /\ \A i \in DOMAIN q : q[i] \in Nat
    BY ONLY <2>1
  <2>5. DOMAIN r = 1 .. Len(q) - 1 /\ \A i \in DOMAIN r : r[i] = q[i + 1]
    BY <2>1, Shortened, Zenon
  <2>. QED  BY <2>2, <2>3, <2>4, <2>5, Zenon
<1>7. FeedRuns(l)'
  <2>. HIDE DEF q, r
  <2>1. ASSUME NEW i \in DOMAIN r, NEW j \in DOMAIN r
        PROVE  r[j] = r[i] + (j - i)
    <3>1. i + 1 \in DOMAIN q /\ j + 1 \in DOMAIN q /\ i \in Int /\ j \in Int /\ (j + 1) - (i + 1) = j - i
      BY ONLY <1>6, <2>1, SMTT(60)
    <3>2. q[j + 1] = q[i + 1] + ((j + 1) - (i + 1))
      BY <1>5, <3>1, Zenon DEF q
    <3>. QED  BY <1>6, <3>1, <3>2, Zenon
  <2>2. \A i \in DOMAIN r : r[i] <= head
    <3>1. \A i \in DOMAIN r : i + 1 \in DOMAIN q /\ r[i] = q[i + 1]
      BY ONLY <1>6
    <3>. QED  BY <1>5, <3>1, Zenon DEF q
  <2>3. csub[l] = "on" /\ r # <<>> => r[Len(r)] = head
    <3>1. r # <<>> => Len(r) \in DOMAIN r /\ Len(r) + 1 = Len(q) /\ r[Len(r)] = q[Len(q)]
      BY ONLY <1>6
    <3>. QED  BY <1>5, <3>1, Zenon DEF q
  <2>4. csub'[l] = csub[l] /\ head' = head
    BY <1>1, Zenon
  <2>. QED  BY <2>1, <2>2, <2>3, <2>4, Zenon DEF FeedRuns, r
<1>8. r # <<>> => r[1] = q[1] + 1 /\ q[1] = r[1] - 1
  <2>. HIDE DEF q, r
  <2>1. r # <<>> => r[1] = q[2] /\ 1 \in DOMAIN q /\ 2 \in DOMAIN q /\ q[1] \in Nat
    BY ONLY <1>6
  <2>2. r # <<>> => q[2] = q[1] + (2 - 1)
    BY <1>5, <2>1, Zenon DEF q
  <2>. QED  BY ONLY <2>1, <2>2
<1>9. csub[l] = "on" /\ r = <<>> => q[1] = head
  BY <1>5, <1>6, Zenon
<1>10. ASSUME NEW c \in Clients
       PROVE  Registered(c)' /\ InStep(c)'
  <2>1. Registered(c) /\ InStep(c)
    BY Zenon DEF Served
  <2>2. Registered(c)'
    BY <1>1, <2>1, Zenon DEF Registered
  <2>3. \A k \in Loop : Live(k)' => k = l
    BY <1>1, <1>2, Zenon DEF OneLoop, Live
  <2>4. ASSUME NEW n, Brought(l, c, n)
        PROVE  Brought(l, c, n)'
    <3>1. n = q[1]
      BY <1>1, <1>3, <2>4, Zenon DEF Brought
    <3>. QED  BY <1>1, <1>8, <1>9, <3>1, Zenon DEF Brought
  <2>5. Sent(c)' = Sent(c)
    BY <1>1, Zenon DEF Sent
  <2>. QED  BY <1>1, <1>2, <2>1, <2>2, <2>3, <2>4, <2>5, InStepStays, Zenon
<1>11. holder' # None => lpc'[holder'] = "cancel"
  BY <1>1, <1>2, Zenon DEF OneLoop, TypeOK
<1>. QED  BY <1>1, <1>2, <1>4, <1>7, <1>10, <1>11, LoopStep, Zenon DEF OneLoop

\* A client that is cancelled has an error on its way.
LEMMA CancelOneStep ==
  ASSUME TypeOK, Served, NEW l \in Loop, NEW c \in Clients, CancelOne(l, c)
  PROVE  Served'
<1>1. /\ lpc[l] = "cancel" /\ c \in todo[l] /\ todo'[l] = todo[l] \ {c} /\ subs' = subs \ {c}
      /\ UNCHANGED <<kind, head, status, once, holder, lpc, csub, feed, cpc, first, received, chan>>
      /\ errs'[c] = 1 /\ \A d \in Clients : d # c => errs'[d] = errs[d]
  BY Zenon DEF CancelOne, TypeOK
<1>2. LoopKnows(l) /\ Live(l) /\ OneLoop /\ FeedRuns(l)
  BY <1>1, Zenon DEF Served, Live
<1>3. LoopKnows(l)' /\ FeedRuns(l)' /\ Live(l)'
  BY <1>1, <1>2 DEF LoopKnows, FeedRuns, Live
<1>4. errs'[c] # 0
  BY ONLY <1>1
<1>5. ASSUME NEW d \in Clients
      PROVE  Registered(d)' /\ InStep(d)'
  <2>1. Registered(d) /\ InStep(d)
    BY Zenon DEF Served
  <2>2. CASE d = c
    <3>1. c \in subs
      BY <1>1, <1>2, Zenon DEF LoopKnows
    <3>2. cpc[c] \in {"run", "leaving"}
      BY <2>1, <2>2, <3>1, Zenon DEF Registered
    <3>3. Registered(c)' /\ InStep(c)'
      BY <1>1, <1>4, <3>2 DEF Registered, InStep
    <3>. QED  BY <2>2, <3>3, Zenon
  <2>3. CASE d # c
    <3>1. \A k \in Loop : Live(k)' => k = l
      BY <1>1, <1>2, Zenon DEF OneLoop, Live
    <3>2. \A n : Brought(l, d, n) => Brought(l, d, n)'
      BY <1>1 DEF Brought
    <3>3. Sent(d)' = Sent(d) /\ Registered(d)'
      BY <1>1, <2>1, <2>3, Zenon DEF Sent, Registered
    <3>. QED  BY <1>1, <1>2, <2>1, <2>3, <3>1, <3>2, <3>3, InStepStays, Zenon
  <2>. QED  BY <2>2, <2>3, Zenon
<1>6. once' /\ (holder' # None => lpc'[holder'] = "cancel")
  BY <1>1, <1>2, Zenon DEF OneLoop, LoopKnows
<1>. QED  BY <1>1, <1>2, <1>3, <1>5, <1>6, LoopStep, Zenon
-----------------------------------------------------------------------------
(* The steps of the clients.                                               *)

\* A step that moves client c and leaves the run loops alone.
LEMMA ClientStep ==
  ASSUME TypeOK, Served, NEW c \in Clients,
         UNCHANGED <<kind, head, status, once, holder, lpc, csub, feed, todo>>,
         \A d \in Clients : d # c =>
           /\ cpc'[d] = cpc[d] /\ chan'[d] = chan[d] /\ errs'[d] = errs[d]
           /\ first'[d] = first[d] /\ received'[d] = received[d] /\ (d \in subs' <=> d \in subs),
         subs' = subs \/ ((\A l \in Loop : lpc[l] \notin {"notify", "cancel"}) /\ (once \/ subs' = {})),
         Registered(c)', InStep(c)'
  PROVE  Served'
<1>1. \A l \in Loop : Live(l)' <=> Live(l)
  BY Zenon DEF Live
<1>2. OneLoop'
  BY <1>1, Zenon DEF Served, OneLoop
<1>3. ASSUME NEW l \in Loop
      PROVE  LoopKnows(l)'
  <2>1. LoopKnows(l)
    BY Zenon DEF Served
  <2>2. CASE subs' = subs
    BY <2>1, <2>2, Zenon DEF LoopKnows
  <2>3. CASE subs' # subs
    <3>1. lpc'[l] \notin {"notify", "cancel"}
      BY <2>3, Zenon
    <3>. QED  BY <2>1, <3>1, Zenon DEF LoopKnows
  <2>. QED  BY <2>2, <2>3, Zenon
<1>4. \A l \in Loop : Live(l)' => FeedRuns(l)'
  BY <1>1, ZenonT(60) DEF Served, FeedRuns
<1>5. ASSUME NEW d \in Clients
      PROVE  Registered(d)' /\ InStep(d)'
  <2>1. CASE d = c
    BY <2>1, Zenon
  <2>2. CASE d # c
    <3>1. Registered(d) /\ InStep(d)
      BY Zenon DEF Served
    <3>2. Registered(d)' /\ Sent(d)' = Sent(d)
      BY <2>2, <3>1, Zenon DEF Registered, Sent
    <3>3. \A l \in Loop : \A n : Brought(l, d, n) => Brought(l, d, n)'
      BY Zenon DEF Brought
    <3>. QED  BY <1>1, <2>2, <3>1, <3>2, <3>3, InStepStays, Zenon
  <2>. QED  BY <2>1, <2>2, Zenon
<1>. QED  BY <1>2, <1>3, <1>4, <1>5, Zenon DEF Served

\* A client that is not being notified, or has an error on its way, needs nothing.
LEMMA SubscribeStep ==
  ASSUME TypeOK, Served, NEW c \in Clients,
         delegateSubscribe(c) \/ proxySubscribeFails(c) \/ TakeErr(c) \/ Disconnect(c)
  PROVE  Served'
<1>1. /\ UNCHANGED <<kind, head, status, once, holder, subs, lpc, csub, feed, todo, chan, first, received>>
      /\ \A d \in Clients : d # c => cpc'[d] = cpc[d] /\ errs'[d] = errs[d]
  BY Zenon DEF delegateSubscribe, proxySubscribeFails, TakeErr, Disconnect, TypeOK, ctx, loops
<1>2. \/ cpc[c] \in {"none", "checked"} /\ cpc'[c] \in {"none", "checked"} /\ errs' = errs
      \/ cpc[c] = "run" /\ cpc'[c] = "leaving"
  BY Zenon DEF delegateSubscribe, proxySubscribeFails, TakeErr, Disconnect, TypeOK
<1>3. Registered(c)
  BY Zenon DEF Served
<1>4. Registered(c)' /\ InStep(c)'
  <2>1. CASE cpc[c] \in {"none", "checked"} /\ cpc'[c] \in {"none", "checked"} /\ errs' = errs
    <3>1. cpc'[c] # "run" /\ c \notin subs
      BY <1>3, <2>1 DEF Registered
    <3>. QED  BY <1>1, <1>3, <2>1, <3>1, Zenon DEF Registered, InStep
  <2>2. CASE cpc[c] = "run" /\ cpc'[c] = "leaving"
    BY <1>1, <2>2 DEF Registered, InStep
  <2>. QED  BY <1>2, <2>1, <2>2, Zenon
<1>. QED  BY <1>1, <1>4, ClientStep, Zenon

LEMMA ForwardStep ==
  ASSUME TypeOK, Served, NEW c \in Clients, Forward(c)
  PROVE  Served'
<1>1. /\ UNCHANGED <<kind, head, status, once, holder, subs, lpc, csub, feed, todo, cpc, errs, first>>
      /\ \A d \in Clients : d # c => chan'[d] = chan[d] /\ received'[d] = received[d]
      /\ cpc[c] = "run" /\ chan[c] # <<>>
      /\ received'[c] = Append(received[c], Head(chan[c])) /\ chan'[c] = Tail(chan[c])
  BY Zenon DEF Forward, TypeOK, ctx, loops
<1>2. Sent(c)' = Sent(c)
  <2>. DEFINE a == received[c]
              b == chan[c]
  <2>1. a \in Seq(Item) /\ b \in Seq(Item) /\ b # <<>>
    BY <1>1, Zenon DEF TypeOK
  <2>. HIDE DEF a, b
  <2>2. Append(a, Head(b)) \o Tail(b) = a \o b
    BY <2>1, SMTT(60)
  <2>. QED  BY <1>1, <2>2, Zenon DEF a, b, Sent
<1>3. Registered(c) /\ InStep(c)
  BY Zenon DEF Served
<1>4. Registered(c)'
  BY <1>1, <1>3 DEF Registered
<1>5. InStep(c)'
  <2>1. \A l \in Loop : Live(l)' => Live(l)
    BY <1>1, Zenon DEF Live
  <2>2. \A l \in Loop : \A n : Brought(l, c, n) => Brought(l, c, n)'
    BY <1>1, Zenon DEF Brought
  <2>. QED  BY <1>1, <1>2, <1>3, <2>1, <2>2, InStepStays, Zenon
<1>. QED  BY <1>1, <1>4, <1>5, ClientStep, Zenon

LEMMA UnsubscribeStep ==
  ASSUME TypeOK, Served, NEW c \in Clients, unsubscribe(c)
  PROVE  Served'
<1>1. /\ UNCHANGED <<kind, head, status, once, holder, lpc, csub, feed, todo, first, received>>
      /\ \A d \in Clients : d # c => cpc'[d] = cpc[d] /\ chan'[d] = chan[d] /\ errs'[d] = errs[d]
      /\ cpc'[c] = "gone" /\ subs' = subs \ {c}
  BY Zenon DEF unsubscribe, TypeOK, loops
<1>2. Registered(c)' /\ InStep(c)'
  BY <1>1 DEF Registered, InStep
<1>3. \A l \in Loop : lpc[l] \notin {"notify", "cancel"}
  <2>1. \A l \in Loop : lpc[l] # "notify" /\ holder = None /\ LoopKnows(l)
    BY Zenon DEF unsubscribe, CanLock, Reading, Served
  <2>. QED  BY <2>1, Numbers, Zenon DEF LoopKnows
<1>4. once \/ subs' = {}
  BY <1>1, Zenon DEF Served, OneLoop
<1>. QED  BY <1>1, <1>2, <1>3, <1>4, ClientStep, Zenon

\* With no run loop but l alive, a client that registers is due what l has not
\* notified yet; with none, what is published from then on.
LEMMA UnsentIs ==
  ASSUME TypeOK, NEW l \in Loop, lpc[l] # "done",
         \A k \in Loop : k # l /\ lpc[k] # "done" => feed[k] = <<>>
  PROVE  Unsent = IF feed[l] # <<>> THEN feed[l][1] - 1 ELSE head
<1>. DEFINE S == {k \in Loop : lpc[k] # "done" /\ feed[k] # <<>>}
            ready == {Head(feed[k]) - 1 : k \in S}
<1>1. CASE feed[l] = <<>>
  <2>1. S = {}
    BY <1>1, Zenon
  <2>2. ready = {}
    BY <2>1, Zenon
  <2>. QED  BY <1>1, <2>2, Zenon DEF Unsent
<1>2. CASE feed[l] # <<>>
  <2>1. S = {l}
    BY <1>2, Zenon
  <2>. DEFINE m == Head(feed[l]) - 1
  <2>2. ready = {m}
    BY <2>1, Zenon
  <2>3. m = feed[l][1] - 1 /\ m \in Int
    <3>1. feed[l] \in Seq(Item) /\ Item \subseteq Nat
      BY Numbers, Zenon DEF TypeOK
    <3>2. Head(feed[l]) = feed[l][1] /\ feed[l][1] \in Item
      BY ONLY <1>2, <3>1
    <3>3. feed[l][1] \in Nat
      BY <3>1, <3>2, Zenon
    <3>. QED  BY ONLY <3>2, <3>3
  <2>4. Unsent = CHOOSE i \in ready : \A j \in ready : i <= j
    BY <2>2, Zenon DEF Unsent
  <2>. HIDE DEF m, ready
  <2>5. m <= m
    BY <2>3
  <2>6. (CHOOSE i \in ready : \A j \in ready : i <= j) = m
    BY <2>2, <2>5, Zenon
  <2>. QED  BY <1>2, <2>3, <2>4, <2>6, Zenon
<1>. QED  BY <1>1, <1>2, Zenon

\* A client that registers has been sent what it is due so far: nothing.
LEMMA JoinedSent ==
  ASSUME NEW c \in Clients, TypeOK, Registered(c), cpc[c] = "checked", NEW u \in Int, first'[c] = u,
         UNCHANGED <<chan, received>>
  PROVE  SentUpTo(c, u)'
<1>1. received'[c] \o chan'[c] = <<>>
  <2>1. received'[c] = <<>> /\ chan'[c] = <<>>
    BY DEF Registered
  <2>. QED  BY ONLY <2>1
<1>2. Sent(c)' = <<>>
  BY <1>1, Zenon DEF Sent
<1>3. DOMAIN <<>> = {} /\ u + 1 .. u = {}
  OBVIOUS
<1>. QED  BY <1>2, <1>3, Zenon DEF SentUpTo

LEMMA RegisterStep ==
  ASSUME TypeOK, Served, NEW c \in Clients, registerDelegateSub(c), ~raced'
  PROVE  Served'
<1>1. /\ UNCHANGED <<kind, head, status, once, holder, lpc, csub, feed, todo, chan, errs, received>>
      /\ cpc[c] = "checked" /\ cpc'[c] = "run" /\ subs' = subs \cup {c} /\ first'[c] = Unsent /\ once
      /\ \A d \in Clients : d # c => cpc'[d] = cpc[d] /\ first'[d] = first[d]
      /\ \A l \in Loop : Live(l) => csub[l] # "off"
  BY Zenon DEF registerDelegateSub, Join, TypeOK, loops, Live
<1>2. \A l \in Loop : lpc[l] \notin {"notify", "cancel"}
  <2>1. \A l \in Loop : lpc[l] # "notify" /\ holder = None /\ LoopKnows(l)
    BY Zenon DEF registerDelegateSub, CanLock, Reading, Served
  <2>. QED  BY <2>1, Numbers, Zenon DEF LoopKnows
<1>3. PICK l \in Loop : Live(l) /\ \A k \in Loop : Live(k) => k = l
  BY <1>1, Zenon DEF Served, OneLoop
<1>4. FeedRuns(l)
  BY <1>3, Zenon DEF Served
<1>5. Unsent = IF feed[l] # <<>> THEN feed[l][1] - 1 ELSE head
  <2>1. \A k \in Loop : k # l /\ lpc[k] # "done" => feed[k] = <<>>
    BY <1>3, Zenon DEF Served, LoopKnows, Live
  <2>2. lpc[l] # "done"
    BY <1>3, Zenon DEF Live
  <2>. QED  BY <2>1, <2>2, UnsentIs, Zenon
<1>6. PICK u \in 0 .. MaxItems : u = Unsent /\ u <= head
  <2>1. Unsent \in 0 .. MaxItems /\ head \in Nat /\ feed[l] \in Seq(Item) /\ Item \subseteq Nat
    BY UnsentType, Numbers, Zenon DEF TypeOK
  <2>2. feed[l] # <<>> => feed[l][1] <= head /\ feed[l][1] \in Item
    <3>1. feed[l] # <<>> => 1 \in DOMAIN feed[l] /\ feed[l][1] \in Item
      BY ONLY <2>1
    <3>. QED  BY <1>4, <3>1, Zenon DEF FeedRuns
  <2>3. feed[l] # <<>> => feed[l][1] \in Nat
    BY <2>1, <2>2, Zenon
  <2>4. Unsent <= head
    BY ONLY <1>5, <2>1, <2>2, <2>3, SMTT(60)
  <2>. QED  BY <2>1, <2>4, Zenon
<1>7. Registered(c) /\ errs[c] = 0
  BY <1>1, SMTT(60) DEF Served, Registered
<1>8. Registered(c)'
  BY <1>1 DEF Registered
<1>9. InStep(c)'
  <2>1. u \in Int /\ u \in first'[c] .. head'
    <3>1. u \in 0 .. MaxItems /\ u <= head /\ head \in 0 .. MaxItems /\ first'[c] = u /\ head' = head
      BY <1>1, <1>6, Zenon DEF TypeOK
    <3>. QED  BY ONLY <3>1
  <2>2. SentUpTo(c, u)'
    BY <1>1, <1>6, <1>7, <2>1, JoinedSent, Zenon
  <2>3. ASSUME NEW k \in Loop, Live(k)'
        PROVE  Brought(k, c, u)'
    <3>1. k = l
      BY <1>1, <1>3, <2>3, Zenon DEF Live
    <3>. QED  BY <1>1, <1>2, <1>5, <1>6, <3>1, Zenon DEF Brought
  <2>. QED  BY <2>1, <2>2, <2>3, Zenon DEF InStep
<1>. QED  BY <1>1, <1>2, <1>8, <1>9, ClientStep, Zenon

LEMMA RunLoopStep ==
  ASSUME TypeOK, Served, NEW c \in Clients, RunLoop(c), ~raced'
  PROVE  Served'
<1>1. /\ UNCHANGED <<kind, head, status, holder, feed, todo, chan, errs, received>>
      /\ cpc[c] = "checked" /\ cpc'[c] = "run" /\ subs' = subs \cup {c} /\ first'[c] = Unsent
      /\ ~once /\ once' /\ holder = None
      /\ \A d \in Clients : d # c => cpc'[d] = cpc[d] /\ first'[d] = first[d]
      /\ \A l \in Loop : Live(l) => csub[l] # "off"
  BY ZenonT(60) DEF RunLoop, Join, TypeOK, Live, CanLock
<1>2. PICK l \in Loop : lpc[l] = "none" /\ lpc' = [lpc EXCEPT ![l] = "start"] /\ csub' = [csub EXCEPT ![l] = "on"]
  BY Zenon DEF RunLoop
<1>3. /\ lpc'[l] = "start" /\ csub'[l] = "on"
      /\ \A k \in Loop : k # l => lpc'[k] = lpc[k] /\ csub'[k] = csub[k]
  BY <1>2, Zenon DEF TypeOK
<1>4. \A k \in Loop : LoopKnows(k) /\ ~Live(k)
  <2>1. \A k \in Loop : LoopKnows(k)
    BY Zenon DEF Served
  <2>2. ASSUME NEW k \in Loop, Live(k)
        PROVE  FALSE
    <3>1. lpc[k] \in {"start", "check", "select", "notify", "fail", "cancel", "exit"}
      BY <2>2, Zenon DEF Live, TypeOK
    <3>2. lpc[k] \in {"check", "exit"}
      BY <1>1, <2>1, <3>1, Zenon DEF LoopKnows
    <3>. QED  BY <1>1, <2>1, <2>2, <3>2, Zenon DEF LoopKnows
  <2>. QED  BY <2>1, <2>2, Zenon
<1>5. subs = {}
  BY <1>1, Zenon DEF Served, OneLoop
<1>6. Live(l)' /\ \A k \in Loop : k # l => ~Live(k)'
  BY <1>3, <1>4 DEF Live
<1>7. OneLoop'
  BY <1>1, <1>6, Zenon DEF OneLoop
<1>8. feed[l] = <<>>
  BY <1>2, <1>4, Zenon DEF LoopKnows
<1>9. ASSUME NEW k \in Loop
      PROVE  LoopKnows(k)'
  <2>1. CASE k = l
    BY <1>1, <1>3, <2>1, SMTT(60) DEF LoopKnows
  <2>2. CASE k # l
    <3>1. lpc'[k] \in {"none", "done"} /\ (lpc'[k] = "none" => csub'[k] = "off" /\ feed'[k] = <<>>)
      BY <1>1, <1>3, <1>4, <2>2, Zenon DEF Live, LoopKnows
    <3>. QED  BY <3>1 DEF LoopKnows
  <2>. QED  BY <2>1, <2>2, Zenon
<1>10. FeedRuns(l)'
  <2>1. feed'[l] = <<>> /\ DOMAIN <<>> = {}
    BY <1>1, <1>8
  <2>. QED  BY <2>1, Zenon DEF FeedRuns
<1>11. Unsent = head
  <2>1. \A k \in Loop : k # l /\ lpc[k] # "done" => feed[k] = <<>>
    BY <1>4, Zenon DEF LoopKnows, Live
  <2>2. lpc[l] # "done"
    BY <1>2
  <2>. QED  BY <1>8, <2>1, <2>2, UnsentIs, Zenon
<1>12. ASSUME NEW d \in Clients, d # c
       PROVE  Registered(d)' /\ InStep(d)'
  <2>1. Registered(d)
    BY ZenonT(60) DEF Served
  <2>. QED  BY <1>1, <1>5, <1>12, <2>1, Zenon DEF Registered, InStep
<1>13. Registered(c) /\ Registered(c)'
  <2>1. Registered(c)
    BY Zenon DEF Served
  <2>. QED  BY <1>1, <2>1 DEF Registered
<1>14. InStep(c)'
  <2>1. PICK u \in 0 .. MaxItems : u = head
    BY Zenon DEF TypeOK
  <2>2. u \in Int /\ u \in first'[c] .. head'
    <3>1. first'[c] = u /\ head' = u
      BY <1>1, <1>11, <2>1, Zenon
    <3>. QED  BY ONLY <3>1, u \in 0 .. MaxItems
  <2>3. SentUpTo(c, u)'
    BY <1>1, <1>11, <1>13, <2>1, <2>2, JoinedSent, Zenon
  <2>4. \A k \in Loop : Live(k)' => Brought(k, c, u)'
    BY <1>1, <1>6, <1>8, <2>1, Zenon DEF Brought
  <2>. QED  BY <2>2, <2>3, <2>4, Zenon DEF InStep
<1>. QED  BY <1>6, <1>7, <1>9, <1>10, <1>12, <1>13, <1>14, Zenon DEF Served
-----------------------------------------------------------------------------
(* The theorems.                                                           *)

LEMMA Initially ==
  ASSUME Init
  PROVE  IInv
<1>1. 0 \in 0 .. MaxItems /\ 0 \in 0 .. 1 /\ <<>> \in Seq(Item)
  BY PubSubAssumption
<1>2. TypeOK
  BY <1>1, Zenon DEF Init, TypeOK
<1>3. lpc = [l \in Loop |-> "none"] /\ \A l \in Loop : lpc[l] = "none" /\ csub[l] = "off" /\ feed[l] = <<>>
  BY Zenon DEF Init
<1>4. \A l \in Loop : ~Live(l) /\ LoopKnows(l)
  BY <1>3 DEF Live, LoopKnows
<1>5. OneLoop
  BY <1>4, Zenon DEF OneLoop, Init
<1>6. ASSUME NEW c \in Clients
      PROVE  Registered(c) /\ InStep(c)
  <2>1. cpc[c] = "none" /\ chan[c] = <<>> /\ errs[c] = 0 /\ received[c] = <<>> /\ c \notin subs
    BY Zenon DEF Init
  <2>. QED  BY <2>1 DEF Registered, InStep
<1>7. Holding
  BY <1>3 DEF Holding
<1>. QED  BY <1>2, <1>4, <1>5, <1>6, <1>7, Zenon DEF IInv, Served

LEMMA Stays ==
  ASSUME IInv, [Next]_vars
  PROVE  IInv'
<1>1. CASE UNCHANGED vars
  <2>1. UNCHANGED <<kind, head, status, once, holder, subs, lpc, csub, feed, todo, cpc, chan, errs, first, received, raced>>
    BY <1>1, Zenon DEF vars, ctx, loops, session
  <2>2. TypeOK' /\ Holding'
    BY <2>1, Zenon DEF IInv, TypeOK, Holding
  <2>3. ASSUME Served
        PROVE  Served'
    <3>1. \A l \in Loop : (Live(l)' <=> Live(l)) /\ LoopKnows(l)' /\ (Live(l) => FeedRuns(l)')
      BY <2>1, <2>3, ZenonT(60) DEF Served, Live, LoopKnows, FeedRuns
    <3>2. OneLoop'
      BY <2>1, <2>3, <3>1, Zenon DEF Served, OneLoop
    <3>3. ASSUME NEW c \in Clients
          PROVE  Registered(c)' /\ InStep(c)'
      <4>1. Registered(c) /\ InStep(c)
        BY <2>3, Zenon DEF Served
      <4>2. Registered(c)' /\ Sent(c)' = Sent(c)
        BY <2>1, <4>1, Zenon DEF Registered, Sent
      <4>3. \A l \in Loop : \A n : Brought(l, c, n) => Brought(l, c, n)'
        BY <2>1, Zenon DEF Brought
      <4>. QED  BY <2>1, <3>1, <4>1, <4>2, <4>3, InStepStays, Zenon
    <3>. QED  BY <3>1, <3>2, <3>3, Zenon DEF Served
  <2>. QED  BY <2>1, <2>2, <2>3, Zenon DEF IInv
<1>2. CASE Next
  <2>1. TypeOK /\ Holding /\ TypeOK' /\ Holding'
    BY <1>2, TypeStep, Zenon DEF IInv
  <2>2. ASSUME ~raced'
        PROVE  Served'
    <3>1. ~raced
      BY <1>2, <2>2, Steps, ZenonT(60) DEF Publish, delegateSubscribe, RunLoop, registerDelegateSub,
         proxySubscribeFails, Forward, TakeErr, Disconnect, unsubscribe, Join, Break, Start, Check, Exit, Fail,
         cancel, CancelEnd, notify, Notified, CancelOne, deliver, Overflow
    <3>2. Served
      BY <3>1, Zenon DEF IInv
    <3>. QED  BY <1>2, <2>1, <2>2, <3>2, Steps, PublishStep, SubscribeStep, RunLoopStep, RegisterStep,
               ForwardStep, UnsubscribeStep, BreakStep, StartStep, CheckStep, ExitStep, FailStep, CancelStep,
               CancelEndStep, NotifyStep, NotifiedStep, CancelOneStep, DeliverStep, OverflowStep, Zenon
  <2>. QED  BY <2>1, <2>2, Zenon DEF IInv
<1>. QED  BY <1>1, <1>2, Zenon

LEMMA Implied ==
  ASSUME IInv
  PROVE  GapsAreReported /\ RegisteredAreServed
<1>1. ASSUME ~raced
      PROVE  Served
  BY <1>1, Zenon DEF IInv
<1>2. ASSUME ~raced, NEW c \in Clients, cpc[c] = "run", errs[c] = 0
      PROVE  /\ \E n \in first[c] .. head : SentUpTo(c, n)
             /\ Quiet => SentUpTo(c, head)
  <2>1. PICK n \in first[c] .. head : SentUpTo(c, n) /\ \A l \in Loop : Live(l) => Brought(l, c, n)
    BY <1>1, <1>2, Zenon DEF Served, InStep
  <2>2. ASSUME Quiet
        PROVE  SentUpTo(c, head)
    <3>1. PICK l \in Loop : lpc[l] = "select" /\ csub[l] = "on" /\ feed[l] = <<>>
      BY <2>2, Zenon DEF Quiet
    <3>2. Live(l)
      BY <3>1 DEF Live
    <3>. QED  BY <2>1, <3>1, <3>2, Zenon DEF Brought
  <2>. QED  BY <2>1, <2>2, Zenon
<1>3. GapsAreReported
  BY <1>2, Zenon DEF GapsAreReported
<1>4. ASSUME ~raced, subs # {}
      PROVE  \E l \in Loop : lpc[l] \in {"start", "check", "select", "notify", "fail", "cancel"}
                             /\ (lpc[l] = "check" => status = "ok")
  <2>1. once
    BY <1>1, <1>4, Zenon DEF Served, OneLoop
  <2>2. PICK l \in Loop : Live(l) /\ LoopKnows(l)
    BY <1>1, <1>4, <2>1, Zenon DEF Served, OneLoop
  <2>3. lpc[l] \in {"start", "check", "select", "notify", "fail", "cancel"}
    <3>1. lpc[l] # "exit"
      BY <2>1, <2>2, Zenon DEF LoopKnows
    <3>. QED  BY <2>2, <3>1, Zenon DEF Live, IInv, TypeOK
  <2>4. lpc[l] = "check" => status = "ok"
    BY <2>1, <2>2, Zenon DEF LoopKnows
  <2>. QED  BY <2>3, <2>4, Zenon
<1>. QED  BY <1>3, <1>4, Zenon DEF RegisteredAreServed

\* Whatever the number of subscribers, items and run loops, the filters and the
\* size of the channels: a subscriber was sent what it wants of the items notified
\* so far, once and in order, or has an error on its way (deliver, cancel), and is
\* never registered with no run loop left to serve it (registerDelegateSub, run).
THEOREM SubscribersAreServed == Spec => []SubscriptionsDeliver
<1>1. Init => IInv
  BY Initially, Zenon
<1>2. IInv /\ [Next]_vars => IInv'
  BY Stays, Zenon
<1>3. IInv => SubscriptionsDeliver
  BY Implied, Zenon DEF IInv, SubscriptionsDeliver
<1>. QED  BY <1>1, <1>2, <1>3, PTL DEF Spec
=============================================================================
