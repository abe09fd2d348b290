---------------------------- MODULE HASyncProofs ----------------------------
(***************************************************************************)
(* Without mishaps the synchronised store is always one chain of epochs,   *)
(* whatever the number of processes, the blocks and their forks, the batch *)
(* size and the window capacity, and however many calls fail, processes    *)
(* crash and leaders change.                                               *)
(***************************************************************************)
EXTENDS HASync, TLAPS

\* The epoch that loadLastSyncEpoch continues with.
IsNext(m, e) == IF m = NoEpochs THEN e = FromEpoch ELSE MaxEpoch(m, e - 1)

\* The blocks of a slice are each the child of the one before.
Consecutive(q) == \A i \in 1 .. Len(q) : i > 1 => Parent[q[i]] = q[i - 1]

\* The first epoch of the slice has passed the comparison with the store.
Checked(s) == pc[s] \in {"push", "pushTx", "pushCommit"} \/ (pc[s] = "query" /\ slice[s] # << >>)

Popping(s) == pc[s] \in {"pop", "popTx", "popCommit"}

\* Who leads, or is in a round, owns the lock.
Leads(s) == Busy(s) \/ status[s] = "elected" => lock = s

\* What a round knows of the store.
RoundInv(s) ==
  /\ pc[s] \in {"query", "check", "push", "pushTx", "pushCommit"} => IsNext(db, from[s])
  /\ pc[s] \in {"query", "check", "push", "pushTx", "pushCommit", "window"} =>
       Consecutive(slice[s]) /\ from[s] + Len(slice[s]) <= to[s] + 1
  /\ pc[s] = "query" => from[s] + Len(slice[s]) <= to[s]
  /\ pc[s] = "check" => Len(slice[s]) = 1
  /\ Checked(s) \/ Popping(s) \/ pc[s] = "window" => Len(slice[s]) >= 1
  /\ Checked(s) /\ db # NoEpochs => Parent[slice[s][1]] = db[from[s] - 1]
  /\ Popping(s) \/ pc[s] = "popWin" => from[s] > 1
  /\ Popping(s) => MaxEpoch(db, from[s] - 1) /\ Parent[slice[s][1]] # db[from[s] - 1]
  /\ pc[s] \in {"popTx", "popCommit"} => popTo[s] = from[s] - 1
  /\ pc[s] = "window" =>
       \A e \in Epoch : e - from[s] + 1 \in 1 .. Len(slice[s]) => db[e] = slice[s][e - from[s] + 1]

\* What the pivot window of a process has to do with the store.
WinInv(s) ==
  /\ \A e \in Epoch : win[s][e] # None => e >= FromEpoch
  /\ Busy(s) \/ status[s] = "elected" =>
       \A e \in Epoch :
         win[s][e] # None /\ db[e] # None /\ (pc[s] = "window" => e < from[s])
         => win[s][e] = db[e]

IInv ==
  /\ TypeOK
  /\ StoreIsChain
  /\ \A s \in Syncer : Leads(s) /\ RoundInv(s) /\ WinInv(s)
-----------------------------------------------------------------------------
(* Facts about maps from epochs to blocks, and about slices.               *)

\* Appending keeps what there is and adds one element.
LEMMA Appended ==
  ASSUME NEW S, NEW q \in Seq(S), NEW x \in S
  PROVE  /\ Append(q, x) \in Seq(S) /\ Len(Append(q, x)) = Len(q) + 1
         /\ \A i \in 1 .. Len(q) : Append(q, x)[i] = q[i]
         /\ Append(q, x)[Len(q) + 1] = x
OBVIOUS

\* Dropping the last element of a sequence.
LEMMA Shortened ==
  ASSUME NEW S, NEW q \in Seq(S), Len(q) # 0
  PROVE  SubSeq(q, 1, Len(q) - 1) \in Seq(S) /\ Len(SubSeq(q, 1, Len(q) - 1)) = Len(q) - 1
OBVIOUS

\* Popping all epochs from e on leaves a chain a chain (PopnWithFinalizer).
LEMMA RemoveChain ==
  ASSUME NEW m \in Map, NEW start \in Nat, NEW e \in Epoch, IsChain(m, start)
  PROVE  Remove(m, e, LastEpoch) \in Map /\ IsChain(Remove(m, e, LastEpoch), start)
BY EpochsAssumption DEF Remove, IsChain, Map, Epoch

\* Popping up to the largest epoch is popping all the rest.
LEMMA RemoveTop ==
  ASSUME NEW m \in Map, NEW e \in Epoch, NEW h \in Epoch, MaxEpoch(m, h)
  PROVE  Remove(m, e, h) = Remove(m, e, LastEpoch)
<1>1. \A f \in Epoch : (IF f \in e .. h THEN None ELSE m[f]) = (IF f \in e .. LastEpoch THEN None ELSE m[f])
  BY EpochsAssumption DEF MaxEpoch, Epoch
<1>. QED  BY <1>1, Zenon DEF Remove

\* A slice of consecutive blocks whose first one is the child of the latest
\* epoch extends a chain (PushnWithFinalizer).
LEMMA PushChain ==
  ASSUME NEW m \in Map, NEW e \in Nat, NEW q \in Seq(Block),
         IsChain(m, FromEpoch), IsNext(m, e), Len(q) >= 1,
         Consecutive(q), m # NoEpochs => Parent[q[1]] = m[e - 1]
  PROVE  Pushn(m, e, q) \in Map /\ IsChain(Pushn(m, e, q), FromEpoch)
<1>. DEFINE p == Pushn(m, e, q)
<1>1. p \in Map
  BY EpochsAssumption, SMTT(60) DEF Pushn, Map, Epoch
<1>2. ASSUME NEW f \in Epoch, p[f] # None
      PROVE  f >= FromEpoch /\ (f > FromEpoch => p[f - 1] # None /\ p[f - 1] = Parent[p[f]])
  <2>. e >= FromEpoch
    BY EpochsAssumption DEF IsNext, MaxEpoch, IsChain, Epoch, Map
  <2>1. CASE f < e
    BY <1>2, <2>1, EpochsAssumption DEF Pushn, IsChain, Epoch, Map
  <2>2. CASE f = e
    <3>1. p[f] = q[1]
      BY <2>2 DEF Pushn, Epoch
    <3>2. CASE m = NoEpochs
      BY <2>2, <3>2, EpochsAssumption DEF IsNext, Epoch
    <3>3. CASE m # NoEpochs
      <4>1. m[e - 1] # None /\ e - 1 \in Epoch
        BY <3>3, Zenon DEF IsNext, MaxEpoch
      <4>2. p[f - 1] = m[e - 1]
        BY <2>2, <4>1 DEF Pushn, Epoch
      <4>. QED  BY <2>2, <3>1, <3>3, <4>1, <4>2, EpochsAssumption, Zenon DEF Epoch
    <3>. QED  BY <3>2, <3>3, Zenon
  <2>3. CASE f > e /\ f <= e + Len(q) - 1
    <3>1. f - e + 1 \in 2 .. Len(q) /\ f - 1 \in Epoch
      BY <2>3, EpochsAssumption DEF Epoch
    <3>2. p[f] = q[f - e + 1]
      BY <3>1, EpochsAssumption, SMTT(60) DEF Pushn, Epoch
    <3>3. p[f - 1] = q[f - e]
      BY <3>1, <2>3, EpochsAssumption DEF Pushn, Epoch
    <3>4. q[f - e] \in Block /\ q[f - e] = Parent[q[f - e + 1]]
      BY <3>1, EpochsAssumption, SMTT(60) DEF Consecutive, Epoch
    <3>. QED  BY <2>3, <3>2, <3>3, <3>4, EpochsAssumption, SMTT(60) DEF Epoch
  <2>4. CASE f > e + Len(q) - 1
    <3>1. p[f] = m[f]
      BY <2>4, EpochsAssumption DEF Pushn, Epoch
    <3>2. m[f] = None
      BY <2>4, EpochsAssumption, SMTT(60) DEF IsNext, MaxEpoch, NoEpochs, Epoch
    <3>. QED  BY <1>2, <3>1, <3>2, Zenon
  <2>. QED  BY <2>1, <2>2, <2>3, <2>4, EpochsAssumption DEF Epoch
<1>. QED  BY <1>1, <1>2, Zenon DEF IsChain
-----------------------------------------------------------------------------
(* The invariant is inductive.                                             *)

\* A step that leaves the store and the variables of t alone keeps what t
\* knows.
Same(t) ==
  /\ pc'[t] = pc[t]
  /\ from'[t] = from[t]
  /\ to'[t] = to[t]
  /\ slice'[t] = slice[t]
  /\ popTo'[t] = popTo[t]
  /\ win'[t] = win[t]
  /\ status'[t] = status[t]

\* A step of another process that leaves the store alone.
LEMMA Frame ==
  ASSUME NEW t \in Syncer, Same(t), db' = db, RoundInv(t), WinInv(t)
  PROVE  RoundInv(t)' /\ WinInv(t)'
<1>1. RoundInv(t)'
  BY ZenonT(60) DEF Same, RoundInv, Checked, Popping
<1>2. WinInv(t)'
  BY Zenon DEF Same, WinInv, Busy
<1>. QED  BY <1>1, <1>2, Zenon

\* A process that neither leads nor is in a round does not depend on the store.
LEMMA Idle ==
  ASSUME NEW t \in Syncer, Same(t), ~Busy(t), status[t] # "elected", WinInv(t)
  PROVE  RoundInv(t)' /\ WinInv(t)'
<1>1. RoundInv(t)'
  BY Zenon DEF Same, RoundInv, Checked, Popping, Busy
<1>2. WinInv(t)'
  BY Zenon DEF Same, WinInv, Busy
<1>. QED  BY <1>1, <1>2, Zenon

\* The initial state.
LEMMA InitIInv == Init => IInv
<1>. SUFFICES ASSUME Init PROVE IInv
  OBVIOUS
<1>. USE EpochsAssumption, HASyncAssumption DEF Init
<1>1. chain \in PivotChains
  <2>1. 0 \in Epoch /\ chain \in Map /\ \A e \in Epoch : chain[e] = IF e = 0 THEN Genesis ELSE None
    BY DEF NoEpochs, Map, Epoch
  <2>2. IsChain(chain, 0)
    BY <2>1 DEF IsChain, Epoch
  <2>. QED  BY <2>1, <2>2, Zenon DEF PivotChains
<1>2. db \in Map /\ win \in [Syncer -> Map]
  BY Zenon DEF NoEpochs, Map
<1>3. TypeOK
  BY <1>1, <1>2 DEF TypeOK, Status, Pc, Epoch
<1>4. StoreIsChain
  BY Zenon DEF StoreIsChain, IsChain, NoEpochs
<1>5. ASSUME NEW s \in Syncer PROVE Leads(s) /\ RoundInv(s) /\ WinInv(s)
  BY Zenon DEF Leads, RoundInv, WinInv, Busy, Checked, Popping, NoEpochs
<1>. QED  BY <1>3, <1>4, <1>5, Zenon DEF IInv

\* The full node and the clock: the chain grows and reverts, leases end.
LEMMA EnvStep ==
  ASSUME Mishaps = {}, IInv,
         \/ GrowChain \/ RevertChain \/ OrphanExpires
         \/ \E s \in Syncer : LeaseExpires(s)
  PROVE  IInv'
<1>. USE EpochsAssumption, HASyncAssumption
<1>1. chain' \in PivotChains /\ reorgs' \in 0 .. MaxReorgs
  <2>1. CASE GrowChain
    <3>1. PICK e \in Epoch, b \in Block : /\ MaxEpoch(chain, e - 1)
                                          /\ Parent[b] = chain[e - 1]
                                          /\ chain' = [chain EXCEPT ![e] = b]
      BY <2>1, Zenon DEF GrowChain
    <3>2. chain' \in Map /\ chain'[0] = Genesis
      BY <3>1, SMTT(60) DEF IInv, TypeOK, PivotChains, Map, MaxEpoch, Epoch
    <3>3. IsChain(chain', 0)
      BY <3>1 DEF IInv, TypeOK, PivotChains, Map, MaxEpoch, Epoch, IsChain
    <3>. QED  BY <2>1, <3>2, <3>3, Zenon DEF PivotChains, GrowChain, IInv, TypeOK
  <2>2. CASE RevertChain
    <3>1. PICK e \in Epoch \ {0} : chain' = Remove(chain, e, LastEpoch)
      BY <2>2, Zenon DEF RevertChain
    <3>2. chain' \in Map /\ IsChain(chain', 0)
      BY <3>1, RemoveChain, Zenon DEF IInv, TypeOK, PivotChains
    <3>3. chain'[0] = Genesis
      BY <3>1 DEF IInv, TypeOK, PivotChains, Remove, Epoch
    <3>. QED  BY <2>2, <3>2, <3>3, SMTT(60) DEF PivotChains, RevertChain, IInv, TypeOK
  <2>3. CASE OrphanExpires \/ \E s \in Syncer : LeaseExpires(s)
    BY <2>3, Zenon DEF OrphanExpires, LeaseExpires, env, IInv, TypeOK
  <2>. QED  BY <2>1, <2>2, <2>3, Zenon
<1>2. /\ db' = db
      /\ pc' = pc /\ status' = status /\ win' = win /\ monitor' = monitor /\ faults' = faults
      /\ from' = from /\ to' = to /\ slice' = slice /\ popTo' = popTo
  BY Zenon DEF GrowChain, RevertChain, OrphanExpires, LeaseExpires, election, round, env
<1>3. lock' \in Syncer \cup {None, Orphan}
  BY Zenon DEF GrowChain, RevertChain, OrphanExpires, LeaseExpires, election, IInv, TypeOK
<1>4. TypeOK'
  BY <1>1, <1>2, <1>3, Zenon DEF IInv, TypeOK
<1>5. ASSUME NEW t \in Syncer PROVE Leads(t)'
  BY <1>2, Zenon DEF GrowChain, RevertChain, OrphanExpires, LeaseExpires, election, IInv, Leads, Busy
<1>6. ASSUME NEW t \in Syncer PROVE RoundInv(t)' /\ WinInv(t)'
  BY <1>2, Frame, Zenon DEF IInv, Same
<1>. QED  BY <1>2, <1>4, <1>5, <1>6, Zenon DEF IInv, StoreIsChain

\* The life of a process: it starts when no other one is in a round, dies, or
\* stops.
LEMMA ProcessStep ==
  ASSUME Mishaps = {}, IInv, NEW s \in Syncer, Start(s) \/ Crash(s) \/ Stop(s)
  PROVE  IInv'
<1>. USE EpochsAssumption, HASyncAssumption
<1>1. CASE Start(s)
  <2>. USE <1>1
  <2>1. \A t \in Syncer : ~Busy(t)
    BY Zenon DEF Start
  <2>2. /\ chain' = chain /\ reorgs' = reorgs /\ faults' = faults
        /\ lock' = lock /\ status' = status /\ monitor' = monitor
        /\ to' = to /\ slice' = slice /\ popTo' = popTo /\ win' = win
    BY Zenon DEF Start, env, election
  <2>3. PICK e \in 0 .. LastEpoch + 1 : from' = [from EXCEPT ![s] = e]
    BY Zenon DEF Start
  <2>4. pc' = [pc EXCEPT ![s] = "await"]
    BY Zenon DEF Start
  <2>5. db' = db \/ \E f \in Epoch : db' = Remove(db, f, LastEpoch)
    BY Zenon DEF Start
  <2>6. db' \in Map /\ IsChain(db', FromEpoch)
    <3>1. CASE db' = db
      BY <3>1, Zenon DEF IInv, TypeOK, StoreIsChain
    <3>2. ASSUME NEW f \in Epoch, db' = Remove(db, f, LastEpoch)
          PROVE  db' \in Map /\ IsChain(db', FromEpoch)
      BY <3>2, RemoveChain DEF IInv, TypeOK, StoreIsChain, Epoch
    <3>. QED  BY <2>5, <3>1, <3>2, Zenon
  <2>7. \A f \in Epoch : db'[f] # None => db'[f] = db[f]
    BY <2>5, Zenon DEF Remove
  <2>8. TypeOK'
    BY <2>2, <2>3, <2>4, <2>6, Zenon DEF IInv, TypeOK, Pc
  <2>9. ASSUME NEW t \in Syncer PROVE Leads(t)' /\ RoundInv(t)' /\ WinInv(t)'
    <3>1. pc[t] \in {"down", "await"} /\ pc'[t] \in {"down", "await"}
      BY <2>1, <2>4, Zenon DEF Busy, IInv, TypeOK
    <3>2. Leads(t)'
      BY <2>2, <3>1, Zenon DEF IInv, Leads, Busy
    <3>3. RoundInv(t)'
      BY <3>1, Zenon DEF RoundInv, Checked, Popping
    <3>4. WinInv(t)'
      BY <2>2, <2>7, <3>1, ZenonT(60) DEF IInv, WinInv, Busy
    <3>. QED  BY <3>2, <3>3, <3>4, Zenon
  <2>. QED  BY <2>6, <2>8, <2>9, Zenon DEF IInv, StoreIsChain
<1>2. CASE Crash(s) \/ Stop(s)
  <2>1. /\ Gone(s) /\ chain' = chain /\ reorgs' = reorgs /\ db' = db
        /\ faults' = faults + 1 /\ faults < MaxFaults
        /\ lock' \in IF lock = s THEN {None, Orphan} ELSE {lock}
    BY <1>2, Zenon DEF Crash, Stop, env
  <2>2. NoEpochs \in Map
    BY Zenon DEF NoEpochs, Map
  <2>3. TypeOK'
    BY <2>1, <2>2, SMTT(60) DEF Gone, IInv, TypeOK, Pc, Status, Epoch
  <2>4. ASSUME NEW t \in Syncer, t # s PROVE Leads(t)' /\ RoundInv(t)' /\ WinInv(t)'
    <3>1. Same(t)
      BY <2>1, <2>4, Zenon DEF Gone, Same, IInv, TypeOK
    <3>2. Leads(t)'
      BY <2>1, <2>4, <3>1, Zenon DEF Same, Leads, Busy, IInv
    <3>. QED  BY <2>1, <3>1, <3>2, Frame, Zenon DEF IInv
  <2>5. Leads(s)' /\ RoundInv(s)' /\ WinInv(s)'
    <3>1. pc'[s] = "down" /\ status'[s] = "none" /\ win'[s] = NoEpochs
      BY <2>1, Zenon DEF Gone, IInv, TypeOK
    <3>. QED  BY <3>1, Zenon DEF Leads, RoundInv, WinInv, Busy, Checked, Popping, NoEpochs
  <2>. QED  BY <2>1, <2>3, <2>4, <2>5, Zenon DEF IInv, StoreIsChain
<1>. QED  BY <1>1, <1>2, Zenon

\* The election goroutine.  Only a free lock changes hands, so the leader and
\* the process in a round keep theirs; a new leader begins with an empty window.
LEMMA ElectionStep ==
  ASSUME Mishaps = {}, IInv, NEW s \in Syncer,
         Elect(s) \/ Renew(s) \/ Oust(s) \/ AcquireReplyLost(s)
  PROVE  IInv'
<1>. USE EpochsAssumption, HASyncAssumption
<1>1. /\ chain' = chain /\ reorgs' = reorgs /\ db' = db /\ pc' = pc
      /\ from' = from /\ to' = to /\ slice' = slice /\ popTo' = popTo
  BY Zenon DEF Elect, Renew, Oust, AcquireReplyLost, env, round
<1>2. lock' = lock \/ (lock \in {None, s} /\ lock' = s)
  BY Zenon DEF Elect, Renew, Oust, AcquireReplyLost, acquireLock
<1>3. \/ status' = status /\ win' = win
      \/ /\ status' = [status EXCEPT ![s] = "elected"] /\ lock' = s
         /\ win' = [win EXCEPT ![s] = NoEpochs]
      \/ /\ status' = [status EXCEPT ![s] = "ousted"]
         /\ win' = [win EXCEPT ![s] = NoEpochs]
  BY Zenon DEF Elect, Renew, Oust, AcquireReplyLost, acquireLock, onOustedCallbacks
<1>4. TypeOK'
  <2>1. faults' \in 0 .. MaxFaults
    BY SMTT(60) DEF IInv, TypeOK, Elect, Renew, Oust, AcquireReplyLost
  <2>. monitor' \in [Syncer -> BOOLEAN]
    <3>1. monitor' = monitor \/ monitor' = [monitor EXCEPT ![s] = TRUE]
      BY Zenon DEF Elect, Renew, Oust, AcquireReplyLost, onOustedCallbacks
    <3>. QED  BY <3>1, Zenon DEF IInv, TypeOK
  <2>2. NoEpochs \in Map
    BY Zenon DEF NoEpochs, Map
  <2>3. status' \in [Syncer -> Status]
    BY <1>3, Zenon DEF IInv, TypeOK, Status
  <2>4. win' \in [Syncer -> Map]
    BY <1>3, <2>2, Zenon DEF IInv, TypeOK
  <2>. QED  BY <1>1, <1>2, <2>1, <2>3, <2>4, Zenon DEF IInv, TypeOK
<1>5. ASSUME NEW t \in Syncer, t # s PROVE Leads(t)' /\ RoundInv(t)' /\ WinInv(t)'
  <2>1. Same(t)
    BY <1>1, <1>3, <1>5, Zenon DEF Same, IInv, TypeOK
  <2>2. Leads(t)'
    BY <1>1, <1>2, <1>5, <2>1, ZenonT(60) DEF Same, Leads, Busy, IInv
  <2>. QED  BY <1>1, <2>1, <2>2, Frame, Zenon DEF IInv
<1>6. Leads(s)'
  BY <1>1, <1>2, <1>3, Zenon DEF Leads, Busy, IInv, TypeOK
<1>7. RoundInv(s)'
  BY <1>1, Zenon DEF RoundInv, Checked, Popping, IInv
<1>8. WinInv(s)'
  <2>1. CASE status' = status /\ win' = win
    BY <1>1, <2>1, Zenon DEF WinInv, Busy, IInv
  <2>2. CASE win' = [win EXCEPT ![s] = NoEpochs]
    BY <2>2, Zenon DEF WinInv, NoEpochs, IInv, TypeOK
  <2>. QED  BY <1>3, <2>1, <2>2, Zenon
<1>. QED  BY <1>1, <1>4, <1>5, <1>6, <1>7, <1>8, Zenon DEF IInv, StoreIsChain

\* What a step of the sync goroutine of s does to the others: nothing, because
\* it only takes a free lock and only writes to the store while it owns it.
LEMMA Others ==
  ASSUME IInv, NEW s \in Syncer, db' = db \/ Busy(s),
         lock' = lock \/ (lock \in {None, s} /\ lock' = s),
         \A t \in Syncer : t # s => Same(t)
  PROVE  \A t \in Syncer : t # s => Leads(t)' /\ RoundInv(t)' /\ WinInv(t)'
<1>. SUFFICES ASSUME NEW t \in Syncer, t # s PROVE Leads(t)' /\ RoundInv(t)' /\ WinInv(t)'
  OBVIOUS
<1>1. Leads(t)'
  BY HASyncAssumption DEF Same, Leads, Busy, IInv
<1>2. CASE db' = db
  BY <1>1, <1>2, Frame, Zenon DEF IInv
<1>3. CASE Busy(s)
  <2>1. ~Busy(t) /\ status[t] # "elected"
    BY <1>3, Zenon DEF IInv, Leads
  <2>. QED  BY <1>1, <2>1, Idle, Zenon DEF IInv
<1>. QED  BY <1>2, <1>3, Zenon

\* A round that gives up leaves the store and the window as they are.
LEMMA GiveUp ==
  ASSUME IInv, NEW s \in Syncer, Busy(s), pc[s] # "window",
         Skip(s, "await"), faults' \in 0 .. MaxFaults
  PROVE  IInv'
<1>. USE EpochsAssumption, HASyncAssumption
<1>1. /\ chain' = chain /\ reorgs' = reorgs /\ db' = db /\ lock' = lock
      /\ status' = status /\ monitor' = monitor /\ win' = win
      /\ from' = from /\ to' = to /\ slice' = slice /\ popTo' = popTo
      /\ pc' = [pc EXCEPT ![s] = "await"]
  BY Zenon DEF Skip, Goto, env, election, round
<1>2. TypeOK'
  BY <1>1, Zenon DEF IInv, TypeOK, Pc
<1>3. \A t \in Syncer : t # s => Leads(t)' /\ RoundInv(t)' /\ WinInv(t)'
  <2>1. \A t \in Syncer : t # s => Same(t)
    BY <1>1, Zenon DEF Same, IInv, TypeOK
  <2>. QED  BY <1>1, <2>1, Others, Zenon
<1>4. pc'[s] = "await"
  BY <1>1, Zenon DEF IInv, TypeOK
<1>5. Leads(s)' /\ RoundInv(s)'
  BY <1>1, <1>4, Zenon DEF Leads, Busy, RoundInv, Checked, Popping, IInv
<1>6. WinInv(s)'
  BY <1>1, <1>4, Zenon DEF WinInv, Busy, IInv
<1>. QED  BY <1>1, <1>2, <1>3, <1>5, <1>6, Zenon DEF IInv, StoreIsChain

\* A round that moves on without changing anything but its program counter.
LEMMA MoveOn ==
  ASSUME IInv, NEW s \in Syncer, NEW label \in Pc \ {"window"}, Skip(s, label),
         pc[s] # "window", faults' \in 0 .. MaxFaults,
         Busy(s) \/ lock = s, RoundInv(s)',
         \A e \in Epoch : win[s][e] # None /\ db[e] # None => win[s][e] = db[e]
  PROVE  IInv'
<1>. USE EpochsAssumption, HASyncAssumption
<1>1. /\ chain' = chain /\ reorgs' = reorgs /\ db' = db /\ lock' = lock
      /\ status' = status /\ monitor' = monitor /\ win' = win
      /\ from' = from /\ to' = to /\ slice' = slice /\ popTo' = popTo
      /\ pc' = [pc EXCEPT ![s] = label]
  BY Zenon DEF Skip, Goto, env, election, round
<1>2. TypeOK'
  BY <1>1, Zenon DEF IInv, TypeOK
<1>3. \A t \in Syncer : t # s => Leads(t)' /\ RoundInv(t)' /\ WinInv(t)'
  <2>1. \A t \in Syncer : t # s => Same(t)
    BY <1>1, Zenon DEF Same, IInv, TypeOK
  <2>. QED  BY <1>1, <2>1, Others, Zenon
<1>4. Leads(s)'
  BY <1>1, Zenon DEF Leads, IInv
<1>5. WinInv(s)'
  BY <1>1, Zenon DEF WinInv, IInv
<1>. QED  BY <1>1, <1>2, <1>3, <1>4, <1>5, Zenon DEF IInv, StoreIsChain
-----------------------------------------------------------------------------
(* The steps of a round.                                                   *)

\* The reads of a round: the lease, the latest epochs, the data, the comparison.
LEMMA ReadStep ==
  ASSUME Mishaps = {}, IInv, NEW s \in Syncer,
         \/ Await(s) \/ Load(s) \/ Query(s) \/ QueryMissing(s) \/ QuerySwitched(s)
         \/ Check(s) \/ Fail(s)
  PROVE  IInv'
<1>. USE EpochsAssumption, HASyncAssumption
<1>w. (Busy(s) \/ status[s] = "elected") /\ pc[s] # "window" =>
        \A e \in Epoch : win[s][e] # None /\ db[e] # None => win[s][e] = db[e]
  BY Zenon DEF IInv, WinInv
<1>1. CASE Await(s)
  <2>. USE <1>1
  <2>1. pc[s] = "await" /\ lock = s /\ status[s] = "elected" /\ Skip(s, "load") /\ faults' = faults
    BY Zenon DEF Await
  <2>2. pc'[s] = "load"
    BY <2>1, Zenon DEF Skip, Goto, IInv, TypeOK
  <2>3. RoundInv(s)'
    BY <2>2, Zenon DEF RoundInv, Checked, Popping
  <2>. QED  BY <1>w, <2>1, <2>3, MoveOn, Zenon DEF Pc, IInv, TypeOK
<1>2. CASE Load(s)
  <2>. USE <1>2
  <2>1. PICK e \in 0 .. LastEpoch + 1, latest \in Epoch :
          /\ IsNext(db, e)
          /\ from' = [from EXCEPT ![s] = e]
          /\ IF e > latest
             THEN pc' = [pc EXCEPT ![s] = "await"] /\ to' = to /\ slice' = slice
             ELSE /\ to' = [to EXCEPT ![s] = IF e + MaxSyncEpochs - 1 < latest
                                             THEN e + MaxSyncEpochs - 1 ELSE latest]
                  /\ slice' = [slice EXCEPT ![s] = << >>]
                  /\ pc' = [pc EXCEPT ![s] = "query"]
    BY Zenon DEF Load, Goto, IsNext
  <2>2. /\ chain' = chain /\ reorgs' = reorgs /\ db' = db /\ lock' = lock /\ faults' = faults
        /\ status' = status /\ monitor' = monitor /\ win' = win /\ popTo' = popTo /\ pc[s] = "load"
    BY Zenon DEF Load, env, election
  <2>3. TypeOK'
    <3>1. to' \in [Syncer -> Epoch] /\ slice' \in [Syncer -> Seq(Block)]
      <4>1. /\ to' = to \/ \E x \in Epoch : to' = [to EXCEPT ![s] = x]
            /\ slice' = slice \/ slice' = [slice EXCEPT ![s] = << >>]
        BY <2>1 DEF Epoch
      <4>2. to' \in [Syncer -> Epoch]
        <5>1. to \in [Syncer -> Epoch]
          BY Zenon DEF IInv, TypeOK
        <5>2. ASSUME NEW x \in Epoch, to' = [to EXCEPT ![s] = x] PROVE to' \in [Syncer -> Epoch]
          BY <5>1, <5>2, Zenon
        <5>. QED  BY <4>1, <5>1, <5>2, Zenon
      <4>3. slice' \in [Syncer -> Seq(Block)]
        <5>1. slice \in [Syncer -> Seq(Block)] /\ << >> \in Seq(Block)
          BY DEF IInv, TypeOK
        <5>. QED  BY <4>1, <5>1, Zenon
      <4>. QED  BY <4>2, <4>3, Zenon
    <3>2. pc' \in [Syncer -> Pc] /\ from' \in [Syncer -> 0 .. LastEpoch + 1]
      BY <2>1, Zenon DEF IInv, TypeOK, Pc
    <3>. QED  BY <2>2, <3>1, <3>2, Zenon DEF IInv, TypeOK
  <2>4. \A t \in Syncer : t # s => Leads(t)' /\ RoundInv(t)' /\ WinInv(t)'
    <3>1. \A t \in Syncer : t # s => Same(t)
      BY <2>1, <2>2, ZenonT(60) DEF Same, IInv, TypeOK
    <3>. QED  BY <2>2, <3>1, Others, Zenon
  <2>5. Leads(s)'
    BY <2>2, Zenon DEF Leads, Busy, IInv
  <2>6. RoundInv(s)'
    <3>1. CASE e > latest
      <4>1. pc'[s] = "await"
        BY <2>1, <3>1, Zenon DEF IInv, TypeOK
      <4>. QED  BY <4>1, Zenon DEF RoundInv, Checked, Popping
    <3>2. CASE e <= latest
      <4>1. pc'[s] = "query" /\ slice'[s] = << >> /\ from'[s] = e /\ to'[s] >= e
        BY <2>1, <3>2 DEF IInv, TypeOK, Epoch
      <4>2. Consecutive(slice'[s]) /\ Len(slice'[s]) = 0
        BY ONLY <4>1 DEF Consecutive
      <4>3. e \in 0 .. LastEpoch + 1 /\ to'[s] \in Epoch
        BY <2>3, Zenon DEF TypeOK
      <4>4. from'[s] + Len(slice'[s]) <= to'[s] /\ from'[s] + Len(slice'[s]) <= to'[s] + 1
        BY ONLY <4>1, <4>2, <4>3, EpochsAssumption DEF Epoch
      <4>. QED  BY <2>1, <2>2, <4>1, <4>2, <4>4, Zenon DEF RoundInv, Checked, Popping
    <3>. QED  BY <3>1, <3>2 DEF Epoch
  <2>7. WinInv(s)'
    BY <1>w, <2>2, Zenon DEF WinInv, Busy, IInv
  <2>. QED  BY <2>2, <2>3, <2>4, <2>5, <2>6, <2>7, Zenon DEF IInv, StoreIsChain
<1>3. CASE Query(s)
  <2>. USE <1>3
  <2>. DEFINE n == Len(slice[s])
              b == chain[from[s] + n]
  <2>1. /\ chain' = chain /\ reorgs' = reorgs /\ db' = db /\ lock' = lock /\ faults' = faults
        /\ status' = status /\ monitor' = monitor /\ win' = win /\ popTo' = popTo
        /\ from' = from /\ to' = to /\ pc[s] = "query"
    BY ZenonT(60) DEF Query, env, election
  <2>2. /\ n \in Nat /\ slice[s] \in Seq(Block) /\ from[s] \in Nat /\ to[s] \in Epoch
        /\ from[s] + n <= to[s] /\ IsNext(db, from[s]) /\ Consecutive(slice[s])
        /\ n >= 1 /\ db # NoEpochs => Parent[slice[s][1]] = db[from[s] - 1]
    <3>1. slice[s] \in Seq(Block) /\ from[s] \in 0 .. LastEpoch + 1 /\ to[s] \in Epoch
      BY Zenon DEF IInv, TypeOK
    <3>2. /\ from[s] + Len(slice[s]) <= to[s] /\ IsNext(db, from[s]) /\ Consecutive(slice[s])
          /\ slice[s] # << >> /\ db # NoEpochs => Parent[slice[s][1]] = db[from[s] - 1]
      BY <2>1, Zenon DEF IInv, RoundInv, Checked
    <3>3. Len(slice[s]) \in Nat /\ from[s] \in Nat /\ (Len(slice[s]) >= 1 => slice[s] # << >>)
      BY ONLY <3>1
    <3>. QED  BY <3>1, <3>2, <3>3, Zenon
  <2>3. b \in Block
    <3>1. from[s] + n \in Epoch
      <4>1. n \in Nat /\ from[s] \in Nat /\ to[s] \in Epoch /\ from[s] + n <= to[s]
        BY <2>2, Zenon
      <4>. HIDE DEF n
      <4>. QED  BY ONLY <4>1, EpochsAssumption DEF Epoch
    <3>. QED  BY <3>1, Zenon DEF Query, IInv, TypeOK, PivotChains, Map
  <2>4. \A t \in Syncer : t # s => Leads(t)' /\ RoundInv(t)' /\ WinInv(t)'
    <3>1. \A t \in Syncer : t # s => Same(t)
      BY <2>1, ZenonT(60) DEF Query, Goto, Same, IInv, TypeOK
    <3>. QED  BY <2>1, <3>1, Others, Zenon
  <2>5. Leads(s)'
    BY <2>1, Zenon DEF Leads, Busy, IInv
  <2>6. WinInv(s)'
    BY <1>w, <2>1, Zenon DEF WinInv, Busy, IInv
  <2>7. CASE n = 0 \/ Parent[b] = slice[s][n]
    <3>. USE <2>7
    <3>1. /\ slice' = [slice EXCEPT ![s] = Append(slice[s], b)]
          /\ pc' = [pc EXCEPT ![s] = IF n = 0 THEN "check" ELSE AfterQuery(s, n + 1)]
      BY Zenon DEF Query, Goto
    <3>a. /\ Append(slice[s], b) \in Seq(Block) /\ Len(Append(slice[s], b)) = n + 1
          /\ \A i \in 1 .. n : Append(slice[s], b)[i] = slice[s][i]
          /\ Append(slice[s], b)[n + 1] = b
      <4>1. slice[s] \in Seq(Block) /\ b \in Block
        BY <2>2, <2>3, Zenon
      <4>. HIDE DEF b
      <4>. QED  BY ONLY <4>1
    <3>2. TypeOK'
      <4>1. slice' \in [Syncer -> Seq(Block)]
        BY <3>1, <3>a, Zenon DEF IInv, TypeOK
      <4>. QED  BY <2>1, <3>1, <4>1, ZenonT(60) DEF IInv, TypeOK, Pc, AfterQuery
    <3>3. slice'[s] = Append(slice[s], b) /\ Len(slice'[s]) = n + 1
      <4>1. slice'[s] = Append(slice[s], b)
        BY <3>1, Zenon DEF IInv, TypeOK
      <4>. QED  BY <3>a, <4>1, Zenon
    <3>4. Consecutive(slice'[s])
      <4>1. \A i \in 1 .. n : slice'[s][i] = slice[s][i]
        BY <3>a, <3>3, Zenon
      <4>2. slice'[s][n + 1] = b
        BY <3>a, <3>3, Zenon
      <4>3. ASSUME NEW i \in 1 .. n + 1, i > 1 PROVE Parent[slice'[s][i]] = slice'[s][i - 1]
        <5>0. n \in Nat
          BY <2>2, Zenon
        <5>1. CASE i = n + 1
          <6>1. n # 0 /\ n \in 1 .. n /\ i - 1 = n
            BY ONLY <4>3, <5>0, <5>1
          <6>. QED  BY <2>7, <4>1, <4>2, <5>1, <6>1, Zenon
        <5>2. CASE i # n + 1
          <6>. HIDE DEF n
          <6>1. i \in 1 .. n /\ i - 1 \in 1 .. n
            BY ONLY <4>3, <5>0, <5>2
          <6>2. Parent[slice[s][i]] = slice[s][i - 1]
            BY <2>2, <4>3, <6>1, ZenonT(60) DEF Consecutive, n
          <6>. QED  BY <4>1, <6>1, <6>2, Zenon
        <5>. QED  BY <5>1, <5>2, Zenon
      <4>. QED  BY <3>3, <4>3, Zenon DEF Consecutive
    <3>5. n >= 1 => slice'[s][1] = slice[s][1]
      BY <2>2, <2>3, <3>3
    <3>6. pc'[s] = IF n = 0 THEN "check" ELSE AfterQuery(s, n + 1)
      BY <3>1, ZenonT(60) DEF IInv, TypeOK
    <3>7. RoundInv(s)'
      <4>1. n \in Nat /\ from[s] \in Nat /\ to[s] \in Epoch /\ from[s] + n <= to[s]
        BY <2>2, Zenon
      <4>2. /\ from[s] + (n + 1) <= to[s] + 1 /\ n + 1 >= 1 /\ (n # 0 => n >= 1)
            /\ ~(from[s] + (n + 1) > to[s]) => from[s] + (n + 1) <= to[s]
            /\ n = 0 => n + 1 = 1
        <5>. HIDE DEF n
        <5>. QED  BY ONLY <4>1, EpochsAssumption DEF Epoch
      <4>3. /\ n = 0 => pc'[s] = "check"
            /\ n # 0 => pc'[s] \in {"push", "query"} /\ (pc'[s] = "query" => from[s] + (n + 1) <= to[s])
        BY <3>6, <4>2, Zenon DEF AfterQuery
      <4>4. from' = from /\ to' = to /\ db' = db /\ Len(slice'[s]) = n + 1
        BY <2>1, <3>3, Zenon
      <4>5. n # 0 /\ db # NoEpochs => Parent[slice'[s][1]] = db[from[s] - 1]
        BY <2>2, <3>5, <4>2, Zenon
      <4>. HIDE DEF n
      <4>. QED  BY <2>2, <3>4, <4>2, <4>3, <4>4, <4>5, Zenon DEF RoundInv, Checked, Popping
    <3>. QED  BY <2>1, <2>4, <2>5, <2>6, <3>2, <3>7, Zenon DEF IInv, StoreIsChain
  <2>8. CASE n # 0 /\ Parent[b] # slice[s][n]
    <3>. USE <2>8
    <3>1. /\ slice' = [slice EXCEPT ![s] = SubSeq(slice[s], 1, n - 1)]
          /\ pc' = [pc EXCEPT ![s] = IF n = 1 THEN "await" ELSE "push"]
      BY Zenon DEF Query, Goto
    <3>2. SubSeq(slice[s], 1, n - 1) \in Seq(Block) /\ Len(SubSeq(slice[s], 1, n - 1)) = n - 1
      BY <2>2, Shortened, Zenon
    <3>3. TypeOK'
      BY <2>1, <3>1, <3>2, Zenon DEF IInv, TypeOK, Pc
    <3>4. slice'[s] = SubSeq(slice[s], 1, n - 1) /\ pc'[s] = IF n = 1 THEN "await" ELSE "push"
      BY <3>1, Zenon DEF IInv, TypeOK
    <3>5. \A i \in 1 .. n - 1 : slice'[s][i] = slice[s][i]
      BY <2>2, <3>4
    <3>6. Consecutive(slice'[s])
      <4>1. Len(slice'[s]) = n - 1
        BY <3>2, <3>4, Zenon
      <4>2. ASSUME NEW i \in 1 .. n - 1, i > 1 PROVE Parent[slice'[s][i]] = slice'[s][i - 1]
        <5>0. n \in Nat
          BY <2>2, Zenon
        <5>. HIDE DEF n
        <5>1. i - 1 \in 1 .. n - 1 /\ i \in 1 .. n
          BY ONLY <4>2, <5>0
        <5>2. slice'[s][i] = slice[s][i] /\ slice'[s][i - 1] = slice[s][i - 1]
          BY <3>5, <5>1, Zenon
        <5>3. Parent[slice[s][i]] = slice[s][i - 1]
          BY <2>2, <4>2, <5>1, Zenon DEF Consecutive, n
        <5>. QED  BY <5>2, <5>3, Zenon
      <4>. QED  BY <4>1, <4>2, Zenon DEF Consecutive
    <3>7. RoundInv(s)'
      <4>1. CASE n = 1
        BY <3>4, <4>1, Zenon DEF RoundInv, Checked, Popping
      <4>2. CASE n # 1
        <5>1. pc'[s] = "push" /\ Len(slice'[s]) = n - 1 /\ n - 1 >= 1 /\ slice'[s][1] = slice[s][1]
          <6>0. n \in Nat /\ n # 0 /\ n # 1
            BY <2>2, <2>8, <4>2, Zenon
          <6>. HIDE DEF n
          <6>1. n - 1 >= 1 /\ 1 \in 1 .. n - 1
            BY <6>0, SMTT(60)
          <6>. QED  BY <3>2, <3>4, <3>5, <4>2, <6>1, Zenon
        <5>2. from'[s] + Len(slice'[s]) <= to'[s] + 1
          BY <2>1, <2>2, <5>1, SMTT(60) DEF Epoch
        <5>3. IsNext(db', from'[s]) /\ (db' # NoEpochs => Parent[slice'[s][1]] = db'[from'[s] - 1])
          BY <2>1, <2>2, <5>1
        <5>. QED  BY <3>6, <5>1, <5>2, <5>3, Zenon DEF RoundInv, Checked, Popping
      <4>. QED  BY <4>1, <4>2, Zenon
    <3>. QED  BY <2>1, <2>4, <2>5, <2>6, <3>3, <3>7, Zenon DEF IInv, StoreIsChain
  <2>. QED  BY <2>7, <2>8, Zenon
<1>4. CASE QueryMissing(s) \/ Fail(s)
  <2>1. Skip(s, "await") /\ pc[s] # "window" /\ Busy(s) /\ faults' \in 0 .. MaxFaults
    <3>1. /\ Skip(s, "await") /\ pc[s] # "window" /\ Busy(s) /\ faults \in 0 .. MaxFaults
          /\ faults' = faults \/ (faults < MaxFaults /\ faults' = faults + 1)
      BY <1>4, Zenon DEF QueryMissing, Fail, Busy, IInv, TypeOK
    <3>2. faults' \in 0 .. MaxFaults
      BY ONLY <3>1, HASyncAssumption
    <3>. QED  BY <3>1, <3>2, Zenon
  <2>. QED  BY <2>1, GiveUp, ZenonT(60)
<1>5. CASE QuerySwitched(s)
  <2>1. pc[s] = "query" /\ faults' \in 0 .. MaxFaults /\ Busy(s)
    BY <1>5 DEF QuerySwitched, Busy, IInv, TypeOK
  <2>2. CASE slice[s] = << >>
    BY <1>5, <2>1, <2>2, GiveUp, Zenon DEF QuerySwitched
  <2>3. CASE slice[s] # << >>
    <3>1. Skip(s, "push")
      BY <1>5, <2>3, Zenon DEF QuerySwitched
    <3>2. pc'[s] = "push" /\ from' = from /\ to' = to /\ slice' = slice /\ db' = db
      BY <3>1, Zenon DEF Skip, Goto, round, IInv, TypeOK
    <3>3. RoundInv(s)'
      BY <2>1, <2>3, <3>2, Zenon DEF RoundInv, Checked, Popping, IInv, IsNext
    <3>. QED  BY <1>w, <2>1, <3>1, <3>3, MoveOn, Zenon DEF Pc
  <2>. QED  BY <2>2, <2>3, Zenon
<1>6. CASE Check(s)
  <2>. DEFINE hash == LatestPivotHash(s)
  <2>1. pc[s] = "check" /\ faults' \in 0 .. MaxFaults /\ Busy(s)
    BY <1>6, Zenon DEF Check, Busy, IInv, TypeOK
  <2>2. /\ IsNext(db, from[s]) /\ Consecutive(slice[s]) /\ Len(slice[s]) = 1
        /\ from[s] + 1 <= to[s] + 1 /\ from[s] \in Nat /\ to[s] \in Epoch /\ slice[s] \in Seq(Block)
    <3>1. RoundInv(s) /\ from[s] \in Nat /\ to[s] \in Epoch /\ slice[s] \in Seq(Block)
      BY DEF IInv, TypeOK
    <3>. QED  BY <2>1, <3>1, Zenon DEF RoundInv
  <2>3. hash = IF db = NoEpochs THEN None ELSE db[from[s] - 1]
    <3>1. CASE db = NoEpochs
      <4>1. from[s] = FromEpoch
        BY <2>2, <3>1, Zenon DEF IsNext
      <4>2. from[s] > 0 => win[s][from[s] - 1] = None /\ db[from[s] - 1] = None
        BY <3>1, <4>1, SMTT(60) DEF IInv, WinInv, NoEpochs, Epoch
      <4>. QED  BY <2>2, <3>1, <4>2, SMTT(60) DEF LatestPivotHash
    <3>2. CASE db # NoEpochs
      <4>1. from[s] - 1 \in Epoch /\ db[from[s] - 1] # None
        BY <2>2, <3>2, Zenon DEF IsNext, MaxEpoch
      <4>2. win[s][from[s] - 1] # None => win[s][from[s] - 1] = db[from[s] - 1]
        BY <1>w, <2>1, <4>1, Zenon
      <4>. QED  BY <2>2, <3>2, <4>1, <4>2, SMTT(60) DEF LatestPivotHash, Epoch
    <3>. QED  BY <3>1, <3>2, Zenon
  <2>4. CASE hash = None \/ Parent[slice[s][1]] = hash
    <3>1. Skip(s, AfterQuery(s, 1))
      BY <1>6, <2>4, Zenon DEF Check
    <3>2. pc'[s] = AfterQuery(s, 1) /\ from' = from /\ to' = to /\ slice' = slice /\ db' = db
      BY <3>1, Zenon DEF Skip, Goto, round, IInv, TypeOK
    <3>3. db # NoEpochs => Parent[slice[s][1]] = db[from[s] - 1]
      BY <2>2, <2>3, <2>4, Zenon DEF IsNext, MaxEpoch
    <3>4. RoundInv(s)'
      <4>1. AfterQuery(s, 1) \in {"push", "query"} /\ (AfterQuery(s, 1) = "query" => from[s] + 1 <= to[s])
        BY <2>2 DEF AfterQuery, Epoch
      <4>2. pc'[s] \in {"push", "query"} /\ (pc'[s] = "query" => from[s] + Len(slice[s]) <= to[s])
        BY <2>2, <3>2, <4>1, Zenon
      <4>3. from[s] + Len(slice[s]) <= to[s] + 1 /\ Len(slice[s]) >= 1
        BY <2>2
      <4>. QED  BY <2>2, <3>2, <3>3, <4>2, <4>3, Zenon DEF RoundInv, Checked, Popping
    <3>. QED  BY <1>w, <2>1, <3>1, <3>4, MoveOn, Zenon DEF Pc, AfterQuery
  <2>5. CASE hash # None /\ Parent[slice[s][1]] # hash /\ from[s] - 1 = 0
    BY <1>6, <2>1, <2>5, GiveUp, Zenon DEF Check
  <2>6. CASE hash # None /\ Parent[slice[s][1]] # hash /\ from[s] - 1 # 0
    <3>1. Skip(s, "pop")
      BY <1>6, <2>6, Zenon DEF Check
    <3>2. pc'[s] = "pop" /\ from' = from /\ to' = to /\ slice' = slice /\ db' = db
      BY <3>1, Zenon DEF Skip, Goto, round, IInv, TypeOK
    <3>3. MaxEpoch(db, from[s] - 1) /\ Parent[slice[s][1]] # db[from[s] - 1]
      BY <2>2, <2>3, <2>6, ZenonT(60) DEF IsNext
    <3>4. from[s] > 1
      BY <2>2, <2>6, <3>3, SMTT(60) DEF MaxEpoch, Epoch
    <3>5. RoundInv(s)'
      <4>1. Len(slice[s]) = 1 /\ 1 >= 1
        BY <2>2
      <4>. QED  BY <3>2, <3>3, <3>4, <4>1, Zenon DEF RoundInv, Checked, Popping
    <3>. QED  BY <1>w, <2>1, <3>1, <3>5, MoveOn, Zenon DEF Pc
  <2>. QED  BY <2>4, <2>5, <2>6, Zenon
<1>. QED  BY <1>1, <1>2, <1>3, <1>4, <1>5, <1>6, Zenon

\* The writes of a round up to their commits.
LEMMA PrepareStep ==
  ASSUME Mishaps = {}, IInv, NEW s \in Syncer, Push(s) \/ PushTx(s) \/ Pop(s) \/ PopTx(s)
  PROVE  IInv'
<1>. USE EpochsAssumption, HASyncAssumption
<1>1. RoundInv(s) /\ popTo[s] \in Epoch /\ lock = s
  BY Zenon DEF IInv, TypeOK, Leads, Busy, Push, PushTx, Pop, PopTx
<1>w. Busy(s) /\ pc[s] # "window" /\ \A e \in Epoch : win[s][e] # None /\ db[e] # None => win[s][e] = db[e]
  BY Zenon DEF IInv, WinInv, Busy, Push, PushTx, Pop, PopTx
<1>2. CASE Push(s)
  <2>1. pc[s] = "push" /\ faults' \in 0 .. MaxFaults
    BY <1>2, Zenon DEF Push, IInv, TypeOK
  <2>2. CASE RequireContinuous(db, from[s])
    <3>1. Skip(s, "pushTx")
      BY <1>2, <2>2, Zenon DEF Push
    <3>2. pc'[s] = "pushTx" /\ from' = from /\ to' = to /\ slice' = slice /\ db' = db
      BY <3>1, Zenon DEF Skip, Goto, round, IInv, TypeOK
    <3>3. RoundInv(s)'
      BY <1>1, <2>1, <3>2, Zenon DEF RoundInv, Checked, Popping
    <3>. QED  BY <1>w, <2>1, <3>1, <3>3, MoveOn, Zenon DEF Pc
  <2>3. CASE ~RequireContinuous(db, from[s])
    BY <1>2, <1>w, <2>1, <2>3, GiveUp, Zenon DEF Push
  <2>. QED  BY <2>2, <2>3, Zenon
<1>3. CASE PushTx(s) \/ PopTx(s)
  <2>1. /\ chain' = chain /\ reorgs' = reorgs /\ db' = db /\ faults' = faults
        /\ status' = status /\ monitor' = monitor /\ win' = win
        /\ from' = from /\ to' = to /\ slice' = slice /\ popTo' = popTo
    BY <1>3, Zenon DEF PushTx, PopTx, env, round
  <2>2. lock' = s
    BY <1>1, <1>3, Zenon DEF PushTx, PopTx, Extend, acquireLock
  <2>3. \/ pc[s] = "pushTx" /\ pc' = [pc EXCEPT ![s] = "pushCommit"]
        \/ pc[s] = "popTx" /\ pc' = [pc EXCEPT ![s] = "popCommit"]
        \/ pc' = [pc EXCEPT ![s] = "await"]
    BY <1>3, Zenon DEF PushTx, PopTx, Goto
  <2>4. TypeOK'
    BY <2>1, <2>2, <2>3, Zenon DEF IInv, TypeOK, Pc
  <2>5. \A t \in Syncer : t # s => Leads(t)' /\ RoundInv(t)' /\ WinInv(t)'
    <3>1. \A t \in Syncer : t # s => Same(t)
      BY <2>1, <2>3, Zenon DEF Same, IInv, TypeOK
    <3>. QED  BY <1>1, <2>1, <2>2, <3>1, Others, Zenon
  <2>6. Leads(s)'
    BY <2>2, Zenon DEF Leads
  <2>7. RoundInv(s)'
    <3>1. CASE pc[s] = "pushTx" /\ pc' = [pc EXCEPT ![s] = "pushCommit"]
      <4>1. pc'[s] = "pushCommit"
        BY <3>1, Zenon DEF IInv, TypeOK
      <4>. QED  BY <1>1, <2>1, <3>1, <4>1, Zenon DEF RoundInv, Checked, Popping
    <3>2. CASE pc[s] = "popTx" /\ pc' = [pc EXCEPT ![s] = "popCommit"]
      <4>1. pc'[s] = "popCommit"
        BY <3>2, Zenon DEF IInv, TypeOK
      <4>. QED  BY <1>1, <2>1, <3>2, <4>1, Zenon DEF RoundInv, Checked, Popping
    <3>3. CASE pc' = [pc EXCEPT ![s] = "await"]
      BY <3>3, ZenonT(60) DEF RoundInv, Checked, Popping, IInv, TypeOK
    <3>. QED  BY <2>3, <3>1, <3>2, <3>3, Zenon
  <2>8. WinInv(s)'
    BY <1>w, <2>1, Zenon DEF WinInv, IInv
  <2>. QED  BY <2>1, <2>4, <2>5, <2>6, <2>7, <2>8, Zenon DEF IInv, StoreIsChain
<1>4. CASE Pop(s)
  <2>1. /\ chain' = chain /\ reorgs' = reorgs /\ db' = db /\ faults' = faults /\ lock' = lock
        /\ status' = status /\ monitor' = monitor /\ win' = win
        /\ from' = from /\ to' = to /\ slice' = slice /\ pc[s] = "pop"
    BY <1>4, Zenon DEF Pop, env, election
  <2>2. from[s] \in Nat /\ from[s] > 1 /\ MaxEpoch(db, from[s] - 1) /\ Parent[slice[s][1]] # db[from[s] - 1]
        /\ Len(slice[s]) >= 1
    <3>1. Popping(s) /\ from[s] \in 0 .. LastEpoch + 1
      BY <2>1, Zenon DEF Popping, IInv, TypeOK
    <3>2. from[s] \in Nat
      BY ONLY <3>1
    <3>. QED  BY <1>1, <3>1, <3>2, Zenon DEF RoundInv
  <2>3. pc' = [pc EXCEPT ![s] = "popTx"] /\ popTo' = [popTo EXCEPT ![s] = from[s] - 1]
    <3>1. PICK e \in Epoch : MaxEpoch(db, e) /\ popTo' = [popTo EXCEPT ![s] = e] /\ pc' = [pc EXCEPT ![s] = "popTx"]
      <4>1. from[s] - 1 \in Epoch /\ db[from[s] - 1] # None
        BY <2>2, Zenon DEF MaxEpoch
      <4>2. from[s] - 1 >= from[s] - 1
        BY ONLY <2>2
      <4>. QED  BY <1>4, <4>1, <4>2, Zenon DEF Pop, Goto
    <3>2. e = from[s] - 1
      <4>1. from[s] - 1 \in Epoch /\ ~(e > from[s] - 1) /\ ~(from[s] - 1 > e)
        BY <2>2, <3>1, Zenon DEF MaxEpoch
      <4>. QED  BY ONLY <2>2, <4>1, e \in Epoch DEF Epoch
    <3>. QED  BY <3>1, <3>2, ZenonT(60)
  <2>4. TypeOK'
    BY <2>1, <2>2, <2>3, Zenon DEF IInv, TypeOK, Pc, MaxEpoch
  <2>5. \A t \in Syncer : t # s => Leads(t)' /\ RoundInv(t)' /\ WinInv(t)'
    <3>1. \A t \in Syncer : t # s => Same(t)
      BY <2>1, <2>3, Zenon DEF Same, IInv, TypeOK
    <3>. QED  BY <2>1, <3>1, Others, Zenon
  <2>6. Leads(s)'
    BY <1>1, <2>1, Zenon DEF Leads
  <2>7. pc'[s] = "popTx" /\ popTo'[s] = from[s] - 1
    BY <2>3, Zenon DEF IInv, TypeOK
  <2>8. RoundInv(s)'
    BY <2>1, <2>2, <2>7, Zenon DEF RoundInv, Checked, Popping
  <2>9. WinInv(s)'
    BY <1>w, <2>1, ZenonT(60) DEF WinInv, IInv
  <2>. QED  BY <2>1, <2>4, <2>5, <2>6, <2>8, <2>9, Zenon DEF IInv, StoreIsChain
<1>. QED  BY <1>2, <1>3, <1>4, Zenon


\* The commits: the only steps of a round that change the store.
LEMMA CommitStep ==
  ASSUME Mishaps = {}, IInv, NEW s \in Syncer, PushCommit(s) \/ PopCommit(s)
  PROVE  /\ IInv'
         /\ \/ PushCommit(s) /\ \A e \in Epoch : db[e] # None => db'[e] = db[e]
            \/ \E e \in Epoch : db[e] # None /\ db' = Remove(db, e, LastEpoch)
<1>. USE EpochsAssumption, HASyncAssumption
<1>1. /\ RoundInv(s) /\ lock = s /\ slice[s] \in Seq(Block) /\ db \in Map
      /\ from[s] \in Nat /\ IsChain(db, FromEpoch)
  <2>1. RoundInv(s) /\ lock = s /\ IsChain(db, FromEpoch)
    BY Zenon DEF IInv, Leads, Busy, PushCommit, PopCommit, StoreIsChain
  <2>2. slice[s] \in Seq(Block) /\ db \in Map /\ from[s] \in 0 .. LastEpoch + 1
    BY Zenon DEF IInv, TypeOK
  <2>. QED  BY <2>1, <2>2
<1>2. /\ chain' = chain /\ reorgs' = reorgs /\ faults' = faults /\ lock' = lock
      /\ status' = status /\ monitor' = monitor /\ win' = win
      /\ from' = from /\ to' = to /\ slice' = slice /\ popTo' = popTo
  BY Zenon DEF PushCommit, PopCommit, env, election, round
<1>3. \A e \in Epoch : win[s][e] # None /\ db[e] # None => win[s][e] = db[e]
  BY Zenon DEF IInv, WinInv, Busy, PushCommit, PopCommit
<1>4. \A t \in Syncer : t # s => Leads(t)' /\ RoundInv(t)' /\ WinInv(t)'
  <2>1. \A t \in Syncer : t # s => Same(t)
    BY <1>2, Zenon DEF Same, IInv, TypeOK, PushCommit, PopCommit, Goto
  <2>2. Busy(s)
    BY Zenon DEF Busy, PushCommit, PopCommit
  <2>. QED  BY <1>2, <2>1, <2>2, Others, Zenon
<1>5. Leads(s)'
  BY <1>1, <1>2, Zenon DEF Leads
<1>6. CASE PushCommit(s)
  <2>1. db' = Pushn(db, from[s], slice[s]) /\ pc[s] = "pushCommit" /\ pc'[s] = "window"
    BY <1>6, Zenon DEF PushCommit, Goto, IInv, TypeOK
  <2>2. /\ IsNext(db, from[s]) /\ Len(slice[s]) >= 1 /\ Consecutive(slice[s])
        /\ db # NoEpochs => Parent[slice[s][1]] = db[from[s] - 1]
        /\ from[s] + Len(slice[s]) <= to[s] + 1
    BY <1>1, <2>1, Zenon DEF RoundInv, Checked
  <2>3. db' \in Map /\ IsChain(db', FromEpoch)
    BY <1>1, <2>1, <2>2, PushChain, Zenon
  <2>4. TypeOK'
    BY <1>2, <1>6, <2>3, Zenon DEF IInv, TypeOK, Pc, PushCommit, Goto
  <2>5. /\ \A e \in Epoch : e - from[s] + 1 \in 1 .. Len(slice[s]) => db'[e] = slice[s][e - from[s] + 1]
        /\ \A e \in Epoch : e < from[s] => db'[e] = db[e]
    BY <1>1, <2>1, SMTT(60) DEF Pushn, Epoch
  <2>6. RoundInv(s)'
    BY <1>2, <2>1, <2>2, <2>5, Zenon DEF RoundInv, Checked, Popping
  <2>7. WinInv(s)'
    BY <1>2, <1>3, <2>1, <2>5, ZenonT(60) DEF WinInv, IInv
  <2>8. \A e \in Epoch : db[e] # None => e < from[s]
    BY <1>1, <2>2 DEF IsNext, MaxEpoch, NoEpochs, Epoch
  <2>. QED  BY <1>4, <1>5, <1>6, <2>3, <2>4, <2>5, <2>6, <2>7, <2>8, Zenon DEF IInv, StoreIsChain
<1>7. CASE PopCommit(s)
  <2>1. db' = Remove(db, from[s] - 1, popTo[s]) /\ pc[s] = "popCommit" /\ pc'[s] = "popWin"
    BY <1>7, Zenon DEF PopCommit, Goto, IInv, TypeOK
  <2>2. MaxEpoch(db, from[s] - 1) /\ popTo[s] = from[s] - 1 /\ from[s] > 1
    BY <1>1, <2>1, Zenon DEF RoundInv, Popping
  <2>3. from[s] - 1 \in Epoch /\ db[from[s] - 1] # None
    BY <2>2, Zenon DEF MaxEpoch
  <2>4. db' = Remove(db, from[s] - 1, LastEpoch)
    BY <1>1, <2>1, <2>2, <2>3, RemoveTop, Zenon
  <2>5. db' \in Map /\ IsChain(db', FromEpoch)
    BY <1>1, <2>3, <2>4, RemoveChain DEF Epoch
  <2>6. TypeOK'
    BY <1>2, <1>7, <2>5, Zenon DEF IInv, TypeOK, Pc, PopCommit, Goto
  <2>7. RoundInv(s)'
    BY <1>2, <2>1, <2>2, Zenon DEF RoundInv, Checked, Popping
  <2>8. \A e \in Epoch : db'[e] # None => db'[e] = db[e]
    BY <2>4, Zenon DEF Remove
  <2>9. WinInv(s)'
    BY <1>2, <1>3, <2>1, <2>8, Zenon DEF WinInv, IInv
  <2>. QED  BY <1>4, <1>5, <2>3, <2>4, <2>5, <2>6, <2>7, <2>9, Zenon DEF IInv, StoreIsChain
<1>. QED  BY <1>6, <1>7, Zenon

\* The window after a push holds blocks of the slice and of the old window
\* below it, or nothing.
LEMMA WinPushed ==
  ASSUME NEW w \in Map, NEW e \in Nat, NEW q \in Seq(Block), Len(q) >= 1
  PROVE  /\ WinPush(w, e, q) \in Map
         /\ \A f \in Epoch : WinPush(w, e, q)[f] # None =>
              \/ f < e /\ WinPush(w, e, q)[f] = w[f]
              \/ f - e + 1 \in 1 .. Len(q) /\ WinPush(w, e, q)[f] = q[f - e + 1]
<1>. USE EpochsAssumption, HASyncAssumption
<1>. DEFINE p == Pushn(w, e, q)
            r == Remove(p, 0, e + Len(q) - 1 - WinCapacity)
            fits == w = NoEpochs \/ (MaxEpoch(w, e - 1) /\ w[e - 1] = Parent[q[1]])
<1>1. WinPush(w, e, q) = IF fits THEN r ELSE NoEpochs
  BY DEF WinPush
<1>2. CASE ~fits
  BY <1>1, <1>2, ZenonT(60) DEF NoEpochs, Map
<1>3. CASE fits
  <2>1. p \in Map
    BY DEF Pushn, Map, Epoch
  <2>2. r \in Map /\ \A f \in Epoch : r[f] # None => r[f] = p[f]
    BY <2>1, Zenon DEF Remove, Map
  <2>3. \A f \in Epoch : w[f] # None => f < e
    BY <1>3 DEF MaxEpoch, NoEpochs, Epoch
  <2>4. \A f \in Epoch : p[f] = IF f - e + 1 \in 1 .. Len(q) THEN q[f - e + 1] ELSE w[f]
    BY Zenon DEF Pushn
  <2>. QED  BY <1>1, <1>3, <2>2, <2>3, <2>4, Zenon
<1>. QED  BY <1>2, <1>3, Zenon

\* The window follows the store after a commit.
LEMMA WindowStep ==
  ASSUME Mishaps = {}, IInv, NEW s \in Syncer, Window(s) \/ PopWin(s)
  PROVE  IInv'
<1>. USE EpochsAssumption, HASyncAssumption
<1>1. /\ RoundInv(s) /\ WinInv(s) /\ lock = s /\ slice[s] \in Seq(Block) /\ db \in Map /\ win[s] \in Map
      /\ from[s] \in 0 .. LastEpoch + 1 /\ to[s] \in Epoch /\ IsChain(db, FromEpoch) /\ Busy(s)
  BY Zenon DEF IInv, TypeOK, Leads, Busy, Window, PopWin, StoreIsChain
<1>2. /\ chain' = chain /\ reorgs' = reorgs /\ faults' = faults /\ lock' = lock /\ db' = db
      /\ status' = status /\ monitor' = monitor /\ to' = to /\ slice' = slice /\ popTo' = popTo
      /\ pc' = [pc EXCEPT ![s] = "await"] /\ pc'[s] = "await"
  BY Zenon DEF Window, PopWin, Goto, env, election, IInv, TypeOK
<1>3. \A t \in Syncer : t # s => Leads(t)' /\ RoundInv(t)' /\ WinInv(t)'
  <2>1. \A t \in Syncer : t # s => Same(t)
    BY <1>2, ZenonT(60) DEF Same, IInv, TypeOK, Window, PopWin
  <2>. QED  BY <1>2, <2>1, Others, Zenon
<1>4. Leads(s)' /\ RoundInv(s)'
  BY <1>1, <1>2, Zenon DEF Leads, RoundInv, Checked, Popping
<1>5. CASE Window(s)
  <2>1. /\ pc[s] = "window"
        /\ win' = [win EXCEPT ![s] = WinPush(win[s], from[s], slice[s])]
        /\ from' = [from EXCEPT ![s] = from[s] + Len(slice[s])]
    BY <1>5, Zenon DEF Window
  <2>2. /\ Len(slice[s]) >= 1 /\ from[s] + Len(slice[s]) <= to[s] + 1
        /\ \A e \in Epoch : e - from[s] + 1 \in 1 .. Len(slice[s]) => db[e] = slice[s][e - from[s] + 1]
        /\ \A e \in Epoch : win[s][e] # None /\ db[e] # None /\ e < from[s] => win[s][e] = db[e]
        /\ \A e \in Epoch : win[s][e] # None => e >= FromEpoch
    BY <1>1, <2>1, Zenon DEF RoundInv, WinInv
  <2>. DEFINE w == WinPush(win[s], from[s], slice[s])
  <2>3. /\ w \in Map
        /\ \A e \in Epoch : w[e] # None =>
             \/ e < from[s] /\ w[e] = win[s][e]
             \/ e - from[s] + 1 \in 1 .. Len(slice[s]) /\ w[e] = slice[s][e - from[s] + 1]
    <3>1. from[s] \in Nat /\ win[s] \in Map /\ slice[s] \in Seq(Block) /\ Len(slice[s]) >= 1
      BY <1>1, <2>2
    <3>. QED  BY ONLY <3>1, WinPushed, Zenon
  <2>. HIDE DEF w
  <2>4. win'[s] = w
    BY <2>1, Zenon DEF IInv, TypeOK, w
  <2>5. \A e \in Epoch : w[e] # None => e >= FromEpoch /\ (db[e] # None => w[e] = db[e])
    BY <1>1, <2>2, <2>3, Zenon DEF IsChain
  <2>6. WinInv(s)'
    BY <1>2, <2>4, <2>5, Zenon DEF WinInv
  <2>7. TypeOK'
    <3>1. from[s] + Len(slice[s]) \in 0 .. LastEpoch + 1
      <4>1. /\ from[s] \in Nat /\ Len(slice[s]) \in Nat /\ to[s] \in 0 .. LastEpoch
            /\ from[s] + Len(slice[s]) <= to[s] + 1 /\ LastEpoch \in Nat
        <5>1. from[s] \in Nat /\ to[s] \in 0 .. LastEpoch /\ LastEpoch \in Nat
          BY <1>1 DEF Epoch
        <5>2. Len(slice[s]) \in Nat
          BY <1>1
        <5>. QED  BY <2>2, <5>1, <5>2, Zenon
      <4>. QED  BY ONLY <4>1, SMTT(60)
    <3>2. win' \in [Syncer -> Map]
      BY <2>1, <2>3, Zenon DEF IInv, TypeOK, w
    <3>. QED  BY <1>2, <2>1, <3>1, <3>2, Zenon DEF IInv, TypeOK, Pc
  <2>. QED  BY <1>2, <1>3, <1>4, <2>6, <2>7, Zenon DEF IInv, StoreIsChain
<1>6. CASE PopWin(s)
  <2>. DEFINE w == Remove(win[s], from[s] - 1, LastEpoch)
  <2>1. /\ pc[s] = "popWin" /\ win' = [win EXCEPT ![s] = w] /\ win'[s] = w
        /\ from' = [from EXCEPT ![s] = from[s] - 1]
    BY <1>6, Zenon DEF PopWin, IInv, TypeOK
  <2>2. w \in Map /\ \A e \in Epoch : w[e] # None => w[e] = win[s][e]
    BY <1>1, Zenon DEF Remove, Map
  <2>. HIDE DEF w
  <2>3. WinInv(s)'
    BY <1>1, <1>2, <2>1, <2>2, ZenonT(60) DEF WinInv
  <2>4. from[s] - 1 \in 0 .. LastEpoch + 1
    <3>1. from[s] > 1 /\ from[s] \in 0 .. LastEpoch + 1
      BY <1>1, <2>1, Zenon DEF RoundInv
    <3>. QED  BY ONLY <3>1, EpochsAssumption
  <2>5. TypeOK'
    BY <1>2, <2>1, <2>2, <2>4, Zenon DEF IInv, TypeOK, Pc
  <2>. QED  BY <1>2, <1>3, <1>4, <2>3, <2>5, Zenon DEF IInv, StoreIsChain
<1>. QED  BY <1>5, <1>6, Zenon
-----------------------------------------------------------------------------
\* Every step preserves the inductive invariant.
LEMMA NextIInv ==
  ASSUME Mishaps = {}, IInv, [Next]_vars
  PROVE  IInv'
<1>1. CASE UNCHANGED vars
  <2>1. TypeOK' /\ StoreIsChain'
    BY <1>1, Zenon DEF IInv, TypeOK, StoreIsChain, vars
  <2>2. ASSUME NEW s \in Syncer PROVE Leads(s)' /\ RoundInv(s)' /\ WinInv(s)'
    <3>1. Same(s) /\ db' = db /\ lock' = lock
      BY <1>1, Zenon DEF vars, Same
    <3>2. RoundInv(s)' /\ WinInv(s)'
      BY <3>1, Frame, Zenon DEF IInv
    <3>3. Leads(s)'
      BY <3>1, Zenon DEF IInv, Leads, Same, Busy
    <3>. QED  BY <3>2, <3>3, Zenon
  <2>. QED  BY <2>1, <2>2, Zenon DEF IInv
<1>2. CASE GrowChain \/ RevertChain \/ OrphanExpires
  BY <1>2, EnvStep, Zenon
<1>3. ASSUME NEW s \in Syncer,
             \/ LeaseExpires(s) \/ Start(s) \/ Crash(s) \/ Stop(s)
             \/ Elect(s) \/ Renew(s) \/ Oust(s) \/ AcquireReplyLost(s)
             \/ SyncStep(s) \/ QuerySwitched(s) \/ Fail(s)
      PROVE  IInv'
  <2>1. CASE LeaseExpires(s)
    BY <2>1, EnvStep, Zenon
  <2>2. CASE Start(s) \/ Crash(s) \/ Stop(s)
    BY <2>2, ProcessStep, Zenon
  <2>3. CASE Elect(s) \/ Renew(s) \/ Oust(s) \/ AcquireReplyLost(s)
    BY <2>3, ElectionStep, Zenon
  <2>4. CASE \/ Await(s) \/ Load(s) \/ Query(s) \/ QueryMissing(s) \/ QuerySwitched(s)
             \/ Check(s) \/ Fail(s)
    BY <2>4, ReadStep, Zenon
  <2>5. CASE Push(s) \/ PushTx(s) \/ Pop(s) \/ PopTx(s)
    BY <2>5, PrepareStep, Zenon
  <2>6. CASE PushCommit(s) \/ PopCommit(s)
    BY <2>6, CommitStep, Zenon
  <2>7. CASE Window(s) \/ PopWin(s)
    BY <2>7, WindowStep, Zenon
  <2>. QED  BY <1>3, <2>1, <2>2, <2>3, <2>4, <2>5, <2>6, <2>7, Zenon DEF SyncStep
<1>. QED  BY <1>1, <1>2, <1>3, Zenon DEF Next

\* Leadership, rounds, windows and the store stay in step for ever, as long as
\* no mishap happens.
THEOREM Inductive ==
  ASSUME Mishaps = {}
  PROVE  Spec => []IInv
<1>1. IInv /\ [Next]_vars => IInv'
  BY NextIInv, Zenon
<1>. QED  BY <1>1, InitIInv, PTL DEF Spec

\* The variables keep their types: epochFrom never passes the epoch after the
\* last, the window and the table only ever hold blocks.
THEOREM TypesHold ==
  ASSUME Mishaps = {}
  PROVE  Spec => []TypeOK
<1>1. IInv => TypeOK
  BY Zenon DEF IInv
<1>. QED  BY <1>1, Inductive, PTL

\* What syncOnce commits is one chain of epochs, for any number of processes.
THEOREM StoreStaysChain ==
  ASSUME Mishaps = {}
  PROVE  Spec => []StoreIsChain
<1>1. IInv => StoreIsChain
  BY Zenon DEF IInv
<1>. QED  BY <1>1, Inductive, PTL

\* The election lock makes the rounds of syncOnce exclusive.
THEOREM RoundsStayExclusive ==
  ASSUME Mishaps = {}
  PROVE  Spec => []RoundsExclude
<1>1. IInv => RoundsExclude
  BY Zenon DEF IInv, Leads, RoundsExclude
<1>. QED  BY <1>1, Inductive, PTL

\* The cached pivot hashes of a leader are those of the store.
THEOREM WindowStaysInStep ==
  ASSUME Mishaps = {}
  PROVE  Spec => []WindowAgrees
<1>1. IInv => WindowAgrees
  BY Zenon DEF IInv, WinInv, WindowAgrees
<1>. QED  BY <1>1, Inductive, PTL

\* pivotSwitchRevert only pops an epoch that the next one contradicts.
THEOREM PopsAreNeeded ==
  ASSUME Mishaps = {}
  PROVE  Spec => []NoNeedlessPop
<1>1. IInv => NoNeedlessPop
  BY Zenon DEF IInv, RoundInv, Popping, NoNeedlessPop
<1>. QED  BY <1>1, Inductive, PTL

\* Every step of the syncers is a push onto or a pop from a stack of epochs,
\* or leaves the store alone: the syncers implement store.StackOperable.
THEOREM ImplementsStack ==
  ASSUME Mishaps = {}
  PROVE  Spec => StoreIsStack
<1>1. Init => Stack!Init
  BY Zenon DEF Init, Stack!Init, NoEpochs, Stack!NoEpochs, Epoch, Stack!Epoch
<1>2. IInv /\ IInv' /\ [Next]_vars => [Stack!Next]_db
  <2>. SUFFICES ASSUME IInv, IInv', [Next]_vars, db' # db
                PROVE  Stack!Next
    OBVIOUS
  <2>1. PICK s \in Syncer : Start(s) \/ PushCommit(s) \/ PopCommit(s)
    <3>1. CASE \E s \in Syncer : Start(s) \/ PushCommit(s) \/ PopCommit(s)
      BY <3>1, Zenon
    <3>2. CASE UNCHANGED vars \/ GrowChain \/ RevertChain \/ OrphanExpires
      BY <3>2, Zenon DEF vars, GrowChain, RevertChain, OrphanExpires
    <3>3. ASSUME NEW s \in Syncer,
                 \/ LeaseExpires(s) \/ Crash(s) \/ Stop(s)
                 \/ Elect(s) \/ Renew(s) \/ Oust(s) \/ AcquireReplyLost(s)
          PROVE  FALSE
      BY <3>3, ZenonT(60) DEF LeaseExpires, Crash, Stop, Elect, Renew, Oust, AcquireReplyLost
    <3>4. ASSUME NEW s \in Syncer,
                 \/ Await(s) \/ Load(s) \/ Query(s) \/ QueryMissing(s) \/ QuerySwitched(s)
                 \/ Check(s) \/ Fail(s) \/ Push(s) \/ PushTx(s) \/ Pop(s) \/ PopTx(s)
                 \/ Window(s) \/ PopWin(s)
          PROVE  FALSE
      BY <3>4 DEF Await, Load, Query, QueryMissing, QuerySwitched, Check, Fail, Push, PushTx,
                  Pop, PopTx, Window, PopWin, Skip
    <3>. QED  BY <3>1, <3>2, <3>3, <3>4, Zenon DEF Next, SyncStep
  <2>2. db' \in Map /\ IsChain(db', FromEpoch)
    BY Zenon DEF IInv, TypeOK, StoreIsChain
  <2>3. \/ \A e \in Epoch : db[e] # None => db'[e] = db[e]
        \/ \E e \in Epoch : db[e] # None /\ db' = Remove(db, e, LastEpoch)
    <3>1. CASE Start(s)
      <4>1. \E e \in Epoch : db[e] # None /\ db' = Remove(db, e, LastEpoch)
        BY <3>1, Zenon DEF Start, FirstReverted
      <4>. QED  BY <4>1, Zenon
    <3>2. CASE PushCommit(s) \/ PopCommit(s)
      BY <3>2, CommitStep, Zenon
    <3>. QED  BY <2>1, <3>1, <3>2, Zenon
  <2>. QED  BY <2>2, <2>3 DEF Stack!Next, Stack!Push, Stack!Pop, Stack!Map, Map,
              Stack!Epoch, Epoch, Stack!IsChain, IsChain, Stack!Remove, Remove
<1>. QED  BY <1>1, <1>2, Inductive, PTL DEF Spec, StoreIsStack, Stack!Spec
=============================================================================
