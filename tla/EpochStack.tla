----------------------------- MODULE EpochStack -----------------------------
(***************************************************************************)
(* What the database store promises its users (store.StackOperable): the   *)
(* stored epochs are a stack that always holds one chain.  Epochs enter by *)
(* pushing consecutive ones, each the child of the one before it, onto the *)
(* latest epoch, and leave by popping all epochs from some number on.      *)
(***************************************************************************)
EXTENDS Epochs

VARIABLE db   \* the pivot block stored for each epoch

Init == db = NoEpochs

Push ==
  /\ db' \in Map
  /\ \A e \in Epoch : db[e] # None => db'[e] = db[e]
  /\ IsChain(db', FromEpoch)

Pop == \E e \in Epoch : db[e] # None /\ db' = Remove(db, e, LastEpoch)

Next == Push \/ Pop

Spec == Init /\ [][Next]_db
=============================================================================
