------------------------------- MODULE Epochs -------------------------------
(***************************************************************************)
(* Pivot blocks, epochs, and maps from epochs to pivot blocks.             *)
(*                                                                         *)
(* The pivot block of an epoch stands for all of the epoch's data          *)
(* (store.EpochData): blocks, receipts and logs never change for a given   *)
(* pivot hash.  A map gives the block of an epoch, or None: the table      *)
(* epoch_block_map, the in-memory pivot window of a syncer and the pivot   *)
(* chain of the full node are such maps.                                   *)
(***************************************************************************)
EXTENDS Integers, Sequences

CONSTANTS
  Block,      \* pivot blocks
  None,       \* no block, and no lock holder
  Genesis,    \* the block of epoch 0
  Parent,     \* EpochData.GetPivotBlock().ParentHash, None for Genesis
  LastEpoch,  \* bound: the last epoch number considered
  FromEpoch   \* syncConfig.FromEpoch, where a new store begins

ASSUME EpochsAssumption ==
  /\ LastEpoch \in Nat
  /\ FromEpoch \in 0 .. LastEpoch
  /\ None \notin Block
  /\ Genesis \in Block
  /\ Parent \in [Block -> Block \cup {None}]

Epoch == 0 .. LastEpoch

Map == [Epoch -> Block \cup {None}]

NoEpochs == [e \in Epoch |-> None]

\* MAX(epoch), as a relation: e is the largest epoch that m has a block for.
MaxEpoch(m, e) == e \in Epoch /\ m[e] # None /\ \A f \in Epoch : f > e => m[f] = None

\* RequireContinuous: e may be pushed onto m, as the epoch after the largest
\* one or, when there is none, as any epoch at all.
RequireContinuous(m, e) == m = NoEpochs \/ MaxEpoch(m, e - 1)

\* m with the blocks of batch in the epochs from e on.
Pushn(m, e, batch) ==
  [f \in Epoch |-> IF f - e + 1 \in 1 .. Len(batch) THEN batch[f - e + 1] ELSE m[f]]

\* m without the epochs lo .. hi.
Remove(m, lo, hi) == [f \in Epoch |-> IF f \in lo .. hi THEN None ELSE m[f]]

\* The epochs of m from the epoch start on are consecutive and each is the
\* child of the one before it.
IsChain(m, start) ==
  \A e \in Epoch : m[e] # None =>
    /\ e >= start
    /\ e > start => m[e - 1] # None /\ m[e - 1] = Parent[m[e]]

\* The pivot chains a full node can have.
PivotChains == {c \in Map : IsChain(c, 0) /\ c[0] = Genesis}
=============================================================================
