--------------------------- MODULE StorageEngine ---------------------------
(* What the storage engines of the client have in common: items by ID, and *)
(* a Merkle tree of their hashes (interfaces.ts).                          *)
EXTENDS Trees

CONSTANTS
  Depth,      \* of the tree
  Items,      \* what is stored: states or public keys
  Batches,    \* the lists of items given to updateBatch
  Tasks,      \* the callers: event handlers and the packer
  UsedIDs,    \* bound: the IDs given to update and create, or the first of a batch
  MaxUpdates  \* bound: the updates made

ASSUME StorageAssumption == /\ Depth \in Nat \ {0}
                            /\ MaxUpdates \in Nat
                            /\ Depth <= BitWidth
                            /\ Batches \subseteq Seq(Items) \ {<< >>}
                            /\ UsedIDs \subseteq 0 .. Pow2[Depth] - 1

\* checkSize refuses other IDs.
IDs == 0 .. Pow2[Depth] - 1
IsStore(store) == DOMAIN store \subseteq IDs /\ store \in [DOMAIN store -> Items]
Put(f, k, v) == [x \in DOMAIN f \cup {k} |-> IF x = k THEN v ELSE f[x]]

\* The subtree of 2^depth items that is the path-th one.
FirstOf(path, depth) == path * Pow2[depth]
Below(path, depth) == FirstOf(path, depth) .. FirstOf(path, depth) + Pow2[depth] - 1

\* The leaves of a store, where the bit operators see their IDs as they are.
LeavesFor(store) == [id \in DOMAIN store |-> toLeaf(store[id])]
Representable(store) == \A id \in DOMAIN store : ToSigned(id) >= 0
=============================================================================
