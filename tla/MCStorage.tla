----------------------------- MODULE MCStorage -----------------------------
(* Small instances for TLC of the parts that keep Merkle trees.            *)
EXTENDS Storage, TLC

CONSTANTS itemA, itemB, keyA, keyB

MCBatches == {<<itemB, itemA>>}
MCKeyBatches == {<<keyB, keyA>>, <<keyA, keyA>>}
StorageSymmetry == Permutations(Tasks) \cup Permutations(Callers)
=============================================================================
