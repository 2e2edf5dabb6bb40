------------------------------- MODULE Trees -------------------------------
(***************************************************************************)
(* The Merkle trees of the client: MemoryTree and the parts DBTree shares  *)
(* with it, as operators on a tree value.  A hash is a record of what was  *)
(* hashed, so that two hashes are equal only when their inputs are.        *)
(*                                                                         *)
(* JavaScript's &, ^, ~ and >> work on the number's low BitWidth bits read *)
(* as a signed integer (32 in the language, fewer in a small instance);    *)
(* + and - do not.  An index of 2^(BitWidth-1) or more comes out negative. *)
(***************************************************************************)
EXTENDS Powers, Sequences, FiniteSets, Functions

CONSTANT BitWidth
ASSUME BitWidthAssumption == BitWidth \in Nat /\ BitWidth > 2

Hash2(l, r) == [l |-> l, r |-> r]
toLeaf(item) == [item |-> item]
ZeroLeaf == [zero |-> TRUE]

\* Hasher.zeros: the node of every level above nothing but zero leaves.
zeros(depth) ==
  LET z[i \in 0 .. depth] ==
        IF i = depth THEN ZeroLeaf ELSE LET below == z[i + 1] IN Hash2(below, below)
  IN  z

\* The operands of the bit operators.
ToSigned(n) ==
  LET low == n % Pow2[BitWidth]
  IN  IF low < Pow2[BitWidth - 1] THEN low ELSE low - Pow2[BitWidth]
IsOdd(n) == ToSigned(n) % 2 = 1
Sibling(n) == LET m == ToSigned(n) IN IF m % 2 = 1 THEN m - 1 ELSE m + 1
ShiftRight(n, k) == ToSigned(n) \div Pow2[k]

(***************************************************************************)
(* A tree: its depth, its zeros and the nodes that were ever written; the  *)
(* others are the zeros of their level.  Level 0 is the root's.            *)
(***************************************************************************)
NewTree(depth) == [depth |-> depth, zeros |-> zeros(depth), nodes |-> << >>]

getNode(tree, level, index) ==
  IF <<level, index>> \in DOMAIN tree.nodes
  THEN tree.nodes[<<level, index>>] ELSE tree.zeros[level]

treeRoot(tree) == getNode(tree, 0, 0)

SetNode(tree, level, index, node) ==
  [tree EXCEPT !.nodes = [p \in DOMAIN @ \cup {<<level, index>>} |->
                            IF p = <<level, index>> THEN node ELSE @[p]]]

\* getCouple, hashCouple: the pair of nodes an index is one of, hashed.
LeftOf(index) == ToSigned(index) - (ToSigned(index) % 2)
coupleOf(tree, level, index) ==
  Hash2(getNode(tree, level, LeftOf(index)), getNode(tree, level, LeftOf(index) + 1))

updateCouple(tree, level, index) ==
  SetNode(tree, level - 1, ShiftRight(index, 1), coupleOf(tree, level, index))

\* ascend: the couples above `len` leaves from `offset` on, level by level; an
\* index and a length that are odd are moved to the couples' ends.
updateCouples(tree, level, offset, count) ==
  LET couple[k \in 0 .. count] ==
        IF k = 0 THEN tree
        ELSE updateCouple(couple[k - 1], level, offset + 2 * (k - 1))
  IN  couple[count]
\* Mutant: a couple's half is left out.
AsLong(len) == len
EvenLength(len) == len + (len % 2)
AscendLevel(s, level) ==
  LET down == IF IsOdd(s.offset) THEN 1 ELSE 0
      offset == s.offset - down
      len == EvenLength(s.len + down)
  IN  [tree |-> updateCouples(s.tree, level, offset, len \div 2),
       offset |-> ShiftRight(offset, 1), len |-> ShiftRight(len, 1)]
ascend(tree, offset, len) ==
  LET after[level \in 0 .. tree.depth] ==
        IF level = tree.depth
        THEN [tree |-> tree, offset |-> offset, len |-> len]
        ELSE AscendLevel(after[level + 1], level + 1)
  IN  after[0].tree

\* checkSetSize: the indices are in 0 .. 2^tree.depth - 1 wherever
\* these are used.
updateSingle(tree, index, leaf) ==
  ascend(SetNode(tree, tree.depth, index, leaf), index, 1)

updateBatch(tree, offset, leaves) ==
  LET written == {<<tree.depth, offset + i - 1>> : i \in DOMAIN leaves}
      nodes == [p \in DOMAIN tree.nodes \cup written |->
                  IF p \in written THEN leaves[p[2] - offset + 1] ELSE tree.nodes[p]]
  IN  ascend([tree EXCEPT !.nodes = nodes], offset, Len(leaves))

\* path[i] holds when the i-th sibling is the right one of its couple.
witness(tree, index, depth) ==
  LET follow[i \in 0 .. depth] ==
        IF i = 0 THEN index ELSE LET n == follow[i - 1] IN ShiftRight(Sibling(n), 1)
      siblings == [i \in 1 .. depth |-> Sibling(follow[i - 1])]
  IN  [path |-> [i \in 1 .. depth |-> IsOdd(siblings[i])],
       nodes |-> [i \in 1 .. depth |-> getNode(tree, depth - i + 1, siblings[i])],
       leaf |-> getNode(tree, depth, index), depth |-> depth]

\* BadMergeAlignment: the leaves are those of one node `subtreeDepth` up.
IsAligned(offset, subtreeDepth) ==
  ShiftRight(offset, subtreeDepth) = ShiftRight(offset + Pow2[subtreeDepth] - 1, subtreeDepth)
witnessForBatch(tree, offset, subtreeDepth) ==
  witness(tree, ShiftRight(offset, subtreeDepth), tree.depth - subtreeDepth)

\* checkInclusion of a witness made by witness() with nodes.
checkInclusion(tree, w) ==
  LET up[i \in 0 .. w.depth] ==
        IF i = 0 THEN w.leaf
        ELSE IF w.path[i] THEN Hash2(up[i - 1], w.nodes[i]) ELSE Hash2(w.nodes[i], up[i - 1])
  IN  up[w.depth] = treeRoot(tree)

\* computeRoot of utils.ts: the same from the bits of a number.
computeRoot(leaf, path, nodes) ==
  LET up[i \in 0 .. Len(nodes)] ==
        IF i = 0 THEN leaf
        ELSE IF IsOdd(ShiftRight(path, i - 1)) THEN Hash2(nodes[i], up[i - 1])
                                               ELSE Hash2(up[i - 1], nodes[i])
  IN  up[Len(nodes)]

isZero(tree, level, index) == getNode(tree, level, index) = tree.zeros[level]

\* minTreeDepth: at least one level, and the least one that has the leaves.
minTreeDepth(n) ==
  IF n = 1 THEN 1 ELSE CHOOSE d \in 0 .. n : Pow2[d] >= n /\ \A e \in 0 .. d - 1 : Pow2[e] < n

merklize(leaves) == updateBatch(NewTree(minTreeDepth(Len(leaves))), 0, leaves)

(***************************************************************************)
(* What a tree is for, without its algorithm: the hashes above the leaves. *)
(***************************************************************************)
MerkleNodes(depth, leaves) ==
  LET h[level \in 0 .. depth] ==
        IF level = depth
        THEN [i \in 0 .. Pow2[level] - 1 |-> IF i \in DOMAIN leaves THEN leaves[i] ELSE ZeroLeaf]
        ELSE LET below == h[level + 1]
             IN  [i \in 0 .. Pow2[level] - 1 |-> Hash2(below[2 * i], below[2 * i + 1])]
  IN  h
MerkleRoot(depth, leaves) == MerkleNodes(depth, leaves)[0][0]

\* Every node is the hash of the leaves below it.
Hashed(tree, leaves) ==
  LET h == MerkleNodes(tree.depth, leaves)
  IN  \A level \in 0 .. tree.depth :
        h[level] = [i \in 0 .. Pow2[level] - 1 |-> getNode(tree, level, i)]

\* The witness of every node, of leaves or subtrees, proves it, where the bit
\* operators see its index and its leaves as they are.
WitnessesProve(tree) ==
  \A level \in 1 .. tree.depth :
    \A i \in {n \in 0 .. Pow2[level] - 1 :
               ToSigned((n + 1) * Pow2[tree.depth - level] - 1) >= 0} :
    LET w == witness(tree, i, level)
    IN  /\ checkInclusion(tree, w)
        /\ computeRoot(w.leaf, i, w.nodes) = treeRoot(tree)
        /\ IsAligned(i * Pow2[tree.depth - level], tree.depth - level)
        /\ w = witnessForBatch(tree, i * Pow2[tree.depth - level], tree.depth - level)
=============================================================================
