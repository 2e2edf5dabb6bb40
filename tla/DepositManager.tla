--------------------------- MODULE DepositManager ---------------------------
(***************************************************************************)
(* contracts/DepositManager.sol: DepositManager, on top of DepositCore     *)
(* (the merging of deposits into perfect subtrees) and SubtreeQueue (the   *)
(* FIFO of subtrees that wait for a deposit batch).                        *)
(*                                                                         *)
(* A call of an external function is one step.  keccak256 is injective: a  *)
(* leaf is a 1-tuple, the hash of two nodes is the pair of them.           *)
(***************************************************************************)
EXTENDS Integers, Sequences, FiniteSets, FiniteSetsExt, Functions

CONSTANTS
  MaxSubtreeDepth,  \* paramMaxSubtreeDepth
  L2Unit,           \* l2Unit of the token in the TokenRegistry
  Amounts,          \* the values of l1Amount users call depositFor with
  Callers,          \* accounts that call the contract
  Owner,            \* the deployer, who may call setRollupAddress once
  RollupAddress,    \* the address of the rollup contract
  NoAddress,        \* address(0), the value of rollup before it is set
  MaxDeposits,      \* bound: deposits made in a behaviour
  MaxWaiting        \* bound: subtrees in the queue at once

ASSUME DepositAssumption ==
  /\ MaxSubtreeDepth \in Nat /\ MaxDeposits \in Nat /\ MaxWaiting \in Nat
  /\ L2Unit \in Nat \ {0} /\ Amounts \subseteq Nat
  /\ {Owner, RollupAddress} \subseteq Callers
  /\ Owner # RollupAddress /\ NoAddress \notin Callers

VARIABLES
  babyTrees,     \* babyTrees[0 .. babyTreesLength - 1], as a sequence
  depositCount,  \* deposits merged since the last complete subtree
  queue,         \* queue: subtreeID -> root; deleted entries leave the domain
  front,         \* ID of the next subtree to dequeue
  back,          \* ID of the last subtree enqueued
  rollup,        \* the rollup's address, NoAddress until it is set
  vault,         \* the vault's token balance (external ERC20)
  leaves,        \* history: the deposit leaves, in the order of depositFor
  dequeued       \* history: the roots the rollup has been given

vars == <<babyTrees, depositCount, queue, front, back, rollup, vault,
          leaves, dequeued>>

\* 1 << d: the deposits under a node of depth d.
Size[d \in 0 .. MaxSubtreeDepth] == IF d = 0 THEN 1 ELSE 2 * Size[d - 1]

paramMaxSubtreeSize == Size[MaxSubtreeDepth]

\* keccak256(newState.encode()); pubkeyID stands for what tells deposits apart
DepositLeaf(pubkeyID, l2Amount) ==
  << [pubkeyID |-> pubkeyID, balance |-> l2Amount] >>

Shifted(i, d) == i \div Size[d]

\* How often insertAndMerge's loop runs for the i-th deposit of a subtree: it
\* shifts i until it is odd.
Merges(i) == Min({d \in 0 .. MaxSubtreeDepth : Shifted(i, d) % 2 = 1})

MergeSwapped(trees, k) ==
  LET node[j \in 0 .. k] ==
        IF j = 0 THEN trees[Len(trees)]
                 ELSE <<node[j - 1], trees[Len(trees) - j]>>
  IN  Append(SubSeq(trees, 1, Len(trees) - k - 1), node[k])

\* The last k + 1 trees of a sequence, hashed pairwise from the right.
MergeRight(trees, k) ==
  LET node[j \in 0 .. k] ==
        IF j = 0 THEN trees[Len(trees)]
                 ELSE <<trees[Len(trees) - j], node[j - 1]>>
  IN  Append(SubSeq(trees, 1, Len(trees) - k - 1), node[k])

EnqueueInPlace(subtreeRoot) ==
  /\ back' = back
  /\ queue' = [id \in DOMAIN queue \cup {back} |->
                 IF id = back THEN subtreeRoot ELSE queue[id]]

enqueue(subtreeRoot) ==
  /\ back' = back + 1
  /\ queue' = [id \in DOMAIN queue \cup {back + 1} |->
                 IF id = back + 1 THEN subtreeRoot ELSE queue[id]]

insertAndMerge(depositLeaf) ==
  LET count == depositCount + 1
      trees == MergeRight(Append(babyTrees, depositLeaf), Merges(count))
  IN  IF count = paramMaxSubtreeSize
      THEN /\ enqueue(trees[1])
           /\ babyTrees' = <<>>
           /\ depositCount' = 0
      ELSE /\ babyTrees' = trees
           /\ depositCount' = count
           /\ UNCHANGED <<queue, back>>

AnyAmount(l1Amount)  == l1Amount \in Nat
IsMultiple(l1Amount) == l1Amount % L2Unit = 0

(***************************************************************************)
(* The external functions.                                                 *)
(***************************************************************************)
Init ==
  /\ babyTrees = <<>> /\ depositCount = 0
  /\ queue = <<>> /\ front = 1 /\ back = 0
  /\ rollup = NoAddress
  /\ vault = 0
  /\ leaves = <<>> /\ dequeued = {}

\* `initializer onlyOwner': it takes effect once
setRollupAddress(sender) ==
  /\ sender = Owner
  /\ rollup = NoAddress
  /\ rollup' = RollupAddress
  /\ UNCHANGED <<babyTrees, depositCount, queue, front, back, vault, leaves,
                 dequeued>>

depositFor(l1Amount) ==
  LET leaf == DepositLeaf(Len(leaves) + 1, l1Amount \div L2Unit)
  IN  /\ Len(leaves) < MaxDeposits
      /\ Cardinality(DOMAIN queue) < MaxWaiting
      /\ IsMultiple(l1Amount)
      /\ vault' = vault + l1Amount
      /\ leaves' = Append(leaves, leaf)
      /\ insertAndMerge(leaf)
      /\ UNCHANGED <<front, rollup, dequeued>>

dequeueToSubmit(sender) ==
  /\ sender = rollup
  /\ back >= front
  /\ dequeued' = dequeued \cup {queue[front]}
  /\ queue' = [id \in DOMAIN queue \ {front} |-> queue[id]]
  /\ front' = front + 1
  /\ UNCHANGED <<babyTrees, depositCount, back, rollup, vault, leaves>>

\* Rollup.rollback hands back roots that it was given, possibly repeatedly.
reenqueue(sender, subtreeRoot) ==
  /\ sender = rollup
  /\ Cardinality(DOMAIN queue) < MaxWaiting
  /\ back < 2 * MaxWaiting
  /\ enqueue(subtreeRoot)
  /\ UNCHANGED <<babyTrees, depositCount, front, rollup, vault, leaves,
                 dequeued>>

Next ==
  \/ \E l1Amount \in Amounts : depositFor(l1Amount)
  \/ \E sender \in Callers :
       \/ setRollupAddress(sender)
       \/ dequeueToSubmit(sender)
       \/ \E subtreeRoot \in dequeued : reenqueue(sender, subtreeRoot)

Spec == Init /\ [][Next]_vars

(***************************************************************************)
(* Properties.                                                             *)
(***************************************************************************)
\* The perfect trees of depth d over consecutive deposits, by the first of them.
TreesOver(deposits) ==
  LET tree[d \in 0 .. MaxSubtreeDepth] ==
        [first \in Nat \ {0} |->
           IF d = 0 THEN deposits[first]
                    ELSE <<tree[d - 1][first], tree[d - 1][first + Size[d - 1]]>>]
  IN  tree

PerfectTree(d, first) == TreesOver(leaves)[d][first]

Completed == Len(leaves) \div paramMaxSubtreeSize

Subtree(k) == PerfectTree(MaxSubtreeDepth, (k - 1) * paramMaxSubtreeSize + 1)

\* The number of a complete subtree, 0 for any other node.
SubtreeNumber(root) ==
  IF \E k \in 1 .. Completed : Subtree(k) = root
  THEN CHOOSE k \in 1 .. Completed : Subtree(k) = root
  ELSE 0

\* The variables hold values of their types; the queue's IDs are contiguous.
TypeOK ==
  /\ depositCount \in 0 .. paramMaxSubtreeSize - 1
  /\ Len(babyTrees) \in 0 .. MaxSubtreeDepth
  /\ front \in Nat \ {0} /\ back \in Nat
  /\ DOMAIN queue = front .. back
  /\ rollup \in {NoAddress, RollupAddress}
  /\ vault \in Nat

\* The 1 bits of depositCount.
Bits == {d \in 0 .. MaxSubtreeDepth - 1 : Shifted(depositCount, d) % 2 = 1}

\* The first deposit under the tree of the d-th bit.
StartOf(d) ==
  Completed * paramMaxSubtreeSize + Shifted(depositCount, d + 1) * Size[d + 1] + 1

\* insertAndMerge is a binary counter.  The deposits since the last complete
\* subtree are covered, from left to right and without a gap, by one perfect
\* tree for each 1 bit of depositCount, the largest first.
BinaryCounter ==
  /\ Len(leaves) % paramMaxSubtreeSize = depositCount
  /\ Len(babyTrees) = Cardinality(Bits)
  /\ \A d \in Bits :
       babyTrees[Cardinality({e \in Bits : e > d}) + 1] = PerfectTree(d, StartOf(d))

\* No complete subtree is lost: it waits in the queue or the rollup was
\* given it.
SubtreesReachRollup ==
  \A k \in 1 .. Completed :
    \/ Subtree(k) \in dequeued
    \/ \E id \in front .. back : queue[id] = Subtree(k)

\* The vault holds exactly the tokens behind the deposited L2 balances:
\* converting an amount to L2 units leaves no remainder behind.
VaultBacksDeposits ==
  vault = L2Unit * SumFunction([n \in DOMAIN leaves |-> leaves[n][1].balance])

\* Merging deposits and keeping IDs implements the FIFO the rollup relies on.
Abstract == INSTANCE DepositQueue WITH
  queue <- [i \in 1 .. back - front + 1 |-> SubtreeNumber(queue[front + i - 1])],
  ready <- Completed

ImplementsQueue == Abstract!QueueSpec
=============================================================================
