----------------------------- MODULE DepositPool -----------------------------
(***************************************************************************)
(* ts/client/features/deposit.ts, DepositPool: a node's copy of the L1's   *)
(* deposit queue.  Leaves make a subtree when there are enough of them;    *)
(* subtrees wait in order and are numbered from 1.                         *)
(***************************************************************************)
EXTENDS Integers, Sequences

CONSTANT maxSubtreeSize

ASSUME DepositPoolAssumption == maxSubtreeSize \in Nat \ {0}

EmptyDepositPool == [depositLeaves |-> <<>>, subtreeQueue |-> <<>>, currentSubtreeID |-> 0]

pushSubtree(pool, states) ==
  [depositLeaves |-> <<>>,
   subtreeQueue |-> Append(pool.subtreeQueue, [id |-> pool.currentSubtreeID + 1, states |-> states]),
   currentSubtreeID |-> pool.currentSubtreeID + 1]

\* Mutant: the subtree is made one leaf too late.
PushLate(pool, state) ==
  LET leaves == Append(pool.depositLeaves, state)
  IN  IF Len(leaves) > maxSubtreeSize THEN pushSubtree(pool, leaves)
      ELSE [pool EXCEPT !.depositLeaves = leaves]
pushDeposit(pool, state) ==
  LET leaves == Append(pool.depositLeaves, state)
  IN  IF Len(leaves) >= maxSubtreeSize THEN pushSubtree(pool, leaves)
      ELSE [pool EXCEPT !.depositLeaves = leaves]

isSubtreeReady(pool) == pool.subtreeQueue # <<>>

\* popDepositSubtree throws when there is none.
FrontSubtree(pool) == Head(pool.subtreeQueue)
popDepositSubtree(pool) == [pool EXCEPT !.subtreeQueue = Tail(@)]
=============================================================================
