---------------------------- MODULE DepositQueue ----------------------------
(***************************************************************************)
(* What the rollup contract relies on when it talks to the deposit         *)
(* manager (IDepositManager in contracts/DepositManager.sol): a FIFO of    *)
(* complete deposit subtrees.                                              *)
(*                                                                         *)
(* A subtree is named by its number: the k-th one holds the k-th block of  *)
(* consecutive deposits.  Merging deposits into subtrees is not visible    *)
(* here; module DepositManager does it and is shown to implement this.     *)
(***************************************************************************)
EXTENDS Naturals, Sequences

VARIABLES
  queue,   \* the subtrees waiting for a deposit batch, oldest first
  ready    \* how many subtrees have ever been completed

queueVars == <<queue, ready>>

QueueInit ==
  /\ queue = <<>>
  /\ ready = 0

\* A deposit completes the next subtree, which joins the queue.
SubtreeReady ==
  /\ ready' = ready + 1
  /\ queue' = Append(queue, ready + 1)

\* dequeueToSubmit: the oldest waiting subtree leaves for a deposit batch.
Dequeue ==
  /\ queue # <<>>
  /\ queue' = Tail(queue)
  /\ UNCHANGED ready

\* The reenqueue calls of one rollback, in the order they are made.
Reenqueue(subtrees) ==
  /\ queue' = queue \o subtrees
  /\ UNCHANGED ready

QueueNext ==
  \/ SubtreeReady
  \/ Dequeue
  \/ \E k \in 1..ready : Reenqueue(<<k>>)

QueueSpec == QueueInit /\ [][QueueNext]_queueVars
=============================================================================
