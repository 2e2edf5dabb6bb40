----------------------------- MODULE TransferPool -----------------------------
(***************************************************************************)
(* ts/client/txPool.ts with the TransferPool of features/transfer.ts: the  *)
(* transfers that wait, by token, each queue in the order they came.       *)
(***************************************************************************)
EXTENDS Integers, SequencesExt, FiniteSetsExt

CONSTANTS
  FeeReceivers,   \* the tokens configured -> the state that gets their fees
  maxSize

ASSUME PoolAssumption ==
  DOMAIN FeeReceivers \subseteq Nat /\ IsFiniteSet(DOMAIN FeeReceivers) /\ maxSize \in Nat

NoToken == -1

EmptyPool == [tokenID \in DOMAIN FeeReceivers |-> <<>>]
poolSize(pool) == SumFunction([tokenID \in DOMAIN pool |-> Len(pool[tokenID])])
queueSize(pool, tokenID) == IF tokenID \in DOMAIN pool THEN Len(pool[tokenID]) ELSE 0

\* push looks at the size, awaits the sender's state, and inserts, or throws for
\* a token that is not configured.
HasRoom(pool) == poolSize(pool) < maxSize
CanPush(pool, states, tx) ==
  tx.from \in DOMAIN states /\ states[tx.from].tokenID \in DOMAIN pool
push(pool, states, tx) ==
  IF CanPush(pool, states, tx) THEN [pool EXCEPT ![states[tx.from].tokenID] = Append(@, tx)]
                               ELSE pool

\* pop sorts by fee, keeping the order of equals, and takes the last.
LastByFee(queue) ==
  CHOOSE i \in DOMAIN queue :
    \A k \in DOMAIN queue : queue[k].fee < queue[i].fee \/ (queue[k].fee = queue[i].fee /\ k <= i)
\* Mutant: the first of the queue is removed, whichever is taken.
ShiftOne(pool, tokenID) ==
  [tx |-> pool[tokenID][LastByFee(pool[tokenID])], pool |-> [pool EXCEPT ![tokenID] = Tail(@)]]
pop(pool, tokenID) ==
  LET i == LastByFee(pool[tokenID])
  IN  [tx |-> pool[tokenID][i], pool |-> [pool EXCEPT ![tokenID] = RemoveAt(@, i)]]

getQueueValue(queue) == FoldLeft(LAMBDA n, tx : n + tx.fee, 0, queue)

\* getHighestValueToken: the first of the highest value, if any is above zero.
getHighestValueToken(pool) ==
  LET value(tokenID) == getQueueValue(pool[tokenID])
      highest == {tokenID \in DOMAIN pool :
                    /\ value(tokenID) > 0
                    /\ \A other \in DOMAIN pool : value(other) <= value(tokenID)}
  IN  IF highest = {} THEN NoToken ELSE Min(highest)
=============================================================================
