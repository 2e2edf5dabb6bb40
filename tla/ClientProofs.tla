----------------------------- MODULE ClientProofs -----------------------------
(***************************************************************************)
(* The node follows the L1, whatever happens between the L1 and it, unless *)
(* one of the known flaws occurs: for every length of the L1's log and of  *)
(* the queries, every size of subtrees and every number of slots.          *)
(***************************************************************************)
EXTENDS Client, SumTheorems

(***************************************************************************)
(* The invariant.                                                          *)
(***************************************************************************)
\* The events of a log by kind, the batch with an ID, and the batches in order.
In(L, kind) == {b \in DOMAIN L : L[b].kind = kind}
At(L, id)   == CHOOSE b \in In(L, "batch") : L[b].id = id
Number(L, kind) == Cardinality(In(L, kind))
ChainOf(L)  == [i \in 1 .. Number(L, "batch") |-> L[At(L, i - 1)]]

\* Events are numbered as they come, those of each kind.
IsLog(L) ==
  /\ \E S : L \in Seq(S)
  /\ \A b \in In(L, "deposit") : L[b].n \in 1 .. Number(L, "deposit")
  /\ \A n \in 1 .. Number(L, "deposit") : \E b \in In(L, "deposit") : L[b].n = n
  /\ \A b \in In(L, "batch") : L[b].id \in 0 .. Number(L, "batch") - 1
  /\ \A i \in 0 .. Number(L, "batch") - 1 : \E b \in In(L, "batch") : L[b].id = i
  /\ \A b, c \in In(L, "batch") : b < c => L[b].id < L[c].id

Deposits == In(log, "deposit")
Batches  == In(log, "batch")
D == Number(log, "deposit")
N == Number(log, "batch")

\* The deposit batches in a sequence of batches.
Count(batches) == Cardinality({i \in DOMAIN batches : batches[i].usage = "Deposit"})
TreeOf(batches) == IF batches = <<>> THEN GenesisTree ELSE batches[Len(batches)].stateRoot

\* A batch of the L1 that comes after these.
IsNextOf(batch, batches) ==
  \/ /\ batches = <<>>
     /\ batch = Batch(0, "Genesis", GenesisTree)
  \/ /\ batches # <<>>
     /\ \E usage \in {"Transfer", "MassMigration"} :
          batch = Batch(Len(batches), usage, afterTransfers(TreeOf(batches)))
  \/ /\ batches # <<>>
     /\ batch = DepositBatch(Len(batches), TreeOf(batches), Count(batches) + 1,
                             Subtree(Count(batches) + 1), batch.path)

IsChain(batches) ==
  /\ \E S : batches \in Seq(S)
  /\ \A i \in DOMAIN batches : IsNextOf(batches[i], SubSeq(batches, 1, i - 1))

\* What the node has of the L1.
Stored(b) == log[b].id < Len(stored)
HasBatches ==
  /\ N > 0 /\ IsChain(ChainOf(log))
  /\ Len(stored) \in 0 .. N
  /\ stored = SubSeq(ChainOf(log), 1, Len(stored))
HasDeposits ==
  /\ Len(pushed) \in 0 .. D
  /\ pushed = [i \in 1 .. Len(pushed) |-> i]
  /\ Count(stored) <= Len(pushed) \div maxSubtreeSize
  /\ pool = Waiting(Len(pushed), Count(stored))

PackerSteps ==
  {"stopped", "idle", "deposits", "transfers", "dead",
   "deposited", "transferred", "depositsMined", "transfersMined"}
Types ==
  /\ syncer \in [pc : {"reading", "deposits", "query", "batches", "complete", "done"},
                 start : Nat, latest : Nat, todo : SUBSET Nat, regular : BOOLEAN, listeners : Nat]
  /\ polled \in [on : BOOLEAN, deposit : Nat, batch : Nat]
  /\ syncpoint \in [blockNumber : Nat, batchID : Int]
  /\ packer \in [pc : PackerSteps, stopping : BOOLEAN, listeners : Nat, path : {packer.path}, block : Nat]
  /\ proposing \in BOOLEAN

\* The packer between batches, with one submitted, and with one stored.
Resting == PackerRests /\ syncpoint.batchID = Len(stored) - 1 /\ tree = TreeOf(stored)
Under(pcs) == packer.pc \in pcs /\ proposing /\ handlers = {}
OwnBatch(id) ==
  /\ packer.block \in Batches /\ log[packer.block].id = id
  /\ syncpoint.blockNumber <= packer.block
WithSubmitted ==
  /\ Under({"deposited", "transferred"})
  /\ N = Len(stored) + 1 /\ stored # <<>> /\ OwnBatch(Len(stored))
  /\ syncpoint.batchID = Len(stored) - 1
  /\ packer.pc = "deposited" =>
       /\ tree = TreeOf(stored)
       /\ Count(stored) < Len(pushed) \div maxSubtreeSize
       /\ log[packer.block] = DepositBatch(Len(stored), tree, Count(stored) + 1,
                                           Subtree(Count(stored) + 1), packer.path)
  /\ packer.pc = "transferred" => log[packer.block] = Batch(Len(stored), "Transfer", tree)
WithStored ==
  /\ Under({"depositsMined", "transfersMined"})
  /\ N = Len(stored) /\ OwnBatch(Len(stored) - 1)
  /\ syncpoint.batchID = Len(stored) - 2 /\ tree = TreeOf(stored)
PackerInv ==
  /\ Resting \/ WithSubmitted \/ WithStored
  /\ PackerRests /\ packer.block \in Batches => Stored(packer.block)
  /\ packer.block <= Len(log)

\* One batch at a time is handled, the next one, by its strategy.
HandlersInv ==
  /\ \A handler \in handlers :
       /\ handler.block \in Batches
       /\ log[handler.block].id = Len(stored)
       /\ strategy = log[handler.block].usage /\ strategy \in strategies
       /\ handler.by = BySync => syncer.pc = "batches" /\ handler.block <= end
  /\ \A handler, other \in handlers : handler = other

\* The sync point, and the initial sync, leave nothing behind.
StoredBefore(block) == \A b \in Batches : b < block => Stored(b)
InTodo(b) == b \in syncer.todo \/ Stored(b) \/ \E handler \in handlers : handler = Handler(b, BySync)
SyncInv ==
  /\ syncpoint.blockNumber <= Len(log) /\ StoredBefore(syncpoint.blockNumber)
  /\ Busy => ~proposing
  /\ syncer.pc \in {"reading", "deposits", "query", "batches"} => StoredBefore(syncer.start)
  /\ syncer.pc = "reading" =>
       syncpoint.blockNumber <= syncer.start /\ syncer.start <= Len(log) + 1
  /\ syncer.pc \in {"deposits", "query", "batches"} =>
       /\ syncer.start <= syncer.latest /\ syncer.latest <= Len(log)
       /\ syncpoint.blockNumber <= end
  /\ syncer.pc = "batches" =>
       /\ syncer.todo \subseteq Batches
       /\ \A b \in Batches : b \in syncer.start .. end => InTodo(b)
       /\ \A b \in syncer.todo : b \in syncer.start .. end
  /\ syncer.pc = "done" => polled.on /\ syncer.regular

\* What the listeners heard of was handled, is handled, or is the packer's own.
Known(b) ==
  \/ Stored(b)
  \/ \E handler \in handlers : handler.block = b
  \/ ~PackerRests /\ packer.block = b
ListenInv ==
  polled.on =>
    /\ polled.deposit <= Len(log) /\ polled.batch <= Len(log)
    /\ \A b \in Deposits : b <= polled.deposit => log[b].n <= Len(pushed)
    /\ \A b \in Batches : b <= polled.batch => Known(b)

Right ==
  /\ ~raised /\ Types /\ IsLog(log)
  /\ HasBatches /\ HasDeposits
  /\ PackerInv /\ HandlersInv /\ SyncInv /\ ListenInv
IInv == flaws = {} => Right

(***************************************************************************)
(* The pool of deposits.                                                   *)
(***************************************************************************)
LEMMA SizeType == maxSubtreeSize \in Nat \ {0}
BY DepositPoolAssumption

\* Deposits in order, and subtrees in order.
Entry(id, states) == [id |-> id, states |-> states]
Row(first, n) == [i \in 1 .. n |-> first + i]
Subtrees(first, n) == [i \in 1 .. n |-> Entry(first + i, Subtree(first + i))]

LEMMA RowGrows ==
  ASSUME NEW first \in Nat, NEW n \in Nat
  PROVE  /\ Row(first, n) \in Seq(Nat) /\ Len(Row(first, n)) = n /\ Row(first, 0) = <<>>
         /\ Append(Row(first, n), first + n + 1) = Row(first, n + 1)
<1>1. Row(first, n) \in Seq(Nat) /\ Len(Row(first, n)) = n /\ Row(first, 0) = <<>>
  BY DEF Row
<1>2. \A i \in 1 .. n : Row(first, n)[i] = first + i
  BY DEF Row
<1>3. PICK more : more = Append(Row(first, n), first + n + 1)
  OBVIOUS
<1>4. more \in Seq(Nat) /\ Len(more) = n + 1 /\ \A i \in 1 .. n + 1 : more[i] = first + i
  BY <1>1, <1>2, <1>3
<1>5. more = [i \in 1 .. n + 1 |-> more[i]]
  BY <1>4
<1>6. more = Row(first, n + 1)
  BY <1>4, <1>5 DEF Row
<1> QED
  BY <1>1, <1>3, <1>6

LEMMA SubtreesGrow ==
  ASSUME NEW first \in Nat, NEW n \in Nat
  PROVE  /\ Subtrees(first, n) \in Seq({Entry(i, Subtree(i)) : i \in Nat})
         /\ Len(Subtrees(first, n)) = n /\ Subtrees(first, 0) = <<>>
         /\ Append(Subtrees(first, n), Entry(first + n + 1, Subtree(first + n + 1)))
              = Subtrees(first, n + 1)
<1> DEFINE S == {Entry(i, Subtree(i)) : i \in Nat}
           item(i) == Entry(first + i, Subtree(first + i))
<1>1. \A i \in 1 .. n + 1 : item(i) \in S
  <2> SUFFICES ASSUME NEW i \in 1 .. n + 1 PROVE item(i) \in S
    OBVIOUS
  <2>1. first + i \in Nat
    OBVIOUS
  <2> QED
    BY <2>1
<1>2. \A i \in 1 .. n : Subtrees(first, n)[i] = item(i)
  BY DEF Subtrees
<1>3. Subtrees(first, n) = [i \in 1 .. n |-> Subtrees(first, n)[i]]
  BY DEF Subtrees
<1>4. \A i \in 1 .. n + 1 : Subtrees(first, n + 1)[i] = item(i)
  BY DEF Subtrees
<1>5. Subtrees(first, n + 1) = [i \in 1 .. n + 1 |-> Subtrees(first, n + 1)[i]]
  BY DEF Subtrees
<1>6. first + n + 1 = first + (n + 1)
  OBVIOUS
<1>7. item(n + 1) = Entry(first + n + 1, Subtree(first + n + 1))
  BY <1>6
<1>8. Subtrees(first, 0) = <<>>
  BY DEF Subtrees
<1> HIDE DEF S, item
<1>9. Subtrees(first, n) \in Seq(S) /\ Len(Subtrees(first, n)) = n
  BY <1>1, <1>2, <1>3
<1>10. PICK more : more = Append(Subtrees(first, n), item(n + 1))
  OBVIOUS
<1>11. more \in Seq(S) /\ Len(more) = n + 1 /\ \A i \in 1 .. n + 1 : more[i] = item(i)
  BY <1>1, <1>2, <1>9, <1>10
<1>12. more = [i \in 1 .. n + 1 |-> more[i]]
  BY <1>11
<1>13. more = Subtrees(first, n + 1)
  BY <1>4, <1>5, <1>11, <1>12
<1> QED
  BY <1>7, <1>8, <1>9, <1>10, <1>13 DEF S

\* What the operations do to the parts of a pool.
Pool(leaves, queue, id) ==
  [depositLeaves |-> leaves, subtreeQueue |-> queue, currentSubtreeID |-> id]

LEMMA PoolPushes ==
  ASSUME NEW leaves, NEW queue, NEW id, NEW state
  PROVE  /\ Len(Append(leaves, state)) >= maxSubtreeSize =>
              pushDeposit(Pool(leaves, queue, id), state)
                = Pool(<<>>, Append(queue, Entry(id + 1, Append(leaves, state))), id + 1)
         /\ ~ (Len(Append(leaves, state)) >= maxSubtreeSize) =>
              pushDeposit(Pool(leaves, queue, id), state) = Pool(Append(leaves, state), queue, id)
<1>1. PICK p : p = Pool(leaves, queue, id)
  OBVIOUS
<1>2. p.depositLeaves = leaves /\ p.subtreeQueue = queue /\ p.currentSubtreeID = id
  BY <1>1 DEF Pool
<1>3. PICK all : all = Append(leaves, state)
  OBVIOUS
<1>4. Len(all) >= maxSubtreeSize =>
        pushDeposit(p, state) = Pool(<<>>, Append(queue, Entry(id + 1, all)), id + 1)
  BY <1>2, <1>3 DEF pushDeposit, pushSubtree, Pool, Entry
<1>5. [p EXCEPT !.depositLeaves = all] = Pool(all, queue, id)
  <2>1. [Pool(leaves, queue, id) EXCEPT !.depositLeaves = all] = Pool(all, queue, id)
    BY DEF Pool
  <2> QED
    BY <1>1, <2>1
<1>6. ~ (Len(all) >= maxSubtreeSize) => pushDeposit(p, state) = Pool(all, queue, id)
  BY <1>2, <1>3, <1>5 DEF pushDeposit
<1> QED
  BY <1>1, <1>3, <1>4, <1>6

LEMMA PoolPops ==
  ASSUME NEW leaves, NEW queue, NEW id
  PROVE  /\ isSubtreeReady(Pool(leaves, queue, id)) <=> queue # <<>>
         /\ FrontSubtree(Pool(leaves, queue, id)) = Head(queue)
         /\ popDepositSubtree(Pool(leaves, queue, id)) = Pool(leaves, Tail(queue), id)
<1>1. PICK p : p = Pool(leaves, queue, id)
  OBVIOUS
<1>2. p.subtreeQueue = queue
  BY <1>1 DEF Pool
<1>3. (isSubtreeReady(p) <=> queue # <<>>) /\ FrontSubtree(p) = Head(queue)
  BY <1>2 DEF isSubtreeReady, FrontSubtree
<1>4. PICK rest : rest = Tail(queue)
  OBVIOUS
<1>5. [p EXCEPT !.subtreeQueue = rest] = Pool(leaves, rest, id)
  BY <1>1 DEF Pool
<1>6. popDepositSubtree(p) = [p EXCEPT !.subtreeQueue = rest]
  BY <1>2, <1>4 DEF popDepositSubtree
<1> QED
  BY <1>1, <1>3, <1>4, <1>5, <1>6

\* What there is in the pool.
LEMMA WaitingIs ==
  ASSUME NEW p \in Nat, NEW k \in Nat, NEW q, NEW r, NEW s,
         q = p \div maxSubtreeSize, r = p % maxSubtreeSize, s = q * maxSubtreeSize
  PROVE  /\ q \in Nat /\ r \in 0 .. maxSubtreeSize - 1 /\ p = maxSubtreeSize * q + r
         /\ Waiting(p, k) = Pool(Row(s, r), Subtrees(k, q - k), q)
<1>1. PICK m : m = maxSubtreeSize
  OBVIOUS
<1>2. m \in Nat \ {0}
  BY <1>1, SizeType
<1>3. p \div m \in Nat /\ p % m \in 0 .. m - 1 /\ p = m * (p \div m) + (p % m)
  BY <1>2
<1> QED
  BY <1>1, <1>3 DEF Waiting, Row, Subtrees, Pool, Entry

LEMMA SubtreeIsRow ==
  ASSUME NEW q \in Nat, NEW s, s = q * maxSubtreeSize
  PROVE  Subtree(q + 1) = Row(s, maxSubtreeSize)
<1>1. (q + 1) - 1 = q
  OBVIOUS
<1> QED
  BY <1>1 DEF Subtree, Row

\* The deposit after the last one is pushed.
LEMMA PushOne ==
  ASSUME NEW p \in Nat, NEW k \in Nat, k <= p \div maxSubtreeSize
  PROVE  /\ pushDeposit(Waiting(p, k), p + 1) = Waiting(p + 1, k)
         /\ k <= (p + 1) \div maxSubtreeSize
<1>1. PICK m, q, r, s : m = maxSubtreeSize /\ q = p \div m /\ r = p % m /\ s = q * m
  OBVIOUS
<1>2. m \in Nat \ {0} /\ q \in Nat /\ r \in 0 .. m - 1 /\ p = m * q + r /\ k <= q
  BY <1>1, SizeType, WaitingIs
<1>3. s \in Nat /\ p = s + r /\ s = m * q
  BY <1>1, <1>2
<1>4. Waiting(p, k) = Pool(Row(s, r), Subtrees(k, q - k), q)
  BY <1>1, WaitingIs
<1>5. Append(Row(s, r), p + 1) = Row(s, r + 1) /\ Len(Row(s, r + 1)) = r + 1
  <2>1. p + 1 = s + r + 1 /\ r \in Nat /\ r + 1 \in Nat
    BY <1>2, <1>3
  <2> QED
    BY <1>3, <2>1, RowGrows
<1>6. p + 1 \in Nat
  OBVIOUS
<1>7. CASE r + 1 < m
  <2>1. (p + 1) \div m = q
    <3>1. m * q <= p + 1 /\ p + 1 < m * q + m
      BY <1>2, <1>3, <1>7
    <3> QED
      BY <1>2, <1>6, <3>1, QuotientIs
  <2>2. (p + 1) % m = r + 1
    <3>1. p + 1 = m * q + ((p + 1) % m) /\ (p + 1) % m \in Nat
      BY <1>2, <2>1
    <3> QED
      BY <1>2, <1>3, <3>1
  <2>3. Waiting(p + 1, k) = Pool(Row(s, r + 1), Subtrees(k, q - k), q)
    BY <1>1, <1>6, <2>1, <2>2, WaitingIs
  <2>4. ~ (r + 1 >= m)
    BY <1>2, <1>7
  <2>5. pushDeposit(Waiting(p, k), p + 1) = Pool(Row(s, r + 1), Subtrees(k, q - k), q)
    <3>1. PICK all, queue : all = Row(s, r + 1) /\ queue = Subtrees(k, q - k)
      OBVIOUS
    <3>2. all = Append(Row(s, r), p + 1) /\ ~ (Len(all) >= maxSubtreeSize)
      BY <1>1, <1>5, <2>4, <3>1
    <3>3. pushDeposit(Pool(Row(s, r), queue, q), p + 1) = Pool(all, queue, q)
      BY <3>2, PoolPushes
    <3> QED
      BY <1>4, <3>1, <3>3
  <2> QED
    BY <1>1, <1>2, <2>1, <2>3, <2>5
<1>8. CASE ~ (r + 1 < m)
  <2>0. r + 1 = m
    BY <1>2, <1>8
  <2>1. (p + 1) \div m = q + 1
    <3>1. m * (q + 1) = m * q + m
      BY <1>2
    <3>2. m * (q + 1) <= p + 1 /\ p + 1 < m * (q + 1) + m
      BY <1>2, <1>3, <2>0, <3>1
    <3>3. q + 1 \in Nat
      BY <1>2
    <3> QED
      BY <1>2, <1>6, <3>2, <3>3, QuotientIs
  <2>2. (p + 1) % m = 0
    <3>1. p + 1 = m * (q + 1) + ((p + 1) % m) /\ (p + 1) % m \in Nat
      BY <1>2, <2>1
    <3>2. m * (q + 1) = s + m
      BY <1>2, <1>3
    <3> QED
      BY <1>2, <1>3, <2>0, <3>1, <3>2
  <2>3. PICK t : t = (q + 1) * m
    OBVIOUS
  <2>4. Waiting(p + 1, k) = Pool(Row(t, 0), Subtrees(k, q + 1 - k), q + 1)
    BY <1>1, <1>6, <2>1, <2>2, <2>3, WaitingIs
  <2>5. Row(s, r + 1) = Subtree(q + 1)
    BY <1>1, <1>2, <2>0, SubtreeIsRow
  <2>6. Len(Row(s, r + 1)) >= maxSubtreeSize
    BY <1>1, <1>2, <1>5, <2>0
  <2>7. pushDeposit(Waiting(p, k), p + 1) =
          Pool(<<>>, Append(Subtrees(k, q - k), Entry(q + 1, Subtree(q + 1))), q + 1)
    <3>1. PICK all, queue : all = Subtree(q + 1) /\ queue = Subtrees(k, q - k)
      OBVIOUS
    <3>2. all = Append(Row(s, r), p + 1) /\ Len(all) >= maxSubtreeSize
      BY <1>5, <2>5, <2>6, <3>1
    <3>3. pushDeposit(Pool(Row(s, r), queue, q), p + 1)
            = Pool(<<>>, Append(queue, Entry(q + 1, all)), q + 1)
      BY <3>2, PoolPushes
    <3> QED
      BY <1>4, <3>1, <3>3
  <2>8. Append(Subtrees(k, q - k), Entry(q + 1, Subtree(q + 1))) = Subtrees(k, q + 1 - k)
    <3>1. q - k \in Nat /\ q - k + 1 = q + 1 - k /\ k + (q - k) + 1 = q + 1
      BY <1>2
    <3> QED
      BY <3>1, SubtreesGrow
  <2>9. Row(t, 0) = <<>>
    BY DEF Row
  <2>10. k <= q + 1
    BY <1>2
  <2> QED
    BY <1>1, <2>1, <2>4, <2>7, <2>8, <2>9, <2>10
<1> QED
  BY <1>7, <1>8

\* A subtree is ready if the pool has more of them than were taken.
LEMMA PopOne ==
  ASSUME NEW p \in Nat, NEW k \in Nat, k <= p \div maxSubtreeSize
  PROVE  /\ isSubtreeReady(Waiting(p, k)) <=> k < p \div maxSubtreeSize
         /\ isSubtreeReady(Waiting(p, k)) =>
              /\ FrontSubtree(Waiting(p, k)) = Entry(k + 1, Subtree(k + 1))
              /\ popDepositSubtree(Waiting(p, k)) = Waiting(p, k + 1)
<1>1. PICK m, q, r, s : m = maxSubtreeSize /\ q = p \div m /\ r = p % m /\ s = q * m
  OBVIOUS
<1>2. q \in Nat /\ k <= q
  BY <1>1, WaitingIs
<1>3. Waiting(p, k) = Pool(Row(s, r), Subtrees(k, q - k), q)
  BY <1>1, WaitingIs
<1>4. Waiting(p, k + 1) = Pool(Row(s, r), Subtrees(k + 1, q - (k + 1)), q)
  <2>1. k + 1 \in Nat
    OBVIOUS
  <2> QED
    BY <1>1, <2>1, WaitingIs
<1>5. isSubtreeReady(Waiting(p, k)) <=> Subtrees(k, q - k) # <<>>
  BY <1>2, <1>3, PoolPops
<1>6. Len(Subtrees(k, q - k)) = q - k /\ q - k \in Nat
  <2>1. q - k \in Nat
    BY <1>2
  <2> QED
    BY <2>1, SubtreesGrow
<1>7. CASE k = q
  <2>1. q - k = 0
    BY <1>2, <1>7
  <2>2. Subtrees(k, q - k) = <<>>
    BY <2>1, SubtreesGrow
  <2> QED
    BY <1>1, <1>2, <1>5, <1>7, <2>2
<1>8. CASE k < q
  <2>1. PICK n \in Nat : q - k = n + 1 /\ q - (k + 1) = n
    <3>1. q - (k + 1) \in Nat /\ q - k = q - (k + 1) + 1
      BY <1>2, <1>8
    <3> QED
      BY <3>1
  <2>2. isSubtreeReady(Waiting(p, k))
    <3>1. Subtrees(k, q - k) # <<>>
      BY <1>6, <2>1
    <3> QED
      BY <1>5, <3>1
  <2> DEFINE S == {Entry(i, Subtree(i)) : i \in Nat}
  <2>3. Subtrees(k, n + 1) \in Seq(S) /\ Len(Subtrees(k, n + 1)) = n + 1
        /\ Subtrees(k + 1, n) \in Seq(S) /\ Len(Subtrees(k + 1, n)) = n
    <3>1. k + 1 \in Nat /\ n + 1 \in Nat
      OBVIOUS
    <3> QED
      BY <3>1, SubtreesGrow
  <2>4. Head(Subtrees(k, n + 1)) = Entry(k + 1, Subtree(k + 1))
    <3>1. Subtrees(k, n + 1)[1] = Entry(k + 1, Subtree(k + 1))
      BY DEF Subtrees
    <3> HIDE DEF S
    <3> QED
      BY <2>3, <3>1
  <2>5. Tail(Subtrees(k, n + 1)) = Subtrees(k + 1, n)
    <3>1. \A i \in 1 .. n : Subtrees(k, n + 1)[i + 1] = Subtrees(k + 1, n)[i]
      <4> SUFFICES ASSUME NEW i \in 1 .. n
                   PROVE  Subtrees(k, n + 1)[i + 1] = Subtrees(k + 1, n)[i]
        OBVIOUS
      <4>1. i + 1 \in 1 .. n + 1 /\ k + (i + 1) = k + 1 + i
        OBVIOUS
      <4> QED
        BY <4>1 DEF Subtrees
    <3> HIDE DEF S
    <3>2. PICK t : t = Tail(Subtrees(k, n + 1))
      OBVIOUS
    <3>3. t \in Seq(S) /\ Len(t) = n /\ \A i \in 1 .. n : t[i] = Subtrees(k, n + 1)[i + 1]
      BY <2>3, <3>2
    <3> QED
      BY <2>3, <3>1, <3>2, <3>3
  <2>6. FrontSubtree(Waiting(p, k)) = Entry(k + 1, Subtree(k + 1))
    BY <1>2, <1>3, <2>1, <2>4, PoolPops
  <2>7. popDepositSubtree(Waiting(p, k)) = Waiting(p, k + 1)
    <3>1. PICK all, rest : all = Subtrees(k, n + 1) /\ rest = Subtrees(k + 1, n) /\ Tail(all) = rest
      BY <2>5
    <3>2. Waiting(p, k) = Pool(Row(s, r), all, q) /\ Waiting(p, k + 1) = Pool(Row(s, r), rest, q)
      BY <1>3, <1>4, <2>1, <3>1
    <3>3. PICK leaves : leaves = Row(s, r)
      OBVIOUS
    <3>4. popDepositSubtree(Pool(leaves, all, q)) = Pool(leaves, Tail(all), q)
      BY <1>2, PoolPops
    <3> QED
      BY <3>1, <3>2, <3>3, <3>4
  <2> QED
    BY <1>1, <1>8, <2>2, <2>6, <2>7
<1> QED
  BY <1>2, <1>7, <1>8

\* The pools there can be.
Entries == {Entry(i, states) : i \in Nat, states \in Seq(Nat)}
Pools == {Pool(leaves, queue, id) : leaves \in Seq(Nat), queue \in Seq(Entries), id \in Nat}

LEMMA PoolStays ==
  ASSUME NEW p \in Pools, NEW n \in Nat
  PROVE  pushDeposit(p, n) \in Pools
<1>1. PICK leaves \in Seq(Nat), queue \in Seq(Entries), id \in Nat : p = Pool(leaves, queue, id)
  BY DEF Pools
<1>2. PICK all : all = Append(leaves, n)
  OBVIOUS
<1>3. all \in Seq(Nat) /\ <<>> \in Seq(Nat) /\ id + 1 \in Nat
  BY <1>2
<1>4. PICK more : more = Append(queue, Entry(id + 1, all))
  OBVIOUS
<1>5. more \in Seq(Entries)
  <2>1. Entry(id + 1, all) \in Entries
    BY <1>3 DEF Entries
  <2> QED
    BY <1>4, <2>1
<1>6. pushDeposit(p, n) = Pool(<<>>, more, id + 1) \/ pushDeposit(p, n) = Pool(all, queue, id)
  <2>1. PICK k : k = id
    OBVIOUS
  <2>2. pushDeposit(Pool(leaves, queue, k), n) \in
          {Pool(<<>>, Append(queue, Entry(k + 1, all)), k + 1), Pool(all, queue, k)}
    BY <1>2, PoolPushes
  <2> QED
    BY <1>1, <1>4, <2>1, <2>2
<1>7. \A l \in Seq(Nat), q \in Seq(Entries), i \in Nat : Pool(l, q, i) \in Pools
  BY DEF Pools
<1> QED
  BY <1>3, <1>5, <1>6, <1>7

LEMMA WaitingInPools ==
  ASSUME NEW p \in Nat, NEW k \in Nat, k <= p \div maxSubtreeSize
  PROVE  Waiting(p, k) \in Pools
<1>1. PICK m, q, r, s : m = maxSubtreeSize /\ q = p \div m /\ r = p % m /\ s = q * m
  OBVIOUS
<1>2. q \in Nat /\ k <= q /\ r \in Nat /\ s \in Nat
  BY <1>1, WaitingIs, SizeType
<1>3. Waiting(p, k) = Pool(Row(s, r), Subtrees(k, q - k), q)
  BY <1>1, WaitingIs
<1>4. Row(s, r) \in Seq(Nat)
  BY <1>2, RowGrows
<1>5. Subtrees(k, q - k) \in Seq(Entries)
  <2>1. q - k \in Nat
    BY <1>2
  <2>2. PICK n \in Nat : n = q - k
    BY <2>1
  <2>3. Len(Subtrees(k, n)) = n /\ Subtrees(k, n) \in Seq({Entry(i, Subtree(i)) : i \in Nat})
    BY SubtreesGrow
  <2>4. ASSUME NEW i \in 1 .. n PROVE Subtrees(k, n)[i] \in Entries
    <3>1. PICK a \in Nat : a = k + i - 1 /\ k + i = a + 1
      OBVIOUS
    <3>2. Subtree(a + 1) = Row(a * maxSubtreeSize, maxSubtreeSize)
      BY SubtreeIsRow
    <3>3. a * maxSubtreeSize \in Nat
      BY SizeType
    <3>4. Row(a * maxSubtreeSize, maxSubtreeSize) \in Seq(Nat)
      BY <3>3, RowGrows, SizeType
    <3>5. Subtrees(k, n)[i] = Entry(k + i, Subtree(k + i))
      BY DEF Subtrees
    <3>6. Entry(k + i, Subtree(k + i)) \in Entries
      <4>1. PICK states, j : states = Subtree(k + i) /\ j = k + i
        OBVIOUS
      <4>2. states \in Seq(Nat) /\ j \in Nat
        BY <3>1, <3>2, <3>4, <4>1
      <4> QED
        BY <4>1, <4>2 DEF Entries
    <3> QED
      BY <3>5, <3>6
  <2>5. Subtrees(k, n) \in Seq(Entries)
    <3>1. PICK all : all = Subtrees(k, n)
      OBVIOUS
    <3>2. Len(all) = n /\ \A i \in 1 .. n : all[i] \in Entries
      BY <2>3, <2>4, <3>1
    <3>3. all = [i \in 1 .. n |-> all[i]]
      BY <2>3, <3>1
    <3> QED
      BY <3>1, <3>2, <3>3
  <2> QED
    BY <2>2, <2>5
<1> QED
  BY <1>2, <1>3, <1>4, <1>5 DEF Pools

\* Deposits that come in order are waiting then.
LEMMA PushAll ==
  ASSUME NEW p \in Nat, NEW k \in Nat, k <= p \div maxSubtreeSize,
         NEW n \in Nat, NEW deposits, DOMAIN deposits = 1 .. n,
         \A i \in 1 .. n : deposits[i] = p + i
  PROVE  /\ FoldLeft(pushDeposit, Waiting(p, k), deposits) = Waiting(p + n, k)
         /\ k <= (p + n) \div maxSubtreeSize
<1> DEFINE S == 1 .. n
           base == Waiting(p, k)
           fold(iter) == iter = [s \in SUBSET S |->
                                   IF s = {} THEN base
                                   ELSE pushDeposit(iter[s \ {Max(s)}], deposits[Max(s)])]
           result == CHOOSE iter : fold(iter)
<1>1. \E iter : fold(iter)
  <2> DEFINE step == [i \in S |-> [a \in Pools |-> pushDeposit(a, deposits[i])]]
  <2>1. \A i \in S, a \in Pools : step[i][a] = pushDeposit(a, deposits[i]) /\ step[i][a] \in Pools
    <3> SUFFICES ASSUME NEW i \in S, NEW a \in Pools
                 PROVE  step[i][a] = pushDeposit(a, deposits[i]) /\ step[i][a] \in Pools
      OBVIOUS
    <3>1. deposits[i] \in Nat
      OBVIOUS
    <3> QED
      BY <3>1, PoolStays
  <2>2. base \in Pools
    BY WaitingInPools
  <2> HIDE DEF step, base
  <2>3. PICK iter : /\ IsSequenceFold(iter, n, base, step)
                    /\ \A s \in SUBSET (1 .. n) : iter[s] \in Pools
    <3>1. \A i \in 1 .. n, a \in Pools : step[i][a] \in Pools
      BY <2>1
    <3> QED
      BY <2>2, <3>1, SequenceFold
  <2>4. ASSUME NEW s \in SUBSET S
        PROVE  iter[s] = IF s = {} THEN base ELSE pushDeposit(iter[s \ {Max(s)}], deposits[Max(s)])
    <3>1. iter[s] = IF s = {} THEN base ELSE step[Max(s)][iter[s \ {Max(s)}]]
      BY <2>3 DEF IsSequenceFold
    <3>2. s # {} => Max(s) \in S /\ iter[s \ {Max(s)}] \in Pools
      BY <2>3, LastChooses
    <3> QED
      BY <2>1, <3>1, <3>2
  <2>5. iter = [s \in SUBSET S |-> iter[s]]
    BY <2>3 DEF IsSequenceFold
  <2> HIDE DEF S
  <2>6. fold(iter)
    BY <2>4, <2>5
  <2> QED
    BY <2>6
<1>2. fold(result)
  <2> HIDE DEF fold
  <2> QED
    BY <1>1
<1>3. result[{}] = base
  BY <1>2
<1>4. ASSUME NEW i \in 1 .. n
      PROVE  result[1 .. i] = pushDeposit(result[1 .. i - 1], p + i)
  <2>1. 1 .. i \in SUBSET S /\ 1 .. i # {} /\ (1 .. i) \ {Max(1 .. i)} = 1 .. i - 1 /\ Max(1 .. i) = i
    BY RangesFromOne
  <2>2. result[1 .. i] = pushDeposit(result[(1 .. i) \ {Max(1 .. i)}], deposits[Max(1 .. i)])
    BY <1>2, <2>1
  <2>3. deposits[i] = p + i
    OBVIOUS
  <2> HIDE DEF result
  <2> QED
    BY <2>1, <2>2, <2>3
<1> HIDE DEF result, fold
<1> DEFINE done == {i \in 0 .. n : /\ result[1 .. i] = Waiting(p + i, k)
                                   /\ k <= (p + i) \div maxSubtreeSize}
<1>5. 0 \in done
  <2>1. 1 .. 0 = {} /\ p + 0 = p
    OBVIOUS
  <2> QED
    BY <1>3, <2>1
<1>6. ASSUME NEW i \in done \cap 0 .. n - 1 PROVE i + 1 \in done
  <2>1. i \in Nat /\ i + 1 \in 1 .. n /\ (i + 1) - 1 = i /\ p + i \in Nat /\ p + (i + 1) = (p + i) + 1
    OBVIOUS
  <2>2. result[1 .. i + 1] = pushDeposit(result[1 .. i], (p + i) + 1)
    <3>1. PICK j : j = i + 1
      OBVIOUS
    <3>2. result[1 .. j] = pushDeposit(result[1 .. j - 1], p + j)
      BY <1>4, <2>1, <3>1
    <3> QED
      BY <2>1, <3>1, <3>2
  <2>3. PICK a \in Nat : a = p + i
    BY <2>1
  <2>4. result[1 .. i] = Waiting(a, k) /\ k <= a \div maxSubtreeSize
    BY <2>3
  <2>5. pushDeposit(Waiting(a, k), a + 1) = Waiting(a + 1, k) /\ k <= (a + 1) \div maxSubtreeSize
    BY <2>4, PushOne
  <2>6. i + 1 \in 0 .. n
    OBVIOUS
  <2> QED
    BY <2>1, <2>2, <2>3, <2>4, <2>5, <2>6
<1>7. n \in done
  <2> HIDE DEF done
  <2>1. 0 .. n \subseteq done
    BY <1>5, <1>6, NumbersUpTo
  <2> QED
    BY <2>1
<1>8. FoldLeft(pushDeposit, Waiting(p, k), deposits) = result[S]
  BY DEF FoldLeft, MapThenFoldSet, Max, result, fold
<1> QED
  BY <1>7, <1>8

(***************************************************************************)
(* The log of the L1.                                                      *)
(***************************************************************************)
LEMMA LogIs ==
  /\ EventsOf("deposit") = Deposits /\ EventsOf("batch") = Batches
  /\ Chain = ChainOf(log)
<1>1. \A kind : EventsOf(kind) = In(log, kind)
  BY DEF EventsOf, In
<1>2. \A id : BlockOf(id) = At(log, id)
  BY <1>1 DEF BlockOf, At
<1> QED
  BY <1>1, <1>2 DEF Deposits, Batches, Chain, ChainOf, Number

LEMMA LogFinite ==
  ASSUME NEW L, NEW S, L \in Seq(S), NEW kind
  PROVE  /\ DOMAIN L = 1 .. Len(L) /\ Len(L) \in Nat
         /\ In(L, kind) \subseteq 1 .. Len(L)
         /\ IsFiniteSet(In(L, kind)) /\ Number(L, kind) \in Nat
<1>1. DOMAIN L = 1 .. Len(L) /\ Len(L) \in Nat
  OBVIOUS
<1>2. In(L, kind) \subseteq 1 .. Len(L)
  BY <1>1 DEF In
<1>3. IsFiniteSet(1 .. Len(L))
  BY <1>1, FS_Interval
<1> QED
  BY <1>1, <1>2, <1>3, FS_Subset, FS_CardinalityType DEF Number

\* Each batch is the one of its ID, and they are in the order of their IDs.
LEMMA LogFacts ==
  ASSUME NEW L, IsLog(L)
  PROVE  /\ DOMAIN L = 1 .. Len(L) /\ Len(L) \in Nat
         /\ Number(L, "deposit") \in Nat /\ Number(L, "batch") \in Nat
         /\ In(L, "deposit") \subseteq 1 .. Len(L) /\ In(L, "batch") \subseteq 1 .. Len(L)
         /\ \A i \in 0 .. Number(L, "batch") - 1 : At(L, i) \in In(L, "batch") /\ L[At(L, i)].id = i
         /\ \A b \in In(L, "batch") :
              L[b].id \in 0 .. Number(L, "batch") - 1 /\ At(L, L[b].id) = b
         /\ Len(ChainOf(L)) = Number(L, "batch")
         /\ \A b \in In(L, "batch") : ChainOf(L)[L[b].id + 1] = L[b]
         /\ \A b, c \in In(L, "batch") : L[b].id < L[c].id => b < c
<1> DEFINE B == In(L, "batch")
           n == Number(L, "batch")
<1>1. PICK S : L \in Seq(S)
  BY DEF IsLog
<1>2. /\ DOMAIN L = 1 .. Len(L) /\ Len(L) \in Nat
      /\ n \in Nat /\ Number(L, "deposit") \in Nat
      /\ In(L, "deposit") \subseteq 1 .. Len(L) /\ B \subseteq 1 .. Len(L)
  BY <1>1, LogFinite
<1>3. /\ \A b \in B : L[b].id \in 0 .. n - 1
      /\ \A i \in 0 .. n - 1 : \E b \in B : L[b].id = i
      /\ \A b, c \in B : b < c => L[b].id < L[c].id
  BY DEF IsLog
<1>4. \A i \in 0 .. n - 1 : At(L, i) \in B /\ L[At(L, i)].id = i
  <2> SUFFICES ASSUME NEW i \in 0 .. n - 1 PROVE At(L, i) \in B /\ L[At(L, i)].id = i
    OBVIOUS
  <2>1. \E b \in B : L[b].id = i
    BY <1>3
  <2> QED
    BY <2>1 DEF At
<1>5. ASSUME NEW b \in B, NEW c \in B PROVE /\ L[b].id = L[c].id => b = c
                                            /\ L[b].id < L[c].id => b < c
  <2>1. L[b].id \in Int /\ L[c].id \in Int
    BY <1>3
  <2>2. b \in Int /\ c \in Int
    BY <1>2
  <2>3. (b < c => L[b].id < L[c].id) /\ (c < b => L[c].id < L[b].id)
    BY <1>3
  <2> QED
    BY <2>1, <2>2, <2>3
<1>6. ASSUME NEW b \in B PROVE L[b].id \in 0 .. n - 1 /\ At(L, L[b].id) = b
  <2>1. L[b].id \in 0 .. n - 1
    BY <1>3
  <2>2. PICK c : c = At(L, L[b].id)
    OBVIOUS
  <2>3. c \in B /\ L[c].id = L[b].id
    BY <1>4, <2>1, <2>2
  <2> QED
    BY <1>5, <2>1, <2>2, <2>3
<1>7. Len(ChainOf(L)) = n
  BY <1>2 DEF ChainOf
<1>8. ASSUME NEW b \in B PROVE ChainOf(L)[L[b].id + 1] = L[b]
  <2>1. PICK i : i = L[b].id
    OBVIOUS
  <2>2. i \in 0 .. n - 1 /\ At(L, i) = b
    BY <1>6, <2>1
  <2>3. i + 1 \in 1 .. n /\ (i + 1) - 1 = i
    BY <1>2, <2>2
  <2>4. ChainOf(L)[i + 1] = L[At(L, i)]
    BY <2>3 DEF ChainOf
  <2> QED
    BY <2>1, <2>2, <2>4
<1> QED
  BY <1>2, <1>4, <1>5, <1>6, <1>7, <1>8

\* A log with one more event.
Adds(L, event, M) == M = Append(L, event)

LEMMA LogAdds ==
  ASSUME NEW L, NEW S, L \in Seq(S), NEW event, NEW M, Adds(L, event, M)
  PROVE  /\ \E T : M \in Seq(T)
         /\ Len(M) = Len(L) + 1 /\ M[Len(L) + 1] = event
         /\ \A b \in 1 .. Len(L) : M[b] = L[b]
         /\ \A kind :
              /\ event.kind # kind => In(M, kind) = In(L, kind)
              /\ event.kind = kind => In(M, kind) = In(L, kind) \cup {Len(L) + 1}
<1>1. M \in Seq(S \cup {event})
  BY DEF Adds
<1>2. /\ Len(M) = Len(L) + 1 /\ M[Len(L) + 1] = event /\ \A b \in 1 .. Len(L) : M[b] = L[b]
      /\ DOMAIN L = 1 .. Len(L) /\ DOMAIN M = 1 .. Len(L) + 1 /\ Len(L) \in Nat
  BY DEF Adds
<1> QED
  BY <1>1, <1>2 DEF In

LEMMA NumberAdds ==
  ASSUME NEW L, IsLog(L), NEW event, NEW M, Adds(L, event, M)
  PROVE  /\ \A kind : event.kind # kind => Number(M, kind) = Number(L, kind)
         /\ \A kind : event.kind = kind => Number(M, kind) = Number(L, kind) + 1
<1>1. PICK S : L \in Seq(S)
  BY DEF IsLog
<1>2. ASSUME NEW kind, event.kind # kind PROVE Number(M, kind) = Number(L, kind)
  BY <1>1, <1>2, LogAdds DEF Number
<1>3. ASSUME NEW kind, event.kind = kind PROVE Number(M, kind) = Number(L, kind) + 1
  <2>1. In(M, kind) = In(L, kind) \cup {Len(L) + 1}
    BY <1>1, <1>3, LogAdds
  <2>2. IsFiniteSet(In(L, kind)) /\ Len(L) + 1 \notin In(L, kind)
    BY <1>1, LogFinite
  <2> QED
    BY <2>1, <2>2, FS_AddElement DEF Number
<1> QED
  BY <1>2, <1>3

\* The L1 numbers a new deposit after the others, and its batches are the same.
LEMMA DepositAdds ==
  ASSUME NEW L, IsLog(L), NEW event, NEW M, Adds(L, event, M),
         event.kind = "deposit", event.n = Number(L, "deposit") + 1
  PROVE  /\ IsLog(M) /\ Len(M) = Len(L) + 1
         /\ In(M, "batch") = In(L, "batch") /\ Number(M, "batch") = Number(L, "batch")
         /\ In(M, "deposit") = In(L, "deposit") \cup {Len(L) + 1}
         /\ Number(M, "deposit") = Number(L, "deposit") + 1
         /\ \A b \in 1 .. Len(L) : M[b] = L[b]
         /\ ChainOf(M) = ChainOf(L)
<1> DEFINE d == Number(L, "deposit")
           n == Number(L, "batch")
           new == Len(L) + 1
<1>1. PICK S : L \in Seq(S)
  BY DEF IsLog
<1>2. /\ Len(L) \in Nat /\ d \in Nat /\ n \in Nat
      /\ In(L, "deposit") \subseteq 1 .. Len(L) /\ In(L, "batch") \subseteq 1 .. Len(L)
  BY LogFacts
<1>3. "deposit" # "batch"
  OBVIOUS
<1>4. /\ \E T : M \in Seq(T)
      /\ Len(M) = new /\ M[new] = event /\ \A b \in 1 .. Len(L) : M[b] = L[b]
      /\ In(M, "batch") = In(L, "batch") /\ In(M, "deposit") = In(L, "deposit") \cup {new}
  BY <1>1, <1>3, LogAdds
<1>5. Number(M, "batch") = n /\ Number(M, "deposit") = d + 1
  BY <1>3, NumberAdds
<1>6. \A b \in In(L, "batch") : M[b] = L[b]
  BY <1>2, <1>4
<1>7. \A b \in In(L, "deposit") : M[b].n \in 1 .. d
  BY <1>2, <1>4 DEF IsLog
<1>8. \A b \in In(M, "deposit") : M[b].n \in 1 .. d + 1
  BY <1>2, <1>4, <1>7
<1>9. \A i \in 1 .. d + 1 : \E b \in In(M, "deposit") : M[b].n = i
  <2> SUFFICES ASSUME NEW i \in 1 .. d + 1 PROVE \E b \in In(M, "deposit") : M[b].n = i
    OBVIOUS
  <2>1. CASE i = d + 1
    BY <1>4, <2>1
  <2>2. CASE i # d + 1
    <3>1. i \in 1 .. d
      BY <1>2, <2>2
    <3>2. PICK b \in In(L, "deposit") : L[b].n = i
      BY <3>1 DEF IsLog
    <3> QED
      BY <1>2, <1>4, <3>2
  <2> QED
    BY <2>1, <2>2
<1>10. IsLog(M)
  BY <1>4, <1>5, <1>6, <1>8, <1>9 DEF IsLog
<1>11. ChainOf(M) = ChainOf(L)
  <2>1. ASSUME NEW i \in 1 .. n PROVE M[At(M, i - 1)] = L[At(L, i - 1)]
    <3>1. PICK j : j = i - 1
      OBVIOUS
    <3>2. j \in 0 .. n - 1
      BY <1>2, <3>1
    <3>3. At(L, j) \in In(L, "batch") /\ L[At(L, j)].id = j
      BY <3>2, LogFacts
    <3>4. At(M, j) \in In(L, "batch") /\ M[At(M, j)].id = j
      BY <1>4, <1>5, <1>10, <3>2, LogFacts
    <3>5. PICK b, c : b = At(L, j) /\ c = At(M, j)
      OBVIOUS
    <3>6. L[c].id = j /\ At(L, L[c].id) = c
      BY <1>6, <3>4, <3>5, LogFacts
    <3> QED
      BY <1>6, <3>1, <3>3, <3>5, <3>6
  <2> QED
    BY <1>5, <2>1 DEF ChainOf
<1> QED
  BY <1>4, <1>5, <1>10, <1>11

\* A new batch is the last one of the chain.
LEMMA BatchAdds ==
  ASSUME NEW L, IsLog(L), NEW event, NEW M, Adds(L, event, M),
         event.kind = "batch", event.id = Number(L, "batch")
  PROVE  /\ IsLog(M) /\ Len(M) = Len(L) + 1
         /\ In(M, "deposit") = In(L, "deposit") /\ Number(M, "deposit") = Number(L, "deposit")
         /\ In(M, "batch") = In(L, "batch") \cup {Len(L) + 1}
         /\ Number(M, "batch") = Number(L, "batch") + 1
         /\ M[Len(L) + 1] = event
         /\ \A b \in 1 .. Len(L) : M[b] = L[b]
         /\ ChainOf(M) = Append(ChainOf(L), event)
<1> DEFINE n == Number(L, "batch")
           new == Len(L) + 1
<1>1. PICK S : L \in Seq(S)
  BY DEF IsLog
<1>2. /\ Len(L) \in Nat /\ Number(L, "deposit") \in Nat /\ n \in Nat
      /\ In(L, "deposit") \subseteq 1 .. Len(L) /\ In(L, "batch") \subseteq 1 .. Len(L)
  BY LogFacts
<1>3. "deposit" # "batch"
  OBVIOUS
<1>4. /\ \E T : M \in Seq(T)
      /\ Len(M) = new /\ M[new] = event /\ \A b \in 1 .. Len(L) : M[b] = L[b]
      /\ In(M, "deposit") = In(L, "deposit") /\ In(M, "batch") = In(L, "batch") \cup {new}
  <2>1. event.kind # "deposit" /\ event.kind = "batch"
    BY <1>3
  <2>2. In(M, "deposit") = In(L, "deposit") /\ In(M, "batch") = In(L, "batch") \cup {new}
    BY <1>1, <2>1, LogAdds
  <2>3. /\ \E T : M \in Seq(T)
        /\ Len(M) = new /\ M[new] = event /\ \A b \in 1 .. Len(L) : M[b] = L[b]
    BY <1>1, LogAdds
  <2> QED
    BY <2>2, <2>3
<1>5. Number(M, "deposit") = Number(L, "deposit") /\ Number(M, "batch") = n + 1
  BY <1>3, NumberAdds
<1>6. \A b \in In(L, "batch") \cup In(L, "deposit") : M[b] = L[b] /\ b \in 1 .. Len(L)
  BY <1>2, <1>4
<1>7. \A b \in In(L, "batch") : L[b].id \in 0 .. n - 1
  BY DEF IsLog
<1>8. \A b \in In(M, "batch") : M[b].id \in 0 .. n
  BY <1>2, <1>4, <1>6, <1>7
<1>9. \A i \in 0 .. n : \E b \in In(M, "batch") : M[b].id = i
  <2> SUFFICES ASSUME NEW i \in 0 .. n PROVE \E b \in In(M, "batch") : M[b].id = i
    OBVIOUS
  <2>1. CASE i = n
    BY <1>4, <2>1
  <2>2. CASE i # n
    <3>1. i \in 0 .. n - 1
      BY <1>2, <2>2
    <3>2. PICK b \in In(L, "batch") : L[b].id = i
      BY <3>1 DEF IsLog
    <3> QED
      BY <1>4, <1>6, <3>2
  <2> QED
    BY <2>1, <2>2
<1>10. ASSUME NEW b \in In(M, "batch"), NEW c \in In(M, "batch"), b < c
       PROVE  M[b].id < M[c].id
  <2>1. b # new
    BY <1>2, <1>4, <1>6, <1>10
  <2>2. b \in In(L, "batch") /\ M[b].id \in 0 .. n - 1
    BY <1>4, <1>6, <1>7, <2>1
  <2>3. CASE c = new
    BY <1>2, <1>4, <2>2, <2>3
  <2>4. CASE c # new
    <3>1. c \in In(L, "batch")
      BY <1>4, <2>4
    <3> QED
      BY <1>6, <1>10, <2>2, <3>1 DEF IsLog
  <2> QED
    BY <2>3, <2>4
<1>11. IsLog(M)
  <2>1. \A b \in In(M, "batch") : M[b].id \in 0 .. (n + 1) - 1
    BY <1>2, <1>8
  <2>2. \A i \in 0 .. (n + 1) - 1 : \E b \in In(M, "batch") : M[b].id = i
    BY <1>2, <1>9
  <2>3. \A b \in In(M, "deposit") : M[b].n \in 1 .. Number(M, "deposit")
    BY <1>4, <1>5, <1>6 DEF IsLog
  <2>4. \A i \in 1 .. Number(M, "deposit") : \E b \in In(M, "deposit") : M[b].n = i
    BY <1>4, <1>5, <1>6 DEF IsLog
  <2> QED
    BY <1>4, <1>5, <1>10, <2>1, <2>2, <2>3, <2>4 DEF IsLog
<1>12. ChainOf(M) = Append(ChainOf(L), event)
  <2>1. ASSUME NEW i \in 1 .. n PROVE M[At(M, i - 1)] = L[At(L, i - 1)]
    <3>1. PICK j : j = i - 1
      OBVIOUS
    <3>2. j \in 0 .. n - 1 /\ j \in 0 .. (n + 1) - 1
      BY <1>2, <3>1
    <3>3. At(L, j) \in In(L, "batch") /\ L[At(L, j)].id = j
      BY <3>2, LogFacts
    <3>4. PICK b, c : b = At(L, j) /\ c = At(M, j)
      OBVIOUS
    <3>5. b \in In(M, "batch") /\ M[b].id = j
      BY <1>4, <1>6, <3>3, <3>4
    <3>6. At(M, M[b].id) = b
      BY <1>11, <3>5, LogFacts
    <3> QED
      BY <1>6, <3>1, <3>3, <3>4, <3>5, <3>6
  <2>2. M[At(M, n)] = event
    <3>1. new \in In(M, "batch") /\ M[new].id = n
      BY <1>4
    <3>2. At(M, M[new].id) = new
      BY <1>11, <3>1, LogFacts
    <3> QED
      BY <1>4, <3>1, <3>2
  <2>3. PICK c, d : c = ChainOf(L) /\ d = ChainOf(M)
    OBVIOUS
  <2>4. c = [i \in 1 .. n |-> L[At(L, i - 1)]] /\ d = [i \in 1 .. n + 1 |-> M[At(M, i - 1)]]
    BY <1>5, <2>3 DEF ChainOf
  <2>5. Len(c) = n /\ \A i \in 1 .. n : c[i] = L[At(L, i - 1)]
    BY <1>2, <2>4
  <2>6. \A i \in 1 .. n : d[i] = c[i]
    BY <1>2, <2>1, <2>4, <2>5
  <2>7. d[n + 1] = event
    <3>1. n + 1 \in 1 .. n + 1 /\ (n + 1) - 1 = n
      BY <1>2
    <3> QED
      BY <2>2, <2>4, <3>1
  <2>8. PICK T : c \in Seq(T)
    <3>1. PICK T : T = {c[i] : i \in 1 .. n}
      OBVIOUS
    <3>2. \A i \in 1 .. n : c[i] \in T
      BY <3>1
    <3>3. c = [i \in 1 .. n |-> c[i]]
      BY <2>4
    <3>4. c \in Seq(T)
      BY <1>2, <3>2, <3>3
    <3> QED
      BY <3>4
  <2>9. d = Append(c, event)
    <3>1. d = [i \in 1 .. n + 1 |-> d[i]]
      BY <2>4
    <3>2. PICK a : a = Append(c, event)
      OBVIOUS
    <3>3. Len(a) = n + 1 /\ \A i \in 1 .. n : a[i] = c[i]
      BY <1>2, <2>5, <2>8, <3>2
    <3>4. a[n + 1] = event
      BY <1>2, <2>5, <2>8, <3>2
    <3>5. a = [i \in 1 .. n + 1 |-> a[i]]
      <4>1. a \in Seq(T \cup {event})
        BY <2>8, <3>2
      <4> QED
        BY <3>3, <4>1
    <3>6. \A i \in 1 .. n + 1 : a[i] = d[i]
      BY <1>2, <2>6, <2>7, <3>3, <3>4
    <3> QED
      BY <3>1, <3>2, <3>5, <3>6
  <2> QED
    BY <2>3, <2>9
<1> QED
  BY <1>4, <1>5, <1>11, <1>12

(***************************************************************************)
(* The batches of the L1.                                                  *)
(***************************************************************************)
\* What is added to a sequence.
LEMMA SequenceAdds ==
  ASSUME NEW c, NEW S, c \in Seq(S), NEW event, NEW d, Adds(c, event, d)
  PROVE  /\ Len(c) \in Nat /\ DOMAIN c = 1 .. Len(c)
         /\ Len(d) = Len(c) + 1 /\ DOMAIN d = 1 .. Len(c) + 1
         /\ d[Len(c) + 1] = event
         /\ \A i \in 1 .. Len(c) : d[i] = c[i]
         /\ d # <<>>
<1>1. PICK e : e = Append(c, event)
  OBVIOUS
<1>2. /\ Len(c) \in Nat /\ DOMAIN c = 1 .. Len(c)
      /\ Len(e) = Len(c) + 1 /\ DOMAIN e = 1 .. Len(c) + 1
      /\ e[Len(c) + 1] = event /\ \A i \in 1 .. Len(c) : e[i] = c[i]
  BY <1>1
<1>3. d = e
  BY <1>1 DEF Adds
<1> QED
  BY <1>2, <1>3

LEMMA PrefixStays ==
  ASSUME NEW c, NEW S, c \in Seq(S), NEW event, NEW d, Adds(c, event, d), NEW n \in 0 .. Len(c)
  PROVE  SubSeq(d, 1, n) = SubSeq(c, 1, n) /\ SubSeq(d, 1, Len(c)) = c
<1>1. /\ Len(c) \in Nat /\ DOMAIN c = 1 .. Len(c) /\ d \in Seq(S \cup {event})
      /\ Len(d) = Len(c) + 1 /\ \A i \in 1 .. Len(c) : d[i] = c[i]
  BY DEF Adds
<1>2. ASSUME NEW m \in 0 .. Len(c) PROVE SubSeq(d, 1, m) = SubSeq(c, 1, m)
  <2>1. SubSeq(d, 1, m) = [i \in 1 .. m |-> d[i]] /\ SubSeq(c, 1, m) = [i \in 1 .. m |-> c[i]]
    BY <1>1
  <2>2. \A i \in 1 .. m : d[i] = c[i]
    BY <1>1
  <2> QED
    BY <2>1, <2>2
<1>3. SubSeq(c, 1, Len(c)) = c
  BY <1>1
<1>4. Len(c) \in 0 .. Len(c)
  BY <1>1
<1> QED
  BY <1>2, <1>3, <1>4

LEMMA ChainAdds ==
  ASSUME NEW c, IsChain(c), NEW batch, IsNextOf(batch, c), NEW d, Adds(c, batch, d)
  PROVE  IsChain(d)
<1>1. PICK S : c \in Seq(S)
  BY DEF IsChain
<1>2. /\ Len(c) \in Nat /\ DOMAIN c = 1 .. Len(c) /\ DOMAIN d = 1 .. Len(c) + 1
      /\ d[Len(c) + 1] = batch /\ \A i \in 1 .. Len(c) : d[i] = c[i]
  BY <1>1, SequenceAdds
<1>4. d \in Seq(S \cup {batch})
  BY <1>1 DEF Adds
<1>5. /\ SubSeq(d, 1, Len(c)) = c
      /\ \A n \in 0 .. Len(c) : SubSeq(d, 1, n) = SubSeq(c, 1, n)
  <2>1. 0 \in 0 .. Len(c)
    BY <1>2
  <2> QED
    BY <1>1, <2>1, PrefixStays
<1>3. \A i \in DOMAIN d : IsNextOf(d[i], SubSeq(d, 1, i - 1))
  <2> SUFFICES ASSUME NEW i \in DOMAIN d PROVE IsNextOf(d[i], SubSeq(d, 1, i - 1))
    OBVIOUS
  <2>1. CASE i = Len(c) + 1
    <3>1. i - 1 = Len(c)
      BY <1>2, <2>1
    <3> QED
      BY <1>2, <1>5, <2>1, <3>1
  <2>2. CASE i # Len(c) + 1
    <3>1. i \in 1 .. Len(c)
      BY <1>2, <2>2
    <3>2. PICK n : n = i - 1 /\ n \in 0 .. Len(c)
      BY <1>2, <3>1
    <3>3. SubSeq(d, 1, n) = SubSeq(c, 1, n)
      BY <1>5, <3>2
    <3>4. IsNextOf(c[i], SubSeq(c, 1, i - 1))
      BY <1>2, <3>1 DEF IsChain
    <3> QED
      BY <1>2, <3>1, <3>2, <3>3, <3>4
  <2> QED
    BY <2>1, <2>2
<1> QED
  BY <1>3, <1>4 DEF IsChain

\* How many deposit batches there are.
LEMMA CountAdds ==
  ASSUME NEW c, NEW S, c \in Seq(S), NEW batch, NEW d, Adds(c, batch, d)
  PROVE  /\ Count(c) \in Nat
         /\ Count(d) = IF batch.usage = "Deposit" THEN Count(c) + 1 ELSE Count(c)
<1> DEFINE of(s) == {i \in DOMAIN s : s[i].usage = "Deposit"}
<1>1. /\ Len(c) \in Nat /\ DOMAIN c = 1 .. Len(c) /\ DOMAIN d = 1 .. Len(c) + 1
      /\ d[Len(c) + 1] = batch /\ \A i \in 1 .. Len(c) : d[i] = c[i]
  BY SequenceAdds
<1>2. IsFiniteSet(of(c)) /\ Len(c) + 1 \notin of(c)
  <2>1. of(c) \subseteq 1 .. Len(c) /\ IsFiniteSet(1 .. Len(c))
    BY <1>1, FS_Interval
  <2> QED
    BY <1>1, <2>1, FS_Subset
<1>3. Count(c) = Cardinality(of(c)) /\ Count(d) = Cardinality(of(d)) /\ Count(c) \in Nat
  BY <1>2, FS_CardinalityType DEF Count
<1>4. CASE batch.usage = "Deposit"
  <2>1. of(d) = of(c) \cup {Len(c) + 1}
    BY <1>1, <1>4
  <2> HIDE DEF of
  <2>2. Cardinality(of(d)) = Cardinality(of(c)) + 1
    BY <1>2, <2>1, FS_AddElement
  <2> QED
    BY <1>3, <1>4, <2>2
<1>5. CASE batch.usage # "Deposit"
  <2>1. of(d) = of(c)
    BY <1>1, <1>5
  <2> QED
    BY <1>3, <1>5, <2>1
<1> QED
  BY <1>4, <1>5

LEMMA CountOfNone == Count(<<>>) = 0
<1>1. {i \in DOMAIN <<>> : <<>>[i].usage = "Deposit"} = {}
  OBVIOUS
<1> QED
  BY <1>1, FS_EmptySet DEF Count

\* The batches up to one, and the next.
LEMMA PrefixAdds ==
  ASSUME NEW c, NEW S, c \in Seq(S), NEW n \in Nat, n < Len(c)
  PROVE  /\ Adds(SubSeq(c, 1, n), c[n + 1], SubSeq(c, 1, n + 1))
         /\ SubSeq(c, 1, n) \in Seq(S) /\ Len(SubSeq(c, 1, n)) = n
<1>1. Len(c) \in Nat /\ DOMAIN c = 1 .. Len(c)
  OBVIOUS
<1>2. PICK a, b : a = SubSeq(c, 1, n) /\ b = SubSeq(c, 1, n + 1)
  OBVIOUS
<1>3. a \in Seq(S) /\ Len(a) = n /\ \A i \in 1 .. n : a[i] = c[i]
  BY <1>1, <1>2
<1>4. b \in Seq(S) /\ Len(b) = n + 1 /\ \A i \in 1 .. n + 1 : b[i] = c[i]
  BY <1>1, <1>2
<1>5. PICK m : m = Append(a, c[n + 1])
  OBVIOUS
<1>6. m \in Seq(S) /\ Len(m) = n + 1 /\ \A i \in 1 .. n + 1 : m[i] = c[i]
  BY <1>1, <1>3, <1>5
<1>7. m = [i \in 1 .. n + 1 |-> m[i]] /\ b = [i \in 1 .. n + 1 |-> b[i]]
  BY <1>4, <1>6
<1>8. b = m
  BY <1>4, <1>6, <1>7
<1> QED
  BY <1>2, <1>3, <1>5, <1>8 DEF Adds

\* What a batch of a chain is.
LEMMA ChainFacts ==
  ASSUME NEW c, IsChain(c), NEW i \in 1 .. Len(c)
  PROVE  /\ Len(c) \in Nat
         /\ IsNextOf(c[i], SubSeq(c, 1, i - 1))
         /\ c[i].id = i - 1 /\ c[i].kind = "batch"
         /\ c[i].usage = "Genesis" <=> i = 1
         /\ i > 1 => TreeOf(SubSeq(c, 1, i - 1)) = c[i - 1].stateRoot
<1>1. PICK S : c \in Seq(S)
  BY DEF IsChain
<1>2. Len(c) \in Nat /\ DOMAIN c = 1 .. Len(c)
  BY <1>1
<1>3. PICK before : before = SubSeq(c, 1, i - 1)
  OBVIOUS
<1>4. /\ before \in Seq(S) /\ Len(before) = i - 1 /\ (before = <<>> <=> i = 1)
      /\ i > 1 => before[i - 1] = c[i - 1]
  BY <1>1, <1>2, <1>3
<1>5. IsNextOf(c[i], before)
  BY <1>2, <1>3 DEF IsChain
<1>6. c[i].id = i - 1 /\ c[i].kind = "batch" /\ (c[i].usage = "Genesis" <=> i = 1)
  <2>1. CASE before = <<>> /\ c[i] = Batch(0, "Genesis", GenesisTree)
    BY <1>4, <2>1 DEF Batch
  <2>2. CASE /\ before # <<>>
             /\ \E usage \in {"Transfer", "MassMigration"} :
                  c[i] = Batch(Len(before), usage, afterTransfers(TreeOf(before)))
    BY <1>4, <2>2 DEF Batch
  <2>3. CASE /\ before # <<>>
             /\ c[i] = DepositBatch(Len(before), TreeOf(before), Count(before) + 1,
                                    Subtree(Count(before) + 1), c[i].path)
    BY <1>4, <2>3 DEF DepositBatch
  <2> QED
    BY <1>5, <2>1, <2>2, <2>3 DEF IsNextOf
<1>7. i > 1 => TreeOf(before) = c[i - 1].stateRoot
  BY <1>4 DEF TreeOf
<1> QED
  BY <1>2, <1>3, <1>5, <1>6, <1>7

LEMMA TreeAdds ==
  ASSUME NEW c, NEW S, c \in Seq(S), NEW batch, NEW d, Adds(c, batch, d)
  PROVE  TreeOf(d) = batch.stateRoot
BY SequenceAdds DEF TreeOf

(***************************************************************************)
(* What follows from the invariant.                                        *)
(***************************************************************************)
LEMMA StateFacts ==
  ASSUME Right
  PROVE  /\ Len(stored) \in Nat /\ N \in Nat \ {0} /\ Len(stored) <= N
         /\ \E S : stored \in Seq(S)
         /\ Len(pushed) \in Nat /\ D \in Nat /\ Len(pushed) <= D
         /\ Count(stored) \in Nat
         /\ Len(log) \in Nat /\ DOMAIN log = 1 .. Len(log)
         /\ Deposits \subseteq 1 .. Len(log) /\ Batches \subseteq 1 .. Len(log)
         /\ \A b \in Batches : log[b].id \in 0 .. N - 1
<1>1. Len(stored) \in 0 .. N /\ Len(pushed) \in 0 .. D /\ N > 0
  BY DEF Right, HasBatches, HasDeposits
<1>2. /\ N \in Nat /\ D \in Nat /\ Len(log) \in Nat /\ DOMAIN log = 1 .. Len(log)
      /\ Deposits \subseteq 1 .. Len(log) /\ Batches \subseteq 1 .. Len(log)
      /\ \A b \in Batches : log[b].id \in 0 .. N - 1
      /\ Len(ChainOf(log)) = N
  BY LogFacts DEF Right, N, D, Deposits, Batches
<1>3. PICK S : ChainOf(log) \in Seq(S)
  BY DEF Right, HasBatches, IsChain
<1>4. stored \in Seq(S)
  <2>1. PICK c, n : c = ChainOf(log) /\ n = Len(stored)
    OBVIOUS
  <2>2. SubSeq(c, 1, n) \in Seq(S)
    BY <1>1, <1>2, <1>3, <2>1
  <2> QED
    BY <2>1, <2>2 DEF Right, HasBatches
<1>5. Count(stored) \in Nat
  <2>1. PICK d : Adds(stored, stored, d)
    BY DEF Adds
  <2> QED
    BY <1>4, <2>1, CountAdds
<1> QED
  BY <1>1, <1>2, <1>4, <1>5

\* The batch that comes next.
LEMMA NextFacts ==
  ASSUME Right, NEW b \in Batches, log[b].id = Len(stored)
  PROVE  /\ IsNextOf(log[b], stored) /\ CanAdd(stored, log[b])
         /\ Len(stored) < N
         /\ log[b].usage = "Genesis" <=> stored = <<>>
<1>1. PICK c, n : c = ChainOf(log) /\ n = Len(stored)
  OBVIOUS
<1>2. n \in Nat /\ N \in Nat /\ n < N
  BY <1>1, StateFacts
<1>3. IsChain(c) /\ Len(c) = N /\ c[n + 1] = log[b] /\ stored = SubSeq(c, 1, n)
  BY <1>1, LogFacts DEF Right, HasBatches, Batches, N
<1>4. n + 1 \in 1 .. Len(c) /\ (n + 1) - 1 = n
  BY <1>2, <1>3
<1>5. /\ IsNextOf(c[n + 1], SubSeq(c, 1, (n + 1) - 1))
      /\ c[n + 1].usage = "Genesis" <=> n + 1 = 1
  BY <1>3, <1>4, ChainFacts
<1>6. CanAdd(stored, log[b])
  <2> SUFFICES ASSUME Contains(stored, log[b]) PROVE FALSE
    BY DEF CanAdd
  <2>1. PICK i \in 1 .. n : stored[i] = log[b]
    BY <1>1 DEF Contains
  <2>2. c[i] = log[b]
    <3>1. PICK S : c \in Seq(S)
      BY <1>3 DEF IsChain
    <3> QED
      BY <1>2, <1>3, <2>1, <3>1
  <2>3. c[i].id = i - 1 /\ i \in Nat
    <3>1. i \in 1 .. Len(c)
      BY <1>2, <1>3
    <3> QED
      BY <1>3, <3>1, ChainFacts
  <2> QED
    BY <1>1, <1>2, <2>2, <2>3
<1>7. n = 0 <=> stored = <<>>
  BY <1>1, StateFacts
<1> QED
  BY <1>1, <1>2, <1>3, <1>4, <1>5, <1>6, <1>7

\* Storing it.
LEMMA StoredAdds ==
  ASSUME Right, NEW b \in Batches, log[b].id = Len(stored), NEW s, Adds(stored, log[b], s)
  PROVE  /\ Len(s) = Len(stored) + 1 /\ Len(s) \in 0 .. N
         /\ s = SubSeq(ChainOf(log), 1, Len(s))
         /\ TreeOf(s) = log[b].stateRoot
         /\ Count(s) = IF log[b].usage = "Deposit" THEN Count(stored) + 1 ELSE Count(stored)
<1>1. PICK c, n : c = ChainOf(log) /\ n = Len(stored)
  OBVIOUS
<1>2. n \in Nat /\ N \in Nat /\ n < N
  BY <1>1, StateFacts
<1>3. IsChain(c) /\ Len(c) = N /\ c[n + 1] = log[b] /\ stored = SubSeq(c, 1, n)
  BY <1>1, LogFacts DEF Right, HasBatches, Batches, N
<1>4. PICK S : stored \in Seq(S)
  BY StateFacts
<1>5. /\ Len(s) = n + 1 /\ TreeOf(s) = log[b].stateRoot
      /\ Count(s) = IF log[b].usage = "Deposit" THEN Count(stored) + 1 ELSE Count(stored)
  BY <1>1, <1>4, SequenceAdds, TreeAdds, CountAdds
<1>6. PICK T : c \in Seq(T)
  BY <1>3 DEF IsChain
<1>7. Adds(SubSeq(c, 1, n), c[n + 1], SubSeq(c, 1, n + 1))
  BY <1>2, <1>3, <1>6, PrefixAdds
<1>8. s = SubSeq(c, 1, n + 1)
  BY <1>3, <1>7 DEF Adds
<1> QED
  BY <1>1, <1>2, <1>5, <1>8

(***************************************************************************)
(* What a step leaves alone.                                               *)
(***************************************************************************)
LEMMA LogKept ==
  ASSUME UNCHANGED log
  PROVE  /\ Deposits' = Deposits /\ Batches' = Batches /\ D' = D /\ N' = N
         /\ IsLog(log) => IsLog(log)'
BY DEF Deposits, Batches, D, N

LEMMA TypesKept ==
  ASSUME Types, UNCHANGED <<syncer, polled, syncpoint, packer, proposing>>
  PROVE  Types'
BY DEF Types

LEMMA BatchesKept ==
  ASSUME HasBatches, UNCHANGED <<log, stored>>
  PROVE  HasBatches'
BY DEF HasBatches, N

LEMMA DepositsKept ==
  ASSUME HasDeposits, UNCHANGED <<log, pushed, stored, pool>>
  PROVE  HasDeposits'
BY DEF HasDeposits, D

LEMMA PackerKept ==
  ASSUME PackerInv, proposing => proposing',
         UNCHANGED <<log, packer.pc, packer.path, packer.block, handlers, stored, syncpoint, tree, pushed>>
  PROVE  PackerInv'
<1>1. UNCHANGED <<Batches, N, PackerRests>>
  BY DEF Batches, N, PackerRests
<1>2. Resting => Resting'
  BY <1>1 DEF Resting
<1>3. WithSubmitted => WithSubmitted'
  BY <1>1 DEF WithSubmitted, Under, OwnBatch
<1>4. WithStored => WithStored'
  BY <1>1 DEF WithStored, Under, OwnBatch
<1> QED
  BY <1>1, <1>2, <1>3, <1>4 DEF PackerInv, Stored

LEMMA HandlersKept ==
  ASSUME HandlersInv, UNCHANGED <<log, handlers, stored, strategy, syncer>>
  PROVE  HandlersInv'
BY DEF HandlersInv, Batches, end

LEMMA SyncKept ==
  ASSUME SyncInv, UNCHANGED <<log, syncpoint, stored, syncer, proposing, handlers, polled>>
  PROVE  SyncInv'
BY DEF SyncInv, Batches, end, StoredBefore, InTodo, Stored, Busy, Handler

LEMMA ListenKept ==
  ASSUME ListenInv, UNCHANGED <<log, polled, pushed, stored, handlers, packer.pc, packer.block>>
  PROVE  ListenInv'
BY DEF ListenInv, Deposits, Batches, Known, Stored, PackerRests

\* A packer that rests before and after a step.
LEMMA RestingKept ==
  ASSUME Right, PackerRests, PackerRests', packer'.block \in {packer.block, 0},
         UNCHANGED <<log, stored, syncpoint, tree>>
  PROVE  PackerInv'
<1>1. UNCHANGED Batches
  BY DEF Batches
<1>2. Resting
  BY DEF Right, PackerInv, WithSubmitted, WithStored, Under, PackerRests
<1>3. Resting'
  BY <1>2 DEF Resting
<1>4. packer'.block <= Len(log') /\ (packer'.block \in Batches' => Stored(packer.block)')
  <2>1. 0 \notin Batches /\ 0 <= Len(log)
    BY StateFacts
  <2>2. packer.block <= Len(log) /\ (packer.block \in Batches => Stored(packer.block))
    BY DEF Right, PackerInv
  <2> QED
    BY <1>1, <2>1, <2>2 DEF Stored
<1> QED
  BY <1>1, <1>3, <1>4 DEF PackerInv

LEMMA KnownKept ==
  ASSUME Right, PackerRests, UNCHANGED <<log, polled, pushed, stored, handlers>>
  PROVE  ListenInv'
BY DEF Right, ListenInv, Deposits, Batches, Known, Stored

(***************************************************************************)
(* The packer between batches.                                             *)
(***************************************************************************)
LEMMA PackerMoves ==
  ASSUME Right, PackerRests, PackerRests', Types',
         packer'.block \in {packer.block, 0},
         UNCHANGED <<log, tree, stored, pool, syncpoint, strategy, handlers, syncer, polled, pushed, raised, proposing>>
  PROVE  Right'
<1>1. IsLog(log)'
  BY LogKept DEF Right
<1>2. HasBatches' /\ HasDeposits' /\ HandlersInv' /\ SyncInv'
  BY BatchesKept, DepositsKept, HandlersKept, SyncKept DEF Right
<1>3. PackerInv' /\ ListenInv'
  BY RestingKept, KnownKept
<1> QED
  BY <1>1, <1>2, <1>3 DEF Right

LEMMA RunOnceStep ==
  ASSUME Right, RunOnce
  PROVE  Right'
<1>1. UNCHANGED <<log, tree, stored, pool, syncpoint, strategy, handlers, syncer, polled, pushed, raised, proposing>>
  BY DEF RunOnce, l1Vars, history
<1>2. packer.pc = "idle" /\ packer' = [packer EXCEPT !.pc = "deposits"]
  BY DEF RunOnce
<1>3. Types
  BY DEF Right
<1>4. Types' /\ packer'.pc = "deposits" /\ packer'.block = packer.block
  BY <1>1, <1>2, <1>3 DEF Types, PackerSteps
<1> QED
  BY <1>1, <1>2, <1>4, PackerMoves DEF PackerRests

LEMMA NoneLeftStep ==
  ASSUME Right, NoneLeft
  PROVE  Right'
<1>1. UNCHANGED <<log, tree, stored, pool, syncpoint, strategy, handlers, syncer, polled, pushed, raised, proposing>>
  BY DEF NoneLeft, l1Vars, history
<1>2. PICK pc \in {"transfers", "idle"} : packer' = [packer EXCEPT !.pc = pc]
  BY DEF NoneLeft
<1>3. packer.pc \in {"deposits", "transfers"}
  BY DEF NoneLeft
<1>4. Types
  BY DEF Right
<1>5. Types' /\ packer'.pc = pc /\ packer'.block = packer.block
  BY <1>1, <1>2, <1>4 DEF Types, PackerSteps
<1> QED
  BY <1>1, <1>3, <1>5, PackerMoves DEF PackerRests

LEMMA StopPackerStep ==
  ASSUME Right, StopPacker
  PROVE  Right'
<1>1. UNCHANGED <<log, tree, stored, pool, syncpoint, strategy, handlers, syncer, polled, pushed, raised, proposing>>
  BY DEF StopPacker, l1Vars, history
<1>2. packer.pc = "idle" /\ packer' = Stopped
  BY DEF StopPacker
<1>3. Types
  BY DEF Right
<1>4. Types' /\ packer'.pc = "stopped" /\ packer'.block = 0
  BY <1>1, <1>2, <1>3 DEF Types, PackerSteps, Stopped
<1> QED
  BY <1>1, <1>2, <1>4, PackerMoves DEF PackerRests

(***************************************************************************)
(* Slots.                                                                  *)
(***************************************************************************)
LEMMA SlotBoundaryStep ==
  ASSUME Right, SlotBoundary
  PROVE  Right'
<1>1. UNCHANGED <<log, tree, stored, pool, syncpoint, strategy, handlers, syncer, polled, pushed, raised, proposing>>
  BY DEF SlotBoundary, history
<1>2. Types
  BY DEF Right
<1>3. CASE packer.pc = "stopped" /\ packer' = [packer EXCEPT !.pc = "dead"]
  <2>1. Types' /\ packer'.pc = "dead" /\ packer'.block = packer.block
    BY <1>1, <1>2, <1>3 DEF Types, PackerSteps
  <2> QED
    BY <1>1, <1>3, <2>1, PackerMoves DEF PackerRests
<1>4. CASE packer' \in {packer, [packer EXCEPT !.stopping = TRUE]}
  <2>1. Types' /\ UNCHANGED <<packer.pc, packer.path, packer.block>>
    BY <1>1, <1>2, <1>4 DEF Types
  <2>2. IsLog(log)' /\ HasBatches' /\ HasDeposits' /\ HandlersInv' /\ SyncInv'
    BY <1>1, LogKept, BatchesKept, DepositsKept, HandlersKept, SyncKept DEF Right
  <2>3. PackerInv' /\ ListenInv'
    BY <1>1, <2>1, PackerKept, ListenKept DEF Right
  <2> QED
    BY <1>1, <2>1, <2>2, <2>3 DEF Right
<1> QED
  BY <1>3, <1>4 DEF SlotBoundary

\* While the node does not sync, nothing of a sync is left.
LEMMA NotBusy ==
  ASSUME Right, ~Busy
  PROVE  /\ syncer.pc = "done" /\ polled.on /\ syncer.regular
         /\ \A handler \in handlers : handler.by # BySync
<1>1. syncer.pc = "done"
  BY DEF Right, Types, Busy
<1> QED
  BY <1>1 DEF Right, SyncInv, HandlersInv

\* While it does, the packer rests.
LEMMA BusyRests ==
  ASSUME Right, Busy
  PROVE  ~proposing /\ Resting
BY DEF Right, SyncInv, PackerInv, WithSubmitted, WithStored, Under

LEMMA NewSlotStep ==
  ASSUME Right, NEW isProposer \in BOOLEAN, NewSlot(isProposer), flaws' = {}
  PROVE  Right'
<1>1. /\ UNCHANGED <<log, tree, stored, pool, syncpoint, strategy, handlers, polled, pushed, raised>>
      /\ proposing' = isProposer
  BY DEF NewSlot
<1>2. /\ syncer.pc = "done" /\ polled.on /\ syncer.regular
      /\ \A handler \in handlers : handler.by # BySync
  BY NotBusy DEF NewSlot
<1>3. Types
  BY DEF Right
<1>4. IsLog(log)' /\ HasBatches' /\ HasDeposits'
  BY <1>1, LogKept, BatchesKept, DepositsKept DEF Right
<1>5. Batches' = Batches
  BY <1>1, LogKept
<1>6. CASE ~isProposer
  <2>1. syncer' = start /\ packer' = packer /\ PackerRests
    BY <1>2, <1>6 DEF NewSlot
  <2>2. syncer'.pc = "reading" /\ syncer'.start = syncpoint.blockNumber
    BY <1>3, <2>1 DEF start, Types
  <2>3. Types'
    BY <1>1, <1>3, <2>1 DEF start, Types
  <2>4. PackerInv' /\ ListenInv'
    BY <1>1, <2>1, RestingKept, KnownKept DEF PackerRests
  <2>5. HandlersInv'
    BY <1>1, <1>2, <1>5 DEF Right, HandlersInv
  <2>6. SyncInv'
    <3>1. /\ syncpoint.blockNumber <= Len(log) /\ StoredBefore(syncpoint.blockNumber)
          /\ syncpoint.blockNumber \in Nat /\ Len(log) \in Nat
      BY <1>3, StateFacts DEF Right, SyncInv, Types
    <3>2. syncpoint.blockNumber <= syncpoint.blockNumber /\ syncpoint.blockNumber <= Len(log) + 1
      BY <3>1
    <3> QED
      BY <1>1, <1>5, <1>6, <2>2, <3>1, <3>2 DEF SyncInv, StoredBefore, Stored
  <2> QED
    BY <1>1, <1>4, <2>3, <2>4, <2>5, <2>6 DEF Right
<1>7. CASE isProposer
  <2>1. syncer' = stop /\ packer' = IF packer.pc = "stopped" THEN Started ELSE packer
    BY <1>2, <1>7 DEF NewSlot
  <2>2. Types' /\ syncer'.pc = "done" /\ syncer'.regular
    <3>1. syncer' \in [pc : {"done"}, start : Nat, latest : Nat, todo : SUBSET Nat,
                       regular : {TRUE}, listeners : Nat]
      <4>1. PICK l : l = IF syncer.listeners > 0 THEN syncer.listeners - 1 ELSE 0
        OBVIOUS
      <4>2. l \in Nat
        BY <1>3, <4>1 DEF Types
      <4>3. syncer' = [syncer EXCEPT !.listeners = l]
        BY <1>2, <2>1, <4>1 DEF stop
      <4> QED
        BY <1>2, <1>3, <4>2, <4>3 DEF Types
    <3>2. packer' \in [pc : PackerSteps, stopping : BOOLEAN, listeners : Nat,
                       path : {packer'.path}, block : Nat]
      BY <1>3, <2>1 DEF Types, Started, Stopped, PackerSteps
    <3> QED
      BY <1>1, <1>3, <3>1, <3>2 DEF Types
  <2>3. HandlersInv'
    BY <1>1, <1>2, <1>5 DEF Right, HandlersInv
  <2>4. SyncInv'
    <3>1. syncpoint.blockNumber <= Len(log) /\ StoredBefore(syncpoint.blockNumber)
      BY DEF Right, SyncInv
    <3>2. ~Busy'
      BY <2>2 DEF Busy
    <3> QED
      BY <1>1, <1>2, <1>5, <2>2, <3>1, <3>2 DEF SyncInv, StoredBefore, Stored
  <2>5. PackerInv' /\ ListenInv'
    <3>1. CASE packer.pc = "stopped"
      <4>1. packer'.pc = "idle" /\ packer'.block = 0
        BY <2>1, <3>1 DEF Started, Stopped
      <4> QED
        BY <1>1, <3>1, <4>1, RestingKept, KnownKept DEF PackerRests
    <3>2. CASE packer.pc # "stopped"
      <4>1. UNCHANGED <<packer.pc, packer.path, packer.block>>
        BY <2>1, <3>2
      <4> QED
        BY <1>1, <1>7, <4>1, PackerKept, ListenKept DEF Right
    <3> QED
      BY <3>1, <3>2
  <2> QED
    BY <1>1, <1>4, <2>2, <2>3, <2>4, <2>5 DEF Right
<1> QED
  BY <1>6, <1>7

(***************************************************************************)
(* The initial sync.                                                       *)
(***************************************************************************)
SyncerSteps == {"reading", "deposits", "query", "batches", "complete", "done"}

LEMMA EndIs ==
  ASSUME NEW a \in Nat, NEW b \in Nat, a <= b, NEW e, e = Min({a + chunksize - 1, b})
  PROVE  e \in Nat /\ a <= e /\ e <= b
<1>1. chunksize \in Nat \ {0}
  BY ClientAssumption
<1>2. PICK x \in {a + chunksize - 1, b} : \A y \in {a + chunksize - 1, b} : x <= y
  <2>1. a + chunksize - 1 \in Nat
    BY <1>1
  <2> QED
    BY <2>1
<1>3. Min({a + chunksize - 1, b}) \in {a + chunksize - 1, b}
      /\ \A y \in {a + chunksize - 1, b} : Min({a + chunksize - 1, b}) <= y
  BY <1>2 DEF Min
<1> QED
  BY <1>1, <1>3

\* A chunk of blocks ends after it starts, and not after the latest block.
LEMMA EndFacts ==
  ASSUME Right, syncer.pc \in {"deposits", "query", "batches"}
  PROVE  /\ end \in Nat /\ syncer.start <= end /\ end <= syncer.latest /\ end <= Len(log)
         /\ syncer.start \in Nat /\ syncer.latest \in Nat
<1>1. syncer.start \in Nat /\ syncer.latest \in Nat
  BY DEF Right, Types
<1>2. syncer.start <= syncer.latest /\ syncer.latest <= Len(log)
  BY DEF Right, SyncInv
<1>3. end \in Nat /\ syncer.start <= end /\ end <= syncer.latest
  BY <1>1, <1>2, EndIs DEF end
<1> QED
  BY <1>1, <1>2, <1>3, StateFacts

LEMMA getBlockNumberStep ==
  ASSUME Right, getBlockNumber
  PROVE  Right'
<1>1. /\ UNCHANGED <<log, tree, stored, pool, syncpoint, strategy, handlers, polled, packer, pushed, raised, proposing>>
      /\ syncer.pc = "reading"
  BY DEF getBlockNumber, l1Vars, history
<1>2. Types /\ Len(log) \in Nat
  BY StateFacts DEF Right
<1>3. /\ Types' /\ syncer'.start = syncer.start /\ syncer'.latest = Len(log)
      /\ syncer'.pc = IF syncer.start <= Len(log) THEN "deposits" ELSE "complete"
  BY <1>1, <1>2 DEF getBlockNumber, Types
<1>4. IsLog(log)' /\ HasBatches' /\ HasDeposits' /\ PackerInv' /\ ListenInv' /\ Batches' = Batches
  BY <1>1, LogKept, BatchesKept, DepositsKept, PackerKept, ListenKept DEF Right
<1>5. HandlersInv'
  BY <1>1, <1>4 DEF Right, HandlersInv
<1>6. SyncInv'
  <2>1. /\ syncpoint.blockNumber <= Len(log) /\ StoredBefore(syncpoint.blockNumber)
        /\ ~proposing /\ StoredBefore(syncer.start) /\ syncpoint.blockNumber <= syncer.start
    BY <1>1 DEF Right, SyncInv, Busy
  <2>2. StoredBefore(syncpoint.blockNumber)' /\ StoredBefore(syncer.start)'
    BY <1>1, <1>3, <1>4, <2>1 DEF StoredBefore, Stored
  <2>3. CASE syncer'.pc = "deposits"
    <3>1. syncer.start <= Len(log)
      BY <1>3, <2>3
    <3>2. end' \in Nat /\ syncer.start <= end'
      <4>1. end' = Min({syncer.start + chunksize - 1, Len(log)})
        BY <1>3 DEF end
      <4>2. syncer.start \in Nat
        BY <1>2 DEF Types
      <4> QED
        BY <1>2, <3>1, <4>1, <4>2, EndIs
    <3>3. syncpoint.blockNumber <= end'
      BY <1>2, <2>1, <3>2 DEF Types
    <3> QED
      BY <1>1, <1>2, <1>3, <2>1, <2>2, <2>3, <3>1, <3>3 DEF SyncInv
  <2>4. CASE syncer'.pc = "complete"
    BY <1>1, <2>1, <2>2, <2>4 DEF SyncInv
  <2> QED
    BY <1>3, <2>3, <2>4
<1> QED
  BY <1>1, <1>3, <1>4, <1>5, <1>6 DEF Right

LEMMA QueryBatchesStep ==
  ASSUME Right, QueryBatches
  PROVE  Right'
<1>1. /\ UNCHANGED <<log, tree, stored, pool, syncpoint, strategy, handlers, polled, packer, pushed, raised, proposing>>
      /\ syncer.pc = "query"
      /\ syncer' = [syncer EXCEPT !.pc = "batches", !.todo = {b \in Batches : b \in syncer.start .. end}]
  BY LogIs DEF QueryBatches, l1Vars, history
<1>2. Types /\ Batches \subseteq Nat
  BY StateFacts DEF Right
<1>3. PICK todo : todo = {b \in Batches : b \in syncer.start .. end}
  OBVIOUS
<1>4. todo \in SUBSET Nat /\ syncer' = [syncer EXCEPT !.pc = "batches", !.todo = todo]
  BY <1>1, <1>2, <1>3
<1>5. /\ Types' /\ syncer'.start = syncer.start /\ syncer'.latest = syncer.latest
      /\ syncer'.pc = "batches" /\ syncer'.todo = todo
  BY <1>1, <1>2, <1>4 DEF Types
<1>6. IsLog(log)' /\ HasBatches' /\ HasDeposits' /\ PackerInv' /\ ListenInv' /\ Batches' = Batches
  BY <1>1, LogKept, BatchesKept, DepositsKept, PackerKept, ListenKept DEF Right
<1>7. HandlersInv'
  BY <1>1, <1>6 DEF Right, HandlersInv
<1>8. end' = end
  BY <1>5 DEF end
<1>9. SyncInv'
  <2>1. /\ syncpoint.blockNumber <= Len(log) /\ StoredBefore(syncpoint.blockNumber)
        /\ ~proposing /\ StoredBefore(syncer.start)
        /\ syncer.start <= syncer.latest /\ syncer.latest <= Len(log)
        /\ syncpoint.blockNumber <= end
    BY <1>1 DEF Right, SyncInv, Busy
  <2>2. StoredBefore(syncpoint.blockNumber)' /\ StoredBefore(syncer.start)'
    BY <1>1, <1>5, <1>6, <2>1 DEF StoredBefore, Stored
  <2>3. /\ todo \subseteq Batches
        /\ \A b \in Batches : b \in syncer.start .. end => b \in todo
        /\ \A b \in todo : b \in syncer.start .. end
    BY <1>3
  <2> QED
    BY <1>1, <1>5, <1>6, <1>8, <2>1, <2>2, <2>3 DEF SyncInv, InTodo
<1> QED
  BY <1>1, <1>5, <1>6, <1>7, <1>9 DEF Right

LEMMA EndChunkStep ==
  ASSUME Right, EndChunk
  PROVE  Right'
<1>1. /\ UNCHANGED <<log, tree, stored, pool, strategy, handlers, polled, packer, pushed, proposing>>
      /\ syncer.pc = "batches" /\ syncer.todo = {} /\ \A handler \in handlers : handler.by # BySync
  BY DEF EndChunk, l1Vars, Awaited
<1>2. Types /\ Len(stored) \in Nat
  BY StateFacts DEF Right
<1>3. ~proposing /\ Resting
  BY <1>1, BusyRests DEF Busy
<1>4. end \in Nat /\ end <= Len(log) /\ Len(log) \in Nat /\ syncpoint.blockNumber <= end
  BY <1>1, EndFacts, StateFacts DEF Right, SyncInv
<1>5. CanUpdate(end, CurrentBatchID(stored)) /\ CurrentBatchID(stored) = Len(stored) - 1
  BY <1>2, <1>3, <1>4 DEF CanUpdate, CurrentBatchID, Resting, Types
<1>6. /\ syncpoint' = SyncPoint(end, Len(stored) - 1)
      /\ syncer' = [syncer EXCEPT !.pc = "reading", !.start = end + 1]
      /\ UNCHANGED raised
  BY <1>5 DEF EndChunk
<1>7. /\ Types' /\ syncpoint'.blockNumber = end /\ syncpoint'.batchID = Len(stored) - 1
      /\ syncer'.pc = "reading" /\ syncer'.start = end + 1
  <2>1. PICK e, i : e = end + 1 /\ i = Len(stored) - 1
    OBVIOUS
  <2>2. e \in Nat /\ i \in Int
    BY <1>2, <1>4, <2>1
  <2>3. syncer' = [syncer EXCEPT !.pc = "reading", !.start = e]
    BY <1>6, <2>1
  <2>4. syncpoint' \in [blockNumber : Nat, batchID : Int]
    BY <1>4, <1>6, <2>1, <2>2 DEF SyncPoint
  <2>5. syncpoint'.blockNumber = end /\ syncpoint'.batchID = i
    BY <1>6, <2>1 DEF SyncPoint
  <2>6. /\ syncer' \in [pc : SyncerSteps, start : Nat, latest : Nat, todo : SUBSET Nat,
                        regular : BOOLEAN, listeners : Nat]
        /\ syncer'.pc = "reading" /\ syncer'.start = e
    BY <1>2, <2>2, <2>3 DEF Types, SyncerSteps
  <2> QED
    BY <1>1, <1>2, <2>1, <2>4, <2>5, <2>6 DEF Types, SyncerSteps
<1>8. IsLog(log)' /\ HasBatches' /\ HasDeposits' /\ ListenInv' /\ Batches' = Batches
  BY <1>1, LogKept, BatchesKept, DepositsKept, ListenKept DEF Right
<1>9. HandlersInv'
  BY <1>1, <1>8 DEF Right, HandlersInv
<1>10. PackerInv'
  BY <1>1, <1>3, <1>7, <1>8 DEF Right, PackerInv, Resting, PackerRests, Stored
<1>11. \A b \in Batches : b < end + 1 => Stored(b)
  <2> SUFFICES ASSUME NEW b \in Batches, b < end + 1 PROVE Stored(b)
    OBVIOUS
  <2>1. b \in Nat /\ syncer.start \in Nat
    BY <1>1, StateFacts, EndFacts
  <2>2. CASE b < syncer.start
    BY <1>1, <2>2 DEF Right, SyncInv, StoredBefore
  <2>3. CASE ~ (b < syncer.start)
    <3>1. b \in syncer.start .. end
      BY <1>4, <2>1, <2>3
    <3>2. InTodo(b)
      BY <1>1, <3>1 DEF Right, SyncInv
    <3> QED
      BY <1>1, <3>2 DEF InTodo, Handler
  <2> QED
    BY <2>2, <2>3
<1>12. SyncInv'
  <2>1. \A b \in Batches : b < end => b < end + 1
    BY <1>4, StateFacts
  <2>2. StoredBefore(syncpoint.blockNumber)' /\ StoredBefore(syncer.start)'
    BY <1>1, <1>7, <1>8, <1>11, <2>1 DEF StoredBefore, Stored
  <2>3. end <= end + 1 /\ end + 1 <= Len(log) + 1
    BY <1>4
  <2> QED
    BY <1>1, <1>3, <1>4, <1>7, <2>2, <2>3 DEF SyncInv
<1> QED
  BY <1>1, <1>6, <1>7, <1>8, <1>9, <1>10, <1>12 DEF Right

LEMMA SyncCompleteStep ==
  ASSUME Right, SyncComplete, flaws' = {}
  PROVE  Right'
<1>1. /\ UNCHANGED <<log, tree, stored, pool, syncpoint, strategy, handlers, packer, pushed, raised, proposing>>
      /\ syncer.pc = "complete" /\ polled' = PolledFrom
      /\ \A block \in DOMAIN log : ~IsMissed(block)
  BY DEF SyncComplete, l1Vars
<1>2. Types /\ Len(log) \in Nat
  BY StateFacts DEF Right
<1>3. Types' /\ syncer'.pc = "done" /\ syncer'.regular /\ polled'.on
  <2>0. PICK l : l = syncer.listeners + 1
    OBVIOUS
  <2>1. l \in Nat /\ syncer' = [syncer EXCEPT !.pc = "done", !.regular = TRUE, !.listeners = l]
    BY <1>2, <2>0 DEF SyncComplete, Types
  <2>2. /\ syncer' \in [pc : SyncerSteps, start : Nat, latest : Nat, todo : SUBSET Nat,
                        regular : BOOLEAN, listeners : Nat]
        /\ syncer'.pc = "done" /\ syncer'.regular
    BY <1>2, <2>1 DEF Types, SyncerSteps
  <2>3. polled' \in [on : BOOLEAN, deposit : Nat, batch : Nat] /\ polled'.on
    BY <1>1, <1>2 DEF Types, PolledFrom
  <2> QED
    BY <1>1, <1>2, <2>2, <2>3 DEF Types, SyncerSteps
<1>4. IsLog(log)' /\ HasBatches' /\ HasDeposits' /\ PackerInv' /\ Batches' = Batches /\ Deposits' = Deposits
  BY <1>1, LogKept, BatchesKept, DepositsKept, PackerKept DEF Right
<1>5. HandlersInv'
  BY <1>1, <1>4 DEF Right, HandlersInv
<1>6. SyncInv'
  <2>1. syncpoint.blockNumber <= Len(log) /\ StoredBefore(syncpoint.blockNumber)
    BY DEF Right, SyncInv
  <2>2. StoredBefore(syncpoint.blockNumber)'
    BY <1>1, <1>4, <2>1 DEF StoredBefore, Stored
  <2> QED
    BY <1>1, <1>3, <2>1, <2>2 DEF SyncInv, Busy
<1>7. polled'.deposit <= Len(log) /\ polled'.batch <= Len(log)
  BY <1>1, <1>2 DEF Right, ListenInv, PolledFrom
<1>8. ASSUME NEW b \in Deposits, b <= polled'.deposit PROVE log[b].n <= Len(pushed)
  <2>1. b \in DOMAIN log /\ log[b].kind = "deposit"
    BY DEF Deposits, In
  <2>2. log[b].n \in ToSet(pushed)
    BY <1>1, <1>8, <2>1 DEF IsMissed
  <2>3. PICK i \in DOMAIN pushed : log[b].n = pushed[i]
    BY <2>2 DEF ToSet
  <2>4. pushed = [j \in 1 .. Len(pushed) |-> j] /\ Len(pushed) \in Nat
    BY StateFacts DEF Right, HasDeposits
  <2>5. i \in 1 .. Len(pushed) /\ pushed[i] = i
    BY <2>4
  <2> QED
    BY <2>3, <2>4, <2>5
<1>9. ASSUME NEW b \in Batches, b <= polled'.batch PROVE Known(b)
  <2>1. b \in DOMAIN log /\ log[b].kind = "batch" /\ "batch" # "deposit"
    BY DEF Batches, In
  <2>2. ~IsMissed(b)
    BY <1>1, <2>1
  <2>3. SyncedBefore(log[b].id) \/ \E handler \in handlers : handler.block = b
    BY <1>1, <1>9, <2>1, <2>2 DEF IsMissed
  <2>4. SyncedBefore(log[b].id) => Stored(b)
    <3>1. syncpoint.batchID = Len(stored) - 1
      BY <1>1, BusyRests DEF Busy, Resting
    <3>2. Len(stored) \in Nat /\ log[b].id \in Int
      BY StateFacts
    <3> QED
      BY <3>1, <3>2 DEF SyncedBefore, Stored
  <2> QED
    BY <2>3, <2>4 DEF Known
<1>10. ListenInv'
  <2>1. \A b \in Batches : Known(b) => Known(b)'
    BY <1>1 DEF Known, Stored, PackerRests
  <2> QED
    BY <1>1, <1>3, <1>4, <1>7, <1>8, <1>9, <2>1 DEF ListenInv
<1> QED
  BY <1>1, <1>3, <1>4, <1>5, <1>6, <1>10 DEF Right

(***************************************************************************)
(* The L1 has one more event.                                              *)
(***************************************************************************)
LEMMA LogGrew ==
  ASSUME Right, Len(log') = Len(log) + 1, \A b \in 1 .. Len(log) : log'[b] = log[b],
         Batches \subseteq Batches', Batches' \subseteq Batches \cup {Len(log) + 1},
         Deposits' \subseteq Deposits \cup {Len(log) + 1},
         PackerRests \/ UNCHANGED packer,
         UNCHANGED <<stored, pushed, syncpoint, strategy, handlers, syncer, polled, proposing>>
  PROVE  HandlersInv' /\ SyncInv' /\ ListenInv'
<1>1. /\ Len(log) \in Nat /\ Batches \subseteq 1 .. Len(log) /\ Deposits \subseteq 1 .. Len(log)
  BY StateFacts
<1>2. /\ \A b \in Batches : b \in Batches' /\ log'[b] = log[b] /\ (Stored(b) <=> Stored(b)')
      /\ \A b \in Deposits : log'[b] = log[b]
  BY <1>1 DEF Stored
<1>3. Types
  BY DEF Right
<1>4. HandlersInv'
  BY <1>2 DEF Right, HandlersInv, end
<1>5. ASSUME NEW block \in Nat, block <= Len(log) + 1, StoredBefore(block)
      PROVE  StoredBefore(block)'
  <2> SUFFICES ASSUME NEW b \in Batches', b < block PROVE Stored(b)'
    BY DEF StoredBefore
  <2>1. b \in Batches
    BY <1>1, <1>5
  <2> QED
    BY <1>2, <1>5, <2>1 DEF StoredBefore
<1>6. ASSUME NEW b \in Batches', NEW block \in Nat, block <= Len(log), b <= block PROVE b \in Batches
  BY <1>1, <1>6
<1>7. SyncInv'
  <2>1. syncpoint.blockNumber \in Nat /\ syncer.start \in Nat /\ syncer.latest \in Nat
    BY <1>3 DEF Types
  <2>2. /\ syncpoint.blockNumber <= Len(log) /\ StoredBefore(syncpoint.blockNumber)
        /\ Busy => ~proposing
        /\ syncer.pc \in {"reading", "deposits", "query", "batches"} => StoredBefore(syncer.start)
    BY DEF Right, SyncInv
  <2>3. syncpoint.blockNumber <= Len(log') /\ StoredBefore(syncpoint.blockNumber)'
    <3>1. StoredBefore(syncpoint.blockNumber)'
      <4>1. PICK block \in Nat : block = syncpoint.blockNumber
        BY <2>1
      <4>2. StoredBefore(block) /\ block <= Len(log) + 1
        BY <1>1, <2>2, <4>1
      <4>3. StoredBefore(block)'
        BY <1>5, <4>2
      <4> QED
        BY <4>1, <4>3 DEF StoredBefore, Stored
    <3> QED
      BY <1>1, <2>1, <2>2, <3>1
  <2>4. (Busy => ~proposing)'
    BY <2>2 DEF Busy
  <2>5. syncer.pc \in {"reading", "deposits", "query", "batches"} => StoredBefore(syncer.start)'
    <3> SUFFICES ASSUME syncer.pc \in {"reading", "deposits", "query", "batches"}
                 PROVE  StoredBefore(syncer.start)'
      OBVIOUS
    <3>1. syncer.start <= Len(log) + 1
      BY <1>1, <2>1 DEF Right, SyncInv
    <3>2. PICK block \in Nat : block = syncer.start
      BY <2>1
    <3>3. StoredBefore(block)'
      BY <1>5, <2>2, <3>1, <3>2
    <3> QED
      BY <3>2, <3>3 DEF StoredBefore, Stored
  <2>6. syncer.pc = "reading" =>
          syncpoint.blockNumber <= syncer.start /\ syncer.start <= Len(log') + 1
    BY <1>1, <2>1 DEF Right, SyncInv
  <2>7. end' = end
    BY DEF end
  <2>8. syncer.pc \in {"deposits", "query", "batches"} =>
          /\ syncer.start <= syncer.latest /\ syncer.latest <= Len(log')
          /\ syncpoint.blockNumber <= end
    BY <1>1, <2>1 DEF Right, SyncInv
  <2>9. syncer.pc = "batches" =>
          /\ syncer.todo \subseteq Batches'
          /\ \A b \in Batches' : b \in syncer.start .. end => InTodo(b)'
          /\ \A b \in syncer.todo : b \in syncer.start .. end
    <3> SUFFICES ASSUME syncer.pc = "batches"
                 PROVE  /\ syncer.todo \subseteq Batches'
                        /\ \A b \in Batches' : b \in syncer.start .. end => InTodo(b)'
                        /\ \A b \in syncer.todo : b \in syncer.start .. end
      OBVIOUS
    <3>1. /\ syncer.todo \subseteq Batches
          /\ \A b \in Batches : b \in syncer.start .. end => InTodo(b)
          /\ \A b \in syncer.todo : b \in syncer.start .. end
      BY DEF Right, SyncInv
    <3>2. end \in Nat /\ end <= Len(log)
      BY EndFacts
    <3>3. ASSUME NEW b \in Batches', b \in syncer.start .. end PROVE InTodo(b)'
      <4>1. b \in Batches
        BY <1>6, <3>2, <3>3
      <4> QED
        BY <1>2, <3>1, <3>3, <4>1 DEF InTodo, Handler
    <3> QED
      BY <1>2, <3>1, <3>3
  <2>10. syncer.pc = "done" => polled.on /\ syncer.regular
    BY DEF Right, SyncInv
  <2> QED
    BY <2>3, <2>4, <2>5, <2>6, <2>7, <2>8, <2>9, <2>10 DEF SyncInv
<1>8. ListenInv'
  <2> SUFFICES ASSUME polled.on PROVE ListenInv'
    BY DEF ListenInv
  <2>1. /\ polled.deposit <= Len(log) /\ polled.batch <= Len(log)
        /\ \A b \in Deposits : b <= polled.deposit => log[b].n <= Len(pushed)
        /\ \A b \in Batches : b <= polled.batch => Known(b)
    BY DEF Right, ListenInv
  <2>2. polled.deposit \in Nat /\ polled.batch \in Nat
    BY <1>3 DEF Types
  <2>3. \A b \in Batches : Known(b) => Known(b)'
    BY <1>2 DEF Known, PackerRests
  <2>4. \A b \in Deposits' : b <= polled.deposit => b \in Deposits
    BY <1>1, <2>1, <2>2
  <2>5. \A b \in Batches' : b <= polled.batch => b \in Batches
    BY <1>1, <2>1, <2>2
  <2>6. polled.deposit <= Len(log') /\ polled.batch <= Len(log')
    BY <1>1, <2>1, <2>2
  <2> QED
    BY <1>2, <2>1, <2>3, <2>4, <2>5, <2>6 DEF ListenInv
<1> QED
  BY <1>4, <1>7, <1>8

LEMMA QueueDepositStep ==
  ASSUME Right, QueueDeposit
  PROVE  Right'
<1>1. /\ UNCHANGED <<tree, stored, pool, syncpoint, strategy, handlers, syncer, polled, packer, pushed, raised, proposing>>
      /\ log' = Append(log, [kind |-> "deposit", n |-> D + 1])
  BY LogIs DEF QueueDeposit, nodeVars, history, D, Number, Deposits
<1>2. PICK event : event = [kind |-> "deposit", n |-> D + 1]
  OBVIOUS
<1>3. Adds(log, event, log') /\ event.kind = "deposit" /\ event.n = Number(log, "deposit") + 1
  BY <1>1, <1>2 DEF Adds, D
<1>4. IsLog(log)
  BY DEF Right
<1>5. /\ IsLog(log') /\ Len(log') = Len(log) + 1
      /\ Batches' = Batches /\ N' = N /\ D' = D + 1
      /\ Deposits' = Deposits \cup {Len(log) + 1}
      /\ \A b \in 1 .. Len(log) : log'[b] = log[b]
      /\ ChainOf(log') = ChainOf(log)
  BY <1>3, <1>4, DepositAdds DEF Batches, Deposits, N, D
<1>6. HandlersInv' /\ SyncInv' /\ ListenInv'
  BY <1>1, <1>5, LogGrew
<1>7. Types'
  BY <1>1, TypesKept DEF Right
<1>8. HasBatches'
  BY <1>1, <1>5 DEF Right, HasBatches
<1>9. HasDeposits'
  <2>1. Len(pushed) \in 0 .. D + 1
    BY StateFacts
  <2> QED
    BY <1>1, <1>5, <2>1 DEF Right, HasDeposits
<1>10. \A b \in Batches : log'[b] = log[b]
  BY <1>5, StateFacts
<1>11. PackerInv'
  <2>1. Resting => Resting'
    BY <1>1 DEF Resting, PackerRests
  <2>2. WithSubmitted => WithSubmitted'
    BY <1>1, <1>5, <1>10 DEF WithSubmitted, Under, OwnBatch
  <2>3. WithStored => WithStored'
    BY <1>1, <1>5, <1>10 DEF WithStored, Under, OwnBatch
  <2>4. /\ packer.block <= Len(log')
        /\ PackerRests' /\ packer.block \in Batches' => Stored(packer.block)'
    <3>1. /\ packer.block <= Len(log) /\ packer.block \in Nat /\ Len(log) \in Nat
          /\ PackerRests /\ packer.block \in Batches => Stored(packer.block)
      BY StateFacts DEF Right, PackerInv, Types
    <3>2. packer.block <= Len(log')
      BY <1>5, <3>1
    <3>3. PackerRests' /\ packer.block \in Batches' => Stored(packer.block)'
      <4>1. (PackerRests' <=> PackerRests) /\ Batches' = Batches
        BY <1>1, <1>5 DEF PackerRests
      <4>2. packer.block \in Batches => (Stored(packer.block)' <=> Stored(packer.block))
        BY <1>1, <1>10 DEF Stored
      <4> QED
        BY <3>1, <4>1, <4>2
    <3> QED
      BY <3>2, <3>3
  <2> QED
    BY <1>1, <2>1, <2>2, <2>3, <2>4 DEF Right, PackerInv
<1> QED
  BY <1>1, <1>5, <1>6, <1>7, <1>8, <1>9, <1>11 DEF Right

\* A batch that comes after those of the L1.
LEMMA BatchSubmitted ==
  ASSUME Right, NEW batch, Adds(log, batch, log'), batch.kind = "batch", batch.id = N,
         IsNextOf(batch, ChainOf(log)), UNCHANGED <<stored, pushed, pool>>
  PROVE  /\ IsLog(log') /\ Len(log') = Len(log) + 1 /\ log'[Len(log) + 1] = batch
         /\ Batches' = Batches \cup {Len(log) + 1} /\ N' = N + 1
         /\ Deposits' = Deposits
         /\ \A b \in 1 .. Len(log) : log'[b] = log[b]
         /\ HasBatches' /\ HasDeposits'
<1>1. IsLog(log) /\ batch.id = Number(log, "batch")
  BY DEF Right, N
<1>2. /\ IsLog(log') /\ Len(log') = Len(log) + 1 /\ log'[Len(log) + 1] = batch
      /\ Batches' = Batches \cup {Len(log) + 1} /\ N' = N + 1
      /\ Deposits' = Deposits /\ D' = D
      /\ \A b \in 1 .. Len(log) : log'[b] = log[b]
      /\ ChainOf(log') = Append(ChainOf(log), batch)
  BY <1>1, BatchAdds DEF Batches, Deposits, N, D
<1>3. PICK c, d : c = ChainOf(log) /\ d = ChainOf(log') /\ Adds(c, batch, d)
  BY <1>2 DEF Adds
<1>4. IsChain(c) /\ IsNextOf(batch, c) /\ Len(c) = N
  BY <1>1, <1>3, LogFacts DEF Right, HasBatches, N
<1>5. IsChain(d)
  BY <1>3, <1>4, ChainAdds
<1>6. SubSeq(d, 1, Len(stored)) = SubSeq(c, 1, Len(stored))
  <2>1. Len(stored) \in 0 .. Len(c)
    BY <1>4, StateFacts
  <2>2. PICK n : n = Len(stored)
    OBVIOUS
  <2>3. PICK S : c \in Seq(S)
    BY <1>4 DEF IsChain
  <2> QED
    BY <1>3, <2>1, <2>2, <2>3, PrefixStays
<1>7. HasBatches'
  <2>1. N \in Nat /\ Len(stored) \in 0 .. N /\ stored = SubSeq(c, 1, Len(stored))
    BY <1>3, StateFacts DEF Right, HasBatches
  <2>2. N' > 0 /\ Len(stored') \in 0 .. N'
    BY <1>2, <2>1
  <2>3. stored' = SubSeq(ChainOf(log'), 1, Len(stored'))
    BY <1>3, <1>6, <2>1
  <2> QED
    BY <1>3, <1>5, <2>2, <2>3 DEF HasBatches
<1>8. HasDeposits'
  BY <1>2 DEF Right, HasDeposits
<1> QED
  BY <1>2, <1>7, <1>8

LEMMA ChainEnd ==
  ASSUME Right
  PROVE  /\ Len(Chain) = N /\ Chain = ChainOf(log) /\ Chain # <<>>
         /\ L1Tree = TreeOf(Chain) /\ DepositBatches = Count(Chain)
<1>1. Chain = ChainOf(log) /\ Len(Chain) = N
  BY LogIs, LogFacts DEF Right, N
<1>2. Chain # <<>>
  BY <1>1, StateFacts
<1> QED
  BY <1>1, <1>2 DEF L1Tree, Last, TreeOf, DepositBatches, Count

\* What the L1 takes is a batch that comes next.
LEMMA NextBatchIsNext ==
  ASSUME Right, NEW usage \in {"Transfer", "Deposit", "MassMigration"}, NEW path,
         NEW batch, batch = NextBatch(usage, L1Tree, path)
  PROVE  batch.kind = "batch" /\ batch.id = N /\ IsNextOf(batch, ChainOf(log))
<1>1. PICK c : c = ChainOf(log)
  OBVIOUS
<1>2. Len(Chain) = N /\ Chain = c /\ c # <<>> /\ L1Tree = TreeOf(c) /\ DepositBatches = Count(c)
  BY <1>1, ChainEnd
<1>3. CASE usage \in {"Transfer", "MassMigration"}
  <2>1. batch = Batch(Len(c), usage, afterTransfers(TreeOf(c)))
    BY <1>2, <1>3 DEF NextBatch
  <2>2. batch.kind = "batch" /\ batch.id = N
    BY <1>2, <2>1 DEF Batch
  <2> QED
    BY <1>1, <1>2, <1>3, <2>1, <2>2 DEF IsNextOf
<1>4. CASE usage = "Deposit"
  <2>1. batch = DepositBatch(Len(c), TreeOf(c), Count(c) + 1, Subtree(Count(c) + 1), path)
    BY <1>2, <1>4 DEF NextBatch
  <2>2. batch.kind = "batch" /\ batch.id = N /\ batch.path = path
    BY <1>2, <2>1 DEF DepositBatch
  <2> QED
    BY <1>1, <1>2, <2>1, <2>2 DEF IsNextOf
<1> QED
  BY <1>3, <1>4

LEMMA OtherProposesStep ==
  ASSUME Right, NEW usage \in Usages, OtherProposes(usage)
  PROVE  Right'
<1>1. /\ UNCHANGED <<tree, stored, pool, syncpoint, strategy, handlers, syncer, polled, packer, pushed, raised, proposing>>
      /\ ~proposing
  BY DEF OtherProposes, nodeVars, history
<1>2. PICK batch : batch = NextBatch(usage, L1Tree, findVacantSubtree(L1Tree)) /\ Adds(log, batch, log')
  BY DEF OtherProposes, Adds
<1>3. batch.kind = "batch" /\ batch.id = N /\ IsNextOf(batch, ChainOf(log))
  BY <1>2, NextBatchIsNext, ClientAssumption
<1>4. /\ IsLog(log') /\ Len(log') = Len(log) + 1
      /\ Batches' = Batches \cup {Len(log) + 1} /\ Deposits' = Deposits
      /\ \A b \in 1 .. Len(log) : log'[b] = log[b]
      /\ HasBatches' /\ HasDeposits'
  BY <1>1, <1>2, <1>3, BatchSubmitted
<1>5. HandlersInv' /\ SyncInv' /\ ListenInv'
  BY <1>1, <1>4, LogGrew
<1>6. Types'
  BY <1>1, TypesKept DEF Right
<1>7. PackerInv'
  <2>1. Resting /\ PackerRests
    BY <1>1 DEF Right, PackerInv, Resting, WithSubmitted, WithStored, Under
  <2>2. Resting' /\ PackerRests'
    BY <1>1, <2>1 DEF Resting, PackerRests
  <2>3. /\ packer.block <= Len(log) /\ packer.block \in Nat /\ Len(log) \in Nat
        /\ packer.block \in Batches => Stored(packer.block)
    BY <2>1, StateFacts DEF Right, PackerInv, Types
  <2>4. packer.block <= Len(log')
    BY <1>4, <2>3
  <2>5. packer.block \in Batches' => Stored(packer.block)'
    <3>1. packer.block \in Batches' => packer.block \in Batches
      BY <1>4, <2>3
    <3>2. packer.block \in Batches => (Stored(packer.block)' <=> Stored(packer.block))
      BY <1>1, <1>4, StateFacts DEF Stored
    <3> QED
      BY <2>3, <3>1, <3>2
  <2> QED
    BY <1>1, <2>2, <2>4, <2>5 DEF PackerInv
<1> QED
  BY <1>1, <1>4, <1>5, <1>6, <1>7 DEF Right

(***************************************************************************)
(* Deposits are pushed.                                                    *)
(***************************************************************************)
\* Deposits that are pushed without a flaw are the next ones.
LEMMA PushIs ==
  ASSUME Right, NEW n \in Nat, NEW deposits, deposits = [i \in 1 .. n |-> deposits[i]],
         Push(deposits), PushFlaws(pushed') = {}
  PROVE  /\ Len(pushed') = Len(pushed) + n
         /\ pushed' = [i \in 1 .. Len(pushed') |-> i]
         /\ \A i \in 1 .. n : deposits[i] = Len(pushed) + i
         /\ pool' = Waiting(Len(pushed'), Count(stored))
         /\ \A k \in Nat : k <= Len(pushed) \div maxSubtreeSize
                             => k <= Len(pushed') \div maxSubtreeSize
<1>1. PICK p \in Nat : p = Len(pushed) /\ pushed = [i \in 1 .. p |-> i]
  BY StateFacts DEF Right, HasDeposits
<1>2. PICK S : deposits \in Seq(S)
  <2>1. PICK S : S = {deposits[i] : i \in 1 .. n}
    OBVIOUS
  <2>2. \A i \in 1 .. n : deposits[i] \in S
    BY <2>1
  <2>3. deposits \in Seq(S)
    BY <2>2
  <2> QED
    BY <2>3
<1>3. DOMAIN deposits = 1 .. n /\ Len(deposits) = n
  OBVIOUS
<1>4. PICK all : all = pushed \o deposits
  OBVIOUS
<1>5. /\ all \in Seq(Nat \cup S) /\ Len(all) = p + n
      /\ \A i \in 1 .. n : all[p + i] = deposits[i]
  <2>1. PICK T : T = Nat \cup S
    OBVIOUS
  <2>2. PICK a : a = pushed /\ a \in Seq(T) /\ Len(a) = p
    <3>1. \A i \in 1 .. p : i \in T
      BY <2>1
    <3>2. [i \in 1 .. p |-> i] \in Seq(T)
      BY <3>1
    <3> QED
      BY <1>1, <3>2
  <2>3. deposits \in Seq(T)
    BY <1>2, <2>1
  <2>4. all \in Seq(T) /\ Len(all) = p + n
    BY <1>3, <1>4, <2>2, <2>3
  <2>5. ASSUME NEW i \in 1 .. n PROVE all[p + i] = deposits[i]
    <3>1. PICK j : j = p + i
      OBVIOUS
    <3>2. j \in 1 .. p + n /\ j > p /\ j - p = i
      BY <3>1
    <3>3. all[j] = deposits[j - p]
      BY <1>3, <1>4, <2>2, <2>3, <3>2
    <3> QED
      BY <3>1, <3>2, <3>3
  <2> QED
    BY <2>1, <2>4, <2>5
<1>6. pushed' = all /\ pool' = FoldLeft(pushDeposit, pool, deposits)
  BY <1>4 DEF Push
<1>7. \A i \in DOMAIN all : all[i] = i
  <2>1. {"repeated"} # {} /\ {"reordered"} # {}
    OBVIOUS
  <2> QED
    BY <1>6, <2>1 DEF PushFlaws
<1>8. DOMAIN all = 1 .. p + n /\ all = [i \in 1 .. p + n |-> all[i]]
  BY <1>5
<1>9. all = [i \in 1 .. p + n |-> i]
  BY <1>7, <1>8
<1>10. \A i \in 1 .. n : deposits[i] = p + i
  <2> SUFFICES ASSUME NEW i \in 1 .. n PROVE deposits[i] = p + i
    OBVIOUS
  <2>1. p + i \in 1 .. p + n
    OBVIOUS
  <2> QED
    BY <1>5, <1>7, <1>8, <2>1
<1>11. PICK m \in Nat : m = Count(stored)
  BY StateFacts
<1>12. pool = Waiting(p, m) /\ m <= p \div maxSubtreeSize
  BY <1>1, <1>11 DEF Right, HasDeposits
<1>13. FoldLeft(pushDeposit, Waiting(p, m), deposits) = Waiting(p + n, m)
  BY <1>3, <1>10, <1>12, PushAll
<1>14. \A k \in Nat : k <= p \div maxSubtreeSize => k <= (p + n) \div maxSubtreeSize
  BY <1>3, <1>10, PushAll
<1> QED
  BY <1>1, <1>5, <1>6, <1>9, <1>10, <1>11, <1>12, <1>13, <1>14

\* What they leave alone.
LEMMA PushKeeps ==
  ASSUME Right, Len(pushed') \in Nat, Len(pushed') >= Len(pushed), Len(pushed') <= D,
         pushed' = [i \in 1 .. Len(pushed') |-> i],
         pool' = Waiting(Len(pushed'), Count(stored)),
         \A k \in Nat : k <= Len(pushed) \div maxSubtreeSize
                          => k <= Len(pushed') \div maxSubtreeSize,
         UNCHANGED <<log, tree, stored, syncpoint, handlers, packer, proposing>>
  PROVE  HasDeposits' /\ PackerInv'
<1>1. Len(pushed) \in Nat /\ D \in Nat /\ Count(stored) \in Nat
  BY StateFacts
<1>2. HasDeposits'
  <2>1. Len(pushed') \in 0 .. D
    BY <1>1
  <2>2. Count(stored) <= Len(pushed') \div maxSubtreeSize
    BY <1>1 DEF Right, HasDeposits
  <2> QED
    BY <2>1, <2>2, LogKept DEF HasDeposits
<1>3. UNCHANGED <<Batches, N, PackerRests>>
  BY LogKept DEF PackerRests
<1>4. Resting => Resting'
  BY <1>3 DEF Resting
<1>5. Count(stored) < Len(pushed) \div maxSubtreeSize
        => Count(stored) < Len(pushed') \div maxSubtreeSize
  <2>1. PICK k \in Nat : k = Count(stored)
    BY <1>1
  <2>2. PICK q \in Nat : q = Len(pushed) \div maxSubtreeSize
    BY <1>1, SizeType
  <2>3. PICK r \in Nat : r = Len(pushed') \div maxSubtreeSize
    BY SizeType
  <2>4. k + 1 <= q => k + 1 <= r
    BY <2>2, <2>3
  <2> QED
    BY <2>1, <2>2, <2>3, <2>4
<1>6. WithSubmitted => WithSubmitted'
  BY <1>3, <1>5 DEF WithSubmitted, Under, OwnBatch
<1>7. WithStored => WithStored'
  BY <1>3 DEF WithStored, Under, OwnBatch
<1> QED
  BY <1>2, <1>3, <1>4, <1>6, <1>7 DEF Right, PackerInv, Stored

LEMMA SyncDepositsStep ==
  ASSUME Right, SyncDeposits, flaws' = {}
  PROVE  Right'
<1>1. /\ UNCHANGED <<log, tree, stored, syncpoint, strategy, handlers, polled, packer, raised, proposing>>
      /\ syncer.pc = "deposits" /\ syncer' = [syncer EXCEPT !.pc = "query"]
      /\ PushFlaws(pushed') = {}
  BY DEF SyncDeposits, l1Vars
<1>2. Types
  BY DEF Right
<1>3. /\ Types' /\ syncer'.pc = "query"
      /\ UNCHANGED <<syncer.start, syncer.latest, syncer.todo>>
  BY <1>1, <1>2 DEF Types
<1>4. end' = end
  BY <1>3 DEF end
<1>5. PICK first, last : first = syncer.start /\ last = end
  OBVIOUS
<1>6. first \in Nat /\ last \in Nat /\ first <= last
  BY <1>1, <1>5, EndFacts
<1>7. PICK before, until : /\ before = Cardinality({b \in Deposits : b < first})
                           /\ until = Cardinality({b \in Deposits : b <= last})
  OBVIOUS
<1>8. before \in Nat /\ until \in Nat /\ before <= until /\ until <= D
  <2>1. IsFiniteSet(Deposits)
    <3>1. PICK S : log \in Seq(S)
      BY DEF Right, IsLog
    <3> QED
      BY <3>1, LogFinite DEF Deposits
  <2>2. \A b \in Deposits : b \in Nat
    BY StateFacts
  <2>3. {b \in Deposits : b < first} \subseteq {b \in Deposits : b <= last}
    BY <1>6, <2>2
  <2>4. IsFiniteSet({b \in Deposits : b <= last}) /\ IsFiniteSet({b \in Deposits : b < first})
    BY <2>1, FS_Subset
  <2>5. D = Cardinality(Deposits)
    BY DEF D, Number, Deposits
  <2>6. PICK S, T : S = {b \in Deposits : b < first} /\ T = {b \in Deposits : b <= last}
    OBVIOUS
  <2>7. before \in Nat /\ until \in Nat /\ D \in Nat
    BY <1>7, <2>4, FS_CardinalityType, StateFacts
  <2>8. before <= until
    <3>1. Cardinality(S) <= Cardinality(T)
      BY <2>3, <2>4, <2>6, FS_Subset
    <3> QED
      BY <1>7, <2>6, <3>1
  <2>9. until <= D
    <3>1. Cardinality(T) <= Cardinality(Deposits)
      BY <2>1, <2>6, FS_Subset
    <3> QED
      BY <1>7, <2>5, <2>6, <3>1
  <2> QED
    BY <2>7, <2>8, <2>9
<1>9. PICK n, deposits : n \in Nat /\ n = until - before /\ deposits = [i \in 1 .. n |-> before + i]
  <2>1. until - before \in Nat
    BY <1>8
  <2> QED
    BY <2>1
<1>10. Push(deposits)
  <2>1. DepositsBetween(first, last) = deposits
    BY <1>7, <1>9, LogIs DEF DepositsBetween
  <2> QED
    BY <1>5, <2>1 DEF SyncDeposits
<1>11. deposits = [i \in 1 .. n |-> deposits[i]]
  BY <1>9
<1>12. /\ Len(pushed') = Len(pushed) + n
       /\ pushed' = [i \in 1 .. Len(pushed') |-> i]
       /\ \A i \in 1 .. n : deposits[i] = Len(pushed) + i
       /\ pool' = Waiting(Len(pushed'), Count(stored))
       /\ \A k \in Nat : k <= Len(pushed) \div maxSubtreeSize
                           => k <= Len(pushed') \div maxSubtreeSize
  <2>1. n \in Nat
    BY <1>9
  <2> QED
    BY <1>1, <1>10, <1>11, <2>1, PushIs
<1>13. Len(pushed) \in Nat /\ D \in Nat /\ Len(pushed) <= D
  BY StateFacts
<1>14. Len(pushed') \in Nat /\ Len(pushed') >= Len(pushed) /\ Len(pushed') <= D
  <2>1. CASE n = 0
    BY <1>12, <1>13, <2>1
  <2>2. CASE n # 0
    <3>1. n \in 1 .. n
      BY <1>9, <2>2
    <3>2. deposits[n] = before + n /\ deposits[n] = Len(pushed) + n
      BY <1>9, <1>12, <3>1
    <3> QED
      BY <1>8, <1>9, <1>12, <1>13, <3>2
  <2> QED
    BY <2>1, <2>2
<1>15. HasDeposits' /\ PackerInv'
  BY <1>1, <1>12, <1>14, PushKeeps
<1>16. IsLog(log)' /\ HasBatches' /\ Batches' = Batches /\ Deposits' = Deposits
  BY <1>1, LogKept, BatchesKept DEF Right
<1>17. HandlersInv'
  BY <1>1, <1>16 DEF Right, HandlersInv
<1>18. SyncInv'
  <2>1. /\ syncpoint.blockNumber <= Len(log) /\ StoredBefore(syncpoint.blockNumber)
        /\ ~proposing /\ StoredBefore(syncer.start)
        /\ syncer.start <= syncer.latest /\ syncer.latest <= Len(log)
        /\ syncpoint.blockNumber <= end
    BY <1>1 DEF Right, SyncInv, Busy
  <2>2. StoredBefore(syncpoint.blockNumber)' /\ StoredBefore(syncer.start)'
    BY <1>1, <1>3, <1>16, <2>1 DEF StoredBefore, Stored
  <2> QED
    BY <1>1, <1>3, <1>4, <2>1, <2>2 DEF SyncInv
<1>19. ListenInv'
  <2>1. \A b \in Batches : Known(b) => Known(b)'
    BY <1>1 DEF Known, Stored, PackerRests
  <2>2. \A b \in Deposits : log[b].n \in Nat
    BY <1>13 DEF Right, IsLog, Deposits
  <2>3. \A b \in Deposits : log[b].n <= Len(pushed) => log[b].n <= Len(pushed')
    BY <1>13, <1>14, <2>2
  <2> QED
    BY <1>1, <1>16, <2>1, <2>3 DEF Right, ListenInv
<1> QED
  BY <1>1, <1>3, <1>15, <1>16, <1>17, <1>18, <1>19 DEF Right

LEMMA MinIs ==
  ASSUME NEW S, S \subseteq Nat, S # {}
  PROVE  Min(S) \in S /\ \A x \in S : Min(S) <= x
<1>1. PICK x \in S : \A y \in S : x <= y
  BY LeastNumber
<1> QED
  BY <1>1 DEF Min

LEMMA MaxIs ==
  ASSUME NEW S, NEW n \in Nat, S \subseteq 0 .. n, S # {}
  PROVE  Max(S) \in S /\ \A x \in S : x <= Max(S)
<1>1. IsFiniteSet(0 .. n)
  BY FS_Interval
<1>2. IsFiniteSet(S)
  BY <1>1, FS_Subset
<1>3. S \subseteq Nat
  OBVIOUS
<1> QED
  BY <1>2, <1>3, LargestNumber

LEMMA HearDepositStep ==
  ASSUME Right, HearDeposit, flaws' = {}
  PROVE  Right'
<1>1. PICK block : block = Min(Unheard("deposit"))
  OBVIOUS
<1>2. /\ UNCHANGED <<log, tree, stored, syncpoint, strategy, handlers, syncer, packer, raised, proposing>>
      /\ polled.on /\ Unheard("deposit") # {}
      /\ Push([i \in 1 .. syncer.listeners + packer.listeners |-> log[block].n])
      /\ polled' = [polled EXCEPT !.deposit = block]
      /\ PushFlaws(pushed') = {} /\ log[block].n \in ToSet(pushed')
  <2>1. {"unheard"} # {}
    OBVIOUS
  <2> QED
    BY <1>1, <2>1 DEF HearDeposit, l1Vars
<1>3. Types
  BY DEF Right
<1>4. /\ block \in Deposits /\ block > polled.deposit
      /\ \A b \in Deposits : b > polled.deposit => block <= b
  <2>1. PICK S : S = Unheard("deposit")
    OBVIOUS
  <2>2. S = {b \in Deposits : b > polled.deposit}
    BY <2>1, LogIs DEF Unheard
  <2>3. S \subseteq Nat /\ S # {}
    BY <1>2, <2>1, <2>2, StateFacts
  <2>4. block \in S /\ \A b \in S : block <= b
    BY <1>1, <2>1, <2>3, MinIs
  <2> QED
    BY <2>2, <2>4
<1>5. block \in Nat /\ block <= Len(log) /\ Len(log) \in Nat /\ log[block].n \in 1 .. D
  BY <1>4, StateFacts DEF Right, IsLog, Deposits, D
<1>6. Types'
  <2>1. polled' \in [on : BOOLEAN, deposit : Nat, batch : Nat]
    BY <1>2, <1>3, <1>5 DEF Types
  <2> QED
    BY <1>2, <1>3, <2>1 DEF Types
<1>7. polled'.on /\ polled'.deposit = block /\ polled'.batch = polled.batch
  BY <1>2, <1>3 DEF Types
<1>8. PICK n, deposits : /\ n \in Nat
                          /\ n = syncer.listeners + packer.listeners
                          /\ deposits = [i \in 1 .. n |-> log[block].n]
  <2>1. syncer.listeners + packer.listeners \in Nat
    BY <1>3 DEF Types
  <2> QED
    BY <2>1
<1>9. deposits = [i \in 1 .. n |-> deposits[i]] /\ Push(deposits)
  BY <1>2, <1>8
<1>10. /\ Len(pushed') = Len(pushed) + n
       /\ pushed' = [i \in 1 .. Len(pushed') |-> i]
       /\ \A i \in 1 .. n : deposits[i] = Len(pushed) + i
       /\ pool' = Waiting(Len(pushed'), Count(stored))
       /\ \A k \in Nat : k <= Len(pushed) \div maxSubtreeSize
                           => k <= Len(pushed') \div maxSubtreeSize
  <2>1. n \in Nat
    BY <1>8
  <2> QED
    BY <1>2, <1>9, <2>1, PushIs
<1>11. Len(pushed) \in Nat /\ D \in Nat /\ Len(pushed) <= D
  BY StateFacts
<1>12. Len(pushed') \in Nat /\ Len(pushed') >= Len(pushed) /\ Len(pushed') <= D
  <2>1. CASE n = 0
    BY <1>10, <1>11, <2>1
  <2>2. CASE n # 0
    <3>1. n \in 1 .. n
      BY <1>8, <2>2
    <3>2. deposits[n] = log[block].n /\ deposits[n] = Len(pushed) + n
      BY <1>8, <1>10, <3>1
    <3> QED
      BY <1>5, <1>8, <1>10, <1>11, <3>2
  <2> QED
    BY <2>1, <2>2
<1>13. HasDeposits' /\ PackerInv'
  BY <1>2, <1>10, <1>12, PushKeeps
<1>14. IsLog(log)' /\ HasBatches' /\ HandlersInv' /\ Batches' = Batches /\ Deposits' = Deposits
  BY <1>2, LogKept, BatchesKept, HandlersKept DEF Right
<1>15. SyncInv'
  <2>1. end' = end
    BY <1>2 DEF end
  <2> QED
    BY <1>2, <1>7, <1>14, <2>1 DEF Right, SyncInv, StoredBefore, Stored, InTodo, Handler, Busy
<1>16. ListenInv'
  <2>1. \A b \in Batches : Known(b) => Known(b)'
    BY <1>2 DEF Known, Stored, PackerRests
  <2>2. \A b \in Deposits : log[b].n \in Nat /\ b \in Nat
    BY <1>11, StateFacts DEF Right, IsLog, Deposits
  <2>3. ASSUME NEW b \in Deposits, b <= block PROVE log[b].n <= Len(pushed')
    <3>1. CASE b <= polled.deposit
      <4>1. log[b].n <= Len(pushed)
        BY <1>2, <3>1 DEF Right, ListenInv
      <4> QED
        BY <1>11, <1>12, <2>2, <4>1
    <3>2. CASE ~ (b <= polled.deposit)
      <4>1. b = block
        <5>1. polled.deposit \in Nat
          BY <1>3 DEF Types
        <5> QED
          BY <1>4, <1>5, <2>2, <2>3, <3>2, <5>1
      <4>2. PICK i \in DOMAIN pushed' : log[block].n = pushed'[i]
        BY <1>2 DEF ToSet
      <4>3. i \in 1 .. Len(pushed') /\ pushed'[i] = i
        BY <1>10, <1>12
      <4> QED
        BY <1>12, <4>1, <4>2, <4>3
    <3> QED
      BY <3>1, <3>2
  <2>4. polled.batch <= Len(log) /\ \A b \in Batches : b <= polled.batch => Known(b)
    BY <1>2 DEF Right, ListenInv
  <2> QED
    BY <1>2, <1>5, <1>7, <1>14, <2>1, <2>3, <2>4 DEF ListenInv
<1> QED
  BY <1>2, <1>6, <1>13, <1>14, <1>15, <1>16 DEF Right

(***************************************************************************)
(* Batches are handled.                                                    *)
(***************************************************************************)
\* A call that begins without a flaw.
LEMMA BeginIs ==
  ASSUME NEW block, NEW callers, Begin(block, callers), flaws' = {}
  PROVE  \/ SyncedBefore(log[block].id) /\ UNCHANGED <<strategy, handlers, raised>>
         \/ /\ ~SyncedBefore(log[block].id)
            /\ log[block].usage \in strategies /\ strategy' = log[block].usage
            /\ handlers = {} /\ handlers' = {Handler(block, by) : by \in callers}
            /\ ~ (Cardinality(callers) > 1) /\ ~IsOwn(block)
            /\ UNCHANGED raised
<1>1. CASE SyncedBefore(log[block].id)
  BY <1>1 DEF Begin
<1>2. CASE ~SyncedBefore(log[block].id)
  <2>1. /\ setStrategy(log[block].usage)
        /\ flaws' = flaws \cup BeginFlaws(block, callers)
        /\ IF log[block].usage \in strategies
           THEN handlers' = handlers \cup {Handler(block, by) : by \in callers} /\ UNCHANGED raised
           ELSE raised' = TRUE /\ UNCHANGED handlers
    BY <1>2 DEF Begin
  <2>2. BeginFlaws(block, callers) = {}
    BY <2>1
  <2>3. {"overlap"} # {} /\ {"unsupported"} # {} /\ {"own"} # {}
    OBVIOUS
  <2>4. /\ handlers = {} /\ ~ (Cardinality(callers) > 1)
        /\ log[block].usage \in strategies /\ ~IsOwn(block)
    BY <2>2, <2>3 DEF BeginFlaws
  <2> QED
    BY <1>2, <2>1, <2>4 DEF setStrategy
<1> QED
  BY <1>1, <1>2

LEMMA SyncBatchStep ==
  ASSUME Right, SyncBatch, flaws' = {}
  PROVE  Right'
<1>1. PICK block : block = Min(syncer.todo)
  OBVIOUS
<1>2. /\ UNCHANGED <<log, tree, stored, pool, syncpoint, polled, packer, pushed, proposing>>
      /\ syncer.pc = "batches" /\ syncer.todo # {}
      /\ \A handler \in handlers : handler.by # BySync
      /\ Begin(block, {BySync})
  BY <1>1 DEF SyncBatch, l1Vars, Awaited
<1>3. Types
  BY DEF Right
<1>4. /\ block \in syncer.todo /\ \A b \in syncer.todo : block <= b
      /\ syncer.todo \subseteq Batches /\ block \in Batches /\ block \in syncer.start .. end
      /\ \A b \in Batches : b \in syncer.start .. end => InTodo(b)
  <2>1. syncer.todo \subseteq Nat
    BY <1>3 DEF Types
  <2>2. block \in syncer.todo /\ \A b \in syncer.todo : block <= b
    BY <1>1, <1>2, <2>1, MinIs
  <2> QED
    BY <1>2, <2>2 DEF Right, SyncInv
<1>5. PICK todo : todo = syncer.todo \ {block}
  OBVIOUS
<1>6. ~raised
  BY DEF Right
<1>7. \/ SyncedBefore(log[block].id) /\ UNCHANGED <<strategy, handlers, raised>>
      \/ /\ ~SyncedBefore(log[block].id)
         /\ log[block].usage \in strategies /\ strategy' = log[block].usage
         /\ handlers = {} /\ handlers' = {Handler(block, by) : by \in {BySync}}
         /\ UNCHANGED raised
  BY <1>2, BeginIs
<1>8. syncer' = [syncer EXCEPT !.todo = todo]
  BY <1>1, <1>5, <1>6, <1>7 DEF SyncBatch
<1>9. /\ Types' /\ syncer'.todo = todo
      /\ UNCHANGED <<syncer.pc, syncer.start, syncer.latest, syncer.regular>>
  <2>1. todo \in SUBSET Nat
    BY <1>3, <1>5 DEF Types
  <2> QED
    BY <1>2, <1>3, <1>8, <2>1 DEF Types
<1>10. end' = end
  BY <1>9 DEF end
<1>11. IsLog(log)' /\ HasBatches' /\ HasDeposits' /\ Batches' = Batches /\ Deposits' = Deposits
  BY <1>2, LogKept, BatchesKept, DepositsKept DEF Right
<1>12. ~proposing /\ Resting
  BY <1>2, BusyRests DEF Busy
<1>13. PackerInv'
  BY <1>2, <1>11, <1>12 DEF Right, PackerInv, Resting, PackerRests, Stored
<1>14. Len(stored) \in Nat /\ (\A b \in Batches : log[b].id \in Nat /\ b \in Nat) /\ N \in Nat
  BY StateFacts
<1>15. /\ SyncedBefore(log[block].id) => Stored(block)
       /\ ~SyncedBefore(log[block].id) => log[block].id >= Len(stored)
  BY <1>4, <1>12, <1>14 DEF SyncedBefore, Stored, Resting
<1>16. /\ handlers \subseteq handlers'
       /\ Stored(block) \/ Handler(block, BySync) \in handlers'
  BY <1>7, <1>15
<1>17. \A b \in Batches : b \in syncer.start .. end => InTodo(b)'
  <2> SUFFICES ASSUME NEW b \in Batches, b \in syncer.start .. end PROVE InTodo(b)'
    OBVIOUS
  <2>1. InTodo(b)
    BY <1>4
  <2>2. CASE b = block
    BY <1>2, <1>16, <2>2 DEF InTodo, Stored, Handler
  <2>3. CASE b # block
    BY <1>2, <1>5, <1>9, <1>16, <2>1, <2>3 DEF InTodo, Stored, Handler
  <2> QED
    BY <2>2, <2>3
<1>18. SyncInv'
  <2>1. /\ syncpoint.blockNumber <= Len(log) /\ StoredBefore(syncpoint.blockNumber)
        /\ StoredBefore(syncer.start)
        /\ syncer.start <= syncer.latest /\ syncer.latest <= Len(log)
        /\ syncpoint.blockNumber <= end
        /\ \A b \in syncer.todo : b \in syncer.start .. end
    BY <1>2 DEF Right, SyncInv
  <2>2. StoredBefore(syncpoint.blockNumber)' /\ StoredBefore(syncer.start)'
    BY <1>2, <1>9, <1>11, <2>1 DEF StoredBefore, Stored
  <2>3. todo \subseteq Batches /\ \A b \in todo : b \in syncer.start .. end
    BY <1>4, <1>5, <2>1
  <2> QED
    BY <1>2, <1>9, <1>10, <1>11, <1>12, <1>17, <2>1, <2>2, <2>3 DEF SyncInv
<1>19. ListenInv'
  <2>1. \A b \in Batches : Known(b) => Known(b)'
    BY <1>2, <1>16 DEF Known, Stored, PackerRests
  <2> QED
    BY <1>2, <1>11, <2>1 DEF Right, ListenInv
<1>20. HandlersInv'
  <2>1. CASE SyncedBefore(log[block].id)
    BY <1>2, <1>7, <1>9, <1>10, <1>11, <2>1 DEF Right, HandlersInv
  <2>2. CASE ~SyncedBefore(log[block].id)
    <3>1. handlers = {} /\ handlers' = {Handler(block, BySync)}
          /\ log[block].usage \in strategies /\ strategy' = log[block].usage
      BY <1>7, <2>2
    <3>2. log[block].id = Len(stored)
      <4> SUFFICES ASSUME log[block].id > Len(stored) PROVE FALSE
        BY <1>4, <1>14, <1>15, <2>2
      <4>1. PICK c \in Batches : log[c].id = Len(stored)
        <5>1. Len(stored) \in 0 .. N - 1
          BY <1>4, <1>14, StateFacts
        <5> QED
          BY <5>1, LogFacts DEF Right, Batches, N
      <4>2. c < block
        BY <1>4, <4>1, LogFacts DEF Right, Batches
      <4>3. ~Stored(c)
        BY <1>14, <4>1 DEF Stored
      <4>4. c \in syncer.start .. end
        <5>1. syncer.start \in Nat /\ end \in Nat
          BY <1>2, EndFacts
        <5>2. ~ (c < syncer.start)
          BY <1>2, <4>3 DEF Right, SyncInv, StoredBefore
        <5> QED
          BY <1>4, <1>14, <4>2, <5>1, <5>2
      <4>5. c \in syncer.todo
        BY <1>4, <3>1, <4>3, <4>4 DEF InTodo
      <4> QED
        BY <1>4, <1>14, <4>2, <4>5
    <3>3. block <= end
      BY <1>4
    <3> QED
      BY <1>2, <1>4, <1>9, <1>10, <1>11, <3>1, <3>2, <3>3 DEF HandlersInv, Handler
  <2> QED
    BY <2>1, <2>2
<1> QED
  BY <1>2, <1>6, <1>7, <1>9, <1>11, <1>13, <1>18, <1>19, <1>20 DEF Right

\* The sync point is not ahead of the batches, and each batch is of its ID.
LEMMA PointFacts ==
  ASSUME Right
  PROVE  /\ \A b \in Batches : b \in Nat /\ log[b].id \in Nat /\ log[b].id < N
         /\ \A b \in Batches : SyncedBefore(log[b].id) => Stored(b)
         /\ \A b, c \in Batches : log[b].id = log[c].id => b = c
         /\ \A i \in Nat : i < N => \E b \in Batches : log[b].id = i
         /\ \A b, c \in Batches : log[b].id < log[c].id => b < c
<1>1. \A b \in Batches : b \in Nat /\ log[b].id \in 0 .. N - 1
  BY StateFacts
<1>2. Len(stored) \in Nat /\ N \in Nat /\ syncpoint.batchID \in Int
  BY StateFacts DEF Right, Types
<1>3. syncpoint.batchID <= Len(stored) - 1
  <2>1. \/ syncpoint.batchID = Len(stored) - 1
        \/ syncpoint.batchID = Len(stored) - 2
    BY DEF Right, PackerInv, Resting, WithSubmitted, WithStored
  <2> QED
    BY <1>2, <2>1
<1>4. \A b \in Batches : SyncedBefore(log[b].id) => Stored(b)
  BY <1>1, <1>2, <1>3 DEF SyncedBefore, Stored
<1>5. \A b \in Batches : At(log, log[b].id) = b
  BY LogFacts DEF Right, Batches
<1>6. \A b, c \in Batches : log[b].id = log[c].id => b = c
  BY <1>5
<1>7. \A i \in Nat : i < N => i \in 0 .. N - 1
  BY <1>2
<1>8. \A i \in 0 .. N - 1 : \E b \in Batches : log[b].id = i
  BY LogFacts DEF Right, Batches, N
<1>9. \A b, c \in Batches : log[b].id < log[c].id => b < c
  BY LogFacts DEF Right, Batches
<1>10. \A b \in Batches : log[b].id \in Nat /\ log[b].id < N
  BY <1>1, <1>2
<1> QED
  BY <1>1, <1>4, <1>6, <1>7, <1>8, <1>9, <1>10

\* A batch that is handled while none is, is one that the packer did not submit.
LEMMA OthersRest ==
  ASSUME Right, NEW block \in Batches, ~SyncedBefore(log[block].id), packer.block # block
  PROVE  Resting /\ log[block].id >= Len(stored)
<1>1. /\ Len(stored) \in Nat /\ N \in Nat /\ syncpoint.batchID \in Int
      /\ log[block].id \in Nat /\ log[block].id < N
  BY StateFacts, PointFacts DEF Right, Types
<1>2. ~ (syncpoint.batchID >= log[block].id)
  BY DEF SyncedBefore
<1>3. CASE Resting
  BY <1>1, <1>2, <1>3 DEF Resting
<1>4. CASE WithSubmitted
  <2>1. log[block].id = log[packer.block].id /\ packer.block \in Batches
    BY <1>1, <1>2, <1>4 DEF WithSubmitted, OwnBatch
  <2> QED
    BY <2>1, PointFacts
<1>5. CASE WithStored
  <2>1. /\ N = Len(stored) /\ syncpoint.batchID = Len(stored) - 2
        /\ packer.block \in Batches /\ log[packer.block].id = Len(stored) - 1
    BY <1>5 DEF WithStored, OwnBatch
  <2>2. log[block].id = log[packer.block].id
    BY <1>1, <1>2, <2>1
  <2> QED
    BY <2>1, <2>2, PointFacts
<1> QED
  BY <1>3, <1>4, <1>5 DEF Right, PackerInv

LEMMA HearBatchStep ==
  ASSUME Right, HearBatch, flaws' = {}
  PROVE  Right'
<1>1. PICK block : block = Min(Unheard("batch"))
  OBVIOUS
<1>2. /\ UNCHANGED <<log, tree, stored, pool, syncpoint, syncer, packer, pushed, proposing>>
      /\ polled.on /\ Unheard("batch") # {}
      /\ polled' = [polled EXCEPT !.batch = block]
      /\ IF syncer.listeners = 0
         THEN /\ IsOwn(block) \/ SyncedBefore(log[block].id)
              /\ UNCHANGED <<strategy, handlers, raised>>
         ELSE Begin(block, 1 .. syncer.listeners)
  <2>1. {"unheard"} # {}
    OBVIOUS
  <2> QED
    BY <1>1, <2>1 DEF HearBatch, l1Vars
<1>3. Types
  BY DEF Right
<1>4. /\ block \in Batches /\ block > polled.batch
      /\ \A b \in Batches : b > polled.batch => block <= b
  <2>1. PICK S : S = Unheard("batch")
    OBVIOUS
  <2>2. S = {b \in Batches : b > polled.batch}
    BY <2>1, LogIs DEF Unheard
  <2>3. S \subseteq Nat /\ S # {}
    BY <1>2, <2>1, <2>2, StateFacts
  <2>4. block \in S /\ \A b \in S : block <= b
    BY <1>1, <2>1, <2>3, MinIs
  <2> QED
    BY <2>2, <2>4
<1>5. /\ block \in Nat /\ block <= Len(log) /\ Len(log) \in Nat /\ polled.batch \in Nat
      /\ Len(stored) \in Nat
  <2>1. polled.batch \in Nat
    BY <1>3 DEF Types
  <2>2. /\ Batches \subseteq 1 .. Len(log) /\ Len(log) \in Nat /\ Len(stored) \in Nat
    BY StateFacts
  <2> QED
    BY <1>4, <2>1, <2>2
<1>6. Types'
  <2>1. polled' \in [on : BOOLEAN, deposit : Nat, batch : Nat]
    BY <1>2, <1>3, <1>5 DEF Types
  <2> QED
    BY <1>2, <1>3, <2>1 DEF Types
<1>7. polled'.on /\ polled'.batch = block /\ polled'.deposit = polled.deposit
  BY <1>2, <1>3 DEF Types
<1>8. IsLog(log)' /\ HasBatches' /\ HasDeposits' /\ Batches' = Batches /\ Deposits' = Deposits
  BY <1>2, LogKept, BatchesKept, DepositsKept DEF Right
<1>9. \/ /\ UNCHANGED <<strategy, handlers, raised>>
         /\ IsOwn(block) \/ SyncedBefore(log[block].id)
      \/ /\ ~SyncedBefore(log[block].id) /\ ~IsOwn(block)
         /\ log[block].usage \in strategies /\ strategy' = log[block].usage
         /\ handlers = {} /\ handlers' = {Handler(block, 1)}
         /\ UNCHANGED raised
  <2>1. CASE syncer.listeners = 0
    BY <1>2, <2>1
  <2>2. CASE syncer.listeners # 0
    <3>1. PICK callers : callers = 1 .. syncer.listeners
      OBVIOUS
    <3>2. syncer.listeners \in Nat
      BY <1>3 DEF Types
    <3>3. Cardinality(callers) = syncer.listeners
      BY <2>2, <3>1, <3>2, FS_Interval
    <3>4. ~ (Cardinality(callers) > 1) => callers = {1}
      BY <2>2, <3>1, <3>2, <3>3
    <3>5. Begin(block, callers)
      BY <1>2, <2>2, <3>1
    <3>6. \/ SyncedBefore(log[block].id) /\ UNCHANGED <<strategy, handlers, raised>>
          \/ /\ ~SyncedBefore(log[block].id)
             /\ log[block].usage \in strategies /\ strategy' = log[block].usage
             /\ handlers = {} /\ handlers' = {Handler(block, by) : by \in callers}
             /\ ~ (Cardinality(callers) > 1) /\ ~IsOwn(block)
             /\ UNCHANGED raised
      BY <3>5, BeginIs
    <3>7. {Handler(block, by) : by \in {1}} = {Handler(block, 1)}
      OBVIOUS
    <3> QED
      BY <3>4, <3>6, <3>7
  <2> QED
    BY <2>1, <2>2
<1>10. handlers \subseteq handlers' /\ Known(block)'
  <2>1. CASE SyncedBefore(log[block].id)
    BY <1>2, <1>4, <1>9, <2>1, PointFacts DEF Known, Stored
  <2>2. CASE IsOwn(block) /\ ~SyncedBefore(log[block].id)
    <3>1. packer.block = block
      BY <2>2 DEF IsOwn
    <3>2. PackerRests => Stored(block)
      BY <1>4, <3>1 DEF Right, PackerInv
    <3> QED
      BY <1>2, <1>9, <2>2, <3>1, <3>2 DEF Known, Stored, PackerRests
  <2>3. CASE ~IsOwn(block) /\ ~SyncedBefore(log[block].id)
    <3>1. Handler(block, 1).block = block
      BY DEF Handler
    <3> QED
      BY <1>9, <2>3, <3>1 DEF Known
  <2> QED
    BY <2>1, <2>2, <2>3
<1>11. ListenInv'
  <2>1. \A b \in Batches : Known(b) => Known(b)'
    BY <1>2, <1>10 DEF Known, Stored, PackerRests
  <2>2. \A b \in Batches : b \in Nat /\ (b <= polled.batch \/ b > polled.batch)
    BY <1>5, PointFacts
  <2>3. \A b \in Batches : b <= block => b = block \/ b <= polled.batch
    BY <1>4, <1>5, <2>2
  <2> QED
    BY <1>2, <1>5, <1>7, <1>8, <1>10, <2>1, <2>3 DEF Right, ListenInv
<1>12. SyncInv'
  <2>1. end' = end
    BY <1>2 DEF end
  <2>2. \A b \in Batches : InTodo(b) => InTodo(b)'
    BY <1>2, <1>10 DEF InTodo, Stored, Handler
  <2> QED
    BY <1>2, <1>7, <1>8, <2>1, <2>2 DEF Right, SyncInv, StoredBefore, Stored, Busy
<1>13. HandlersInv' /\ PackerInv'
  <2>1. CASE UNCHANGED handlers /\ UNCHANGED strategy
    BY <1>2, <1>8, <2>1, HandlersKept, PackerKept DEF Right
  <2>2. CASE /\ ~SyncedBefore(log[block].id) /\ ~IsOwn(block)
             /\ log[block].usage \in strategies /\ strategy' = log[block].usage
             /\ handlers = {} /\ handlers' = {Handler(block, 1)}
    <3>1. Resting /\ log[block].id >= Len(stored)
      BY <1>4, <2>2, OthersRest DEF IsOwn
    <3>2. PackerInv'
      BY <1>2, <1>8, <3>1 DEF Right, PackerInv, Resting, PackerRests, Stored
    <3>3. log[block].id = Len(stored)
      <4> SUFFICES ASSUME log[block].id > Len(stored) PROVE FALSE
        BY <1>4, <1>5, <3>1, PointFacts
      <4>1. log[block].id \in Nat /\ log[block].id < N /\ N \in Nat
        BY <1>4, PointFacts, StateFacts
      <4>2. PICK c \in Batches : log[c].id = Len(stored)
        <5>1. Len(stored) < N
          BY <1>5, <4>1
        <5> QED
          BY <1>5, <5>1, PointFacts
      <4>3. c < block
        <5>1. log[c].id < log[block].id
          BY <4>2
        <5> QED
          BY <1>4, <4>2, <5>1, PointFacts
      <4>4. c <= polled.batch
        BY <1>4, <1>5, <4>2, <4>3, PointFacts
      <4>5. Known(c)
        BY <1>2, <4>2, <4>4 DEF Right, ListenInv
      <4>6. ~Stored(c)
        BY <1>5, <4>2 DEF Stored
      <4> QED
        BY <2>2, <3>1, <4>5, <4>6 DEF Known, Resting
    <3>4. 1 # BySync
      BY DEF BySync
    <3>5. HandlersInv'
      BY <1>2, <1>4, <1>8, <2>2, <3>3, <3>4 DEF HandlersInv, Handler
    <3> QED
      BY <3>2, <3>5
  <2> QED
    BY <1>9, <2>1, <2>2
<1> QED
  BY <1>2, <1>6, <1>8, <1>9, <1>11, <1>12, <1>13 DEF Right

\* The deposits of the next subtree, if they were all pushed.
LEMMA SubtreeIsPushed ==
  ASSUME Right, ToSet(Subtree(Count(stored) + 1)) \subseteq ToSet(pushed)
  PROVE  Count(stored) < Len(pushed) \div maxSubtreeSize
<1>1. PICK m, p, k : m = maxSubtreeSize /\ p = Len(pushed) /\ k = Count(stored)
  OBVIOUS
<1>2. m \in Nat \ {0} /\ p \in Nat /\ k \in Nat /\ k <= p \div m
  BY <1>1, SizeType, StateFacts DEF Right, HasDeposits
<1>3. PICK q, s : q = p \div m /\ s = m * k
  OBVIOUS
<1>4. q \in Nat /\ s \in Nat /\ p < m * q + m
  BY <1>2, <1>3, Quotient
<1>5. k * m + m = s + m
  BY <1>2, <1>3
<1>6. m \in DOMAIN Subtree(k + 1) /\ Subtree(k + 1)[m] = s + m
  <2>1. PICK id : id = k + 1
    OBVIOUS
  <2>2. maxSubtreeSize \in 1 .. maxSubtreeSize
    BY <1>1, <1>2
  <2>3. /\ maxSubtreeSize \in DOMAIN Subtree(id)
        /\ Subtree(id)[maxSubtreeSize] = (id - 1) * maxSubtreeSize + maxSubtreeSize
    BY <2>2 DEF Subtree
  <2>4. id - 1 = k
    BY <1>2, <2>1
  <2>5. Subtree(id)[maxSubtreeSize] = k * m + m
    BY <1>1, <2>3, <2>4
  <2> QED
    BY <1>1, <1>5, <2>1, <2>3, <2>5
<1>7. s + m \in ToSet(pushed)
  BY <1>1, <1>6 DEF ToSet
<1>8. PICK i \in DOMAIN pushed : pushed[i] = s + m
  BY <1>7 DEF ToSet
<1>9. pushed = [j \in 1 .. p |-> j]
  BY <1>1 DEF Right, HasDeposits
<1>10. s + m <= p
  BY <1>2, <1>8, <1>9
<1>11. CASE q = k
  BY <1>2, <1>3, <1>4, <1>10, <1>11
<1>12. CASE q # k
  BY <1>1, <1>2, <1>3, <1>4, <1>12
<1> QED
  BY <1>11, <1>12

\* What the strategies do with the batch that comes next.
LEMMA ProcessedIs ==
  ASSUME Right, Resting, NEW b \in Batches, log[b].id = Len(stored),
         strategy = log[b].usage, strategy \in strategies, ~IsEarly(b),
         NEW done, done = processBatch(log[b])
  PROVE  /\ done.ok /\ done.tree = log[b].stateRoot
         /\ log[b].usage = "Deposit" =>
              /\ Count(stored) < Len(pushed) \div maxSubtreeSize
              /\ done.pool = Waiting(Len(pushed), Count(stored) + 1)
         /\ log[b].usage # "Deposit" => done.pool = pool
<1>1. PICK event, k, p : event = log[b] /\ k = Count(stored) /\ p = Len(pushed)
  OBVIOUS
<1>2. IsNextOf(event, stored) /\ tree = TreeOf(stored) /\ strategy = event.usage
  BY <1>1, NextFacts DEF Resting
<1>3. done = processBatch(event) /\ strategy \in {"Genesis", "Transfer", "Deposit"}
  BY <1>1 DEF strategies
<1>4. CASE strategy = "Genesis"
  <2>1. stored = <<>> /\ event = Batch(0, "Genesis", GenesisTree)
    <3>1. stored = <<>>
      BY <1>1, <1>2, <1>4, NextFacts
    <3> QED
      BY <1>2, <3>1 DEF IsNextOf
  <2>2. event.stateRoot = tree
    BY <1>2, <2>1 DEF Batch, TreeOf
  <2>3. done = Processed(TRUE, tree, pool)
    BY <1>3, <1>4 DEF processBatch
  <2> QED
    BY <1>1, <1>2, <1>4, <2>2, <2>3 DEF Processed
<1>5. CASE strategy = "Transfer"
  <2>1. event.stateRoot = afterTransfers(tree)
    <3>1. CASE event = Batch(0, "Genesis", GenesisTree)
      BY <1>2, <1>5, <3>1 DEF Batch
    <3>2. CASE \E usage \in {"Transfer", "MassMigration"} :
                 event = Batch(Len(stored), usage, afterTransfers(TreeOf(stored)))
      BY <1>2, <3>2 DEF Batch
    <3>3. CASE event = DepositBatch(Len(stored), TreeOf(stored), k + 1, Subtree(k + 1), event.path)
      <4>1. PICK path : path = event.path
        OBVIOUS
      <4>2. event = DepositBatch(Len(stored), TreeOf(stored), k + 1, Subtree(k + 1), path)
        BY <3>3, <4>1
      <4>3. event.usage = "Deposit"
        BY <4>2 DEF DepositBatch
      <4> QED
        BY <1>2, <1>5, <4>3
    <3> QED
      BY <1>1, <1>2, <3>1, <3>2, <3>3 DEF IsNextOf
  <2>2. processBatch(event) = processTransfers(event)
    BY <1>5 DEF processBatch
  <2>3. done = Processed(TRUE, afterTransfers(tree), pool)
    BY <1>2, <1>3, <1>5, <2>1, <2>2 DEF processTransfers
  <2> QED
    BY <1>1, <1>2, <1>5, <2>1, <2>3 DEF Processed
<1>6. CASE strategy = "Deposit"
  <2>1. event = DepositBatch(Len(stored), tree, k + 1, Subtree(k + 1), event.path)
    <3>1. CASE event = Batch(0, "Genesis", GenesisTree)
      BY <1>2, <1>6, <3>1 DEF Batch
    <3>2. CASE \E usage \in {"Transfer", "MassMigration"} :
                 event = Batch(Len(stored), usage, afterTransfers(TreeOf(stored)))
      <4>1. PICK usage \in {"Transfer", "MassMigration"} :
              event = Batch(Len(stored), usage, afterTransfers(TreeOf(stored)))
        BY <3>2
      <4>2. event.usage = usage
        BY <4>1 DEF Batch
      <4> QED
        BY <1>2, <1>6, <4>2
    <3>3. CASE event = DepositBatch(Len(stored), TreeOf(stored), k + 1, Subtree(k + 1), event.path)
      BY <1>2, <3>3
    <3> QED
      BY <1>1, <1>2, <3>1, <3>2, <3>3 DEF IsNextOf
  <2>2. /\ event.subtree = Subtree(k + 1) /\ event.subtreeID = k + 1
        /\ event.stateRoot = insert(tree, event.path, Subtree(k + 1))
    <3>1. PICK path : path = event.path
      OBVIOUS
    <3>2. event = DepositBatch(Len(stored), tree, k + 1, Subtree(k + 1), path)
      BY <2>1, <3>1
    <3> QED
      BY <3>1, <3>2 DEF DepositBatch
  <2>3. k < p \div maxSubtreeSize
    BY <1>1, <1>2, <1>6, <2>2, SubtreeIsPushed DEF IsEarly
  <2>4. /\ p \in Nat /\ k \in Nat /\ k <= p \div maxSubtreeSize /\ pool = Waiting(p, k)
    BY <1>1, StateFacts DEF Right, HasDeposits
  <2>5. /\ isSubtreeReady(pool) /\ FrontSubtree(pool) = Entry(k + 1, Subtree(k + 1))
        /\ popDepositSubtree(pool) = Waiting(p, k + 1)
    BY <2>3, <2>4, PopOne
  <2>6. FrontSubtree(pool).id = k + 1 /\ FrontSubtree(pool).states = Subtree(k + 1)
    BY <2>5 DEF Entry
  <2>7. processBatch(event) = applyBatch(event)
    BY <1>6 DEF processBatch
  <2>8. applyBatch(event) = Processed(TRUE, event.stateRoot, Waiting(p, k + 1))
    BY <1>2, <1>6, <2>2, <2>5, <2>6 DEF applyBatch
  <2> QED
    BY <1>1, <1>2, <1>3, <1>6, <2>3, <2>7, <2>8 DEF Processed
<1> QED
  BY <1>3, <1>4, <1>5, <1>6

\* A batch that is stored.
LEMMA BatchStored ==
  ASSUME Right, NEW b \in Batches, log[b].id = Len(stored), Adds(stored, log[b], stored'),
         UNCHANGED <<log, pushed>>,
         log[b].usage = "Deposit" =>
           /\ Count(stored) < Len(pushed) \div maxSubtreeSize
           /\ pool' = Waiting(Len(pushed), Count(stored) + 1),
         log[b].usage # "Deposit" => UNCHANGED pool
  PROVE  /\ HasBatches' /\ HasDeposits'
         /\ Len(stored') = Len(stored) + 1 /\ TreeOf(stored') = log[b].stateRoot
         /\ Stored(b)' /\ \A c \in Batches : Stored(c) => Stored(c)'
<1>1. PICK s : s = stored'
  OBVIOUS
<1>2. /\ Len(s) = Len(stored) + 1 /\ Len(s) \in 0 .. N
      /\ s = SubSeq(ChainOf(log), 1, Len(s))
      /\ TreeOf(s) = log[b].stateRoot
      /\ Count(s) = IF log[b].usage = "Deposit" THEN Count(stored) + 1 ELSE Count(stored)
  BY <1>1, StoredAdds
<1>3. HasBatches'
  BY <1>1, <1>2, LogKept DEF Right, HasBatches
<1>4. HasDeposits'
  <2>1. /\ Len(pushed) \in 0 .. D /\ pushed = [i \in 1 .. Len(pushed) |-> i]
        /\ Count(stored) <= Len(pushed) \div maxSubtreeSize
        /\ pool = Waiting(Len(pushed), Count(stored))
    BY DEF Right, HasDeposits
  <2>2. D' = D
    BY LogKept
  <2>3. PICK q : q = Len(pushed) \div maxSubtreeSize
    OBVIOUS
  <2>4. q \in Int
    BY <2>1, <2>3, SizeType, StateFacts
  <2>5. Count(s) <= q
    BY <1>2, <2>1, <2>3, <2>4, StateFacts
  <2>6. pool' = Waiting(Len(pushed), Count(s))
    BY <1>2, <2>1
  <2> QED
    BY <1>1, <2>1, <2>2, <2>3, <2>5, <2>6 DEF HasDeposits
<1>5. Len(stored) \in Nat /\ \A c \in Batches : log[c].id \in Nat
  BY StateFacts, PointFacts
<1>6. Stored(b)' /\ \A c \in Batches : Stored(c) => Stored(c)'
  BY <1>1, <1>2, <1>5 DEF Stored
<1> QED
  BY <1>1, <1>2, <1>3, <1>4, <1>6

\* The batch that is handled is the next one, and the packer rests.
LEMMA HandledFacts ==
  ASSUME Right, NEW handler \in handlers
  PROVE  /\ handler.block \in Batches /\ log[handler.block].id = Len(stored)
         /\ strategy = log[handler.block].usage /\ strategy \in strategies
         /\ handler.by = BySync => syncer.pc = "batches" /\ handler.block <= end
         /\ handlers = {handler}
         /\ Resting
<1>1. handlers = {handler}
  BY DEF Right, HandlersInv
<1>2. handlers # {}
  OBVIOUS
<1>3. Resting
  BY <1>2 DEF Right, PackerInv, WithSubmitted, WithStored, Under
<1> QED
  BY <1>1, <1>3 DEF Right, HandlersInv

LEMMA FinishBatchStep ==
  ASSUME Right, NEW handler \in handlers, FinishBatch(handler), flaws' = {}
  PROVE  Right'
<1>1. PICK block, by : block = handler.block /\ by = handler.by
  OBVIOUS
<1>2. /\ UNCHANGED <<log, strategy, polled, packer, pushed, proposing>>
      /\ Finish(block, by) /\ handlers' = handlers \ {handler}
      /\ syncer' = IF by = BySync /\ ~FinishedOk(block)
                   THEN [syncer EXCEPT !.pc = "failed"] ELSE syncer
  BY <1>1 DEF FinishBatch, l1Vars
<1>3. /\ block \in Batches /\ log[block].id = Len(stored)
      /\ strategy = log[block].usage /\ strategy \in strategies
      /\ by = BySync => syncer.pc = "batches" /\ block <= end
      /\ handlers = {handler}
      /\ Resting
  BY <1>1, HandledFacts
<1>4. handlers' = {}
  BY <1>2, <1>3
<1>5. PICK done : done = processBatch(log[block])
  OBVIOUS
<1>6. ~IsEarly(block) /\ (Busy => by = BySync)
  <2>1. {"early"} # {} /\ {"overtaken"} # {}
    OBVIOUS
  <2>2. flaws' = flaws \cup (IF IsEarly(block) THEN {"early"} ELSE {}) \cup Overtaken(by)
    BY <1>2 DEF Finish
  <2> QED
    BY <2>1, <2>2 DEF Overtaken
<1>7. /\ done.ok /\ done.tree = log[block].stateRoot
      /\ log[block].usage = "Deposit" =>
           /\ Count(stored) < Len(pushed) \div maxSubtreeSize
           /\ done.pool = Waiting(Len(pushed), Count(stored) + 1)
      /\ log[block].usage # "Deposit" => done.pool = pool
  BY <1>3, <1>5, <1>6, ProcessedIs
<1>8. CanAdd(stored, log[block])
  BY <1>3, NextFacts
<1>9. /\ Adds(stored, log[block], stored') /\ tree' = done.tree /\ pool' = done.pool
  BY <1>2, <1>5, <1>8 DEF Finish, add, Adds
<1>10. /\ block \in Nat /\ block <= Len(log) /\ Len(log) \in Nat /\ Len(stored) \in Nat
       /\ syncpoint.blockNumber \in Nat /\ syncpoint.batchID = Len(stored) - 1
  <2>1. Batches \subseteq 1 .. Len(log) /\ Len(log) \in Nat /\ Len(stored) \in Nat
    BY StateFacts
  <2>2. syncpoint.blockNumber \in Nat
    BY DEF Right, Types
  <2>3. syncpoint.batchID = Len(stored) - 1
    BY <1>3 DEF Resting
  <2> QED
    BY <1>3, <2>1, <2>2, <2>3
<1>11. CanUpdate(block, log[block].id)
  <2>1. ~Stored(block)
    BY <1>3, <1>10 DEF Stored
  <2>2. ~ (block < syncpoint.blockNumber)
    BY <1>3, <2>1 DEF Right, SyncInv, StoredBefore
  <2> QED
    BY <1>3, <1>10, <2>2 DEF CanUpdate
<1>12. FinishedOk(block)
  BY <1>5, <1>7, <1>8, <1>11 DEF FinishedOk
<1>13. syncpoint' = SyncPoint(block, Len(stored)) /\ UNCHANGED <<raised, syncer>>
  BY <1>2, <1>3, <1>12 DEF Finish
<1>14. syncpoint'.blockNumber = block /\ syncpoint'.batchID = Len(stored)
  BY <1>13 DEF SyncPoint
<1>15. /\ HasBatches' /\ HasDeposits'
       /\ Len(stored') = Len(stored) + 1 /\ TreeOf(stored') = log[block].stateRoot
       /\ Stored(block)' /\ \A c \in Batches : Stored(c) => Stored(c)'
  BY <1>2, <1>3, <1>7, <1>9, BatchStored
<1>16. IsLog(log)' /\ Batches' = Batches /\ Deposits' = Deposits
  BY <1>2, LogKept DEF Right
<1>17. Types'
  <2>1. syncpoint' \in [blockNumber : Nat, batchID : Int]
    BY <1>10, <1>13 DEF SyncPoint
  <2> QED
    BY <1>2, <1>13, <2>1 DEF Right, Types
<1>18. PackerInv'
  <2>1. Resting'
    BY <1>2, <1>3, <1>7, <1>9, <1>10, <1>14, <1>15 DEF Resting, PackerRests
  <2> QED
    BY <1>2, <1>3, <1>15, <1>16, <2>1 DEF Right, PackerInv, Resting, PackerRests
<1>19. HandlersInv'
  BY <1>4 DEF HandlersInv
<1>20. SyncInv'
  <2>1. StoredBefore(syncpoint.blockNumber)'
    <3>1. \A c \in Batches : c < block => log[c].id < log[block].id
      BY <1>3 DEF Right, IsLog, Batches
    <3>2. \A c \in Batches : c < block => Stored(c)
      BY <1>3, <3>1 DEF Stored
    <3> QED
      BY <1>14, <1>15, <1>16, <3>2 DEF StoredBefore
  <2>2. \A n : StoredBefore(n) => \A c \in Batches' : c < n => Stored(c)'
    BY <1>15, <1>16 DEF StoredBefore
  <2>3. syncer.pc \in {"reading", "deposits", "query", "batches"} => StoredBefore(syncer.start)'
    BY <1>13, <2>2 DEF Right, SyncInv, StoredBefore
  <2>4. \A c \in Batches : InTodo(c) => InTodo(c)'
    <3> SUFFICES ASSUME NEW c \in Batches, InTodo(c) PROVE InTodo(c)'
      OBVIOUS
    <3>1. CASE handler = Handler(c, BySync)
      <4>1. c = block
        BY <1>1, <3>1 DEF Handler
      <4> QED
        BY <1>15, <4>1 DEF InTodo
    <3>2. CASE handler # Handler(c, BySync)
      BY <1>3, <1>13, <1>15, <3>2 DEF InTodo
    <3> QED
      BY <3>1, <3>2
  <2>5. end' = end /\ (Busy' <=> Busy)
    BY <1>13 DEF end, Busy
  <2>6. syncer.pc \in {"reading", "deposits", "query"} => FALSE
    BY <1>3, <1>6 DEF Busy
  <2>7. /\ Busy => ~proposing
        /\ syncer.pc = "batches" =>
             /\ syncer.start <= syncer.latest /\ syncer.latest <= Len(log)
             /\ syncer.todo \subseteq Batches
             /\ \A c \in Batches : c \in syncer.start .. end => InTodo(c)
             /\ \A c \in syncer.todo : c \in syncer.start .. end
             /\ block <= end
        /\ syncer.pc = "done" => polled.on /\ syncer.regular
    BY <1>3, <1>6 DEF Right, SyncInv, Busy
  <2> QED
    BY <1>2, <1>10, <1>13, <1>14, <1>16, <2>1, <2>3, <2>4, <2>5, <2>6, <2>7 DEF SyncInv
<1>21. ListenInv'
  <2>1. \A c \in Batches : Known(c) => Known(c)'
    BY <1>1, <1>2, <1>3, <1>15 DEF Known, PackerRests
  <2> QED
    BY <1>2, <1>16, <2>1 DEF Right, ListenInv
<1> QED
  BY <1>13, <1>15, <1>16, <1>17, <1>18, <1>19, <1>20, <1>21 DEF Right

(***************************************************************************)
(* The packer's batches.                                                   *)
(***************************************************************************)
\* A packer that does not rest has submitted a batch, or stored it.
LEMMA PackerIs ==
  ASSUME Right
  PROVE  /\ packer.pc \in {"deposited", "transferred"} => WithSubmitted
         /\ packer.pc \in {"depositsMined", "transfersMined"} => WithStored
         /\ PackerRests => Resting
BY DEF Right, PackerInv, Resting, WithSubmitted, WithStored, Under, PackerRests

LEMMA MinedStep ==
  ASSUME Right, Mined, flaws' = {}
  PROVE  Right'
<1>1. PICK block : block = packer.block
  OBVIOUS
<1>2. /\ UNCHANGED <<log, tree, stored, pool, strategy, handlers, syncer, polled, pushed, proposing>>
      /\ packer.pc \in {"depositsMined", "transfersMined"}
      /\ Overtaken(ByPacker) = {}
  BY DEF Mined, l1Vars
<1>3. /\ WithStored /\ handlers = {} /\ N = Len(stored) /\ tree = TreeOf(stored)
      /\ block \in Batches /\ syncpoint.blockNumber <= block
      /\ syncpoint.batchID = Len(stored) - 2
  BY <1>1, <1>2, PackerIs DEF WithStored, Under, OwnBatch
<1>4. /\ syncer.pc = "done" /\ polled.on /\ syncer.regular
  <2>1. {"overtaken"} # {} /\ ByPacker # BySync
    BY DEF ByPacker, BySync
  <2> QED
    BY <1>2, <2>1, NotBusy DEF Overtaken
<1>5. /\ Types /\ Len(stored) \in Nat /\ Len(log) \in Nat
      /\ block \in Nat \ {0} /\ block <= Len(log) /\ syncpoint.blockNumber \in Nat
  <2>1. Len(stored) \in Nat /\ Len(log) \in Nat /\ block \in 1 .. Len(log)
    BY <1>3, StateFacts
  <2>2. Types /\ syncpoint.blockNumber \in Nat
    BY DEF Right, Types
  <2> QED
    BY <2>1, <2>2
<1>6. packer.block # NotMined /\ packer.block >= syncpoint.blockNumber
  BY <1>1, <1>3, <1>5 DEF NotMined
<1>7. /\ syncpoint' = SyncPoint(block, syncpoint.batchID + 1)
      /\ packer' = [packer EXCEPT !.pc = StaysPut(packer.pc)]
      /\ UNCHANGED raised
  BY <1>1, <1>6 DEF Mined
<1>8. syncpoint'.blockNumber = block /\ syncpoint'.batchID = Len(stored) - 1
  BY <1>3, <1>5, <1>7 DEF SyncPoint
<1>9. PICK pc \in {"deposits", "transfers"} : pc = StaysPut(packer.pc)
  BY DEF StaysPut
<1>10. Types' /\ packer'.pc = pc /\ packer'.block = block
  <2>1. syncpoint' \in [blockNumber : Nat, batchID : Int]
    BY <1>3, <1>5, <1>7 DEF SyncPoint
  <2>2. pc \in PackerSteps
    BY DEF PackerSteps
  <2>3. /\ packer' \in [pc : PackerSteps, stopping : BOOLEAN, listeners : Nat,
                        path : {packer'.path}, block : Nat]
        /\ packer'.pc = pc /\ packer'.block = block
    BY <1>1, <1>5, <1>7, <1>9, <2>2 DEF Types
  <2> QED
    BY <1>2, <1>5, <2>1, <2>3 DEF Types
<1>11. /\ IsLog(log)' /\ HasBatches' /\ HasDeposits' /\ Batches' = Batches /\ Deposits' = Deposits
  BY <1>2, LogKept, BatchesKept, DepositsKept DEF Right
<1>12. \A b \in Batches : Stored(b) /\ Stored(b)'
  BY <1>2, <1>3, PointFacts DEF Stored
<1>13. PackerInv'
  <2>1. Resting'
    BY <1>2, <1>3, <1>8, <1>9, <1>10 DEF Resting, PackerRests
  <2> QED
    BY <1>2, <1>5, <1>10, <1>11, <1>12, <2>1 DEF PackerInv
<1>14. HandlersInv'
  BY <1>2, <1>3 DEF HandlersInv
<1>15. SyncInv'
  BY <1>2, <1>4, <1>5, <1>8, <1>11, <1>12 DEF SyncInv, StoredBefore, Busy
<1>16. ListenInv'
  BY <1>2, <1>11, <1>12 DEF Right, ListenInv, Known
<1> QED
  BY <1>7, <1>10, <1>11, <1>13, <1>14, <1>15, <1>16 DEF Right

\* The packer's batch is stored.
StoresOwn(pc) ==
  /\ Adds(stored, log[packer.block], stored') /\ tree' = log[packer.block].stateRoot
  /\ log[packer.block].usage = "Deposit" =>
       /\ Count(stored) < Len(pushed) \div maxSubtreeSize
       /\ pool' = Waiting(Len(pushed), Count(stored) + 1)
  /\ log[packer.block].usage # "Deposit" => UNCHANGED pool
  /\ packer' = [packer EXCEPT !.pc = pc]
  /\ UNCHANGED <<l1Vars, syncpoint, strategy, handlers, syncer, polled, pushed, raised>>

LEMMA OwnStored ==
  ASSUME Right, WithSubmitted, NEW pc \in {"depositsMined", "transfersMined"}, StoresOwn(pc)
  PROVE  Right'
<1>1. PICK block : block = packer.block
  OBVIOUS
<1>2. /\ UNCHANGED <<log, syncpoint, strategy, handlers, syncer, polled, pushed, raised, proposing>>
      /\ proposing /\ handlers = {} /\ N = Len(stored) + 1
      /\ block \in Batches /\ log[block].id = Len(stored) /\ syncpoint.blockNumber <= block
      /\ syncpoint.batchID = Len(stored) - 1
  BY <1>1 DEF StoresOwn, WithSubmitted, Under, OwnBatch, l1Vars
<1>3. /\ HasBatches' /\ HasDeposits'
      /\ Len(stored') = Len(stored) + 1 /\ TreeOf(stored') = log[block].stateRoot
      /\ Stored(block)' /\ \A c \in Batches : Stored(c) => Stored(c)'
  BY <1>1, <1>2, BatchStored DEF StoresOwn
<1>4. IsLog(log)' /\ Batches' = Batches /\ Deposits' = Deposits /\ N' = N
  BY <1>2, LogKept DEF Right
<1>5. Types /\ Len(stored) \in Nat
  BY StateFacts DEF Right
<1>6. Types' /\ packer'.pc = pc /\ packer'.block = block
  <2>1. pc \in PackerSteps
    BY DEF PackerSteps
  <2>2. /\ packer' \in [pc : PackerSteps, stopping : BOOLEAN, listeners : Nat,
                        path : {packer'.path}, block : Nat]
        /\ packer'.pc = pc /\ packer'.block = block
    BY <1>1, <1>5, <2>1 DEF StoresOwn, Types
  <2> QED
    BY <1>2, <1>5, <2>2 DEF Types
<1>7. PackerInv'
  <2>1. Under({"depositsMined", "transfersMined"})'
    BY <1>2, <1>6 DEF Under
  <2>2. OwnBatch(Len(stored) - 1)'
    <3>1. log'[packer'.block].id = Len(stored') - 1
      BY <1>2, <1>3, <1>5, <1>6
    <3> QED
      BY <1>2, <1>4, <1>6, <3>1 DEF OwnBatch
  <2>3. syncpoint'.batchID = Len(stored') - 2 /\ N' = Len(stored')
    BY <1>2, <1>3, <1>4, <1>5
  <2>4. WithStored'
    BY <1>1, <1>3, <2>1, <2>2, <2>3 DEF StoresOwn, WithStored
  <2>5. ~PackerRests' /\ packer'.block <= Len(log')
    BY <1>1, <1>2, <1>6 DEF Right, PackerInv, PackerRests
  <2> QED
    BY <2>4, <2>5 DEF PackerInv
<1>8. HandlersInv'
  BY <1>2 DEF HandlersInv
<1>9. SyncInv'
  <2>1. \A n : StoredBefore(n) => \A c \in Batches' : c < n => Stored(c)'
    BY <1>3, <1>4 DEF StoredBefore
  <2>2. ~Busy /\ syncpoint.blockNumber <= Len(log) /\ StoredBefore(syncpoint.blockNumber)
    BY <1>2 DEF Right, SyncInv
  <2>3. syncer.pc = "done" /\ polled.on /\ syncer.regular
    BY <2>2, NotBusy
  <2> QED
    BY <1>2, <2>1, <2>2, <2>3 DEF SyncInv, StoredBefore, Busy
<1>10. ListenInv'
  <2>1. \A c \in Batches : Known(c) => Known(c)'
    BY <1>1, <1>2, <1>3 DEF Known
  <2> QED
    BY <1>2, <1>4, <2>1 DEF Right, ListenInv
<1> QED
  BY <1>2, <1>3, <1>4, <1>6, <1>7, <1>8, <1>9, <1>10 DEF Right

\* Recording the batch that comes next does not throw.
LEMMA RecordIs ==
  ASSUME Right, WithSubmitted, NEW batch, batch = log[packer.block], NEW pc, Record(batch, pc)
  PROVE  /\ Adds(stored, log[packer.block], stored')
         /\ packer' = [packer EXCEPT !.pc = pc] /\ UNCHANGED raised
<1>1. packer.block \in Batches /\ log[packer.block].id = Len(stored)
  BY DEF WithSubmitted, OwnBatch
<1>2. CanAdd(stored, batch)
  BY <1>1, NextFacts
<1> QED
  BY <1>2 DEF Record, add, Adds

LEMMA TransferredStep ==
  ASSUME Right, Transferred
  PROVE  Right'
<1>1. packer.pc = "transferred" /\ WithSubmitted
  BY PackerIs DEF Transferred
<1>2. /\ UNCHANGED <<l1Vars, tree, pool, syncpoint, strategy, handlers, syncer, polled, pushed>>
      /\ Record(Batch(nextBatchID(stored), "Transfer", tree), "transfersMined")
  BY DEF Transferred
<1>3. log[packer.block] = Batch(Len(stored), "Transfer", tree)
  BY <1>1 DEF WithSubmitted
<1>4. nextBatchID(stored) = Len(stored)
  BY StateFacts DEF nextBatchID, CurrentBatchID
<1>5. PICK batch : batch = log[packer.block]
  OBVIOUS
<1>6. batch = Batch(Len(stored), "Transfer", tree) /\ Record(batch, "transfersMined")
  BY <1>2, <1>3, <1>4, <1>5
<1>7. batch.usage = "Transfer" /\ batch.stateRoot = tree
  BY <1>6 DEF Batch
<1>8. /\ Adds(stored, log[packer.block], stored')
      /\ packer' = [packer EXCEPT !.pc = "transfersMined"] /\ UNCHANGED raised
  BY <1>1, <1>5, <1>6, RecordIs
<1> QED
  BY <1>1, <1>2, <1>5, <1>7, <1>8, OwnStored DEF StoresOwn

LEMMA DepositedStep ==
  ASSUME Right, Deposited
  PROVE  Right'
<1>1. packer.pc = "deposited" /\ WithSubmitted
  BY PackerIs DEF Deposited
<1>2. UNCHANGED <<l1Vars, syncpoint, strategy, handlers, syncer, polled, pushed>>
  BY DEF Deposited
<1>3. PICK k, p : k = Count(stored) /\ p = Len(pushed)
  OBVIOUS
<1>4. PICK path : path = packer.path
  OBVIOUS
<1>5. /\ k < p \div maxSubtreeSize
      /\ log[packer.block] = DepositBatch(Len(stored), tree, k + 1, Subtree(k + 1), path)
  BY <1>1, <1>3, <1>4 DEF WithSubmitted
<1>6. k \in Nat /\ p \in Nat /\ k <= p \div maxSubtreeSize /\ pool = Waiting(p, k)
  BY <1>3, StateFacts DEF Right, HasDeposits
<1>7. /\ isSubtreeReady(pool) /\ FrontSubtree(pool) = Entry(k + 1, Subtree(k + 1))
      /\ popDepositSubtree(pool) = Waiting(p, k + 1)
  BY <1>5, <1>6, PopOne
<1>8. FrontSubtree(pool).id = k + 1 /\ FrontSubtree(pool).states = Subtree(k + 1)
  BY <1>7 DEF Entry
<1>9. nextBatchID(stored) = Len(stored)
  BY StateFacts DEF nextBatchID, CurrentBatchID
<1>10. PICK batch : batch = log[packer.block]
  OBVIOUS
<1>11. /\ batch = DepositBatch(nextBatchID(stored), tree, FrontSubtree(pool).id,
                               FrontSubtree(pool).states, packer.path)
  BY <1>4, <1>5, <1>8, <1>9, <1>10
<1>12. pool' = Waiting(p, k + 1) /\ tree' = batch.stateRoot /\ Record(batch, "depositsMined")
  BY <1>7, <1>11 DEF Deposited
<1>13. batch.usage = "Deposit"
  BY <1>11 DEF DepositBatch
<1>14. /\ Adds(stored, log[packer.block], stored')
       /\ packer' = [packer EXCEPT !.pc = "depositsMined"] /\ UNCHANGED raised
  BY <1>1, <1>10, <1>12, RecordIs
<1> QED
  BY <1>1, <1>2, <1>3, <1>5, <1>10, <1>12, <1>13, <1>14, OwnStored DEF StoresOwn

\* The L1 took the packer's batch: the node has all the batches before it.
LEMMA Submits ==
  ASSUME Right, PackerRests, IsNext
  PROVE  /\ proposing /\ handlers = {} /\ ~Busy /\ Resting
         /\ Len(stored) = N /\ stored = Chain /\ stored # <<>>
<1>1. Resting /\ proposing
  BY PackerIs DEF IsNext
<1>2. Len(stored) = N /\ N \in Nat \ {0}
  BY StateFacts, ChainEnd DEF IsNext, nextBatchID, CurrentBatchID
<1>3. stored = SubSeq(ChainOf(log), 1, N) /\ Len(ChainOf(log)) = N
  BY <1>2, ChainEnd DEF Right, HasBatches
<1>4. PICK S : ChainOf(log) \in Seq(S)
  BY DEF Right, HasBatches, IsChain
<1>5. stored = ChainOf(log)
  <2>1. PICK c, n : c = ChainOf(log) /\ n = N
    OBVIOUS
  <2>2. c \in Seq(S) /\ Len(c) = n
    BY <1>3, <1>4, <2>1
  <2>3. SubSeq(c, 1, n) = c
    BY <2>2
  <2> QED
    BY <1>3, <2>1, <2>3
<1>6. handlers = {}
  <2> SUFFICES ASSUME NEW handler \in handlers PROVE FALSE
    OBVIOUS
  <2>1. handler.block \in Batches /\ log[handler.block].id = Len(stored)
    BY HandledFacts
  <2>2. log[handler.block].id < N /\ log[handler.block].id \in Nat
    BY <2>1, PointFacts
  <2> QED
    BY <1>2, <2>1, <2>2
<1>7. ~Busy
  BY <1>1, BusyRests
<1> QED
  BY <1>1, <1>2, <1>5, <1>6, <1>7, ChainEnd

\* Its batch is the last one of the log from then on.
SubmitsOwn(batch) ==
  /\ Adds(log, batch, log') /\ packer'.block = Len(log) + 1
  /\ UNCHANGED <<proposing, stored, pool, syncpoint, strategy, handlers, syncer, polled, pushed, raised>>

LEMMA OwnSubmitted ==
  ASSUME Right, PackerRests, IsNext, NEW batch, SubmitsOwn(batch),
         batch.kind = "batch", batch.id = N, IsNextOf(batch, ChainOf(log)),
         ~PackerRests', Types'
  PROVE  /\ ~raised' /\ IsLog(log)' /\ HasBatches' /\ HasDeposits'
         /\ HandlersInv' /\ SyncInv' /\ ListenInv'
         /\ N' = Len(stored') + 1 /\ stored' # <<>> /\ OwnBatch(Len(stored))'
         /\ log'[packer'.block] = batch
         /\ syncpoint'.batchID = Len(stored') - 1
         /\ handlers' = {} /\ proposing'
         /\ packer'.block <= Len(log')
<1>1. /\ UNCHANGED <<proposing, stored, pool, syncpoint, strategy, handlers, syncer, polled, pushed, raised>>
      /\ Adds(log, batch, log') /\ packer'.block = Len(log) + 1
  BY DEF SubmitsOwn
<1>2. /\ proposing /\ handlers = {} /\ ~Busy /\ Resting
      /\ Len(stored) = N /\ stored # <<>>
  BY Submits
<1>3. /\ IsLog(log') /\ Len(log') = Len(log) + 1 /\ log'[Len(log) + 1] = batch
      /\ Batches' = Batches \cup {Len(log) + 1} /\ N' = N + 1
      /\ Deposits' = Deposits
      /\ \A b \in 1 .. Len(log) : log'[b] = log[b]
      /\ HasBatches' /\ HasDeposits'
  BY <1>1, BatchSubmitted
<1>4. HandlersInv' /\ SyncInv' /\ ListenInv'
  BY <1>1, <1>3, LogGrew
<1>5. OwnBatch(Len(stored))'
  <2>1. syncpoint.blockNumber <= Len(log) /\ syncpoint.blockNumber \in Nat /\ Len(log) \in Nat
    BY StateFacts DEF Right, SyncInv, Types
  <2>2. syncpoint.blockNumber <= Len(log) + 1
    BY <2>1
  <2> QED
    BY <1>1, <1>2, <1>3, <2>2 DEF OwnBatch
<1>6. packer'.block <= Len(log')
  BY <1>1, <1>3, StateFacts
<1> QED
  BY <1>1, <1>2, <1>3, <1>4, <1>5, <1>6 DEF Right, Resting

LEMMA submitTransfersStep ==
  ASSUME Right, submitTransfers, flaws' = {}
  PROVE  Right'
<1>1. packer.pc = "transfers" /\ PackerRests
  BY DEF submitTransfers, PackerRests
<1>2. IsNext
  <2>1. {"refused"} # {}
    OBVIOUS
  <2> QED
    BY <2>1 DEF submitTransfers, Refused
<1>3. PICK batch : batch = NextBatch("Transfer", tree, 0)
  OBVIOUS
<1>4. /\ UNCHANGED <<proposing, stored, pool, syncpoint, strategy, handlers, syncer, polled, pushed, raised>>
      /\ tree' = afterTransfers(tree) /\ Adds(log, batch, log')
      /\ packer' = [packer EXCEPT !.pc = "transferred", !.block = Len(log) + 1]
  <2>1. {"refused"} # {}
    OBVIOUS
  <2> QED
    BY <1>3, <2>1 DEF submitTransfers, Submitted, Refused, Adds
<1>5. /\ Resting /\ Len(stored) = N /\ stored = Chain /\ stored # <<>> /\ proposing
  BY <1>1, <1>2, Submits
<1>6. batch = Batch(N, "Transfer", afterTransfers(tree)) /\ tree = TreeOf(ChainOf(log))
  BY <1>3, <1>5, ChainEnd DEF NextBatch, Resting
<1>7. Types /\ Len(log) \in Nat
  BY StateFacts DEF Right
<1>8. Types' /\ packer'.pc = "transferred" /\ packer'.block = Len(log) + 1
  <2>1. PICK block \in Nat : block = Len(log) + 1
    BY <1>7
  <2>2. "transferred" \in PackerSteps
    BY DEF PackerSteps
  <2>3. /\ packer' \in [pc : PackerSteps, stopping : BOOLEAN, listeners : Nat,
                        path : {packer'.path}, block : Nat]
        /\ packer'.pc = "transferred" /\ packer'.block = block
    BY <1>4, <1>7, <2>1, <2>2 DEF Types
  <2> QED
    BY <1>4, <1>7, <2>1, <2>3 DEF Types
<1>9. ~PackerRests' /\ SubmitsOwn(batch)
  BY <1>4, <1>8 DEF PackerRests, SubmitsOwn
<1>10. batch.kind = "batch" /\ batch.id = N /\ IsNextOf(batch, ChainOf(log))
  <2>1. ChainOf(log) # <<>> /\ Len(ChainOf(log)) = N
    BY ChainEnd
  <2> QED
    BY <1>6, <2>1 DEF Batch, IsNextOf
<1>11. /\ ~raised' /\ IsLog(log)' /\ HasBatches' /\ HasDeposits'
       /\ HandlersInv' /\ SyncInv' /\ ListenInv'
       /\ N' = Len(stored') + 1 /\ stored' # <<>> /\ OwnBatch(Len(stored))'
       /\ log'[packer'.block] = batch
       /\ syncpoint'.batchID = Len(stored') - 1
       /\ handlers' = {} /\ proposing'
       /\ packer'.block <= Len(log')
  BY <1>1, <1>2, <1>8, <1>9, <1>10, OwnSubmitted
<1>12. WithSubmitted'
  <2>1. Under({"deposited", "transferred"})'
    BY <1>8, <1>11 DEF Under
  <2>2. log'[packer'.block] = Batch(Len(stored'), "Transfer", tree')
    BY <1>4, <1>5, <1>6, <1>11
  <2> QED
    BY <1>8, <1>11, <2>1, <2>2 DEF WithSubmitted
<1>13. PackerInv'
  BY <1>9, <1>11, <1>12 DEF PackerInv
<1> QED
  BY <1>8, <1>11, <1>13 DEF Right

LEMMA submitDepositsStep ==
  ASSUME Right, submitDeposits, flaws' = {}
  PROVE  Right'
<1>1. packer.pc = "deposits" /\ PackerRests /\ isSubtreeReady(pool)
  BY DEF submitDeposits, PackerRests
<1>2. PICK path : path = findVacantSubtree(tree)
  OBVIOUS
<1>3. IsNext /\ tree = L1Tree
  <2>1. {"refused"} # {}
    OBVIOUS
  <2> QED
    BY <2>1 DEF submitDeposits, Refused
<1>4. PICK batch : batch = NextBatch("Deposit", L1Tree, path)
  OBVIOUS
<1>5. /\ UNCHANGED <<proposing, tree, stored, pool, syncpoint, strategy, handlers, syncer, polled, pushed, raised>>
      /\ Adds(log, batch, log')
      /\ packer' = [packer EXCEPT !.pc = "deposited", !.path = path, !.block = Len(log) + 1]
  <2>1. {"refused"} # {}
    OBVIOUS
  <2> QED
    BY <1>2, <1>4, <2>1 DEF submitDeposits, Submitted, Refused, Adds
<1>6. /\ Resting /\ Len(stored) = N /\ stored = Chain /\ stored # <<>> /\ proposing
  BY <1>1, <1>3, Submits
<1>7. /\ batch = DepositBatch(N, tree, Count(stored) + 1, Subtree(Count(stored) + 1), path)
      /\ tree = TreeOf(stored)
  BY <1>3, <1>4, <1>6, ChainEnd DEF NextBatch, Resting
<1>8. Types /\ Len(log) \in Nat
  BY StateFacts DEF Right
<1>9. Types' /\ packer'.pc = "deposited" /\ packer'.block = Len(log) + 1 /\ packer'.path = path
  <2>1. PICK block \in Nat : block = Len(log) + 1
    BY <1>8
  <2>2. "deposited" \in PackerSteps
    BY DEF PackerSteps
  <2>3. /\ packer' \in [pc : PackerSteps, stopping : BOOLEAN, listeners : Nat,
                        path : {packer'.path}, block : Nat]
        /\ packer'.pc = "deposited" /\ packer'.block = block /\ packer'.path = path
    BY <1>5, <1>8, <2>1, <2>2 DEF Types
  <2> QED
    BY <1>5, <1>8, <2>1, <2>3 DEF Types
<1>10. ~PackerRests' /\ SubmitsOwn(batch)
  BY <1>5, <1>9 DEF PackerRests, SubmitsOwn
<1>11. batch.kind = "batch" /\ batch.id = N /\ IsNextOf(batch, ChainOf(log))
  BY <1>3, <1>4, NextBatchIsNext
<1>12. /\ ~raised' /\ IsLog(log)' /\ HasBatches' /\ HasDeposits'
       /\ HandlersInv' /\ SyncInv' /\ ListenInv'
       /\ N' = Len(stored') + 1 /\ stored' # <<>> /\ OwnBatch(Len(stored))'
       /\ log'[packer'.block] = batch
       /\ syncpoint'.batchID = Len(stored') - 1
       /\ handlers' = {} /\ proposing'
       /\ packer'.block <= Len(log')
  BY <1>1, <1>3, <1>9, <1>10, <1>11, OwnSubmitted
<1>13. Count(stored) < Len(pushed) \div maxSubtreeSize
  <2>1. PICK p, k : p = Len(pushed) /\ k = Count(stored)
    OBVIOUS
  <2>2. p \in Nat /\ k \in Nat /\ k <= p \div maxSubtreeSize /\ pool = Waiting(p, k)
    BY <2>1, StateFacts DEF Right, HasDeposits
  <2> QED
    BY <1>1, <2>1, <2>2, PopOne
<1>14. WithSubmitted'
  <2>1. Under({"deposited", "transferred"})'
    BY <1>9, <1>12 DEF Under
  <2>2. log'[packer'.block] = DepositBatch(Len(stored'), tree', Count(stored') + 1,
                                           Subtree(Count(stored') + 1), packer'.path)
    BY <1>5, <1>6, <1>7, <1>9, <1>12
  <2>3. tree' = TreeOf(stored') /\ Count(stored') < Len(pushed') \div maxSubtreeSize
    BY <1>5, <1>7, <1>13
  <2> QED
    BY <1>9, <1>12, <2>1, <2>2, <2>3 DEF WithSubmitted
<1>15. PackerInv'
  BY <1>10, <1>12, <1>14 DEF PackerInv
<1> QED
  BY <1>9, <1>12, <1>15 DEF Right

(***************************************************************************)
(* The specification.                                                      *)
(***************************************************************************)
LEMMA GenesisLog ==
  ASSUME NEW L, L = <<Batch(0, "Genesis", GenesisTree)>>
  PROVE  /\ IsLog(L) /\ Len(L) = 1 /\ IsChain(ChainOf(L))
         /\ In(L, "batch") = {1} /\ In(L, "deposit") = {}
         /\ Number(L, "batch") = 1 /\ Number(L, "deposit") = 0
<1>1. PICK none, batch : none = <<>> /\ batch = Batch(0, "Genesis", GenesisTree)
  OBVIOUS
<1>2. Len(none) = 0 /\ DOMAIN none = {} /\ none \in Seq({})
  BY <1>1
<1>3. \A kind : In(none, kind) = {} /\ Number(none, kind) = 0
  BY <1>2, FS_EmptySet DEF In, Number
<1>4. IsLog(none)
  BY <1>2, <1>3 DEF IsLog
<1>5. Adds(none, batch, L) /\ batch.kind = "batch" /\ batch.id = 0
  BY <1>1 DEF Adds, Batch
<1>6. /\ IsLog(L) /\ Len(L) = Len(none) + 1
      /\ In(L, "deposit") = In(none, "deposit")
      /\ Number(L, "deposit") = Number(none, "deposit")
      /\ In(L, "batch") = In(none, "batch") \cup {Len(none) + 1}
      /\ Number(L, "batch") = Number(none, "batch") + 1
      /\ ChainOf(L) = Append(ChainOf(none), batch)
  BY <1>3, <1>4, <1>5, BatchAdds
<1>7. PICK c, d : c = ChainOf(none) /\ d = ChainOf(L)
  OBVIOUS
<1>8. c = <<>>
  BY <1>3, <1>7 DEF ChainOf
<1>9. IsChain(c)
  <2>1. c \in Seq({}) /\ DOMAIN c = {}
    BY <1>8
  <2> QED
    BY <2>1 DEF IsChain
<1>10. IsNextOf(batch, c) /\ Adds(c, batch, d)
  BY <1>1, <1>6, <1>7, <1>8 DEF IsNextOf, Adds
<1>11. IsChain(d)
  BY <1>9, <1>10, ChainAdds
<1> QED
  BY <1>2, <1>3, <1>6, <1>7, <1>11

LEMMA EmptyPool == Waiting(0, 0) = EmptyDepositPool /\ 0 <= 0 \div maxSubtreeSize
<1>1. PICK m : m = maxSubtreeSize
  OBVIOUS
<1>2. m \in Nat \ {0}
  BY <1>1, SizeType
<1>3. 0 \div m = 0 /\ 0 % m = 0
  BY <1>2
<1>4. PICK q, r, s : q = 0 \div maxSubtreeSize /\ r = 0 % maxSubtreeSize /\ s = q * maxSubtreeSize
  OBVIOUS
<1>5. q = 0 /\ r = 0 /\ s = 0
  BY <1>1, <1>2, <1>3, <1>4
<1>6. Waiting(0, 0) = Pool(Row(s, r), Subtrees(0, q - 0), q)
  BY <1>4, WaitingIs
<1>7. Row(0, 0) = <<>> /\ Subtrees(0, 0) = <<>>
  BY RowGrows, SubtreesGrow
<1> QED
  BY <1>4, <1>5, <1>6, <1>7 DEF Pool, EmptyDepositPool

LEMMA InitRight ==
  ASSUME Init
  PROVE  IInv
<1>1. /\ IsLog(log) /\ Len(log) = 1 /\ IsChain(ChainOf(log))
      /\ Batches = {1} /\ Deposits = {} /\ N = 1 /\ D = 0
  BY GenesisLog DEF Init, Batches, Deposits, N, D
<1>2. /\ ~raised /\ proposing = FALSE /\ stored = <<>> /\ pushed = <<>> /\ handlers = {}
      /\ tree = GenesisTree /\ pool = EmptyDepositPool
      /\ syncpoint = SyncPoint(1, -1) /\ packer = Stopped
      /\ syncer = [pc |-> "reading", start |-> 1, latest |-> 0, todo |-> {},
                   regular |-> FALSE, listeners |-> 0]
      /\ polled = [on |-> FALSE, deposit |-> 0, batch |-> 0]
  BY DEF Init
<1>3. Types
  <2>1. "stopped" \in PackerSteps
    BY DEF PackerSteps
  <2>2. packer \in [pc : PackerSteps, stopping : BOOLEAN, listeners : Nat, path : {packer.path}, block : Nat]
    BY <1>2, <2>1 DEF Stopped
  <2>3. syncpoint \in [blockNumber : Nat, batchID : Int]
    BY <1>2 DEF SyncPoint
  <2>4. syncer \in [pc : {"reading", "deposits", "query", "batches", "complete", "done"},
                    start : Nat, latest : Nat, todo : SUBSET Nat, regular : BOOLEAN, listeners : Nat]
    BY <1>2
  <2>5. polled \in [on : BOOLEAN, deposit : Nat, batch : Nat] /\ proposing \in BOOLEAN
    BY <1>2
  <2> QED
    BY <2>2, <2>3, <2>4, <2>5 DEF Types
<1>4. Len(stored) = 0 /\ Len(pushed) = 0 /\ Count(stored) = 0
  BY <1>2, CountOfNone
<1>5. HasBatches
  <2>1. PICK c : c = ChainOf(log)
    OBVIOUS
  <2>2. SubSeq(c, 1, 0) = <<>>
    OBVIOUS
  <2> QED
    BY <1>1, <1>2, <1>4, <2>1, <2>2 DEF HasBatches
<1>6. HasDeposits
  <2>1. <<>> = [i \in 1 .. 0 |-> i]
    OBVIOUS
  <2> QED
    BY <1>1, <1>2, <1>4, <2>1, EmptyPool DEF HasDeposits
<1>7. PackerInv
  <2>1. packer.pc = "stopped" /\ packer.block = 0 /\ syncpoint.batchID = -1
    BY <1>2 DEF Stopped, SyncPoint
  <2>2. Resting
    BY <1>2, <1>4, <2>1 DEF Resting, PackerRests, TreeOf
  <2> QED
    BY <1>1, <2>1, <2>2 DEF PackerInv
<1>8. HandlersInv
  BY <1>2 DEF HandlersInv
<1>9. SyncInv
  <2>1. syncpoint.blockNumber = 1 /\ syncer.pc = "reading" /\ syncer.start = 1
    BY <1>2 DEF SyncPoint
  <2>2. StoredBefore(1)
    BY <1>1 DEF StoredBefore
  <2> QED
    BY <1>1, <1>2, <2>1, <2>2 DEF SyncInv
<1>10. ListenInv
  BY <1>2 DEF ListenInv
<1> QED
  BY <1>1, <1>2, <1>3, <1>5, <1>6, <1>7, <1>8, <1>9, <1>10 DEF IInv, Right

\* A flaw stays.
LEMMA FlawsStay ==
  ASSUME Next
  PROVE  flaws \subseteq flaws'
<1>1. CASE QueueDeposit
  BY <1>1 DEF QueueDeposit, history
<1>2. ASSUME NEW usage \in Usages, OtherProposes(usage) PROVE flaws \subseteq flaws'
  BY <1>2 DEF OtherProposes, history
<1>3. ASSUME NEW isProposer \in BOOLEAN, NewSlot(isProposer) PROVE flaws \subseteq flaws'
  BY <1>3 DEF NewSlot
<1>4. CASE SlotBoundary
  BY <1>4 DEF SlotBoundary, history
<1>5. CASE RunOnce
  BY <1>5 DEF RunOnce, history
<1>6. CASE submitDeposits
  BY <1>6 DEF submitDeposits, Submitted, Refused
<1>7. CASE submitTransfers
  BY <1>7 DEF submitTransfers, Submitted, Refused
<1>8. CASE NoneLeft
  BY <1>8 DEF NoneLeft, history
<1>9. CASE getBlockNumber
  BY <1>9 DEF getBlockNumber, history
<1>10. CASE SyncDeposits
  BY <1>10 DEF SyncDeposits
<1>11. CASE QueryBatches
  BY <1>11 DEF QueryBatches, history
<1>12. CASE SyncBatch
  BY <1>12 DEF SyncBatch, Begin
<1>13. ASSUME NEW handler \in handlers, FinishBatch(handler) PROVE flaws \subseteq flaws'
  BY <1>13 DEF FinishBatch, Finish
<1>14. CASE EndChunk
  BY <1>14 DEF EndChunk
<1>15. CASE SyncComplete
  BY <1>15 DEF SyncComplete
<1>16. CASE HearDeposit
  BY <1>16 DEF HearDeposit
<1>17. CASE HearBatch
  BY <1>17 DEF HearBatch, Begin
<1>18. CASE Deposited
  BY <1>18 DEF Deposited
<1>19. CASE Transferred
  BY <1>19 DEF Transferred
<1>20. CASE Mined
  BY <1>20 DEF Mined
<1>21. CASE StopPacker
  BY <1>21 DEF StopPacker, history
<1> QED
  BY <1>1, <1>2, <1>3, <1>4, <1>5, <1>6, <1>7, <1>8, <1>9, <1>10, <1>11, <1>12, <1>13, <1>14,
     <1>15, <1>16, <1>17, <1>18, <1>19, <1>20, <1>21 DEF Next, NodeStep

LEMMA NextRight ==
  ASSUME IInv, [Next]_vars
  PROVE  IInv'
<1>1. CASE UNCHANGED vars
  <2>1. /\ UNCHANGED <<log, proposing, tree, stored, pool, syncpoint, strategy, handlers>>
        /\ UNCHANGED <<syncer, polled, packer, pushed, flaws, raised>>
    BY <1>1 DEF vars, l1Vars, nodeVars, history
  <2> SUFFICES ASSUME flaws = {} PROVE Right'
    BY <2>1 DEF IInv
  <2>2. Right
    BY DEF IInv
  <2>3. /\ Types' /\ HasBatches' /\ HasDeposits' /\ PackerInv' /\ HandlersInv' /\ SyncInv' /\ ListenInv'
        /\ IsLog(log)'
    BY <2>1, <2>2, TypesKept, BatchesKept, DepositsKept, PackerKept, HandlersKept, SyncKept,
       ListenKept, LogKept DEF Right
  <2> QED
    BY <2>1, <2>2, <2>3 DEF Right
<1>2. CASE Next
  <2> SUFFICES ASSUME flaws' = {} PROVE Right'
    BY DEF IInv
  <2>1. flaws = {}
    BY <1>2, FlawsStay
  <2>2. Right
    BY <2>1 DEF IInv
  <2>3. CASE QueueDeposit
    BY <2>2, <2>3, QueueDepositStep
  <2>4. ASSUME NEW usage \in Usages, OtherProposes(usage) PROVE Right'
    BY <2>2, <2>4, OtherProposesStep
  <2>5. ASSUME NEW isProposer \in BOOLEAN, NewSlot(isProposer) PROVE Right'
    BY <2>2, <2>5, NewSlotStep
  <2>6. CASE SlotBoundary
    BY <2>2, <2>6, SlotBoundaryStep
  <2>7. CASE RunOnce
    BY <2>2, <2>7, RunOnceStep
  <2>8. CASE submitDeposits
    BY <2>2, <2>8, submitDepositsStep
  <2>9. CASE submitTransfers
    BY <2>2, <2>9, submitTransfersStep
  <2>10. CASE NoneLeft
    BY <2>2, <2>10, NoneLeftStep
  <2>11. CASE getBlockNumber
    BY <2>2, <2>11, getBlockNumberStep
  <2>12. CASE SyncDeposits
    BY <2>2, <2>12, SyncDepositsStep
  <2>13. CASE QueryBatches
    BY <2>2, <2>13, QueryBatchesStep
  <2>14. CASE SyncBatch
    BY <2>2, <2>14, SyncBatchStep
  <2>15. ASSUME NEW handler \in handlers, FinishBatch(handler) PROVE Right'
    BY <2>2, <2>15, FinishBatchStep
  <2>16. CASE EndChunk
    BY <2>2, <2>16, EndChunkStep
  <2>17. CASE SyncComplete
    BY <2>2, <2>17, SyncCompleteStep
  <2>18. CASE HearDeposit
    BY <2>2, <2>18, HearDepositStep
  <2>19. CASE HearBatch
    BY <2>2, <2>19, HearBatchStep
  <2>20. CASE Deposited
    BY <2>2, <2>20, DepositedStep
  <2>21. CASE Transferred
    BY <2>2, <2>21, TransferredStep
  <2>22. CASE Mined
    BY <2>2, <2>22, MinedStep
  <2>23. CASE StopPacker
    BY <2>2, <2>23, StopPackerStep
  <2> QED
    BY <1>2, <2>3, <2>4, <2>5, <2>6, <2>7, <2>8, <2>9, <2>10, <2>11, <2>12, <2>13, <2>14,
       <2>15, <2>16, <2>17, <2>18, <2>19, <2>20, <2>21, <2>22, <2>23 DEF Next, NodeStep
<1> QED
  BY <1>1, <1>2

\* Each batch of a chain leads from the states of the one before.
LEMMA RightChain ==
  ASSUME Right
  PROVE  ChainIsRight
<1>1. PICK c : c = ChainOf(log)
  OBVIOUS
<1>2. Chain = c /\ IsChain(c)
  BY <1>1, ChainEnd DEF Right, HasBatches
<1>3. ASSUME NEW i \in 2 .. Len(c)
      PROVE  c[i].stateRoot = IF c[i].usage = "Deposit"
                              THEN insert(c[i - 1].stateRoot, c[i].path, c[i].subtree)
                              ELSE afterTransfers(c[i - 1].stateRoot)
  <2>1. Len(c) \in Nat
    BY <1>1, ChainEnd, LogFacts DEF Right
  <2>2. i \in 1 .. Len(c) /\ i > 1 /\ i # 1
    BY <2>1
  <2>3. PICK before : before = SubSeq(c, 1, i - 1)
    OBVIOUS
  <2>4. IsNextOf(c[i], before) /\ c[i].usage # "Genesis" /\ TreeOf(before) = c[i - 1].stateRoot
    BY <1>2, <2>2, <2>3, ChainFacts
  <2>5. PICK batch, t, n, k : batch = c[i] /\ t = TreeOf(before) /\ n = Len(before) /\ k = Count(before)
    OBVIOUS
  <2>6. CASE batch = Batch(0, "Genesis", GenesisTree)
    BY <2>4, <2>5, <2>6 DEF Batch
  <2>7. CASE \E usage \in {"Transfer", "MassMigration"} : batch = Batch(n, usage, afterTransfers(t))
    <3>1. PICK usage \in {"Transfer", "MassMigration"} : batch = Batch(n, usage, afterTransfers(t))
      BY <2>7
    <3>2. batch.usage = usage /\ batch.stateRoot = afterTransfers(t)
      BY <3>1 DEF Batch
    <3> QED
      BY <2>4, <2>5, <3>2
  <2>8. CASE batch = DepositBatch(n, t, k + 1, Subtree(k + 1), batch.path)
    <3>1. PICK path, states : path = batch.path /\ states = Subtree(k + 1)
      OBVIOUS
    <3>2. batch = DepositBatch(n, t, k + 1, states, path)
      BY <2>8, <3>1
    <3>3. batch.usage = "Deposit" /\ batch.stateRoot = insert(t, path, states) /\ batch.subtree = states
      BY <3>2 DEF DepositBatch
    <3> QED
      BY <2>4, <2>5, <3>1, <3>3
  <2> QED
    BY <2>4, <2>5, <2>6, <2>7, <2>8 DEF IsNextOf
<1> QED
  BY <1>2, <1>3 DEF ChainIsRight

\* A node that has heard of everything follows.
LEMMA RightFollows ==
  ASSUME Right, AllHeard, PackerRests
  PROVE  Follows
<1>1. /\ syncer.pc = "done" /\ handlers = {} /\ polled.on
      /\ polled.deposit >= Max(Deposits \cup {0}) /\ polled.batch >= Max(Batches)
  BY LogIs DEF AllHeard, Right, SyncInv
<1>2. /\ Deposits \subseteq 1 .. Len(log) /\ Batches \subseteq 1 .. Len(log) /\ Len(log) \in Nat
      /\ N \in Nat \ {0} /\ D \in Nat /\ Len(stored) \in Nat /\ Len(pushed) \in Nat
      /\ Len(stored) <= N /\ Len(pushed) <= D
  BY StateFacts
<1>3. polled.deposit \in Nat /\ polled.batch \in Nat
  BY DEF Right, Types
<1>4. \A b \in Batches : b <= polled.batch
  <2>1. PICK S : S = Batches
    OBVIOUS
  <2>2. S \subseteq 0 .. Len(log) /\ S \subseteq Nat
    BY <1>2, <2>1
  <2>3. \A b \in S : S # {} /\ b <= Max(S) /\ Max(S) \in S
    BY <1>2, <2>2, MaxIs
  <2>4. \A b \in S : b \in Nat /\ Max(S) \in Nat
    BY <2>2, <2>3
  <2> QED
    BY <1>1, <1>3, <2>1, <2>3, <2>4
<1>5. \A b \in Deposits : b <= polled.deposit
  <2>1. PICK S : S = Deposits \cup {0}
    OBVIOUS
  <2>2. S \subseteq 0 .. Len(log) /\ S # {} /\ S \subseteq Nat
    BY <1>2, <2>1
  <2>3. Max(S) \in S /\ \A b \in S : b <= Max(S)
    BY <1>2, <2>2, MaxIs
  <2>4. \A b \in S : b \in Nat /\ Max(S) \in Nat
    BY <2>2, <2>3
  <2> QED
    BY <1>1, <1>3, <2>1, <2>3, <2>4
<1>6. Len(stored) = N
  <2> SUFFICES ASSUME Len(stored) < N PROVE FALSE
    BY <1>2
  <2>1. PICK b \in Batches : log[b].id = Len(stored)
    BY <1>2, PointFacts
  <2>2. Known(b)
    BY <1>1, <1>4 DEF Right, ListenInv
  <2> QED
    BY <1>1, <1>2, <2>1, <2>2 DEF Known, Stored
<1>7. Len(pushed) = D
  <2> SUFFICES ASSUME Len(pushed) < D PROVE FALSE
    BY <1>2
  <2>1. D \in 1 .. D
    BY <1>2
  <2>2. PICK b \in Deposits : log[b].n = D
    BY <2>1 DEF Right, IsLog, Deposits, D
  <2>3. log[b].n <= Len(pushed)
    BY <1>1, <1>5 DEF Right, ListenInv
  <2> QED
    BY <1>2, <2>2, <2>3
<1>8. stored = Chain
  <2>1. PICK c, n : c = ChainOf(log) /\ n = N
    OBVIOUS
  <2>2. PICK S : c \in Seq(S)
    BY <2>1 DEF Right, HasBatches, IsChain
  <2>3. Len(c) = n /\ Chain = c /\ stored = SubSeq(c, 1, n)
    BY <1>6, <2>1, ChainEnd DEF Right, HasBatches
  <2>4. SubSeq(c, 1, n) = c
    BY <2>2, <2>3
  <2> QED
    BY <2>3, <2>4
<1>9. tree = L1Tree /\ DepositBatches = Count(stored)
  BY <1>8, PackerIs, ChainEnd DEF Resting
<1>10. Cardinality(EventsOf("deposit")) = D
  BY LogIs DEF D, Number, Deposits
<1>11. pool = Waiting(D, Count(stored))
  BY <1>7 DEF Right, HasDeposits
<1> QED
  BY <1>8, <1>9, <1>10, <1>11 DEF Follows

\* As long as none of the known flaws happens, the node raises nothing, the L1
\* gets only batches from its states, and once everything is heard the node has
\* the L1's batches, states and waiting deposits.
THEOREM FollowsL1 == Spec => []NodeFollowsL1
<1>1. Init => IInv
  BY InitRight
<1>2. IInv /\ [Next]_vars => IInv'
  BY NextRight
<1>3. IInv => NodeFollowsL1
  <2> SUFFICES ASSUME IInv, flaws = {}
               PROVE  ~raised /\ ChainIsRight /\ (AllHeard /\ PackerRests => Follows)
    BY DEF NodeFollowsL1
  <2>1. Right
    BY DEF IInv
  <2> QED
    BY <2>1, RightChain, RightFollows DEF Right
<1> QED
  BY <1>1, <1>2, <1>3, PTL DEF Spec
=============================================================================
