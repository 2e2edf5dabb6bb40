--------------------------- MODULE ProposerProofs ---------------------------
(***************************************************************************)
(* The proposer: the auction that chooses it, and what its packer takes,   *)
(* submits and records.                                                    *)
(*                                                                         *)
(* Packing, for every genesis, pool and limit: the nonce of a message that *)
(* was ever accepted is below that of its sender's state (SpentInv), so    *)
(* that a message is accepted once; the messages of a batch are then those *)
(* of no other batch, and the storage names, for each, the one batch that  *)
(* it is in (StatusInv).                                                   *)
(*                                                                         *)
(* The auction: its types are an invariant of their own, since every       *)
(* subtraction on the deposits and on the contract's ether is guarded, and *)
(* slots never fall; that the outcome of a slot is settled before it       *)
(* starts follows.  Each step then moves as much between the sums over the *)
(* slots as between the deposits, what was paid and the ether.             *)
(***************************************************************************)
EXTENDS Packing, BurnAuction, SequenceTheorems, SumTheorems

(***************************************************************************)
(* Types.                                                                  *)
(***************************************************************************)
Txs == TransferOffchainTx
SignedMessages == {messageOfTx(tx) : tx \in Txs}

StateMaps == [DOMAIN GenesisStates -> L2State]
Pools == [DOMAIN FeeReceivers -> Seq(Txs)]
Status == [status : {"Pending", "Submitted", "Failed"}, batchID : Int]
StatusMaps == UNION {[M -> Status] : M \in SUBSET SignedMessages}
Results == {"Ok", "TransactionAlreadyExists", "TransactionDoesNotExist", "StatusTransitionInvalid"}
Outcomes == [result : Results, statuses : StatusMaps]

MadeCommits ==
  {fromTxs(t[1], t[2], t[3]) : t \in Seq(Txs) \X StateMaps \X DOMAIN GenesisStates}
MadeBatches == Seq(MadeCommits)
Chains == Seq(MadeBatches \cup {<<Genesis>>})

PackerType ==
  [pc : {"idle", "piping", "packing", "committing", "submitting", "recording", "waiting", "dead"},
   tokenID : DOMAIN FeeReceivers \cup {NoToken}, accepted : Seq(Txs), failed : Seq(Txs),
   commits : MadeBatches, acceptedTxs : Seq(Txs), failedTxs : Seq(Txs)]
TxnType ==
  [status : {"none", "pending", "mined", "reverted"}, batchID : Int, commits : MadeBatches]
SimulatorType ==
  [used : BOOLEAN, numTransfers : Nat, user : DOMAIN Users, last : Seq(Txs)]

IsChain(chain) ==
  /\ chain \in Chains /\ Len(chain) >= 1 /\ chain[1] = <<Genesis>>
  /\ \A b \in 2 .. Len(chain) : chain[b] \in MadeBatches

TypeInv ==
  /\ states \in StateMaps
  /\ statuses \in StatusMaps
  /\ IsChain(stored) /\ IsChain(rollup) /\ IsChain(Sent) /\ l1Txn \in TxnType
  /\ pool \in Pools
  /\ simulator \in SimulatorType
  /\ packer \in PackerType
  /\ pushes \in Nat

\* A pipe of the simulator is of a token that is configured.
PipeInv ==
  simulator.used /\ packer.pc = "packing" => packer.tokenID \in DOMAIN FeeReceivers

(***************************************************************************)
(* Messages.                                                               *)
(***************************************************************************)
LEMMA Limits ==
  /\ MAX_TXS_PER_COMMIT \in Nat \ {0} /\ MAX_COMMIT_PER_BATCH \in Nat \ {0}
  /\ maxTransfers \in Nat \ {0} /\ MaxPushes \in Nat \ {0} /\ MaxTogether \in Nat \ {0}
BY PackingAssumption

LEMMA Joined ==
  ASSUME NEW a, NEW b, NEW c, NEW d, NEW e
  PROVE  <<1>> \o <<a, b, c, d, e>> = <<1, a, b, c, d, e>>
<1> DEFINE A == {1, a, b, c, d, e}
           s == <<1>>
           t == <<a, b, c, d, e>>
           u == <<1, a, b, c, d, e>>
<1>1. s \in Seq(A) /\ Len(s) = 1 /\ s[1] = 1
  OBVIOUS
<1>2. /\ t \in Seq(A) /\ Len(t) = 5
      /\ t[1] = a /\ t[2] = b /\ t[3] = c /\ t[4] = d /\ t[5] = e
  OBVIOUS
<1>3. /\ u \in Seq(A) /\ Len(u) = 6 /\ u[1] = 1
      /\ u[2] = a /\ u[3] = b /\ u[4] = c /\ u[5] = d /\ u[6] = e
  OBVIOUS
<1> HIDE DEF A, s, t, u
<1>4. /\ s \o t \in Seq(A) /\ Len(s \o t) = Len(s) + Len(t)
      /\ \A i \in 1 .. Len(s) + Len(t) :
           (s \o t)[i] = IF i <= Len(s) THEN s[i] ELSE t[i - Len(s)]
  BY <1>1, <1>2, ConcatProperties
<1>5. ASSUME NEW i \in 1 .. 6 PROVE (s \o t)[i] = u[i]
  <2>1. (s \o t)[i] = IF i <= 1 THEN s[i] ELSE t[i - 1]
    BY <1>1, <1>2, <1>4
  <2>2. i = 1 \/ i = 2 \/ i = 3 \/ i = 4 \/ i = 5 \/ i = 6
    OBVIOUS
  <2> QED
    BY <1>1, <1>2, <1>3, <2>1, <2>2
<1>6. s \o t = u
  <2>1. Len(s \o t) = 6 /\ Len(u) = 6
    BY <1>1, <1>2, <1>3, <1>4
  <2> QED
    BY <1>3, <1>4, <1>5, <2>1, SeqEqual
<1> QED
  BY <1>6 DEF s, t, u

\* What is signed has its sender second and its nonce fourth.
LEMMA MessageIs ==
  ASSUME NEW tx
  PROVE  messageOfTx(tx) = <<1, tx.from, tx.to, tx.nonce, tx.amount, tx.fee>>
<1> DEFINE fields == <<"from", "to", "nonce", "amount", "fee">>
           rest == [i \in DOMAIN fields |->
                      IF fields[i] = "toPubkey" THEN hashPubkey(tx.toPubkey) ELSE tx[fields[i]]]
<1>1. TxClass("Transfer") = TxTransfer
  BY DEF TxClass
<1>2. TxTransfer.type = 1 /\ TxTransfer.message = fields
  BY DEF TxTransfer
<1>3. messageOfTx(tx) = <<1>> \o rest
  BY <1>1, <1>2 DEF messageOfTx, message
<1>4. DOMAIN fields = 1 .. 5
  OBVIOUS
<1>5. rest = <<tx.from, tx.to, tx.nonce, tx.amount, tx.fee>>
  <2>1. rest = [i \in 1 .. 5 |-> IF fields[i] = "toPubkey" THEN hashPubkey(tx.toPubkey)
                                  ELSE tx[fields[i]]]
    BY <1>4
  <2>2. /\ rest[1] = tx.from /\ rest[2] = tx.to /\ rest[3] = tx.nonce /\ rest[4] = tx.amount
        /\ rest[5] = tx.fee
    BY <2>1
  <2> HIDE DEF rest
  <2> QED
    BY <2>1, <2>2
<1> HIDE DEF rest
<1> QED
  BY <1>3, <1>5, Joined

LEMMA MessageFields ==
  ASSUME NEW tx \in Txs
  PROVE  /\ messageOfTx(tx) \in SignedMessages
         /\ messageOfTx(tx)[2] = tx.from /\ messageOfTx(tx)[4] = tx.nonce
BY MessageIs DEF SignedMessages

LEMMA MoreTxs ==
  ASSUME NEW txs \in Seq(Txs), NEW tx \in Txs
  PROVE  /\ Append(txs, tx) \in Seq(Txs)
         /\ MessagesOf(Append(txs, tx)) = MessagesOf(txs) \cup {messageOfTx(tx)}
<1>1. PICK n \in Nat : n = Len(txs) /\ DOMAIN txs = 1 .. n
  OBVIOUS
<1>2. PICK more \in Seq(Txs) : more = Append(txs, tx)
  <2>1. Append(txs, tx) \in Seq(Txs)
    OBVIOUS
  <2> QED
    BY <2>1
<1>3. DOMAIN more = 1 .. n + 1 /\ more[n + 1] = tx /\ \A c \in 1 .. n : more[c] = txs[c]
  BY <1>1, <1>2
<1>4. 1 .. n + 1 = 1 .. n \cup {n + 1}
  OBVIOUS
<1>5. MessagesOf(more) = {messageOfTx(more[i]) : i \in 1 .. n} \cup {messageOfTx(more[n + 1])}
  BY <1>3, <1>4 DEF MessagesOf
<1> QED
  BY <1>1, <1>2, <1>3, <1>5 DEF MessagesOf

LEMMA JoinedTxs ==
  ASSUME NEW txs \in Seq(Txs), NEW more \in Seq(Txs)
  PROVE  /\ txs \o more \in Seq(Txs)
         /\ MessagesOf(txs \o more) = MessagesOf(txs) \cup MessagesOf(more)
<1>1. PICK m, n \in Nat : m = Len(txs) /\ DOMAIN txs = 1 .. m /\ n = Len(more) /\ DOMAIN more = 1 .. n
  OBVIOUS
<1>2. /\ txs \o more \in Seq(Txs) /\ Len(txs \o more) = m + n
      /\ \A i \in 1 .. m + n : (txs \o more)[i] = IF i <= m THEN txs[i] ELSE more[i - m]
  BY <1>1, ConcatProperties
<1>3. PICK all \in Seq(Txs) : all = txs \o more
  BY <1>2
<1>4. DOMAIN all = 1 .. m + n /\ \A i \in 1 .. m + n : all[i] = IF i <= m THEN txs[i] ELSE more[i - m]
  BY <1>2, <1>3
<1>5. ASSUME NEW x \in MessagesOf(all) PROVE x \in MessagesOf(txs) \cup MessagesOf(more)
  <2>1. PICK i \in 1 .. m + n : x = messageOfTx(all[i])
    BY <1>4, <1>5 DEF MessagesOf
  <2>2. CASE i <= m
    <3>1. i \in 1 .. m /\ all[i] = txs[i]
      BY <1>4, <2>2
    <3> QED
      BY <1>1, <2>1, <3>1 DEF MessagesOf
  <2>3. CASE i > m
    <3>1. i - m \in 1 .. n /\ all[i] = more[i - m]
      BY <1>4, <2>3
    <3> QED
      BY <1>1, <2>1, <3>1 DEF MessagesOf
  <2> QED
    BY <2>2, <2>3
<1>6. ASSUME NEW x \in MessagesOf(txs) PROVE x \in MessagesOf(all)
  <2>1. PICK i \in 1 .. m : x = messageOfTx(txs[i])
    BY <1>1, <1>6 DEF MessagesOf
  <2>2. i \in 1 .. m + n /\ all[i] = txs[i]
    BY <1>4
  <2> QED
    BY <1>4, <2>1, <2>2 DEF MessagesOf
<1>7. ASSUME NEW x \in MessagesOf(more) PROVE x \in MessagesOf(all)
  <2>1. PICK i \in 1 .. n : x = messageOfTx(more[i])
    BY <1>1, <1>7 DEF MessagesOf
  <2>2. i + m \in 1 .. m + n /\ all[i + m] = more[i]
    BY <1>4
  <2> QED
    BY <1>4, <2>1, <2>2 DEF MessagesOf
<1> QED
  BY <1>2, <1>3, <1>5, <1>6, <1>7

(***************************************************************************)
(* The pool.                                                               *)
(***************************************************************************)
\* A queue that keeps its messages, but for those of M.
LEMMA QueueChanges ==
  ASSUME NEW p \in Pools, NEW t \in DOMAIN FeeReceivers, NEW q \in Seq(Txs), NEW M,
         MessagesOf(p[t]) \subseteq MessagesOf(q) \cup M
  PROVE  /\ [p EXCEPT ![t] = q] \in Pools
         /\ PoolMessages(p) \subseteq PoolMessages([p EXCEPT ![t] = q]) \cup M
         /\ MessagesOf(q) \subseteq PoolMessages([p EXCEPT ![t] = q])
<1> DEFINE r == [p EXCEPT ![t] = q]
<1>1. /\ r \in Pools /\ DOMAIN r = DOMAIN FeeReceivers /\ DOMAIN p = DOMAIN FeeReceivers
      /\ r[t] = q /\ \A u \in DOMAIN FeeReceivers \ {t} : r[u] = p[u]
  BY DEF Pools
<1> HIDE DEF r
<1>2. MessagesOf(q) \subseteq PoolMessages(r)
  BY <1>1 DEF PoolMessages
<1>3. ASSUME NEW m \in PoolMessages(p) PROVE m \in PoolMessages(r) \cup M
  <2>1. PICK u \in DOMAIN FeeReceivers : m \in MessagesOf(p[u])
    BY <1>1, <1>3 DEF PoolMessages
  <2>2. CASE u = t
    BY <1>2, <2>1, <2>2
  <2>3. CASE u # t
    <3>1. r[u] = p[u]
      BY <1>1, <2>3
    <3> QED
      BY <1>1, <2>1, <3>1 DEF PoolMessages
  <2> QED
    BY <2>2, <2>3
<1> QED
  BY <1>1, <1>2, <1>3 DEF r

pushed(p, st, txs) == FoldLeft(LAMBDA pl, tx : push(pl, st, tx), p, txs)

\* A push that does not throw adds its transfer.
LEMMA PushAdds ==
  ASSUME NEW p \in Pools, NEW st, NEW tx \in Txs
  PROVE  /\ push(p, st, tx) \in Pools
         /\ PoolMessages(p) \subseteq PoolMessages(push(p, st, tx))
         /\ CanPush(p, st, tx) => messageOfTx(tx) \in PoolMessages(push(p, st, tx))
<1>1. CASE CanPush(p, st, tx)
  <2>1. PICK t : t = st[tx.from].tokenID
    OBVIOUS
  <2>2. t \in DOMAIN FeeReceivers
    BY <1>1, <2>1 DEF CanPush, Pools
  <2>3. p[t] \in Seq(Txs)
    BY <2>2 DEF Pools
  <2>4. PICK q \in Seq(Txs) : /\ q = Append(p[t], tx)
                              /\ MessagesOf(q) = MessagesOf(p[t]) \cup {messageOfTx(tx)}
    BY <2>3, MoreTxs
  <2>5. push(p, st, tx) = [p EXCEPT ![t] = q]
    BY <1>1, <2>1, <2>4 DEF push
  <2>6. MessagesOf(p[t]) \subseteq MessagesOf(q) \cup {}
    BY <2>4
  <2>7. /\ [p EXCEPT ![t] = q] \in Pools
        /\ PoolMessages(p) \subseteq PoolMessages([p EXCEPT ![t] = q]) \cup {}
        /\ MessagesOf(q) \subseteq PoolMessages([p EXCEPT ![t] = q])
    BY <2>2, <2>4, <2>6, QueueChanges
  <2> QED
    BY <2>4, <2>5, <2>7
<1>2. CASE ~CanPush(p, st, tx)
  BY <1>2 DEF push
<1> QED
  BY <1>1, <1>2

\* The pools as pushes add to them, one by one.
IsPushRun(run, p, st, n, seq) ==
  /\ run[0] = p
  /\ \A k \in 1 .. n : run[k] = push(run[k - 1], st, seq[k])
  /\ \A k \in 0 .. n : run[k] \in Pools

LEMMA PushRuns ==
  ASSUME NEW p \in Pools, NEW st, NEW n \in Nat, NEW seq \in [1 .. n -> Txs]
  PROVE  \E run : IsPushRun(run, p, st, n, seq) /\ pushed(p, st, seq) = run[n]
<1> DEFINE S == 1 .. n
           folds(iter) == iter = [s \in SUBSET S |->
             IF s = {} THEN p
             ELSE push(iter[s \ {Max(s)}], st, seq[Max(s)])]
           full == CHOOSE iter : folds(iter)
<1>1. \A s \in SUBSET S : s # {} => Max(s) \in s
  BY LastChooses
<1>2. \A i \in 1 .. n, a \in Pools : push(a, st, seq[i]) \in Pools
  <2> TAKE i \in 1 .. n, a \in Pools
  <2>1. seq[i] \in Txs
    OBVIOUS
  <2> QED
    BY <2>1, PushAdds
<1>3. p \in Pools
  OBVIOUS
<1>4. \E iter : folds(iter) /\ \A s \in SUBSET S : iter[s] \in Pools
  <2> DEFINE step == [i \in S |-> [a \in Pools |-> push(a, st, seq[i])]]
  <2>1. \A i \in 1 .. n, a \in Pools :
          step[i][a] = push(a, st, seq[i]) /\ step[i][a] \in Pools
    BY <1>2
  <2> HIDE DEF step
  <2>2. PICK iter : /\ IsSequenceFold(iter, n, p, step)
                    /\ \A s \in SUBSET (1 .. n) : iter[s] \in Pools
    <3>1. \A i \in 1 .. n, a \in Pools : step[i][a] \in Pools
      BY <2>1
    <3> QED
      BY <1>3, <3>1, SequenceFold
  <2>3. ASSUME NEW s \in SUBSET S
        PROVE  iter[s] = IF s = {} THEN p
                         ELSE push(iter[s \ {Max(s)}], st, seq[Max(s)])
    <3>1. iter[s] = IF s = {} THEN p ELSE step[Max(s)][iter[s \ {Max(s)}]]
      BY <2>2 DEF IsSequenceFold
    <3>2. s # {} => Max(s) \in 1 .. n /\ iter[s \ {Max(s)}] \in Pools
      BY <1>1, <2>2
    <3> QED
      BY <2>1, <3>1, <3>2
  <2>4. iter = [s \in SUBSET S |-> iter[s]]
    BY <2>2 DEF IsSequenceFold
  <2> HIDE DEF S
  <2>5. folds(iter)
    BY <2>3, <2>4
  <2> HIDE DEF folds
  <2> QED
    BY <2>2, <2>5 DEF S
<1>5. folds(full)
  <2> HIDE DEF folds
  <2> QED
    BY <1>4
<1>6. pushed(p, st, seq) = full[S]
  BY DEF pushed, FoldLeft, MapThenFoldSet, Max
<1> HIDE DEF full
<1> DEFINE run == [k \in 0 .. n |-> full[1 .. k]]
<1>7. run[0] = p
  BY <1>5, RangesFromOne
<1>8. ASSUME NEW k \in 1 .. n PROVE run[k] = push(run[k - 1], st, seq[k])
  <2>1. /\ 1 .. k \in SUBSET S /\ 1 .. k # {} /\ k - 1 \in 0 .. n /\ k \in 0 .. n
        /\ (1 .. k) \ {Max(1 .. k)} = 1 .. k - 1 /\ Max(1 .. k) = k
    BY RangesFromOne
  <2>2. run[k] = full[1 .. k] /\ run[k - 1] = full[1 .. k - 1]
    BY <2>1
  <2>3. full[1 .. k] = push(full[1 .. k - 1], st, seq[k])
    BY <1>5, <2>1
  <2> QED
    BY <2>2, <2>3
<1>9. run[n] = full[S]
  OBVIOUS
<1> HIDE DEF run
<1>10. \A k \in 0 .. n : run[k] \in Pools
  <2> DEFINE typed == {k \in 0 .. n : run[k] \in Pools}
  <2>1. 0 \in typed
    BY <1>3, <1>7
  <2>2. ASSUME NEW k \in typed \cap 0 .. n - 1 PROVE k + 1 \in typed
    <3>1. k + 1 \in 1 .. n /\ k + 1 \in 0 .. n /\ (k + 1) - 1 = k
      OBVIOUS
    <3>2. run[k + 1] = push(run[k], st, seq[k + 1])
      BY <1>8, <3>1
    <3> QED
      BY <1>2, <3>1, <3>2
  <2> HIDE DEF typed
  <2>3. 0 .. n \subseteq typed
    BY <2>1, <2>2, NumbersUpTo
  <2> QED
    BY <2>3 DEF typed
<1> QED
  BY <1>6, <1>7, <1>8, <1>9, <1>10 DEF IsPushRun

LEMMA PushesAdd ==
  ASSUME NEW p \in Pools, NEW st, NEW n \in Nat, NEW seq \in [1 .. n -> Txs]
  PROVE  /\ pushed(p, st, seq) \in Pools
         /\ PoolMessages(p) \subseteq PoolMessages(pushed(p, st, seq))
         /\ \A i \in 1 .. n : CanPush(p, st, seq[i]) =>
              messageOfTx(seq[i]) \in PoolMessages(pushed(p, st, seq))
<1>0. PICK run : IsPushRun(run, p, st, n, seq) /\ pushed(p, st, seq) = run[n]
  BY PushRuns
<1>1. /\ run[0] = p
      /\ \A k \in 1 .. n : run[k] = push(run[k - 1], st, seq[k])
      /\ \A k \in 0 .. n : run[k] \in Pools
      /\ pushed(p, st, seq) = run[n]
  BY <1>0 DEF IsPushRun
<1> DEFINE good(k) ==
             /\ PoolMessages(p) \subseteq PoolMessages(run[k])
             /\ \A i \in 1 .. k : CanPush(p, st, seq[i]) => messageOfTx(seq[i]) \in PoolMessages(run[k])
           T == {k \in 0 .. n : good(k)}
<1>2. 0 \in T
  BY <1>1
<1>3. ASSUME NEW k \in T \cap 0 .. n - 1 PROVE k + 1 \in T
  <2>1. k + 1 \in 1 .. n /\ k + 1 \in 0 .. n /\ (k + 1) - 1 = k /\ k \in 0 .. n
    OBVIOUS
  <2>2. PICK q \in Pools, tx \in Txs : q = run[k] /\ tx = seq[k + 1]
    BY <1>1, <2>1
  <2>3. run[k + 1] = push(q, st, tx)
    BY <1>1, <2>1, <2>2
  <2>4. CanPush(q, st, tx) <=> CanPush(p, st, tx)
    BY DEF CanPush, Pools
  <2>5. /\ PoolMessages(q) \subseteq PoolMessages(run[k + 1])
        /\ CanPush(p, st, tx) => messageOfTx(tx) \in PoolMessages(run[k + 1])
    BY <2>3, <2>4, PushAdds
  <2>6. good(k)
    OBVIOUS
  <2>7. ASSUME NEW i \in 1 .. k + 1, CanPush(p, st, seq[i])
        PROVE  messageOfTx(seq[i]) \in PoolMessages(run[k + 1])
    <3>1. CASE i = k + 1
      BY <2>2, <2>5, <2>7, <3>1
    <3>2. CASE i # k + 1
      <4>1. i \in 1 .. k
        BY <2>1, <3>2
      <4>2. messageOfTx(seq[i]) \in PoolMessages(run[k])
        BY <2>6, <2>7, <4>1
      <4> QED
        BY <2>2, <2>5, <4>2
    <3> QED
      BY <3>1, <3>2
  <2>8. PoolMessages(p) \subseteq PoolMessages(run[k + 1])
    BY <2>2, <2>5, <2>6
  <2>9. good(k + 1)
    BY <2>7, <2>8
  <2> QED
    BY <2>1, <2>9
<1> HIDE DEF good
<1>4. 0 .. n \subseteq T
  <2> HIDE DEF T
  <2> QED
    BY <1>2, <1>3, NumbersUpTo
<1>5. n \in 0 .. n /\ good(n)
  BY <1>4
<1> QED
  BY <1>1, <1>5 DEF good

\* A queue that is not empty has a last transfer by fee, which pop takes out.
LEMMA PopTakes ==
  ASSUME NEW p \in Pools, NEW t \in DOMAIN FeeReceivers, Len(p[t]) > 0
  PROVE  /\ pop(p, t).tx \in Txs /\ pop(p, t).pool \in Pools
         /\ PoolMessages(p) \subseteq PoolMessages(pop(p, t).pool) \cup {messageOfTx(pop(p, t).tx)}
<1>1. PICK q : q = p[t]
  OBVIOUS
<1>2. q \in Seq(Txs) /\ Len(q) \in Nat /\ Len(q) > 0 /\ DOMAIN q = 1 .. Len(q)
  BY <1>1 DEF Pools
<1>3. \A i \in 1 .. Len(q) : q[i] \in Txs /\ q[i].fee \in Nat
  <2> TAKE i \in 1 .. Len(q)
  <2>1. q[i] \in Txs
    BY <1>2
  <2> QED
    BY <2>1 DEF Txs, TransferOffchainTx
<1>4. \E i \in DOMAIN q : \A k \in DOMAIN q :
        q[k].fee < q[i].fee \/ (q[k].fee = q[i].fee /\ k <= i)
  <2> DEFINE fees == {q[i].fee : i \in 1 .. Len(q)}
  <2>1. fees \subseteq Nat /\ fees # {}
    <3>1. 1 \in 1 .. Len(q)
      BY <1>2
    <3> QED
      BY <1>3, <3>1
  <2>2. IsFiniteSet(fees)
    <3> DEFINE feeOf == [i \in 1 .. Len(q) |-> q[i].fee]
    <3>1. fees = {feeOf[i] : i \in 1 .. Len(q)}
      OBVIOUS
    <3>2. IsFiniteSet(1 .. Len(q))
      BY <1>2, FS_Interval
    <3> HIDE DEF feeOf
    <3>3. IsFiniteSet({feeOf[i] : i \in 1 .. Len(q)})
      BY <3>2, FiniteImage
    <3> QED
      BY <3>1, <3>3
  <2>3. PICK f : f = Max(fees)
    OBVIOUS
  <2>4. f \in fees /\ \A g \in fees : g <= f
    <3> HIDE DEF fees
    <3> QED
      BY <2>1, <2>2, <2>3, LargestNumber
  <2> DEFINE best == {i \in 1 .. Len(q) : q[i].fee = f}
  <2>5. best \subseteq Nat /\ best # {}
    BY <2>4
  <2>6. IsFiniteSet(best)
    <3>1. IsFiniteSet(1 .. Len(q))
      BY <1>2, FS_Interval
    <3>2. best \subseteq 1 .. Len(q)
      OBVIOUS
    <3> HIDE DEF best
    <3> QED
      BY <3>1, <3>2, FS_Subset
  <2>7. PICK i : i = Max(best)
    OBVIOUS
  <2>8. i \in best /\ \A k \in best : k <= i
    <3> HIDE DEF best
    <3> QED
      BY <2>5, <2>6, <2>7, LargestNumber
  <2>9. i \in 1 .. Len(q) /\ q[i].fee = f
    BY <2>8
  <2>10. ASSUME NEW k \in 1 .. Len(q)
         PROVE  q[k].fee < q[i].fee \/ (q[k].fee = q[i].fee /\ k <= i)
    <3>1. q[k].fee \in fees
      OBVIOUS
    <3>2. q[k].fee <= f /\ q[k].fee \in Nat /\ f \in Nat
      BY <1>3, <2>1, <2>4, <3>1
    <3>3. q[k].fee = f => k \in best
      OBVIOUS
    <3> QED
      BY <2>8, <2>9, <3>2, <3>3
  <2> HIDE DEF best, fees
  <2> QED
    BY <1>2, <2>9, <2>10
<1>5. PICK i : i = LastByFee(q)
  OBVIOUS
<1>6. i \in 1 .. Len(q)
  BY <1>2, <1>4, <1>5 DEF LastByFee
<1>7. pop(p, t).tx = q[i] /\ pop(p, t).pool = [p EXCEPT ![t] = RemoveAt(q, i)]
  BY <1>1, <1>5 DEF pop
<1>8. /\ RemoveAt(q, i) \in Seq(Txs)
      /\ MessagesOf(q) \subseteq MessagesOf(RemoveAt(q, i)) \cup {messageOfTx(q[i])}
  <2>1. PICK front, back : front = SubSeq(q, 1, i - 1) /\ back = SubSeq(q, i + 1, Len(q))
    OBVIOUS
  <2>2. PICK n \in Nat : n = Len(q)
    BY <1>2
  <2>3. i \in Int /\ 1 <= i /\ i <= n
    BY <1>6, <2>2
  <2>4. \A j \in 1 .. i - 1 : q[j] \in Txs
    BY <1>3, <2>2, <2>3
  <2>5. \A j \in i + 1 .. n : q[j] \in Txs
    BY <1>3, <2>2, <2>3
  <2>6. /\ front \in Seq(Txs) /\ Len(front) = i - 1
        /\ \A j \in 1 .. i - 1 : front[j] = q[j]
    <3>1. /\ front \in Seq(Txs) /\ Len(front) = IF 1 <= i - 1 THEN (i - 1) - 1 + 1 ELSE 0
          /\ \A j \in 1 .. (i - 1) - 1 + 1 : front[j] = q[1 + j - 1]
      BY <2>1, <2>3, <2>4, SubSeqProperties
    <3>2. \A j \in 1 .. i - 1 : 1 + j - 1 = j /\ j \in 1 .. (i - 1) - 1 + 1
      BY <2>3
    <3> QED
      BY <2>3, <3>1, <3>2
  <2>7. /\ back \in Seq(Txs) /\ Len(back) = n - i
        /\ \A j \in 1 .. n - i : back[j] = q[i + j]
    <3>1. /\ back \in Seq(Txs) /\ Len(back) = IF i + 1 <= n THEN n - (i + 1) + 1 ELSE 0
          /\ \A j \in 1 .. n - (i + 1) + 1 : back[j] = q[(i + 1) + j - 1]
      BY <2>1, <2>2, <2>3, <2>5, SubSeqProperties
    <3>2. \A j \in 1 .. n - i : (i + 1) + j - 1 = i + j /\ j \in 1 .. n - (i + 1) + 1
      BY <2>3
    <3> QED
      BY <2>3, <3>1, <3>2
  <2>8. /\ front \o back \in Seq(Txs)
        /\ MessagesOf(front \o back) = MessagesOf(front) \cup MessagesOf(back)
    BY <2>6, <2>7, JoinedTxs
  <2>9. RemoveAt(q, i) = front \o back
    BY <2>1 DEF RemoveAt
  <2>10. ASSUME NEW m \in MessagesOf(q)
         PROVE  m \in MessagesOf(front) \cup MessagesOf(back) \cup {messageOfTx(q[i])}
    <3>1. PICK j \in 1 .. n : m = messageOfTx(q[j])
      BY <1>2, <2>2, <2>10 DEF MessagesOf
    <3>2. CASE j < i
      <4>1. j \in DOMAIN front /\ front[j] = q[j]
        BY <2>3, <2>6, <3>2
      <4> QED
        BY <3>1, <4>1 DEF MessagesOf
    <3>3. CASE j > i
      <4>1. PICK k \in 1 .. n - i : i + k = j
        <5>1. j - i \in 1 .. n - i /\ i + (j - i) = j
          BY <2>3, <3>3
        <5> QED
          BY <5>1
      <4>2. k \in DOMAIN back /\ back[k] = q[j]
        BY <2>3, <2>7, <4>1
      <4> QED
        BY <3>1, <4>2 DEF MessagesOf
    <3>4. CASE j = i
      BY <3>1, <3>4
    <3> QED
      BY <2>3, <3>2, <3>3, <3>4
  <2> QED
    BY <2>8, <2>9, <2>10
<1>9. PICK r \in Seq(Txs) : r = RemoveAt(q, i)
  BY <1>8
<1>10. MessagesOf(p[t]) \subseteq MessagesOf(r) \cup {messageOfTx(q[i])}
  BY <1>1, <1>8, <1>9
<1>11. /\ [p EXCEPT ![t] = r] \in Pools
       /\ PoolMessages(p) \subseteq PoolMessages([p EXCEPT ![t] = r]) \cup {messageOfTx(q[i])}
  BY <1>10, QueueChanges
<1> QED
  BY <1>3, <1>6, <1>7, <1>9, <1>11

(***************************************************************************)
(* The statuses.                                                           *)
(***************************************************************************)
Told == {"Pending", "Submitted", "Failed"}

IsWith(s, t, m, status, batchID) ==
  /\ t \in StatusMaps /\ DOMAIN t = DOMAIN s \cup {m}
  /\ t[m].status = status /\ t[m].batchID = batchID
  /\ \A k \in DOMAIN s : k # m => t[k] = s[k]

LEMMA WithIs ==
  ASSUME NEW s \in StatusMaps, NEW m \in SignedMessages, NEW status \in Told,
         NEW batchID \in Int
  PROVE  IsWith(s, With(s, m, status, batchID).statuses, m, status, batchID)
<1> DEFINE t == With(s, m, status, batchID).statuses
<1>1. s \in [DOMAIN s -> Status] /\ DOMAIN s \subseteq SignedMessages
  BY DEF StatusMaps
<1>2. [status |-> status, batchID |-> batchID] \in Status
  BY DEF Status, Told
<1>3. t = [k \in DOMAIN s \cup {m} |->
             IF k = m THEN [status |-> status, batchID |-> batchID] ELSE s[k]]
  BY DEF With
<1> HIDE DEF t
<1>4. t \in [DOMAIN s \cup {m} -> Status]
  BY <1>1, <1>2, <1>3
<1>5. IsWith(s, t, m, status, batchID)
  BY <1>1, <1>3, <1>4 DEF StatusMaps, IsWith
<1> QED
  BY <1>5 DEF t

LEMMA StatusIs ==
  ASSUME NEW s \in StatusMaps, NEW m \in DOMAIN s
  PROVE  s[m] \in Status /\ s[m].status \in Told /\ s[m].batchID \in Int /\ m \in SignedMessages
BY DEF StatusMaps, Status, Told

\* Transfers that were not known become pending.
Extends(s, t) ==
  /\ t \in StatusMaps /\ DOMAIN s \subseteq DOMAIN t
  /\ \A m \in DOMAIN s : t[m] = s[m]
  /\ \A m \in DOMAIN t \ DOMAIN s : t[m].status = "Pending" /\ t[m].batchID = NoBatch

LEMMA PendingExtends ==
  ASSUME NEW s \in StatusMaps, NEW m \in SignedMessages
  PROVE  /\ Extends(s, pending(s, m).statuses)
         /\ DOMAIN pending(s, m).statuses \subseteq DOMAIN s \cup {m}
<1>1. CASE m \in DOMAIN s
  BY <1>1 DEF pending, Known, Kept, Extends
<1>2. CASE m \notin DOMAIN s
  <2>1. PICK t : t = With(s, m, "Pending", NoBatch).statuses
    OBVIOUS
  <2>2. IsWith(s, t, m, "Pending", NoBatch)
    <3>1. "Pending" \in Told /\ NoBatch \in Int
      BY DEF Told, NoBatch
    <3> QED
      BY <2>1, <3>1, WithIs
  <2>3. pending(s, m).statuses = t
    BY <1>2, <2>1 DEF pending, Known
  <2> QED
    BY <1>2, <2>2, <2>3 DEF Extends, IsWith
<1> QED
  BY <1>1, <1>2

LEMMA PendingOfExtends ==
  ASSUME NEW s \in StatusMaps, NEW tx \in Txs
  PROVE  /\ pendingOf(s, tx) \in StatusMaps /\ Extends(s, pendingOf(s, tx))
         /\ \A m \in DOMAIN pendingOf(s, tx) \ DOMAIN s :
              m = messageOfTx(tx) /\ CanPush(pool, states, tx)
<1>1. messageOfTx(tx) \in SignedMessages
  BY MessageFields
<1>2. /\ Extends(s, pending(s, messageOfTx(tx)).statuses)
      /\ DOMAIN pending(s, messageOfTx(tx)).statuses \subseteq DOMAIN s \cup {messageOfTx(tx)}
  BY <1>1, PendingExtends
<1>3. Extends(s, s)
  BY DEF Extends
<1> QED
  BY <1>2, <1>3 DEF pendingOf, Extends

pendingAll(s, txs) == FoldLeft(pendingOf, s, txs)

\* The statuses as pushed transfers become pending.
IsPendingRun(run, sts, n, seq) ==
  /\ run[0] = sts
  /\ \A k \in 1 .. n : run[k] = pendingOf(run[k - 1], seq[k])
  /\ \A k \in 0 .. n : run[k] \in StatusMaps

LEMMA PendingRuns ==
  ASSUME NEW sts \in StatusMaps, NEW n \in Nat, NEW seq \in [1 .. n -> Txs]
  PROVE  \E run : IsPendingRun(run, sts, n, seq) /\ pendingAll(sts, seq) = run[n]
<1> DEFINE S == 1 .. n
           folds(iter) == iter = [s \in SUBSET S |->
             IF s = {} THEN sts
             ELSE pendingOf(iter[s \ {Max(s)}], seq[Max(s)])]
           full == CHOOSE iter : folds(iter)
<1>1. \A s \in SUBSET S : s # {} => Max(s) \in s
  BY LastChooses
<1>2. \A i \in 1 .. n, a \in StatusMaps : pendingOf(a, seq[i]) \in StatusMaps
  <2> TAKE i \in 1 .. n, a \in StatusMaps
  <2>1. seq[i] \in Txs
    OBVIOUS
  <2> QED
    BY <2>1, PendingOfExtends
<1>3. sts \in StatusMaps
  OBVIOUS
<1>4. \E iter : folds(iter) /\ \A s \in SUBSET S : iter[s] \in StatusMaps
  <2> DEFINE step == [i \in S |-> [a \in StatusMaps |-> pendingOf(a, seq[i])]]
  <2>1. \A i \in 1 .. n, a \in StatusMaps :
          step[i][a] = pendingOf(a, seq[i]) /\ step[i][a] \in StatusMaps
    BY <1>2
  <2> HIDE DEF step
  <2>2. PICK iter : /\ IsSequenceFold(iter, n, sts, step)
                    /\ \A s \in SUBSET (1 .. n) : iter[s] \in StatusMaps
    <3>1. \A i \in 1 .. n, a \in StatusMaps : step[i][a] \in StatusMaps
      BY <2>1
    <3> QED
      BY <1>3, <3>1, SequenceFold
  <2>3. ASSUME NEW s \in SUBSET S
        PROVE  iter[s] = IF s = {} THEN sts
                         ELSE pendingOf(iter[s \ {Max(s)}], seq[Max(s)])
    <3>1. iter[s] = IF s = {} THEN sts ELSE step[Max(s)][iter[s \ {Max(s)}]]
      BY <2>2 DEF IsSequenceFold
    <3>2. s # {} => Max(s) \in 1 .. n /\ iter[s \ {Max(s)}] \in StatusMaps
      BY <1>1, <2>2
    <3> QED
      BY <2>1, <3>1, <3>2
  <2>4. iter = [s \in SUBSET S |-> iter[s]]
    BY <2>2 DEF IsSequenceFold
  <2> HIDE DEF S
  <2>5. folds(iter)
    BY <2>3, <2>4
  <2> HIDE DEF folds
  <2> QED
    BY <2>2, <2>5 DEF S
<1>5. folds(full)
  <2> HIDE DEF folds
  <2> QED
    BY <1>4
<1>6. pendingAll(sts, seq) = full[S]
  BY DEF pendingAll, FoldLeft, MapThenFoldSet, Max
<1> HIDE DEF full
<1> DEFINE run == [k \in 0 .. n |-> full[1 .. k]]
<1>7. run[0] = sts
  BY <1>5, RangesFromOne
<1>8. ASSUME NEW k \in 1 .. n PROVE run[k] = pendingOf(run[k - 1], seq[k])
  <2>1. /\ 1 .. k \in SUBSET S /\ 1 .. k # {} /\ k - 1 \in 0 .. n /\ k \in 0 .. n
        /\ (1 .. k) \ {Max(1 .. k)} = 1 .. k - 1 /\ Max(1 .. k) = k
    BY RangesFromOne
  <2>2. run[k] = full[1 .. k] /\ run[k - 1] = full[1 .. k - 1]
    BY <2>1
  <2>3. full[1 .. k] = pendingOf(full[1 .. k - 1], seq[k])
    BY <1>5, <2>1
  <2> QED
    BY <2>2, <2>3
<1>9. run[n] = full[S]
  OBVIOUS
<1> HIDE DEF run
<1>10. \A k \in 0 .. n : run[k] \in StatusMaps
  <2> DEFINE typed == {k \in 0 .. n : run[k] \in StatusMaps}
  <2>1. 0 \in typed
    BY <1>3, <1>7
  <2>2. ASSUME NEW k \in typed \cap 0 .. n - 1 PROVE k + 1 \in typed
    <3>1. k + 1 \in 1 .. n /\ k + 1 \in 0 .. n /\ (k + 1) - 1 = k
      OBVIOUS
    <3>2. run[k + 1] = pendingOf(run[k], seq[k + 1])
      BY <1>8, <3>1
    <3> QED
      BY <1>2, <3>1, <3>2
  <2> HIDE DEF typed
  <2>3. 0 .. n \subseteq typed
    BY <2>1, <2>2, NumbersUpTo
  <2> QED
    BY <2>3 DEF typed
<1> QED
  BY <1>6, <1>7, <1>8, <1>9, <1>10 DEF IsPendingRun

LEMMA PendingsExtend ==
  ASSUME NEW s \in StatusMaps, NEW n \in Nat, NEW seq \in [1 .. n -> Txs]
  PROVE  /\ Extends(s, pendingAll(s, seq))
         /\ \A m \in DOMAIN pendingAll(s, seq) \ DOMAIN s :
              \E i \in 1 .. n : m = messageOfTx(seq[i]) /\ CanPush(pool, states, seq[i])
<1>0. PICK run : IsPendingRun(run, s, n, seq) /\ pendingAll(s, seq) = run[n]
  BY PendingRuns
<1>1. /\ run[0] = s
      /\ \A k \in 1 .. n : run[k] = pendingOf(run[k - 1], seq[k])
      /\ \A k \in 0 .. n : run[k] \in StatusMaps
  BY <1>0 DEF IsPendingRun
<1> DEFINE good(k) ==
             /\ Extends(s, run[k])
             /\ \A m \in DOMAIN run[k] \ DOMAIN s :
                  \E i \in 1 .. n : m = messageOfTx(seq[i]) /\ CanPush(pool, states, seq[i])
           T == {k \in 0 .. n : good(k)}
<1>2. 0 \in T
  BY <1>1 DEF Extends
<1>3. ASSUME NEW k \in T \cap 0 .. n - 1 PROVE k + 1 \in T
  <2>1. k + 1 \in 1 .. n /\ k + 1 \in 0 .. n /\ (k + 1) - 1 = k /\ k \in 0 .. n
    OBVIOUS
  <2>2. PICK tx \in Txs, t \in StatusMaps : tx = seq[k + 1] /\ t = run[k]
    BY <1>1, <2>1
  <2>3. run[k + 1] = pendingOf(t, tx)
    BY <1>1, <2>1, <2>2
  <2>4. /\ Extends(t, run[k + 1])
        /\ \A m \in DOMAIN run[k + 1] \ DOMAIN t : m = messageOfTx(tx) /\ CanPush(pool, states, tx)
    BY <2>3, PendingOfExtends
  <2>5. good(k)
    OBVIOUS
  <2>6. Extends(s, run[k + 1])
    BY <2>2, <2>4, <2>5 DEF Extends
  <2>7. ASSUME NEW m \in DOMAIN run[k + 1] \ DOMAIN s
        PROVE  \E i \in 1 .. n : m = messageOfTx(seq[i]) /\ CanPush(pool, states, seq[i])
    <3>1. CASE m \in DOMAIN t
      BY <2>2, <2>5, <3>1
    <3>2. CASE m \notin DOMAIN t
      BY <2>1, <2>2, <2>4, <3>2
    <3> QED
      BY <3>1, <3>2
  <2>8. good(k + 1)
    BY <2>6, <2>7
  <2> QED
    BY <2>1, <2>8
<1> HIDE DEF good
<1>4. 0 .. n \subseteq T
  <2> HIDE DEF T
  <2> QED
    BY <1>2, <1>3, NumbersUpTo
<1>5. n \in 0 .. n /\ good(n)
  BY <1>4
<1> QED
  BY <1>0, <1>5 DEF good

(***************************************************************************)
(* What is recorded of a batch.                                            *)
(***************************************************************************)
\* From s to t, messages of M were told to be in the batch, and some failed.
Recording(s, t, M, batchID) ==
  /\ t \in StatusMaps /\ DOMAIN t = DOMAIN s
  /\ \A m \in DOMAIN s :
       /\ t[m].batchID = s[m].batchID \/ (m \in M /\ t[m].batchID = batchID)
       /\ t[m].status = "Pending" => t[m] = s[m]
       /\ t[m].status = "Submitted" => t[m] = s[m] \/ t[m].batchID = batchID

\* Of those that are known, none is left to be told of.
NonePending(s, M) == \A m \in M : m \in DOMAIN s => s[m].status # "Pending"

submitStep(o, tx, batchID) ==
  AfterOk(o, submitted(o.statuses, messageOfTx(tx), batchID))
failStep(o, tx) == AfterOk(o, failed(o.statuses, messageOfTx(tx)))

LEMMA KeptIs ==
  ASSUME NEW s \in StatusMaps, NEW result \in Results
  PROVE  Kept(s, result) \in Outcomes /\ Kept(s, result).statuses = s /\ Kept(s, result).result = result
BY DEF Kept, Outcomes, Results

LEMMA SubmitSteps ==
  ASSUME NEW o \in Outcomes, NEW tx \in Txs, NEW batchID \in Nat
  PROVE  /\ submitStep(o, tx, batchID) \in Outcomes
         /\ submitStep(o, tx, batchID).result = "Ok" =>
              /\ o.result = "Ok"
              /\ messageOfTx(tx) \in DOMAIN submitStep(o, tx, batchID).statuses
              /\ submitStep(o, tx, batchID).statuses[messageOfTx(tx)].batchID = batchID
         /\ \A M : messageOfTx(tx) \in M =>
              Recording(o.statuses, submitStep(o, tx, batchID).statuses, M, batchID)
<1>1. PICK m \in SignedMessages : m = messageOfTx(tx)
  BY MessageFields
<1>2. PICK s \in StatusMaps : s = o.statuses
  BY DEF Outcomes
<1>3. CASE o.result = "Ok" /\ m \in DOMAIN s /\ validTransition(s[m].status, "Submitted")
  <2>1. PICK t : t = With(s, m, "Submitted", batchID).statuses
    OBVIOUS
  <2>2. IsWith(s, t, m, "Submitted", batchID)
    <3>1. "Submitted" \in Told /\ batchID \in Int
      BY DEF Told
    <3> QED
      BY <2>1, <3>1, WithIs
  <2>3. submitStep(o, tx, batchID) = [result |-> "Ok", statuses |-> t]
    BY <1>1, <1>2, <1>3, <2>1 DEF submitStep, AfterOk, submitted, Transition, Known, With
  <2>4. \A M : m \in M => Recording(s, t, M, batchID)
    BY <1>3, <2>2 DEF Recording, IsWith
  <2> QED
    BY <1>1, <1>2, <1>3, <2>2, <2>3, <2>4 DEF Outcomes, IsWith
<1>4. CASE ~(o.result = "Ok" /\ m \in DOMAIN s /\ validTransition(s[m].status, "Submitted"))
  <2>1. PICK u \in Outcomes : u = submitStep(o, tx, batchID) /\ u.statuses = s /\ u.result # "Ok"
    <3>1. CASE o.result # "Ok"
      BY <1>2, <3>1 DEF submitStep, AfterOk
    <3>2. CASE o.result = "Ok" /\ m \notin DOMAIN s
      <4>1. submitStep(o, tx, batchID) = Kept(s, "TransactionDoesNotExist")
        BY <1>1, <1>2, <3>2 DEF submitStep, AfterOk, submitted, Transition, Known
      <4> QED
        BY <4>1 DEF Kept, Outcomes, Results
    <3>3. CASE o.result = "Ok" /\ m \in DOMAIN s /\ ~validTransition(s[m].status, "Submitted")
      <4>1. submitStep(o, tx, batchID) = Kept(s, "StatusTransitionInvalid")
        BY <1>1, <1>2, <3>3 DEF submitStep, AfterOk, submitted, Transition, Known
      <4> QED
        BY <4>1 DEF Kept, Outcomes, Results
    <3> QED
      BY <1>4, <3>1, <3>2, <3>3
  <2>2. \A M : Recording(s, s, M, batchID)
    BY DEF Recording
  <2> QED
    BY <1>1, <1>2, <2>1, <2>2
<1> QED
  BY <1>3, <1>4

LEMMA FailSteps ==
  ASSUME NEW o \in Outcomes, NEW tx \in Txs
  PROVE  /\ failStep(o, tx) \in Outcomes
         /\ failStep(o, tx).result = "Ok" =>
              o.result = "Ok" /\ NonePending(failStep(o, tx).statuses, {messageOfTx(tx)})
         /\ DOMAIN failStep(o, tx).statuses = DOMAIN o.statuses
         /\ \A m \in DOMAIN o.statuses :
              failStep(o, tx).statuses[m].batchID = o.statuses[m].batchID
         /\ \A M, batchID : Recording(o.statuses, failStep(o, tx).statuses, M, batchID)
<1>1. PICK m \in SignedMessages : m = messageOfTx(tx)
  BY MessageFields
<1>2. PICK s \in StatusMaps : s = o.statuses
  BY DEF Outcomes
<1>3. CASE o.result = "Ok" /\ m \in DOMAIN s /\ validTransition(s[m].status, "Failed")
  <2>0. s[m].batchID \in Int
    BY <1>3, StatusIs
  <2>1. PICK t : t = With(s, m, "Failed", s[m].batchID).statuses
    OBVIOUS
  <2>2. IsWith(s, t, m, "Failed", s[m].batchID)
    <3>1. "Failed" \in Told
      BY DEF Told
    <3> QED
      BY <2>0, <2>1, <3>1, WithIs
  <2>3. failStep(o, tx) = [result |-> "Ok", statuses |-> t]
    BY <1>1, <1>2, <1>3, <2>1 DEF failStep, AfterOk, failed, BatchOf, Transition, Known, With
  <2>4. DOMAIN t = DOMAIN s /\ \A k \in DOMAIN s : t[k].batchID = s[k].batchID
    BY <1>3, <2>2 DEF IsWith
  <2>5. \A k \in DOMAIN s : t[k].status # "Failed" => t[k] = s[k]
    BY <1>3, <2>2 DEF IsWith
  <2>6. \A M, batchID : Recording(s, t, M, batchID)
    BY <2>2, <2>4, <2>5 DEF Recording, IsWith
  <2>7. NonePending(t, {m})
    BY <2>2 DEF NonePending, IsWith
  <2> QED
    BY <1>1, <1>2, <1>3, <2>2, <2>3, <2>4, <2>6, <2>7 DEF Outcomes, IsWith
<1>4. CASE ~(o.result = "Ok" /\ m \in DOMAIN s /\ validTransition(s[m].status, "Failed"))
  <2>1. PICK u \in Outcomes : u = failStep(o, tx) /\ u.statuses = s /\ u.result # "Ok"
    <3>1. CASE o.result # "Ok"
      BY <1>2, <3>1 DEF failStep, AfterOk
    <3>2. CASE o.result = "Ok" /\ m \notin DOMAIN s
      <4>1. failStep(o, tx) = Kept(s, "TransactionDoesNotExist")
        BY <1>1, <1>2, <3>2 DEF failStep, AfterOk, failed, Transition, Known
      <4> QED
        BY <4>1 DEF Kept, Outcomes, Results
    <3>3. CASE o.result = "Ok" /\ m \in DOMAIN s /\ ~validTransition(s[m].status, "Failed")
      <4>1. failStep(o, tx) = Kept(s, "StatusTransitionInvalid")
        BY <1>1, <1>2, <3>3 DEF failStep, AfterOk, failed, Transition, Known
      <4> QED
        BY <4>1 DEF Kept, Outcomes, Results
    <3> QED
      BY <1>4, <3>1, <3>2, <3>3
  <2>2. \A M, batchID : Recording(s, s, M, batchID)
    BY DEF Recording
  <2> QED
    BY <1>2, <2>1, <2>2
<1> QED
  BY <1>3, <1>4

LEMMA SubmitType ==
  ASSUME NEW o \in Outcomes, NEW tx \in Txs, NEW batchID \in Nat
  PROVE  submitStep(o, tx, batchID) \in Outcomes
BY SubmitSteps

LEMMA FailType ==
  ASSUME NEW o \in Outcomes, NEW tx \in Txs
  PROVE  failStep(o, tx) \in Outcomes
BY FailSteps

submittedAll(s, batchID, txs) ==
  FoldLeft(LAMBDA o, tx : submitStep(o, tx, batchID), Kept(s, "Ok"), txs)
failedAll(o, txs) == FoldLeft(failStep, o, txs)

\* The outcomes as accepted transfers become submitted.
IsSubmitRun(run, sts, batchID, n, seq) ==
  /\ run[0] = Kept(sts, "Ok")
  /\ \A k \in 1 .. n : run[k] = submitStep(run[k - 1], seq[k], batchID)
  /\ \A k \in 0 .. n : run[k] \in Outcomes

LEMMA SubmitRuns ==
  ASSUME NEW sts \in StatusMaps, NEW batchID \in Nat, NEW n \in Nat, NEW seq \in [1 .. n -> Txs]
  PROVE  \E run : IsSubmitRun(run, sts, batchID, n, seq) /\ submittedAll(sts, batchID, seq) = run[n]
<1> DEFINE S == 1 .. n
           folds(iter) == iter = [s \in SUBSET S |->
             IF s = {} THEN Kept(sts, "Ok")
             ELSE submitStep(iter[s \ {Max(s)}], seq[Max(s)], batchID)]
           full == CHOOSE iter : folds(iter)
<1>1. \A s \in SUBSET S : s # {} => Max(s) \in s
  BY LastChooses
<1>2. \A i \in 1 .. n, a \in Outcomes : submitStep(a, seq[i], batchID) \in Outcomes
  <2> TAKE i \in 1 .. n, a \in Outcomes
  <2>1. seq[i] \in Txs
    OBVIOUS
  <2> QED
    BY <2>1, SubmitType
<1>3. Kept(sts, "Ok") \in Outcomes
  BY DEF Kept, Outcomes, Results
<1>4. \E iter : folds(iter) /\ \A s \in SUBSET S : iter[s] \in Outcomes
  <2> DEFINE step == [i \in S |-> [a \in Outcomes |-> submitStep(a, seq[i], batchID)]]
  <2>1. \A i \in 1 .. n, a \in Outcomes :
          step[i][a] = submitStep(a, seq[i], batchID) /\ step[i][a] \in Outcomes
    BY <1>2
  <2> HIDE DEF step
  <2>2. PICK iter : /\ IsSequenceFold(iter, n, Kept(sts, "Ok"), step)
                    /\ \A s \in SUBSET (1 .. n) : iter[s] \in Outcomes
    <3>1. \A i \in 1 .. n, a \in Outcomes : step[i][a] \in Outcomes
      BY <2>1
    <3> QED
      BY <1>3, <3>1, SequenceFold
  <2>3. ASSUME NEW s \in SUBSET S
        PROVE  iter[s] = IF s = {} THEN Kept(sts, "Ok")
                         ELSE submitStep(iter[s \ {Max(s)}], seq[Max(s)], batchID)
    <3>1. iter[s] = IF s = {} THEN Kept(sts, "Ok") ELSE step[Max(s)][iter[s \ {Max(s)}]]
      BY <2>2 DEF IsSequenceFold
    <3>2. s # {} => Max(s) \in 1 .. n /\ iter[s \ {Max(s)}] \in Outcomes
      BY <1>1, <2>2
    <3> QED
      BY <2>1, <3>1, <3>2
  <2>4. iter = [s \in SUBSET S |-> iter[s]]
    BY <2>2 DEF IsSequenceFold
  <2> HIDE DEF S
  <2>5. folds(iter)
    BY <2>3, <2>4
  <2> HIDE DEF folds
  <2> QED
    BY <2>2, <2>5 DEF S
<1>5. folds(full)
  <2> HIDE DEF folds
  <2> QED
    BY <1>4
<1>6. submittedAll(sts, batchID, seq) = full[S]
  BY DEF submittedAll, FoldLeft, MapThenFoldSet, Max
<1> HIDE DEF full
<1> DEFINE run == [k \in 0 .. n |-> full[1 .. k]]
<1>7. run[0] = Kept(sts, "Ok")
  BY <1>5, RangesFromOne
<1>8. ASSUME NEW k \in 1 .. n PROVE run[k] = submitStep(run[k - 1], seq[k], batchID)
  <2>1. /\ 1 .. k \in SUBSET S /\ 1 .. k # {} /\ k - 1 \in 0 .. n /\ k \in 0 .. n
        /\ (1 .. k) \ {Max(1 .. k)} = 1 .. k - 1 /\ Max(1 .. k) = k
    BY RangesFromOne
  <2>2. run[k] = full[1 .. k] /\ run[k - 1] = full[1 .. k - 1]
    BY <2>1
  <2>3. full[1 .. k] = submitStep(full[1 .. k - 1], seq[k], batchID)
    BY <1>5, <2>1
  <2> QED
    BY <2>2, <2>3
<1>9. run[n] = full[S]
  OBVIOUS
<1> HIDE DEF run
<1>10. \A k \in 0 .. n : run[k] \in Outcomes
  <2> DEFINE typed == {k \in 0 .. n : run[k] \in Outcomes}
  <2>1. 0 \in typed
    BY <1>3, <1>7
  <2>2. ASSUME NEW k \in typed \cap 0 .. n - 1 PROVE k + 1 \in typed
    <3>1. k + 1 \in 1 .. n /\ k + 1 \in 0 .. n /\ (k + 1) - 1 = k
      OBVIOUS
    <3>2. run[k + 1] = submitStep(run[k], seq[k + 1], batchID)
      BY <1>8, <3>1
    <3> QED
      BY <1>2, <3>1, <3>2
  <2> HIDE DEF typed
  <2>3. 0 .. n \subseteq typed
    BY <2>1, <2>2, NumbersUpTo
  <2> QED
    BY <2>3 DEF typed
<1> QED
  BY <1>6, <1>7, <1>8, <1>9, <1>10 DEF IsSubmitRun

\* The outcomes as failed transfers are told to have failed.
IsFailRun(run, o, n, seq) ==
  /\ run[0] = o
  /\ \A k \in 1 .. n : run[k] = failStep(run[k - 1], seq[k])
  /\ \A k \in 0 .. n : run[k] \in Outcomes

LEMMA FailRuns ==
  ASSUME NEW o \in Outcomes, NEW n \in Nat, NEW seq \in [1 .. n -> Txs]
  PROVE  \E run : IsFailRun(run, o, n, seq) /\ failedAll(o, seq) = run[n]
<1> DEFINE S == 1 .. n
           folds(iter) == iter = [s \in SUBSET S |->
             IF s = {} THEN o
             ELSE failStep(iter[s \ {Max(s)}], seq[Max(s)])]
           full == CHOOSE iter : folds(iter)
<1>1. \A s \in SUBSET S : s # {} => Max(s) \in s
  BY LastChooses
<1>2. \A i \in 1 .. n, a \in Outcomes : failStep(a, seq[i]) \in Outcomes
  <2> TAKE i \in 1 .. n, a \in Outcomes
  <2>1. seq[i] \in Txs
    OBVIOUS
  <2> QED
    BY <2>1, FailType
<1>3. o \in Outcomes
  OBVIOUS
<1>4. \E iter : folds(iter) /\ \A s \in SUBSET S : iter[s] \in Outcomes
  <2> DEFINE step == [i \in S |-> [a \in Outcomes |-> failStep(a, seq[i])]]
  <2>1. \A i \in 1 .. n, a \in Outcomes :
          step[i][a] = failStep(a, seq[i]) /\ step[i][a] \in Outcomes
    BY <1>2
  <2> HIDE DEF step
  <2>2. PICK iter : /\ IsSequenceFold(iter, n, o, step)
                    /\ \A s \in SUBSET (1 .. n) : iter[s] \in Outcomes
    <3>1. \A i \in 1 .. n, a \in Outcomes : step[i][a] \in Outcomes
      BY <2>1
    <3> QED
      BY <1>3, <3>1, SequenceFold
  <2>3. ASSUME NEW s \in SUBSET S
        PROVE  iter[s] = IF s = {} THEN o
                         ELSE failStep(iter[s \ {Max(s)}], seq[Max(s)])
    <3>1. iter[s] = IF s = {} THEN o ELSE step[Max(s)][iter[s \ {Max(s)}]]
      BY <2>2 DEF IsSequenceFold
    <3>2. s # {} => Max(s) \in 1 .. n /\ iter[s \ {Max(s)}] \in Outcomes
      BY <1>1, <2>2
    <3> QED
      BY <2>1, <3>1, <3>2
  <2>4. iter = [s \in SUBSET S |-> iter[s]]
    BY <2>2 DEF IsSequenceFold
  <2> HIDE DEF S
  <2>5. folds(iter)
    BY <2>3, <2>4
  <2> HIDE DEF folds
  <2> QED
    BY <2>2, <2>5 DEF S
<1>5. folds(full)
  <2> HIDE DEF folds
  <2> QED
    BY <1>4
<1>6. failedAll(o, seq) = full[S]
  BY DEF failedAll, FoldLeft, MapThenFoldSet, Max
<1> HIDE DEF full
<1> DEFINE run == [k \in 0 .. n |-> full[1 .. k]]
<1>7. run[0] = o
  BY <1>5, RangesFromOne
<1>8. ASSUME NEW k \in 1 .. n PROVE run[k] = failStep(run[k - 1], seq[k])
  <2>1. /\ 1 .. k \in SUBSET S /\ 1 .. k # {} /\ k - 1 \in 0 .. n /\ k \in 0 .. n
        /\ (1 .. k) \ {Max(1 .. k)} = 1 .. k - 1 /\ Max(1 .. k) = k
    BY RangesFromOne
  <2>2. run[k] = full[1 .. k] /\ run[k - 1] = full[1 .. k - 1]
    BY <2>1
  <2>3. full[1 .. k] = failStep(full[1 .. k - 1], seq[k])
    BY <1>5, <2>1
  <2> QED
    BY <2>2, <2>3
<1>9. run[n] = full[S]
  OBVIOUS
<1> HIDE DEF run
<1>10. \A k \in 0 .. n : run[k] \in Outcomes
  <2> DEFINE typed == {k \in 0 .. n : run[k] \in Outcomes}
  <2>1. 0 \in typed
    BY <1>3, <1>7
  <2>2. ASSUME NEW k \in typed \cap 0 .. n - 1 PROVE k + 1 \in typed
    <3>1. k + 1 \in 1 .. n /\ k + 1 \in 0 .. n /\ (k + 1) - 1 = k
      OBVIOUS
    <3>2. run[k + 1] = failStep(run[k], seq[k + 1])
      BY <1>8, <3>1
    <3> QED
      BY <1>2, <3>1, <3>2
  <2> HIDE DEF typed
  <2>3. 0 .. n \subseteq typed
    BY <2>1, <2>2, NumbersUpTo
  <2> QED
    BY <2>3 DEF typed
<1> QED
  BY <1>6, <1>7, <1>8, <1>9, <1>10 DEF IsFailRun

LEMMA RecordingSame ==
  ASSUME NEW s \in StatusMaps, NEW M, NEW batchID
  PROVE  Recording(s, s, M, batchID)
BY DEF Recording

LEMMA RecordingGoesOn ==
  ASSUME NEW s \in StatusMaps, NEW t, NEW u, NEW M, NEW batchID,
         Recording(s, t, M, batchID), Recording(t, u, M, batchID)
  PROVE  Recording(s, u, M, batchID)
<1>1. u \in StatusMaps /\ DOMAIN u = DOMAIN s /\ DOMAIN t = DOMAIN s
  BY DEF Recording
<1>2. ASSUME NEW m \in DOMAIN s
      PROVE  /\ u[m].batchID = s[m].batchID \/ (m \in M /\ u[m].batchID = batchID)
             /\ u[m].status = "Pending" => u[m] = s[m]
             /\ u[m].status = "Submitted" => u[m] = s[m] \/ u[m].batchID = batchID
  <2>1. /\ t[m].batchID = s[m].batchID \/ (m \in M /\ t[m].batchID = batchID)
        /\ t[m].status = "Pending" => t[m] = s[m]
        /\ t[m].status = "Submitted" => t[m] = s[m] \/ t[m].batchID = batchID
    BY DEF Recording
  <2>2. /\ u[m].batchID = t[m].batchID \/ (m \in M /\ u[m].batchID = batchID)
        /\ u[m].status = "Pending" => u[m] = t[m]
        /\ u[m].status = "Submitted" => u[m] = t[m] \/ u[m].batchID = batchID
    BY <1>1 DEF Recording
  <2> QED
    BY <2>1, <2>2
<1> QED
  BY <1>1, <1>2 DEF Recording

\* Each that was accepted is told to be in the batch, when there is no exception.
InBatch(s, M, batchID) == \A m \in M : m \in DOMAIN s /\ s[m].batchID = batchID

FirstMessages(txs, k) == {messageOfTx(txs[i]) : i \in 1 .. k}

LEMMA SubmittedIs ==
  ASSUME NEW s \in StatusMaps, NEW batchID \in Nat, NEW n \in Nat, NEW txs \in [1 .. n -> Txs]
  PROVE  LET o == submittedAll(s, batchID, txs)
         IN  /\ o \in Outcomes
             /\ Recording(s, o.statuses, MessagesOf(txs), batchID)
             /\ o.result = "Ok" => InBatch(o.statuses, MessagesOf(txs), batchID)
<1> DEFINE M == MessagesOf(txs)
<1>0. PICK run : IsSubmitRun(run, s, batchID, n, txs) /\ submittedAll(s, batchID, txs) = run[n]
  BY SubmitRuns
<1>1. /\ run[0] = Kept(s, "Ok")
      /\ \A k \in 1 .. n : run[k] = submitStep(run[k - 1], txs[k], batchID)
      /\ \A k \in 0 .. n : run[k] \in Outcomes
  BY <1>0 DEF IsSubmitRun
<1> DEFINE good(k) ==
             /\ Recording(s, run[k].statuses, M, batchID)
             /\ run[k].result = "Ok" => InBatch(run[k].statuses, FirstMessages(txs, k), batchID)
           T == {k \in 0 .. n : good(k)}
<1>2. 0 \in T
  <2>1. run[0].statuses = s
    BY <1>1 DEF Kept
  <2>2. FirstMessages(txs, 0) = {}
    BY DEF FirstMessages
  <2>3. Recording(s, s, M, batchID)
    BY RecordingSame
  <2> HIDE DEF M
  <2> QED
    BY <2>1, <2>2, <2>3 DEF InBatch
<1>3. ASSUME NEW k \in T \cap 0 .. n - 1 PROVE k + 1 \in T
  <2>1. k + 1 \in 1 .. n /\ k + 1 \in 0 .. n /\ (k + 1) - 1 = k /\ k \in 0 .. n /\ k \in Nat
    OBVIOUS
  <2>2. PICK tx \in Txs : tx = txs[k + 1]
    BY <2>1
  <2>3. PICK o \in Outcomes : o = run[k]
    BY <1>1, <2>1
  <2>4. PICK p : p = submitStep(o, tx, batchID)
    OBVIOUS
  <2>5. run[k + 1] = p
    BY <1>1, <2>1, <2>2, <2>3, <2>4
  <2>6. PICK m : m = messageOfTx(tx)
    OBVIOUS
  <2>7. m \in M
    BY <2>1, <2>2, <2>6 DEF MessagesOf
  <2> HIDE DEF M
  <2>8. /\ p \in Outcomes
        /\ p.result = "Ok" => o.result = "Ok" /\ m \in DOMAIN p.statuses
                              /\ p.statuses[m].batchID = batchID
        /\ Recording(o.statuses, p.statuses, M, batchID)
    BY <2>4, <2>6, <2>7, SubmitSteps
  <2>9. good(k)
    OBVIOUS
  <2>10. Recording(s, p.statuses, M, batchID)
    BY <2>3, <2>8, <2>9, RecordingGoesOn
  <2>11. ASSUME p.result = "Ok" PROVE InBatch(p.statuses, FirstMessages(txs, k + 1), batchID)
    <3>1. InBatch(o.statuses, FirstMessages(txs, k), batchID)
      BY <2>3, <2>8, <2>9, <2>11
    <3>2. ASSUME NEW q \in FirstMessages(txs, k + 1)
          PROVE  q \in DOMAIN p.statuses /\ p.statuses[q].batchID = batchID
      <4>1. q = m \/ q \in FirstMessages(txs, k)
        <5>1. PICK i \in 1 .. k + 1 : q = messageOfTx(txs[i])
          BY DEF FirstMessages
        <5>2. i = k + 1 \/ i \in 1 .. k
          BY <2>1
        <5> QED
          BY <2>2, <2>6, <5>1, <5>2 DEF FirstMessages
      <4>2. CASE q = m
        BY <2>8, <2>11, <4>2
      <4>3. CASE q \in FirstMessages(txs, k)
        <5>1. q \in DOMAIN o.statuses /\ o.statuses[q].batchID = batchID
          BY <3>1, <4>3 DEF InBatch
        <5> QED
          BY <2>8, <5>1 DEF Recording
      <4> QED
        BY <4>1, <4>2, <4>3
    <3> QED
      BY <3>2 DEF InBatch
  <2> QED
    BY <2>1, <2>5, <2>10, <2>11
<1> HIDE DEF good
<1>4. 0 .. n \subseteq T
  <2> HIDE DEF T
  <2> QED
    BY <1>2, <1>3, NumbersUpTo
<1>5. n \in 0 .. n /\ good(n)
  BY <1>4
<1>6. FirstMessages(txs, n) = M
  BY DEF FirstMessages, MessagesOf
<1> QED
  BY <1>0, <1>1, <1>5, <1>6 DEF good

\* What was told stays told.
LEMMA RecordingTells ==
  ASSUME NEW s, NEW t, NEW M, NEW batchID, NEW N, Recording(s, t, M, batchID), NonePending(s, N)
  PROVE  NonePending(t, N)
<1>1. ASSUME NEW m \in N, m \in DOMAIN t, t[m].status = "Pending" PROVE FALSE
  <2>1. m \in DOMAIN s /\ t[m] = s[m]
    BY <1>1 DEF Recording
  <2> QED
    BY <1>1, <2>1 DEF NonePending
<1> QED
  BY <1>1 DEF NonePending

LEMMA FailedIs ==
  ASSUME NEW o \in Outcomes, NEW n \in Nat, NEW txs \in [1 .. n -> Txs], NEW M, NEW batchID
  PROVE  LET p == failedAll(o, txs)
         IN  /\ p \in Outcomes
             /\ Recording(o.statuses, p.statuses, M, batchID)
             /\ p.result = "Ok" => o.result = "Ok" /\ NonePending(p.statuses, MessagesOf(txs))
             /\ InBatch(o.statuses, M, batchID) => InBatch(p.statuses, M, batchID)
<1>0. PICK run : IsFailRun(run, o, n, txs) /\ failedAll(o, txs) = run[n]
  BY FailRuns
<1>1. /\ run[0] = o
      /\ \A k \in 1 .. n : run[k] = failStep(run[k - 1], txs[k])
      /\ \A k \in 0 .. n : run[k] \in Outcomes
  BY <1>0 DEF IsFailRun
<1> DEFINE good(k) ==
             /\ Recording(o.statuses, run[k].statuses, M, batchID)
             /\ run[k].result = "Ok" =>
                  o.result = "Ok" /\ NonePending(run[k].statuses, FirstMessages(txs, k))
             /\ InBatch(o.statuses, M, batchID) => InBatch(run[k].statuses, M, batchID)
           T == {k \in 0 .. n : good(k)}
<1>a. o.statuses \in StatusMaps
  BY DEF Outcomes
<1>2. 0 \in T
  <2>1. FirstMessages(txs, 0) = {}
    BY DEF FirstMessages
  <2>2. NonePending(o.statuses, {})
    BY DEF NonePending
  <2>3. Recording(o.statuses, o.statuses, M, batchID)
    BY <1>a, RecordingSame
  <2>4. good(0)
    BY <1>1, <2>1, <2>2, <2>3
  <2> QED
    BY <2>4
<1>3. ASSUME NEW k \in T \cap 0 .. n - 1 PROVE k + 1 \in T
  <2>1. k + 1 \in 1 .. n /\ k + 1 \in 0 .. n /\ (k + 1) - 1 = k /\ k \in 0 .. n
    OBVIOUS
  <2>2. PICK tx \in Txs : tx = txs[k + 1]
    BY <2>1
  <2>3. PICK p \in Outcomes : p = run[k]
    BY <1>1, <2>1
  <2>4. PICK q : q = failStep(p, tx)
    OBVIOUS
  <2>5. run[k + 1] = q
    BY <1>1, <2>1, <2>2, <2>3, <2>4
  <2>6. /\ q \in Outcomes
        /\ q.result = "Ok" => p.result = "Ok" /\ NonePending(q.statuses, {messageOfTx(tx)})
        /\ DOMAIN q.statuses = DOMAIN p.statuses
        /\ \A m \in DOMAIN p.statuses : q.statuses[m].batchID = p.statuses[m].batchID
        /\ Recording(p.statuses, q.statuses, M, batchID)
    BY <2>4, FailSteps
  <2>7. good(k)
    OBVIOUS
  <2>8. Recording(o.statuses, q.statuses, M, batchID)
    BY <1>a, <2>3, <2>6, <2>7, RecordingGoesOn
  <2>9. InBatch(p.statuses, M, batchID) => InBatch(q.statuses, M, batchID)
    BY <2>6 DEF InBatch
  <2>10. ASSUME q.result = "Ok" PROVE NonePending(q.statuses, FirstMessages(txs, k + 1))
    <3>1. NonePending(p.statuses, FirstMessages(txs, k)) /\ NonePending(q.statuses, {messageOfTx(tx)})
      BY <2>3, <2>6, <2>7, <2>10
    <3>2. NonePending(q.statuses, FirstMessages(txs, k))
      BY <2>6, <3>1, RecordingTells
    <3>3. FirstMessages(txs, k + 1) \subseteq FirstMessages(txs, k) \cup {messageOfTx(tx)}
      <4>1. \A i \in 1 .. k + 1 : i = k + 1 \/ i \in 1 .. k
        BY <2>1
      <4> QED
        BY <2>2, <4>1 DEF FirstMessages
    <3> QED
      BY <3>1, <3>2, <3>3 DEF NonePending
  <2> QED
    BY <2>1, <2>3, <2>5, <2>6, <2>7, <2>8, <2>9, <2>10
<1> HIDE DEF good
<1>4. 0 .. n \subseteq T
  <2> HIDE DEF T
  <2> QED
    BY <1>2, <1>3, NumbersUpTo
<1>5. n \in 0 .. n /\ good(n)
  BY <1>4
<1>6. FirstMessages(txs, n) = MessagesOf(txs)
  BY DEF FirstMessages, MessagesOf
<1> QED
  BY <1>0, <1>1, <1>5, <1>6 DEF good

LEMMA RecordedIs ==
  ASSUME TypeInv, NEW batchID \in Nat
  PROVE  LET o == Recorded(batchID)
         IN  /\ o \in Outcomes
             /\ Recording(statuses, o.statuses, MessagesOf(packer.acceptedTxs), batchID)
             /\ o.result = "Ok" =>
                  /\ InBatch(o.statuses, MessagesOf(packer.acceptedTxs), batchID)
                  /\ NonePending(o.statuses, MessagesOf(packer.failedTxs))
<1>1. PICK a, f : a = packer.acceptedTxs /\ f = packer.failedTxs
  OBVIOUS
<1>2. a \in Seq(Txs) /\ f \in Seq(Txs) /\ statuses \in StatusMaps
  BY <1>1 DEF TypeInv, PackerType
<1>3. PICK n \in Nat, k \in Nat : a \in [1 .. n -> Txs] /\ f \in [1 .. k -> Txs]
  BY <1>2
<1>4. PICK M : M = MessagesOf(a)
  OBVIOUS
<1>5. PICK p : p = submittedAll(statuses, batchID, a)
  OBVIOUS
<1>6. /\ p \in Outcomes /\ Recording(statuses, p.statuses, M, batchID)
      /\ p.result = "Ok" => InBatch(p.statuses, M, batchID)
  BY <1>2, <1>3, <1>4, <1>5, SubmittedIs
<1>7. PICK o : o = failedAll(p, f)
  OBVIOUS
<1>8. /\ o \in Outcomes /\ Recording(p.statuses, o.statuses, M, batchID)
      /\ o.result = "Ok" => p.result = "Ok" /\ NonePending(o.statuses, MessagesOf(f))
      /\ InBatch(p.statuses, M, batchID) => InBatch(o.statuses, M, batchID)
  BY <1>3, <1>6, <1>7, FailedIs
<1>9. Recording(statuses, o.statuses, M, batchID)
  BY <1>2, <1>6, <1>8, RecordingGoesOn
<1>10. AllSubmitted(batchID) = p
  BY <1>1, <1>5 DEF AllSubmitted, submittedAll, submitStep
<1>11. Recorded(batchID) = o
  BY <1>1, <1>7, <1>10 DEF Recorded, failedAll, failStep
<1> QED
  BY <1>1, <1>4, <1>6, <1>8, <1>9, <1>11

(***************************************************************************)
(* Another node that syncs a batch.                                        *)
(***************************************************************************)
IsFlattened(run, seqs, n) ==
  /\ run[0] = <<>>
  /\ \A k \in 1 .. n : run[k] = run[k - 1] \o seqs[k]

\* FlattenSeq puts one sequence after the other.
LEMMA FlattenRuns ==
  ASSUME NEW A, NEW n \in Nat \ {0}, NEW seqs \in [1 .. n -> Seq(A)]
  PROVE  \E run : /\ IsFlattened(run, seqs, n) /\ FlattenSeq(seqs) = run[n]
                  /\ \A k \in 0 .. n : run[k] \in Seq(A)
<1> DEFINE S == 1 .. n
           flattens(f) == f = [i \in S |-> IF i = 1 THEN seqs[i] ELSE f[i - 1] \o seqs[i]]
           flat == CHOOSE f : flattens(f)
<1>1. \A i \in 1 .. n : seqs[i] \in Seq(A)
  OBVIOUS
<1>2. DOMAIN seqs = S /\ Len(seqs) = n
  OBVIOUS
<1>3. FlattenSeq(seqs) = flat[n]
  BY <1>2 DEF FlattenSeq
<1>4. \E f : flattens(f)
  <2> DEFINE step == [i \in S |-> [a \in Seq(A) |-> a \o seqs[i]]]
  <2>1. \A i \in 1 .. n, a \in Seq(A) :
          step[i][a] = a \o seqs[i] /\ step[i][a] \in Seq(A)
    BY <1>1
  <2> HIDE DEF step
  <2>2. PICK iter : /\ IsSequenceFold(iter, n, <<>>, step)
                    /\ \A s \in SUBSET (1 .. n) : iter[s] \in Seq(A)
    <3>1. \A i \in 1 .. n, a \in Seq(A) : step[i][a] \in Seq(A)
      BY <2>1
    <3>2. <<>> \in Seq(A)
      OBVIOUS
    <3> QED
      BY <3>1, <3>2, SequenceFold
  <2> DEFINE f == [i \in S |-> iter[1 .. i]]
  <2>3. ASSUME NEW i \in S
        PROVE  f[i] = IF i = 1 THEN seqs[i] ELSE f[i - 1] \o seqs[i]
    <3>1. /\ 1 .. i \in SUBSET (1 .. n) /\ 1 .. i # {}
          /\ (1 .. i) \ {Max(1 .. i)} = 1 .. i - 1 /\ Max(1 .. i) = i
          /\ 1 .. i - 1 \in SUBSET (1 .. n)
      <4>1. /\ 1 .. i \in SUBSET (1 .. n) /\ 1 .. i # {}
            /\ (1 .. i) \ {Max(1 .. i)} = 1 .. i - 1 /\ Max(1 .. i) = i
        BY RangesFromOne
      <4>2. 1 .. i - 1 \in SUBSET (1 .. n)
        OBVIOUS
      <4> QED
        BY <4>1, <4>2
    <3>2. iter[1 .. i] = iter[1 .. i - 1] \o seqs[i]
      <4>1. iter[1 .. i] = step[i][iter[1 .. i - 1]]
        BY <2>2, <3>1 DEF IsSequenceFold
      <4>2. iter[1 .. i - 1] \in Seq(A)
        BY <2>2, <3>1
      <4> QED
        BY <2>1, <4>1, <4>2
    <3>3. CASE i = 1
      <4>1. 1 .. i - 1 = {}
        BY <3>3
      <4>2. iter[1 .. i - 1] = <<>>
        BY <2>2, <4>1 DEF IsSequenceFold
      <4>3. <<>> \o seqs[i] = seqs[i]
        BY <1>1
      <4> QED
        BY <3>2, <3>3, <4>2, <4>3
    <3>4. CASE i # 1
      <4>1. i - 1 \in S
        BY <3>4
      <4> QED
        BY <3>2, <3>4, <4>1
    <3> QED
      BY <3>3, <3>4
  <2>4. f = [i \in S |-> f[i]]
    OBVIOUS
  <2> HIDE DEF f
  <2>5. flattens(f)
    BY <2>3, <2>4
  <2> QED
    BY <2>5
<1>5. flattens(flat)
  <2> HIDE DEF flattens
  <2> QED
    BY <1>4
<1> HIDE DEF flat
<1> DEFINE run == [k \in 0 .. n |-> IF k = 0 THEN <<>> ELSE flat[k]]
<1>6. ASSUME NEW k \in 1 .. n PROVE run[k] = run[k - 1] \o seqs[k]
  <2>1. run[k] = flat[k] /\ k - 1 \in 0 .. n
    OBVIOUS
  <2>2. flat[k] = IF k = 1 THEN seqs[k] ELSE flat[k - 1] \o seqs[k]
    BY <1>5
  <2>3. <<>> \o seqs[k] = seqs[k]
    BY <1>1
  <2>4. run[k - 1] = IF k = 1 THEN <<>> ELSE flat[k - 1]
    BY <2>1
  <2> QED
    BY <2>1, <2>2, <2>3, <2>4
<1>7. run[0] = <<>> /\ run[n] = flat[n]
  OBVIOUS
<1> HIDE DEF run
<1>8. IsFlattened(run, seqs, n)
  BY <1>6, <1>7 DEF IsFlattened
<1>9. \A k \in 0 .. n : run[k] \in Seq(A)
  <2> DEFINE T == {k \in 0 .. n : run[k] \in Seq(A)}
  <2>1. 0 \in T
    <3>1. <<>> \in Seq(A)
      BY EmptySeq
    <3>2. run[0] = <<>>
      BY <1>7
    <3>3. run[0] \in Seq(A)
      BY <3>1, <3>2, Zenon
    <3> QED
      BY <3>3
  <2>2. ASSUME NEW k \in T \cap 0 .. n - 1 PROVE k + 1 \in T
    <3>1. k + 1 \in 1 .. n /\ k + 1 \in 0 .. n /\ (k + 1) - 1 = k
      OBVIOUS
    <3>2. run[k + 1] = run[k] \o seqs[k + 1] /\ run[k] \in Seq(A) /\ seqs[k + 1] \in Seq(A)
      BY <1>1, <1>6, <3>1
    <3>3. run[k + 1] \in Seq(A)
      BY <3>2
    <3> QED
      BY <3>1, <3>3
  <2> HIDE DEF T
  <2>3. 0 .. n \subseteq T
    BY <2>1, <2>2, NumbersUpTo
  <2> QED
    BY <2>3 DEF T
<1> QED
  BY <1>3, <1>7, <1>8, <1>9

\* No two places of the sequences have the same element.
AllDiffer(seqs) ==
  \A c, d \in DOMAIN seqs : \A i \in DOMAIN seqs[c], j \in DOMAIN seqs[d] :
    seqs[c][i] = seqs[d][j] => c = d /\ i = j
NoneTwice(s) == \A i, j \in DOMAIN s : s[i] = s[j] => i = j
ElementsOf(s, seqs, k) ==
  \A j \in DOMAIN s : \E c \in 1 .. k : \E i \in DOMAIN seqs[c] : s[j] = seqs[c][i]

LEMMA FlattenedDiffer ==
  ASSUME NEW A, NEW n \in Nat \ {0}, NEW seqs \in [1 .. n -> Seq(A)], AllDiffer(seqs)
  PROVE  /\ FlattenSeq(seqs) \in Seq(A) /\ NoneTwice(FlattenSeq(seqs))
         /\ ElementsOf(FlattenSeq(seqs), seqs, n)
<1>1. PICK run : /\ IsFlattened(run, seqs, n) /\ FlattenSeq(seqs) = run[n]
                 /\ \A k \in 0 .. n : run[k] \in Seq(A)
  BY FlattenRuns
<1>2. run[0] = <<>> /\ \A k \in 1 .. n : run[k] = run[k - 1] \o seqs[k]
  BY <1>1 DEF IsFlattened
<1> DEFINE T == {k \in 0 .. n : NoneTwice(run[k]) /\ ElementsOf(run[k], seqs, k)}
<1>3. 0 \in T
  BY <1>2 DEF NoneTwice, ElementsOf
<1>4. ASSUME NEW k \in T \cap 0 .. n - 1 PROVE k + 1 \in T
  <2>1. k + 1 \in 1 .. n /\ k + 1 \in 0 .. n /\ (k + 1) - 1 = k /\ k \in 0 .. n /\ k \in Nat
    OBVIOUS
  <2>2. PICK s \in Seq(A), t \in Seq(A) : s = run[k] /\ t = seqs[k + 1]
    BY <1>1, <2>1
  <2>3. run[k + 1] = s \o t
    BY <1>2, <2>1, <2>2
  <2>4. PICK r \in Seq(A) : r = s \o t
    BY <2>2, ConcatProperties
  <2>5. /\ Len(r) = Len(s) + Len(t) /\ Len(s) \in Nat /\ Len(t) \in Nat
        /\ DOMAIN r = 1 .. Len(r) /\ DOMAIN s = 1 .. Len(s) /\ DOMAIN t = 1 .. Len(t)
        /\ \A i \in 1 .. Len(s) + Len(t) :
             r[i] = IF i <= Len(s) THEN s[i] ELSE t[i - Len(s)]
    BY <2>4, ConcatProperties
  <2>6. NoneTwice(s) /\ ElementsOf(s, seqs, k)
    BY <2>2
  <2>7. ASSUME NEW j \in DOMAIN r
        PROVE  \E c \in 1 .. k + 1 : \E i \in DOMAIN seqs[c] : r[j] = seqs[c][i]
    <3>1. CASE j <= Len(s)
      <4>1. j \in DOMAIN s /\ r[j] = s[j]
        BY <2>5, <3>1
      <4>2. PICK c \in 1 .. k : \E i \in DOMAIN seqs[c] : s[j] = seqs[c][i]
        BY <2>6, <4>1 DEF ElementsOf
      <4>3. c \in 1 .. k + 1
        BY <2>1
      <4> QED
        BY <4>1, <4>2, <4>3
    <3>2. CASE j > Len(s)
      <4>1. j - Len(s) \in DOMAIN t /\ r[j] = t[j - Len(s)]
        BY <2>5, <3>2
      <4>2. k + 1 \in 1 .. k + 1
        BY <2>1
      <4> QED
        BY <2>2, <4>1, <4>2
    <3> QED
      BY <2>5, <3>1, <3>2
  <2>8. ASSUME NEW i \in DOMAIN r, NEW j \in DOMAIN r, r[i] = r[j], i <= Len(s), j > Len(s)
        PROVE  FALSE
    <3>1. i \in DOMAIN s /\ r[i] = s[i]
      BY <2>5, <2>8
    <3>2. j - Len(s) \in DOMAIN t /\ r[j] = t[j - Len(s)]
      BY <2>5, <2>8
    <3>0. PICK c \in 1 .. k : \E a \in DOMAIN seqs[c] : s[i] = seqs[c][a]
      BY <2>6, <3>1 DEF ElementsOf
    <3>3. PICK a \in DOMAIN seqs[c] : s[i] = seqs[c][a]
      BY <3>0
    <3>4. seqs[c][a] = seqs[k + 1][j - Len(s)]
      BY <2>2, <2>8, <3>1, <3>2, <3>3
    <3>5. c \in DOMAIN seqs /\ k + 1 \in DOMAIN seqs /\ c # k + 1
      BY <2>1
    <3>6. j - Len(s) \in DOMAIN seqs[k + 1]
      BY <2>2, <3>2
    <3> QED
      BY <3>3, <3>4, <3>5, <3>6 DEF AllDiffer
  <2>9. ASSUME NEW i \in DOMAIN r, NEW j \in DOMAIN r, r[i] = r[j] PROVE i = j
    <3>1. i \in Int /\ j \in Int
      BY <2>5
    <3>2. CASE i <= Len(s) /\ j <= Len(s)
      <4>1. i \in DOMAIN s /\ r[i] = s[i] /\ j \in DOMAIN s /\ r[j] = s[j]
        BY <2>5, <3>2
      <4> QED
        BY <2>6, <2>9, <4>1 DEF NoneTwice
    <3>3. CASE i > Len(s) /\ j > Len(s)
      <4>1. /\ i - Len(s) \in DOMAIN t /\ r[i] = t[i - Len(s)]
            /\ j - Len(s) \in DOMAIN t /\ r[j] = t[j - Len(s)]
        BY <2>5, <3>3
      <4>2. k + 1 \in DOMAIN seqs
        BY <2>1
      <4>3. PICK a \in DOMAIN t, b \in DOMAIN t :
              a = i - Len(s) /\ b = j - Len(s) /\ t[a] = t[b]
        BY <2>9, <4>1
      <4>4. a = b
        BY <2>2, <4>2, <4>3 DEF AllDiffer
      <4> QED
        BY <2>5, <3>1, <4>3, <4>4
    <3>4. CASE i <= Len(s) /\ j > Len(s)
      BY <2>8, <2>9, <3>4
    <3>5. CASE i > Len(s) /\ j <= Len(s)
      BY <2>8, <2>9, <3>5
    <3> QED
      BY <2>5, <3>1, <3>2, <3>3, <3>4, <3>5
  <2>10. NoneTwice(r) /\ ElementsOf(r, seqs, k + 1)
    BY <2>7, <2>9 DEF NoneTwice, ElementsOf
  <2> QED
    BY <2>1, <2>3, <2>4, <2>10
<1>5. 0 .. n \subseteq T
  <2> HIDE DEF T
  <2> QED
    BY <1>3, <1>4, NumbersUpTo
<1>6. n \in 0 .. n
  OBVIOUS
<1> QED
  BY <1>1, <1>5, <1>6

syncStep(o, m, batchID) == AfterOk(o, sync(o.statuses, m, batchID, FALSE))
syncedAll(s, batchID, messages) ==
  FoldLeft(LAMBDA o, m : syncStep(o, m, batchID), Kept(s, "Ok"), messages)

LEMMA SyncSteps ==
  ASSUME NEW o \in Outcomes, NEW m \in SignedMessages, NEW batchID \in Nat
  PROVE  /\ syncStep(o, m, batchID) \in Outcomes
         /\ DOMAIN syncStep(o, m, batchID).statuses \subseteq DOMAIN o.statuses \cup {m}
         /\ o.result = "Ok" /\ m \notin DOMAIN o.statuses =>
              syncStep(o, m, batchID).result = "Ok"
<1>1. PICK s \in StatusMaps : s = o.statuses
  BY DEF Outcomes
<1>2. CASE o.result # "Ok"
  BY <1>2 DEF syncStep, AfterOk
<1>3. CASE o.result = "Ok" /\ m \in DOMAIN s
  <2>1. syncStep(o, m, batchID) = Kept(s, "TransactionAlreadyExists")
    BY <1>1, <1>3 DEF syncStep, AfterOk, sync, Known
  <2>2. Kept(s, "TransactionAlreadyExists") \in Outcomes
    BY DEF Kept, Outcomes, Results
  <2> QED
    BY <1>1, <1>3, <2>1, <2>2 DEF Kept
<1>4. CASE o.result = "Ok" /\ m \notin DOMAIN s
  <2>1. PICK t : t = With(s, m, "Submitted", batchID).statuses
    OBVIOUS
  <2>2. IsWith(s, t, m, "Submitted", batchID)
    <3>1. "Submitted" \in Told /\ batchID \in Int
      BY DEF Told
    <3> QED
      BY <2>1, <3>1, WithIs
  <2>3. syncStep(o, m, batchID) = [result |-> "Ok", statuses |-> t]
    BY <1>1, <1>4, <2>1 DEF syncStep, AfterOk, sync, Known, With
  <2> QED
    BY <1>1, <2>2, <2>3 DEF Outcomes, Results, IsWith
<1> QED
  BY <1>1, <1>2, <1>3, <1>4

LEMMA SyncType ==
  ASSUME NEW o \in Outcomes, NEW m \in SignedMessages, NEW batchID \in Nat
  PROVE  syncStep(o, m, batchID) \in Outcomes
BY SyncSteps

\* The outcomes as messages are synced.
IsSyncRun(run, sts, batchID, n, seq) ==
  /\ run[0] = Kept(sts, "Ok")
  /\ \A k \in 1 .. n : run[k] = syncStep(run[k - 1], seq[k], batchID)
  /\ \A k \in 0 .. n : run[k] \in Outcomes

LEMMA SyncRuns ==
  ASSUME NEW sts \in StatusMaps, NEW batchID \in Nat, NEW n \in Nat, NEW seq \in [1 .. n -> SignedMessages]
  PROVE  \E run : IsSyncRun(run, sts, batchID, n, seq) /\ syncedAll(sts, batchID, seq) = run[n]
<1> DEFINE S == 1 .. n
           folds(iter) == iter = [s \in SUBSET S |->
             IF s = {} THEN Kept(sts, "Ok")
             ELSE syncStep(iter[s \ {Max(s)}], seq[Max(s)], batchID)]
           full == CHOOSE iter : folds(iter)
<1>1. \A s \in SUBSET S : s # {} => Max(s) \in s
  BY LastChooses
<1>2. \A i \in 1 .. n, a \in Outcomes : syncStep(a, seq[i], batchID) \in Outcomes
  <2> TAKE i \in 1 .. n, a \in Outcomes
  <2>1. seq[i] \in SignedMessages
    OBVIOUS
  <2> QED
    BY <2>1, SyncType
<1>3. Kept(sts, "Ok") \in Outcomes
  BY DEF Kept, Outcomes, Results
<1>4. \E iter : folds(iter) /\ \A s \in SUBSET S : iter[s] \in Outcomes
  <2> DEFINE step == [i \in S |-> [a \in Outcomes |-> syncStep(a, seq[i], batchID)]]
  <2>1. \A i \in 1 .. n, a \in Outcomes :
          step[i][a] = syncStep(a, seq[i], batchID) /\ step[i][a] \in Outcomes
    BY <1>2
  <2> HIDE DEF step
  <2>2. PICK iter : /\ IsSequenceFold(iter, n, Kept(sts, "Ok"), step)
                    /\ \A s \in SUBSET (1 .. n) : iter[s] \in Outcomes
    <3>1. \A i \in 1 .. n, a \in Outcomes : step[i][a] \in Outcomes
      BY <2>1
    <3> QED
      BY <1>3, <3>1, SequenceFold
  <2>3. ASSUME NEW s \in SUBSET S
        PROVE  iter[s] = IF s = {} THEN Kept(sts, "Ok")
                         ELSE syncStep(iter[s \ {Max(s)}], seq[Max(s)], batchID)
    <3>1. iter[s] = IF s = {} THEN Kept(sts, "Ok") ELSE step[Max(s)][iter[s \ {Max(s)}]]
      BY <2>2 DEF IsSequenceFold
    <3>2. s # {} => Max(s) \in 1 .. n /\ iter[s \ {Max(s)}] \in Outcomes
      BY <1>1, <2>2
    <3> QED
      BY <2>1, <3>1, <3>2
  <2>4. iter = [s \in SUBSET S |-> iter[s]]
    BY <2>2 DEF IsSequenceFold
  <2> HIDE DEF S
  <2>5. folds(iter)
    BY <2>3, <2>4
  <2> HIDE DEF folds
  <2> QED
    BY <2>2, <2>5 DEF S
<1>5. folds(full)
  <2> HIDE DEF folds
  <2> QED
    BY <1>4
<1>6. syncedAll(sts, batchID, seq) = full[S]
  BY DEF syncedAll, FoldLeft, MapThenFoldSet, Max
<1> HIDE DEF full
<1> DEFINE run == [k \in 0 .. n |-> full[1 .. k]]
<1>7. run[0] = Kept(sts, "Ok")
  BY <1>5, RangesFromOne
<1>8. ASSUME NEW k \in 1 .. n PROVE run[k] = syncStep(run[k - 1], seq[k], batchID)
  <2>1. /\ 1 .. k \in SUBSET S /\ 1 .. k # {} /\ k - 1 \in 0 .. n /\ k \in 0 .. n
        /\ (1 .. k) \ {Max(1 .. k)} = 1 .. k - 1 /\ Max(1 .. k) = k
    BY RangesFromOne
  <2>2. run[k] = full[1 .. k] /\ run[k - 1] = full[1 .. k - 1]
    BY <2>1
  <2>3. full[1 .. k] = syncStep(full[1 .. k - 1], seq[k], batchID)
    BY <1>5, <2>1
  <2> QED
    BY <2>2, <2>3
<1>9. run[n] = full[S]
  OBVIOUS
<1> HIDE DEF run
<1>10. \A k \in 0 .. n : run[k] \in Outcomes
  <2> DEFINE typed == {k \in 0 .. n : run[k] \in Outcomes}
  <2>1. 0 \in typed
    BY <1>3, <1>7
  <2>2. ASSUME NEW k \in typed \cap 0 .. n - 1 PROVE k + 1 \in typed
    <3>1. k + 1 \in 1 .. n /\ k + 1 \in 0 .. n /\ (k + 1) - 1 = k
      OBVIOUS
    <3>2. run[k + 1] = syncStep(run[k], seq[k + 1], batchID)
      BY <1>8, <3>1
    <3> QED
      BY <1>2, <3>1, <3>2
  <2> HIDE DEF typed
  <2>3. 0 .. n \subseteq typed
    BY <2>1, <2>2, NumbersUpTo
  <2> QED
    BY <2>3 DEF typed
<1> QED
  BY <1>6, <1>7, <1>8, <1>9, <1>10 DEF IsSyncRun

LEMMA SyncIsOk ==
  ASSUME NEW s \in StatusMaps, NEW batchID \in Nat, NEW n \in Nat,
         NEW messages \in [1 .. n -> SignedMessages], NoneTwice(messages),
         \A i \in 1 .. n : messages[i] \notin DOMAIN s
  PROVE  syncedAll(s, batchID, messages).result = "Ok"
<1>0. PICK run : /\ IsSyncRun(run, s, batchID, n, messages)
                 /\ syncedAll(s, batchID, messages) = run[n]
  BY SyncRuns
<1>1. /\ run[0] = Kept(s, "Ok")
      /\ \A k \in 1 .. n : run[k] = syncStep(run[k - 1], messages[k], batchID)
      /\ \A k \in 0 .. n : run[k] \in Outcomes
  BY <1>0 DEF IsSyncRun
<1> DEFINE first(k) == {messages[i] : i \in 1 .. k}
           good(k) == run[k].result = "Ok" /\ DOMAIN run[k].statuses \subseteq DOMAIN s \cup first(k)
           T == {k \in 0 .. n : good(k)}
<1>2. 0 \in T
  BY <1>1 DEF Kept
<1>3. ASSUME NEW k \in T \cap 0 .. n - 1 PROVE k + 1 \in T
  <2>1. k + 1 \in 1 .. n /\ k + 1 \in 0 .. n /\ (k + 1) - 1 = k /\ k \in 0 .. n /\ k \in Nat
    OBVIOUS
  <2>2. PICK m \in SignedMessages : m = messages[k + 1]
    BY <2>1
  <2>3. PICK o \in Outcomes : o = run[k]
    BY <1>1, <2>1
  <2>4. PICK p : p = syncStep(o, m, batchID)
    OBVIOUS
  <2>5. run[k + 1] = p
    BY <1>1, <2>1, <2>2, <2>3, <2>4
  <2>6. /\ DOMAIN p.statuses \subseteq DOMAIN o.statuses \cup {m}
        /\ o.result = "Ok" /\ m \notin DOMAIN o.statuses => p.result = "Ok"
    BY <2>4, SyncSteps
  <2>7. o.result = "Ok" /\ DOMAIN o.statuses \subseteq DOMAIN s \cup first(k)
    BY <2>3
  <2>8. m \notin first(k)
    <3> SUFFICES ASSUME NEW i \in 1 .. k, m = messages[i] PROVE FALSE
      OBVIOUS
    <3>1. i \in 1 .. n /\ i # k + 1 /\ DOMAIN messages = 1 .. n
      BY <2>1
    <3> QED
      BY <2>1, <2>2, <3>1 DEF NoneTwice
  <2>9. m \notin DOMAIN s
    BY <2>1, <2>2
  <2>10. first(k) \cup {m} \subseteq first(k + 1)
    <3>1. k + 1 \in 1 .. k + 1 /\ 1 .. k \subseteq 1 .. k + 1
      BY <2>1
    <3> QED
      BY <2>2, <3>1
  <2> HIDE DEF first
  <2>11. p.result = "Ok" /\ DOMAIN p.statuses \subseteq DOMAIN s \cup first(k + 1)
    BY <2>6, <2>7, <2>8, <2>9, <2>10
  <2> QED
    BY <2>1, <2>5, <2>11
<1> HIDE DEF good
<1>4. 0 .. n \subseteq T
  <2> HIDE DEF T
  <2> QED
    BY <1>2, <1>3, NumbersUpTo
<1>5. n \in 0 .. n /\ good(n)
  BY <1>4
<1> QED
  BY <1>0, <1>5 DEF good

(***************************************************************************)
(* Transfers that the simulator makes up.                                  *)
(***************************************************************************)
LEMMA PowersAre ==
  /\ \A n \in Nat : Pow2[n] \in Nat \ {0} /\ Pow2[n + 1] = 2 * Pow2[n]
  /\ \A n \in Nat : Pow10[n] \in Nat \ {0}
<1>1. Pow2 = CHOOSE p : p = [n \in Nat |-> IF n = 0 THEN 1 ELSE 2 * p[n - 1]]
  BY DEF Pow2
<1>2. Pow10 = CHOOSE p : p = [n \in Nat |-> IF n = 0 THEN 1 ELSE 10 * p[n - 1]]
  BY DEF Pow10
<1>3. \A n \in Nat : Pow2[n] \in Nat \ {0} /\ Pow2[n + 1] = 2 * Pow2[n]
  BY <1>1, PowersOf
<1>4. \A n \in Nat : Pow10[n] \in Nat \ {0}
  BY <1>2, PowersOf
<1> QED
  BY <1>3, <1>4

LEMMA ExponentsAre == exponentMax \in Nat \ {0} /\ mantissaMax \in Nat
<1>1. ExponentBits \in Nat \ {0} /\ MantissaBits \in Nat
  BY CodecAssumption
<1>2. PICK k \in Nat : ExponentBits = k + 1
  <2>1. ExponentBits - 1 \in Nat /\ ExponentBits = (ExponentBits - 1) + 1
    BY <1>1
  <2> QED
    BY <2>1
<1>3. PICK p \in Nat \ {0} : p = Pow2[k] /\ Pow2[ExponentBits] = 2 * p
  BY <1>2, PowersAre
<1>4. PICK q \in Nat \ {0} : q = Pow2[MantissaBits]
  BY <1>1, PowersAre
<1> QED
  BY <1>3, <1>4 DEF exponentMax, mantissaMax

LEMMA QuotientsGrow ==
  ASSUME NEW m \in Nat, NEW n \in Nat, m <= n, NEW p \in Nat \ {0}
  PROVE  m \div p <= n \div p
<1>1. PICK a \in Nat : a = m \div p /\ p * a <= m
  BY Quotient
<1>2. PICK b \in Nat : b = n \div p /\ n < p * b + p
  BY Quotient
<1>3. ASSUME b < a PROVE FALSE
  <2>1. PICK d \in Nat : a = b + 1 + d
    <3>1. a - b - 1 \in Nat /\ a = b + 1 + (a - b - 1)
      BY <1>3
    <3> QED
      BY <3>1
  <2>2. p * (b + 1 + d) = p * b + p + p * d
    OBVIOUS
  <2>3. p * d \in Nat /\ p * b \in Nat
    OBVIOUS
  <2> QED
    BY <1>1, <1>2, <2>1, <2>2, <2>3
<1> QED
  BY <1>1, <1>2, <1>3

\* A number that can be rounded is, to one that is no larger.
LEMMA Rounded ==
  ASSUME NEW n \in Nat, CanRound(n)
  PROVE  /\ round(n) \in Nat /\ round(n) <= n
         /\ \A m \in Nat : m <= n => CanRound(m)
<1> DEFINE exponents == {e \in 0 .. exponentMax - 1 : Fits(n, e)}
<1>1. exponentMax - 1 \in 0 .. exponentMax - 1 /\ exponentMax \in Nat
  BY ExponentsAre
<1>2. exponentMax - 1 \in exponents /\ exponents \subseteq Nat
  BY <1>1 DEF CanRound
<1>3. PICK e \in exponents : \A d \in exponents : e <= d
  <2> HIDE DEF exponents
  <2> QED
    BY <1>2, LeastNumber
<1>4. e \in 0 .. exponentMax - 1 /\ Fits(n, e) /\ \A d \in 0 .. e - 1 : ~Fits(n, d)
  <2>1. \A d \in 0 .. e - 1 : d \in 0 .. exponentMax - 1 /\ d < e
    BY <1>1, <1>3
  <2>2. ASSUME NEW d \in 0 .. e - 1, Fits(n, d) PROVE FALSE
    <3>1. d \in exponents
      BY <2>1, <2>2
    <3>2. e <= d /\ d < e /\ e \in Nat /\ d \in Nat
      BY <1>2, <1>3, <2>1, <3>1
    <3> QED
      BY <3>2
  <2> QED
    BY <1>3, <2>2
<1>5. PICK c : c = CHOOSE x \in 0 .. exponentMax - 1 :
                         Fits(n, x) /\ \A d \in 0 .. x - 1 : ~Fits(n, d)
  OBVIOUS
<1>6. c \in 0 .. exponentMax - 1
  BY <1>4, <1>5
<1>7. PICK p \in Nat \ {0} : p = Pow10[c]
  <2>1. c \in Nat
    BY <1>1, <1>6
  <2> QED
    BY <2>1, PowersAre
<1>8. PICK q \in Nat : q = n \div p /\ p * q <= n
  BY Quotient
<1>9. round(n) = q * p
  BY <1>5, <1>7, <1>8 DEF round
<1>10. q * p \in Nat /\ q * p = p * q
  OBVIOUS
<1>11. ASSUME NEW m \in Nat, m <= n PROVE CanRound(m)
  <2>1. PICK r \in Nat \ {0} : r = Pow10[exponentMax - 1]
    <3>1. exponentMax - 1 \in Nat
      BY <1>1
    <3> QED
      BY <3>1, PowersAre
  <2>2. m \div r <= n \div r
    BY <1>11, QuotientsGrow
  <2>3. n \div r <= mantissaMax
    BY <2>1 DEF CanRound, Fits
  <2>4. m \div r \in Nat /\ n \div r \in Nat /\ mantissaMax \in Nat
    BY Quotient, ExponentsAre
  <2>5. m \div r <= mantissaMax
    BY <2>2, <2>3, <2>4
  <2> QED
    BY <2>1, <2>5 DEF CanRound, Fits
<1> QED
  BY <1>8, <1>9, <1>10, <1>11

LEMMA GenTxIs ==
  ASSUME TypeInv, NEW tokenID \in DOMAIN FeeReceivers, NEW sender \in DOMAIN Users,
         NEW receiver \in DOMAIN Users, canGenTx(tokenID, sender)
  PROVE  genTx(tokenID, sender, receiver) \in Txs
<1>1. PICK from, to : from = Users[sender][tokenID] /\ to = Users[receiver][tokenID]
  OBVIOUS
<1>2. from \in DOMAIN GenesisStates /\ to \in DOMAIN GenesisStates /\ from \in Nat /\ to \in Nat
  BY <1>1, PackingAssumption
<1>3. states[from].balance \in Nat /\ states[from].nonce \in Nat
  BY <1>2 DEF TypeInv, StateMaps, L2State
<1>4. PICK n \in Nat : n = states[from].balance \div 10
  BY <1>3, Quotient
<1>5. CanRound(n)
  BY <1>1, <1>4 DEF canGenTx
<1>6. PICK amount \in Nat : amount = round(n) /\ amount <= n
  BY <1>5, Rounded
<1>7. PICK k \in Nat : k = amount \div 10 /\ 10 * k <= amount
  BY Quotient
<1>8. CanRound(k)
  BY <1>5, <1>6, <1>7, Rounded
<1>9. PICK fee \in Nat : fee = round(k)
  BY <1>8, Rounded
<1>10. genTx(tokenID, sender, receiver)
         = [from |-> from, to |-> to, amount |-> amount, fee |-> fee,
            nonce |-> states[from].nonce, own |-> TRUE, signature |-> "valid"]
  BY <1>1, <1>4, <1>6, <1>7, <1>9 DEF genTx
<1> QED
  BY <1>2, <1>3, <1>10 DEF Txs, TransferOffchainTx

(***************************************************************************)
(* What an accepted transfer and its fees do to the states.                *)
(***************************************************************************)
\* Tokens and keys stay; the sender's nonce is one higher, others are the same.
LEMMA AcceptedIs ==
  ASSUME TypeInv, NEW tx \in Txs, NEW tokenID, validateTransferStateTransition(tx, tokenID)
  PROVE  /\ processTransfer(tx, tokenID) \in StateMaps
         /\ tx.from \in DOMAIN states /\ tx.nonce = states[tx.from].nonce
         /\ processTransfer(tx, tokenID)[tx.from].nonce = states[tx.from].nonce + 1
         /\ \A id \in DOMAIN GenesisStates \ {tx.from} :
              processTransfer(tx, tokenID)[id].nonce = states[id].nonce
<1>1. PICK from, to, amount, fee :
        from = tx.from /\ to = tx.to /\ amount = tx.amount /\ fee = tx.fee
  OBVIOUS
<1>2. amount \in Nat /\ fee \in Nat
  BY <1>1 DEF Txs, TransferOffchainTx
<1>3. states \in StateMaps /\ DOMAIN states = DOMAIN GenesisStates
  BY DEF TypeInv, StateMaps
<1>4. /\ from \in DOMAIN states /\ to \in DOMAIN states
      /\ L1!clientSender(states, from, tokenID, amount, fee).result = "Ok"
      /\ states[to].tokenID = tokenID /\ tx.nonce = states[from].nonce
  BY <1>1 DEF validateTransferStateTransition
<1>5. PICK s : s = [states EXCEPT ![from] = L1!ApplySender(@, amount, fee)]
  OBVIOUS
<1>6. /\ amount # 0 /\ ~(states[from].balance < amount + fee)
      /\ states[from].tokenID = tokenID
      /\ L1!clientSender(states, from, tokenID, amount, fee) = L1!Outcome("Ok", s)
  BY <1>4, <1>5 DEF L1!clientSender, L1!Thrown, L1!Outcome
<1>7. states[from] \in L2State /\ states[from].balance \in Nat /\ states[from].nonce \in Nat
  BY <1>3, <1>4 DEF StateMaps, L2State
<1>8. PICK sent : sent = L1!ApplySender(states[from], amount, fee)
  OBVIOUS
<1>9. sent \in L2State /\ sent.nonce = states[from].nonce + 1 /\ sent.tokenID = tokenID
  <2>1. PICK left, nonce : left = states[from].balance - (amount + fee)
                           /\ nonce = states[from].nonce + 1
    OBVIOUS
  <2>2. left \in Nat /\ nonce \in Nat
    BY <1>2, <1>6, <1>7, <2>1
  <2>3. sent = [states[from] EXCEPT !.balance = left, !.nonce = nonce]
    BY <1>8, <2>1 DEF L1!ApplySender
  <2>4. PICK st \in L2State : st = states[from]
    BY <1>7
  <2> QED
    BY <1>6, <2>1, <2>2, <2>3, <2>4 DEF L2State
<1>10. /\ s \in StateMaps /\ s[from] = sent /\ DOMAIN s = DOMAIN GenesisStates
       /\ \A id \in DOMAIN GenesisStates \ {from} : s[id] = states[id]
  BY <1>3, <1>4, <1>5, <1>8, <1>9 DEF StateMaps
<1>11. to \in DOMAIN s /\ s[to].tokenID = tokenID
  BY <1>3, <1>4, <1>9, <1>10
<1>12. PICK r : r = [s EXCEPT ![to] = L1!ApplyReceiver(@, amount)]
  OBVIOUS
<1>13. L1!clientReceiver(s, to, tokenID, amount) = L1!Outcome("Ok", r)
  BY <1>11, <1>12 DEF L1!clientReceiver
<1>14. processTransfer(tx, tokenID) = r
  BY <1>1, <1>6, <1>13 DEF processTransfer, L1!Then, L1!Outcome
<1>15. s[to] \in L2State /\ s[to].balance \in Nat
  BY <1>10, <1>11 DEF StateMaps, L2State
<1>16. PICK got : got = L1!ApplyReceiver(s[to], amount)
  OBVIOUS
<1>17. got \in L2State /\ got.nonce = s[to].nonce
  BY <1>2, <1>15, <1>16 DEF L1!ApplyReceiver, L2State
<1>18. /\ r \in StateMaps /\ r[to] = got
       /\ \A id \in DOMAIN GenesisStates \ {to} : r[id] = s[id]
  BY <1>10, <1>11, <1>12, <1>16, <1>17 DEF StateMaps
<1>19. \A id \in DOMAIN GenesisStates : r[id].nonce = s[id].nonce
  BY <1>17, <1>18
<1> QED
  BY <1>1, <1>3, <1>4, <1>9, <1>10, <1>14, <1>18, <1>19

\* What comes in leaves the nonces.
LEMMA ReceivedIs ==
  ASSUME TypeInv, NEW id, NEW tokenID, NEW amount \in Nat,
         L1!clientReceiver(states, id, tokenID, amount).result = "Ok"
  PROVE  /\ id \in DOMAIN GenesisStates
         /\ L1!clientReceiver(states, id, tokenID, amount).states \in StateMaps
         /\ \A k \in DOMAIN GenesisStates :
              L1!clientReceiver(states, id, tokenID, amount).states[k].nonce = states[k].nonce
<1>1. states \in StateMaps /\ DOMAIN states = DOMAIN GenesisStates
  BY DEF TypeInv, StateMaps
<1>2. PICK r : r = [states EXCEPT ![id] = L1!ApplyReceiver(@, amount)]
  OBVIOUS
<1>3. id \in DOMAIN states /\ L1!clientReceiver(states, id, tokenID, amount) = L1!Outcome("Ok", r)
  BY <1>2 DEF L1!clientReceiver, L1!Thrown, L1!Outcome
<1>4. states[id] \in L2State /\ states[id].balance \in Nat
  BY <1>1, <1>3 DEF StateMaps, L2State
<1>5. PICK got : got = L1!ApplyReceiver(states[id], amount)
  OBVIOUS
<1>6. got \in L2State /\ got.nonce = states[id].nonce
  BY <1>4, <1>5 DEF L1!ApplyReceiver, L2State
<1>7. /\ r \in StateMaps /\ r[id] = got
      /\ \A k \in DOMAIN GenesisStates \ {id} : r[k] = states[k]
  BY <1>1, <1>2, <1>3, <1>5, <1>6 DEF StateMaps
<1> QED
  BY <1>1, <1>3, <1>6, <1>7 DEF L1!Outcome

\* The fees of what was accepted are a number.
LEMMA FeesAre ==
  ASSUME NEW txs \in Seq(Txs)
  PROVE  FoldLeft(+, 0, [i \in DOMAIN txs |-> txs[i].fee]) \in Nat
<1>1. PICK n \in Nat : DOMAIN txs = 1 .. n /\ \A i \in 1 .. n : txs[i] \in Txs
  <2>1. Len(txs) \in Nat /\ DOMAIN txs = 1 .. Len(txs) /\ txs \in [1 .. Len(txs) -> Txs]
    OBVIOUS
  <2>2. \A i \in 1 .. Len(txs) : txs[i] \in Txs
    BY <2>1
  <2> QED
    BY <2>1, <2>2
<1>2. PICK fees : fees = [i \in DOMAIN txs |-> txs[i].fee]
  OBVIOUS
<1>3. DOMAIN fees = 1 .. n /\ \A i \in 1 .. n : fees[i] \in Nat /\ fees[i] \in Int
  BY <1>1, <1>2 DEF Txs, TransferOffchainTx
<1>4. FoldLeft(+, 0, fees) = SumFunctionOnSet(fees, 1 .. n)
  BY <1>3, TotalIsSum
<1>5. IsFiniteSet(1 .. n)
  BY FS_Interval
<1>6. SumFunctionOnSet(fees, 1 .. n) \in Nat
  BY <1>3, <1>5, SumNat
<1> QED
  BY <1>2, <1>4, <1>6

(***************************************************************************)
(* The invariant.                                                          *)
(***************************************************************************)
Spent(st, m) == m[2] \in DOMAIN st /\ m[4] < st[m[2]].nonce
Signatures(batch) == [c \in DOMAIN batch |-> batch[c].signature]

InSent   == UNION {Messages(Sent[b]) : b \in Batches}
InMaking   == Messages(packer.commits)
InAccepted == MessagesOf(packer.accepted)

\* Each nonce that was accepted is below that of the sender.
SpentInv == \A m \in InSent \cup InMaking \cup InAccepted : Spent(states, m)

\* So no message is accepted twice.
UniqueInv ==
  /\ \A b, c \in Batches : Messages(Sent[b]) \cap Messages(Sent[c]) # {} => b = c
  /\ \A b \in Batches : AllDiffer(Signatures(Sent[b]))
  /\ packer.pc \notin {"recording", "dead"} => InSent \cap InMaking = {}
  /\ AllDiffer(Signatures(packer.commits))
  /\ \A i, j \in DOMAIN packer.accepted :
       messageOfTx(packer.accepted[i]) = messageOfTx(packer.accepted[j]) => i = j
  /\ InAccepted \cap (InSent \cup InMaking) = {}

\* The storage has the batches of the L1, or all but the one to be recorded.
StoredInv ==
  /\ packer.pc = "recording" => Sent = Append(stored, packer.commits)
  /\ packer.pc \notin {"recording", "dead"} => stored = Sent
  /\ packer.pc = "dead" => stored = Sent \/ Sent = Append(stored, packer.commits)
  /\ MessagesOf(packer.acceptedTxs) = InMaking
  /\ packer.pc \in {"idle", "submitting", "recording", "waiting"} => packer.accepted = <<>>
  /\ packer.pc \notin {"recording", "waiting", "dead"} => l1Txn.status = "none"

\* A status has a batch ID exactly when its message is in that batch.
StatusInv ==
  /\ \A m \in DOMAIN statuses :
       /\ statuses[m].status = "Pending" => statuses[m].batchID = NoBatch
       /\ statuses[m].status = "Submitted" => statuses[m].batchID # NoBatch
       /\ statuses[m].batchID # NoBatch =>
            /\ statuses[m].batchID \in 1 .. Len(stored) - 1
            /\ m \in Messages(stored[statuses[m].batchID + 1])
  /\ \A b \in 2 .. Len(stored) : \A m \in Messages(stored[b]) :
       (m \in DOMAIN statuses /\ statuses[m].batchID = b - 1) \/ Unrecorded(m)

IInv ==
  /\ TypeInv /\ PipeInv
  /\ SpentInv /\ UniqueInv /\ StoredInv /\ StatusInv

(***************************************************************************)
(* The messages of batches.                                                *)
(***************************************************************************)
LEMMA CommitIs ==
  ASSUME NEW txs \in Seq(Txs), NEW st \in StateMaps, NEW id \in DOMAIN GenesisStates
  PROVE  /\ fromTxs(txs, st, id) \in MadeCommits
         /\ fromTxs(txs, st, id).signature = [i \in DOMAIN txs |-> messageOfTx(txs[i])]
<1>1. <<txs, st, id>> \in Seq(Txs) \X StateMaps \X DOMAIN GenesisStates
  OBVIOUS
<1>2. fromTxs(txs, st, id) \in MadeCommits
  BY <1>1 DEF MadeCommits
<1>3. fromTxs(txs, st, id).signature = [i \in DOMAIN txs |-> messageOfTx(txs[i])]
  BY DEF fromTxs
<1> QED
  BY <1>2, <1>3

LEMMA SignatureIs ==
  ASSUME NEW commit \in MadeCommits
  PROVE  commit.signature \in Seq(SignedMessages)
<1>1. PICK t \in Seq(Txs) \X StateMaps \X DOMAIN GenesisStates : commit = fromTxs(t[1], t[2], t[3])
  BY DEF MadeCommits
<1>2. PICK txs, st, id : txs = t[1] /\ st = t[2] /\ id = t[3]
  OBVIOUS
<1>3. txs \in Seq(Txs) /\ st \in StateMaps /\ id \in DOMAIN GenesisStates
  BY <1>2
<1>4. PICK n \in Nat : DOMAIN txs = 1 .. n /\ \A i \in 1 .. n : txs[i] \in Txs
  <2>1. Len(txs) \in Nat /\ DOMAIN txs = 1 .. Len(txs) /\ txs \in [1 .. Len(txs) -> Txs]
    BY <1>3
  <2>2. \A i \in 1 .. Len(txs) : txs[i] \in Txs
    BY <2>1
  <2> QED
    BY <2>1, <2>2
<1>5. commit.signature = [i \in 1 .. n |-> messageOfTx(txs[i])]
  BY <1>1, <1>2, <1>3, <1>4, CommitIs
<1>6. \A i \in 1 .. n : messageOfTx(txs[i]) \in SignedMessages
  BY <1>4, MessageFields
<1>7. commit.signature \in [1 .. n -> SignedMessages]
  BY <1>5, <1>6
<1> QED
  BY <1>7

LEMMA BatchMessages ==
  ASSUME NEW batch \in MadeBatches
  PROVE  /\ Len(batch) \in Nat /\ DOMAIN batch = 1 .. Len(batch)
         /\ Signatures(batch) \in [1 .. Len(batch) -> Seq(SignedMessages)]
         /\ \A c \in 1 .. Len(batch) : Signatures(batch)[c] = batch[c].signature
         /\ \A m : m \in Messages(batch) <=>
              \E c \in 1 .. Len(batch) : \E i \in DOMAIN batch[c].signature :
                m = batch[c].signature[i]
         /\ Messages(batch) \subseteq SignedMessages
<1>1. Len(batch) \in Nat /\ DOMAIN batch = 1 .. Len(batch) /\ batch \in [1 .. Len(batch) -> MadeCommits]
  BY DEF MadeBatches
<1>2. \A c \in 1 .. Len(batch) : batch[c] \in MadeCommits
  BY <1>1
<1>3. \A c \in 1 .. Len(batch) : batch[c].signature \in Seq(SignedMessages)
  BY <1>2, SignatureIs
<1>4. /\ Signatures(batch) \in [1 .. Len(batch) -> Seq(SignedMessages)]
      /\ \A c \in 1 .. Len(batch) : Signatures(batch)[c] = batch[c].signature
  BY <1>1, <1>3 DEF Signatures
<1>5. \A m : m \in Messages(batch) <=>
        \E c \in 1 .. Len(batch) : \E i \in DOMAIN batch[c].signature : m = batch[c].signature[i]
  BY <1>1 DEF Messages, ToSet
<1>6. ASSUME NEW c \in 1 .. Len(batch), NEW i \in DOMAIN batch[c].signature
      PROVE  batch[c].signature[i] \in SignedMessages
  <2>1. PICK s \in Seq(SignedMessages) : s = batch[c].signature
    BY <1>3
  <2>2. DOMAIN s = 1 .. Len(s) /\ s \in [1 .. Len(s) -> SignedMessages]
    OBVIOUS
  <2> QED
    BY <2>1, <2>2
<1> QED
  BY <1>1, <1>4, <1>5, <1>6

LEMMA NoMessages ==
  /\ Messages(<<>>) = {} /\ MessagesOf(<<>>) = {} /\ AllDiffer(Signatures(<<>>))
  /\ <<>> \in MadeBatches /\ <<>> \in Seq(Txs)
<1>1. DOMAIN <<>> = {}
  OBVIOUS
<1> QED
  BY <1>1 DEF Messages, MessagesOf, AllDiffer, Signatures, MadeBatches

LEMMA MoreMessages ==
  ASSUME NEW batch \in MadeBatches, NEW commit \in MadeCommits
  PROVE  /\ Append(batch, commit) \in MadeBatches
         /\ Messages(Append(batch, commit)) = Messages(batch) \cup ToSet(commit.signature)
<1>1. PICK n \in Nat : n = Len(batch) /\ DOMAIN batch = 1 .. n
  BY BatchMessages
<1>2. PICK more \in MadeBatches : more = Append(batch, commit)
  <2>1. Append(batch, commit) \in MadeBatches
    BY DEF MadeBatches
  <2> QED
    BY <2>1
<1>3. DOMAIN more = 1 .. n + 1 /\ more[n + 1] = commit /\ \A c \in 1 .. n : more[c] = batch[c]
  BY <1>1, <1>2 DEF MadeBatches
<1>4. 1 .. n + 1 = 1 .. n \cup {n + 1}
  OBVIOUS
<1>5. /\ Len(more) = n + 1
      /\ \A m : m \in Messages(more) <=>
           \E c \in 1 .. n + 1 : \E i \in DOMAIN more[c].signature : m = more[c].signature[i]
  <2>1. Len(more) = n + 1
    BY <1>1, <1>2
  <2> QED
    BY <2>1, BatchMessages
<1>6. \A m : m \in Messages(batch) <=>
        \E c \in 1 .. n : \E i \in DOMAIN batch[c].signature : m = batch[c].signature[i]
  BY <1>1, BatchMessages
<1>7. ASSUME NEW m PROVE m \in Messages(more) <=> m \in Messages(batch) \cup ToSet(commit.signature)
  <2>1. m \in ToSet(commit.signature) <=> \E i \in DOMAIN more[n + 1].signature : m = more[n + 1].signature[i]
    BY <1>3 DEF ToSet
  <2>2. (\E c \in 1 .. n + 1 : \E i \in DOMAIN more[c].signature : m = more[c].signature[i])
          <=> \/ \E c \in 1 .. n : \E i \in DOMAIN more[c].signature : m = more[c].signature[i]
              \/ \E i \in DOMAIN more[n + 1].signature : m = more[n + 1].signature[i]
    BY <1>4
  <2>3. (\E c \in 1 .. n : \E i \in DOMAIN more[c].signature : m = more[c].signature[i])
          <=> m \in Messages(batch)
    BY <1>3, <1>6
  <2> QED
    BY <1>5, <2>1, <2>2, <2>3
<1> QED
  BY <1>2, <1>7

\* What is spent stays so as nonces grow.
Grows(st, next) ==
  next \in StateMaps /\ \A id \in DOMAIN GenesisStates : st[id].nonce <= next[id].nonce

LEMMA SpentStays ==
  ASSUME NEW st \in StateMaps, NEW next, Grows(st, next), NEW m \in SignedMessages, Spent(st, m)
  PROVE  Spent(next, m)
<1>1. PICK tx \in Txs : m = messageOfTx(tx)
  BY DEF SignedMessages
<1>2. m[2] = tx.from /\ m[4] = tx.nonce /\ tx.nonce \in Nat
  <2>1. tx.nonce \in Nat
    BY DEF Txs, TransferOffchainTx
  <2> QED
    BY <1>1, <2>1, MessageFields
<1>3. PICK id \in DOMAIN GenesisStates : id = m[2]
  BY DEF Spent, StateMaps
<1>4. st[id].nonce \in Nat /\ next[id].nonce \in Nat
  <2>1. st[id] \in L2State /\ next[id] \in L2State
    BY DEF StateMaps, Grows
  <2> QED
    BY <2>1 DEF L2State
<1>5. st[id].nonce <= next[id].nonce /\ m[4] < st[id].nonce
  BY <1>3 DEF Grows, Spent
<1>6. DOMAIN next = DOMAIN GenesisStates
  BY DEF Grows, StateMaps
<1>7. m[4] < next[id].nonce
  BY <1>2, <1>4, <1>5
<1> QED
  BY <1>3, <1>6, <1>7 DEF Spent

(***************************************************************************)
(* What is taken.                                                          *)
(***************************************************************************)
LEMMA DiesIs ==
  ASSUME packer \in PackerType, Dies
  PROVE  /\ packer' \in PackerType /\ packer'.pc = "dead"
         /\ packer'.commits = packer.commits /\ packer'.accepted = packer.accepted
         /\ packer'.acceptedTxs = packer.acceptedTxs /\ packer'.tokenID = packer.tokenID
BY DEF Dies, PackerType

Accepts(tx) ==
  /\ packer'.accepted = Append(packer.accepted, tx)
  /\ states' \in StateMaps /\ tx.from \in DOMAIN GenesisStates
  /\ tx.nonce = states[tx.from].nonce /\ states'[tx.from].nonce = states[tx.from].nonce + 1
  /\ \A id \in DOMAIN GenesisStates \ {tx.from} : states'[id].nonce = states[id].nonce

LEMMA TakeIs ==
  ASSUME TypeInv, NEW tx \in Txs, packer.pc = "packing", Take(tx)
  PROVE  /\ states' \in StateMaps /\ packer' \in PackerType
         /\ packer'.pc \in {"packing", "committing", "dead"}
         /\ packer'.commits = packer.commits /\ packer'.acceptedTxs = packer.acceptedTxs
         /\ packer'.tokenID = packer.tokenID
         /\ (states' = states /\ packer'.accepted = packer.accepted) \/ Accepts(tx)
<1>1. packer \in PackerType /\ states \in StateMaps /\ DOMAIN states = DOMAIN GenesisStates
  BY DEF TypeInv, StateMaps
<1>2. CASE Full
  <2>1. packer' = [packer EXCEPT !.pc = "committing"] /\ states' = states
    BY <1>2 DEF Take
  <2> QED
    BY <1>1, <2>1 DEF PackerType
<1>3. CASE ~Full /\ validateTransferStateTransition(tx, packer.tokenID)
  <2>1. /\ packer' = [packer EXCEPT !.accepted = Append(packer.accepted, tx)]
        /\ states' = processTransfer(tx, packer.tokenID)
    BY <1>3 DEF Take
  <2>2. Append(packer.accepted, tx) \in Seq(Txs)
    BY <1>1 DEF PackerType
  <2>3. /\ packer' \in PackerType /\ packer'.accepted = Append(packer.accepted, tx)
        /\ packer'.pc = "packing" /\ packer'.commits = packer.commits
        /\ packer'.acceptedTxs = packer.acceptedTxs /\ packer'.tokenID = packer.tokenID
    BY <1>1, <2>1, <2>2 DEF PackerType
  <2>4. /\ states' \in StateMaps /\ tx.from \in DOMAIN states /\ tx.nonce = states[tx.from].nonce
        /\ states'[tx.from].nonce = states[tx.from].nonce + 1
        /\ \A id \in DOMAIN GenesisStates \ {tx.from} : states'[id].nonce = states[id].nonce
    BY <1>3, <2>1, AcceptedIs
  <2>5. Accepts(tx)
    BY <1>1, <2>3, <2>4 DEF Accepts
  <2> QED
    BY <2>3, <2>4, <2>5
<1>4. CASE ~Full /\ ~validateTransferStateTransition(tx, packer.tokenID)
  <2>1. /\ states' = states
        /\ IF hasHash(tx) THEN packer' = [packer EXCEPT !.failed = Append(packer.failed, tx)] ELSE Dies
    BY <1>4 DEF Take
  <2>2. CASE hasHash(tx)
    <3>1. Append(packer.failed, tx) \in Seq(Txs)
      BY <1>1 DEF PackerType
    <3> QED
      BY <1>1, <2>1, <2>2, <3>1 DEF PackerType
  <2>3. CASE ~hasHash(tx)
    BY <1>1, <2>1, <2>3, DiesIs
  <2> QED
    BY <2>2, <2>3
<1> QED
  BY <1>2, <1>3, <1>4

LEMMA SameMessages ==
  /\ Sent' = Sent => InSent' = InSent /\ Batches' = Batches
  /\ packer'.commits = packer.commits => InMaking' = InMaking
  /\ packer'.accepted = packer.accepted => InAccepted' = InAccepted
BY DEF InSent, Batches, InMaking, InAccepted

LEMMA MadeMessages ==
  ASSUME TypeInv
  PROVE  InSent \cup InMaking \cup InAccepted \subseteq SignedMessages
<1>1. InMaking \subseteq SignedMessages
  BY BatchMessages DEF TypeInv, PackerType, InMaking
<1>2. ASSUME NEW b \in Batches PROVE Messages(Sent[b]) \subseteq SignedMessages
  <2>1. Sent[b] \in MadeBatches
    BY DEF TypeInv, IsChain, Batches
  <2> QED
    BY <2>1, BatchMessages
<1>3. InSent \subseteq SignedMessages
  BY <1>2 DEF InSent
<1>4. InAccepted \subseteq SignedMessages
  <2>1. PICK txs \in Seq(Txs) : txs = packer.accepted
    BY DEF TypeInv, PackerType
  <2>2. \A i \in DOMAIN txs : txs[i] \in Txs
    <3>1. txs \in [1 .. Len(txs) -> Txs] /\ DOMAIN txs = 1 .. Len(txs)
      OBVIOUS
    <3> QED
      BY <3>1
  <2> QED
    BY <2>1, <2>2, MessageFields DEF InAccepted, MessagesOf
<1> QED
  BY <1>1, <1>3, <1>4

\* What is in batches, commitments and accepted stays.
LEMMA SameKeeps ==
  ASSUME TypeInv, SpentInv, UniqueInv, Grows(states, states'), Sent' = Sent,
         packer'.commits = packer.commits, packer'.accepted = packer.accepted,
         packer.pc \notin {"recording", "dead"} \/ packer'.pc \in {"recording", "dead"}
  PROVE  SpentInv' /\ UniqueInv'
<1>1. /\ InSent' = InSent /\ Batches' = Batches /\ InMaking' = InMaking
      /\ InAccepted' = InAccepted
  BY SameMessages
<1>2. ASSUME NEW m \in InSent \cup InMaking \cup InAccepted PROVE Spent(states', m)
  <2>1. m \in SignedMessages /\ Spent(states, m) /\ states \in StateMaps
    BY MadeMessages DEF SpentInv, TypeInv
  <2> QED
    BY <2>1, SpentStays
<1>3. SpentInv'
  BY <1>1, <1>2 DEF SpentInv
<1>4. UniqueInv'
  BY <1>1 DEF UniqueInv
<1> QED
  BY <1>3, <1>4

LEMMA GrowsSame ==
  ASSUME TypeInv
  PROVE  Grows(states, states)
<1>1. \A id \in DOMAIN GenesisStates : states[id].nonce \in Nat
  BY DEF TypeInv, StateMaps, L2State
<1> QED
  BY <1>1 DEF TypeInv, Grows

LEMMA AcceptKeeps ==
  ASSUME TypeInv, SpentInv, UniqueInv, NEW tx \in Txs, Accepts(tx), Sent' = Sent,
         packer'.commits = packer.commits, packer.pc \notin {"recording", "dead"}
  PROVE  SpentInv' /\ UniqueInv'
<1>1. PICK m \in SignedMessages : m = messageOfTx(tx) /\ m[2] = tx.from /\ m[4] = tx.nonce
  BY MessageFields
<1>2. PICK txs \in Seq(Txs) : txs = packer.accepted
  BY DEF TypeInv, PackerType
<1>3. packer'.accepted = Append(txs, tx) /\ InAccepted' = InAccepted \cup {m}
  BY <1>1, <1>2, MoreTxs DEF Accepts, InAccepted
<1>4. InSent' = InSent /\ Batches' = Batches /\ InMaking' = InMaking
  BY SameMessages
<1>5. /\ \A id \in DOMAIN GenesisStates : states[id].nonce \in Nat
      /\ states \in StateMaps /\ DOMAIN states = DOMAIN GenesisStates
  BY DEF TypeInv, StateMaps, L2State
<1>6. Grows(states, states')
  <2>1. ASSUME NEW id \in DOMAIN GenesisStates PROVE states[id].nonce <= states'[id].nonce
    <3>1. CASE id = tx.from
      BY <1>5, <3>1 DEF Accepts
    <3>2. CASE id # tx.from
      BY <1>5, <3>2 DEF Accepts
    <3> QED
      BY <3>1, <3>2
  <2> QED
    BY <2>1 DEF Grows, Accepts
<1>7. ASSUME NEW k \in InSent \cup InMaking \cup InAccepted PROVE Spent(states', k) /\ k # m
  <2>1. k \in SignedMessages /\ Spent(states, k)
    BY MadeMessages DEF SpentInv
  <2>2. Spent(states', k)
    BY <1>5, <1>6, <2>1, SpentStays
  <2>3. ASSUME k = m PROVE FALSE
    <3>1. m[4] < states[m[2]].nonce /\ m[4] = states[m[2]].nonce
      BY <1>1, <2>1, <2>3 DEF Spent, Accepts
    <3>2. states[m[2]].nonce \in Nat
      BY <1>1, <1>5 DEF Accepts
    <3> QED
      BY <3>1, <3>2
  <2> QED
    BY <2>2, <2>3
<1>8. Spent(states', m)
  <2>1. DOMAIN states' = DOMAIN GenesisStates
    BY DEF Accepts, StateMaps
  <2>2. PICK n \in Nat : n = states[tx.from].nonce
    BY <1>5 DEF Accepts
  <2>3. states'[tx.from].nonce = n + 1 /\ m[4] = n /\ m[2] = tx.from /\ tx.from \in DOMAIN states'
    BY <1>1, <2>1, <2>2 DEF Accepts
  <2> QED
    BY <2>3 DEF Spent
<1>9. SpentInv'
  BY <1>3, <1>4, <1>7, <1>8 DEF SpentInv
<1>10. \A i, j \in DOMAIN packer'.accepted :
         messageOfTx(packer'.accepted[i]) = messageOfTx(packer'.accepted[j]) => i = j
  <2>1. PICK n \in Nat : n = Len(txs) /\ DOMAIN txs = 1 .. n
    OBVIOUS
  <2>2. PICK more \in Seq(Txs) : more = Append(txs, tx)
    BY MoreTxs
  <2>3. DOMAIN more = 1 .. n + 1 /\ more[n + 1] = tx /\ \A i \in 1 .. n : more[i] = txs[i]
    BY <2>1, <2>2
  <2>4. \A i \in 1 .. n : messageOfTx(txs[i]) # m
    BY <1>2, <1>7, <2>1 DEF InAccepted, MessagesOf
  <2>5. \A i, j \in 1 .. n : messageOfTx(txs[i]) = messageOfTx(txs[j]) => i = j
    BY <1>2, <2>1 DEF UniqueInv
  <2>6. ASSUME NEW i \in 1 .. n + 1, NEW j \in 1 .. n + 1,
               messageOfTx(more[i]) = messageOfTx(more[j])
        PROVE  i = j
    <3>1. i \in 1 .. n \/ i = n + 1
      OBVIOUS
    <3>2. j \in 1 .. n \/ j = n + 1
      OBVIOUS
    <3> QED
      BY <1>1, <2>3, <2>4, <2>5, <2>6, <3>1, <3>2
  <2> QED
    BY <1>3, <2>2, <2>3, <2>6
<1>11. m \notin InSent \cup InMaking
  BY <1>7
<1>12. /\ \A b, c \in Batches : Messages(Sent[b]) \cap Messages(Sent[c]) # {} => b = c
       /\ \A b \in Batches : AllDiffer(Signatures(Sent[b]))
       /\ InSent \cap InMaking = {} /\ AllDiffer(Signatures(packer.commits))
       /\ InAccepted \cap (InSent \cup InMaking) = {}
  BY DEF UniqueInv
<1>13. (InAccepted \cup {m}) \cap (InSent \cup InMaking) = {}
  BY <1>11, <1>12
<1>14. UniqueInv'
  BY <1>3, <1>4, <1>10, <1>12, <1>13 DEF UniqueInv
<1> QED
  BY <1>9, <1>14

LEMMA TakeKeeps ==
  ASSUME TypeInv, SpentInv, UniqueInv, NEW tx \in Txs, packer.pc = "packing", Take(tx),
         Sent' = Sent
  PROVE  SpentInv' /\ UniqueInv'
<1>1. CASE states' = states /\ packer'.accepted = packer.accepted
  <2>1. packer'.commits = packer.commits
    BY TakeIs
  <2>2. Grows(states, states')
    BY <1>1, GrowsSame
  <2> QED
    BY <1>1, <2>1, <2>2, SameKeeps
<1>2. CASE Accepts(tx)
  BY <1>2, TakeIs, AcceptKeeps
<1> QED
  BY <1>1, <1>2, TakeIs

\* What does not touch the batches leaves what is stored of them.
LEMMA StoredStays ==
  ASSUME StoredInv, Sent' = Sent, l1Txn' = l1Txn, stored' = stored,
         packer'.commits = packer.commits, packer'.acceptedTxs = packer.acceptedTxs,
         packer.pc \notin {"recording", "waiting", "dead"},
         packer'.pc \notin {"recording", "waiting"},
         packer'.pc \in {"idle", "submitting"} => packer'.accepted = <<>>
  PROVE  StoredInv'
<1>1. InMaking' = InMaking
  BY SameMessages
<1> QED
  BY <1>1 DEF StoredInv

\* Statuses that are extended say nothing new of batches.
LEMMA StatusStays ==
  ASSUME TypeInv, StatusInv, stored' = stored, Extends(statuses, statuses'),
         packer.pc = "dead" => packer'.pc = "dead" /\ packer'.commits = packer.commits
  PROVE  StatusInv'
<1>1. \A m : Unrecorded(m) => Unrecorded(m)'
  BY DEF Unrecorded
<1>2. ASSUME NEW m \in DOMAIN statuses'
      PROVE  /\ statuses'[m].status = "Pending" => statuses'[m].batchID = NoBatch
             /\ statuses'[m].status = "Submitted" => statuses'[m].batchID # NoBatch
             /\ statuses'[m].batchID # NoBatch =>
                  /\ statuses'[m].batchID \in 1 .. Len(stored) - 1
                  /\ m \in Messages(stored[statuses'[m].batchID + 1])
  <2>1. CASE m \in DOMAIN statuses
    <3>1. statuses'[m] = statuses[m]
      BY <2>1 DEF Extends
    <3> QED
      BY <2>1, <3>1 DEF StatusInv
  <2>2. CASE m \notin DOMAIN statuses
    BY <2>2 DEF Extends
  <2> QED
    BY <2>1, <2>2
<1>3. ASSUME NEW b \in 2 .. Len(stored), NEW m \in Messages(stored[b])
      PROVE  (m \in DOMAIN statuses' /\ statuses'[m].batchID = b - 1) \/ Unrecorded(m)'
  <2>1. (m \in DOMAIN statuses /\ statuses[m].batchID = b - 1) \/ Unrecorded(m)
    BY DEF StatusInv
  <2>2. m \in DOMAIN statuses => m \in DOMAIN statuses' /\ statuses'[m] = statuses[m]
    BY DEF Extends
  <2> QED
    BY <1>1, <2>1, <2>2
<1> QED
  BY <1>2, <1>3 DEF StatusInv

LEMMA ExtendsSame == ASSUME TypeInv PROVE Extends(statuses, statuses)
BY DEF TypeInv, Extends

(***************************************************************************)
(* Each action keeps the invariant.                                        *)
(***************************************************************************)
LEMMA TokensAre ==
  ASSUME NEW p \in Pools
  PROVE  getHighestValueToken(p) \in DOMAIN FeeReceivers \cup {NoToken}
<1> DEFINE value(tokenID) == getQueueValue(p[tokenID])
           highest == {tokenID \in DOMAIN p :
                         /\ value(tokenID) > 0
                         /\ \A other \in DOMAIN p : value(other) <= value(tokenID)}
<1>1. getHighestValueToken(p) = IF highest = {} THEN NoToken ELSE Min(highest)
  BY DEF getHighestValueToken
<1>2. highest \subseteq DOMAIN FeeReceivers /\ highest \subseteq Nat
  <2>1. DOMAIN p = DOMAIN FeeReceivers
    BY DEF Pools
  <2> QED
    BY <2>1, PoolAssumption
<1> HIDE DEF highest
<1>3. CASE highest # {}
  <2>1. \E x \in highest : \A y \in highest : x <= y
    BY <1>2, <1>3, LeastNumber
  <2>2. Min(highest) \in highest
    BY <2>1 DEF Min
  <2> QED
    BY <1>1, <1>2, <1>3, <2>2
<1> QED
  BY <1>1, <1>3

LEMMA InitInv == Init => IInv
<1> SUFFICES ASSUME Init PROVE IInv
  OBVIOUS
<1>1. /\ states = GenesisStates /\ statuses = <<>> /\ pool = EmptyPool /\ packer = Idle
      /\ stored = <<<<Genesis>>>> /\ rollup = <<<<Genesis>>>> /\ Sent = <<<<Genesis>>>>
      /\ l1Txn = NoTxn /\ l1Txn.status = "none" /\ pushes = 0
  BY DEF Init, NoTxn, Sent, IsUnmined
<1>2. packer \in PackerType /\ packer.pc = "idle"
      /\ packer.commits = <<>> /\ packer.accepted = <<>> /\ packer.acceptedTxs = <<>>
  BY <1>1, NoMessages DEF Idle, PackerType
<1>3. simulator \in SimulatorType
  <2>1. 1 \in DOMAIN Users
    BY PackingAssumption
  <2> QED
    BY <2>1, NoMessages DEF Init, SimulatorType
<1>4. states \in StateMaps
  BY <1>1, PackingAssumption DEF StateMaps
<1>5. statuses \in StatusMaps /\ DOMAIN statuses = {}
  <2>1. statuses \in [{} -> Status] /\ {} \in SUBSET SignedMessages
    BY <1>1
  <2> QED
    BY <2>1 DEF StatusMaps
<1>6. IsChain(<<<<Genesis>>>>) /\ Len(<<<<Genesis>>>>) = 1
  <2>1. <<<<Genesis>>>> \in Chains
    BY DEF Chains
  <2> QED
    BY <2>1 DEF IsChain
<1>7. pool \in Pools
  BY <1>1, NoMessages DEF EmptyPool, Pools
<1>8. TypeInv
  <2>1. l1Txn \in TxnType
    BY <1>1, NoMessages DEF NoTxn, NoBatch, TxnType
  <2> QED
    BY <1>1, <1>2, <1>3, <1>4, <1>5, <1>6, <1>7, <2>1 DEF TypeInv
<1>10. Batches = {} /\ InSent = {} /\ InMaking = {} /\ InAccepted = {}
  BY <1>1, <1>2, <1>6, NoMessages DEF Batches, InSent, InMaking, InAccepted
<1>11. SpentInv
  BY <1>10 DEF SpentInv
<1>12. UniqueInv
  BY <1>2, <1>10, NoMessages DEF UniqueInv
<1>13. StoredInv
  BY <1>1, <1>2, <1>10, NoMessages DEF StoredInv
<1>14. StatusInv
  BY <1>1, <1>5, <1>6 DEF StatusInv
<1>15. PipeInv
  BY <1>2 DEF PipeInv
<1> QED
  BY <1>8, <1>11, <1>12, <1>13, <1>14, <1>15 DEF IInv

\* A step that leaves the pool, the simulator, the L1 and the storages.
LEMMA PackerKeeps ==
  ASSUME IInv, packer' \in PackerType, Grows(states, states'),
         UNCHANGED <<statuses, stored, pool, rollup, l1Txn, Sent, pushes, simulator>>,
         packer'.pc = "packing" /\ simulator.used => packer'.tokenID \in DOMAIN FeeReceivers
  PROVE  TypeInv' /\ PipeInv'
<1>1. TypeInv'
  BY DEF IInv, TypeInv, IsChain, Grows
<1> QED
  BY <1>1 DEF IInv, PipeInv

LEMMA PushKeeps ==
  ASSUME IInv, NEW n \in 1 .. MaxTogether, NEW txs \in [1 .. n -> Offered], Push(txs)
  PROVE  IInv'
<1>1. n \in Nat /\ n <= MaxTogether /\ txs \in [1 .. n -> Txs] /\ Len(txs) = n
  BY Limits, PackingAssumption DEF Txs
<1>2. /\ pool' = pushed(pool, states, txs) /\ statuses' = pendingAll(statuses, txs)
      /\ pushes' = pushes + Len(txs)
      /\ UNCHANGED <<states, stored, simulator, packer, rollup, l1Txn, Sent>>
  BY DEF Push, Pushed, pushed, pendingAll, Sent, IsUnmined
<1>3. TypeInv /\ pool \in Pools /\ statuses \in StatusMaps /\ pushes \in Nat
  BY DEF IInv, TypeInv
<1>4. pool' \in Pools
  BY <1>1, <1>2, <1>3, PushesAdd
<1>5. Extends(statuses, statuses')
  BY <1>1, <1>2, <1>3, PendingsExtend
<1>6. TypeInv'
  BY <1>1, <1>2, <1>3, <1>4, <1>5 DEF TypeInv, IsChain, Extends
<1>8. SpentInv' /\ UniqueInv'
  BY <1>2, <1>3, GrowsSame, SameKeeps DEF IInv
<1>9. StoredInv' /\ PipeInv'
  BY <1>2, SameMessages DEF IInv, StoredInv, PipeInv
<1>10. StatusInv'
  BY <1>2, <1>3, <1>5, StatusStays DEF IInv
<1> QED
  BY <1>6, <1>8, <1>9, <1>10 DEF IInv

LEMMA PullFromPoolKeeps == ASSUME IInv, PullFromPool PROVE IInv'
<1>1. PICK t : t = packer.tokenID
  OBVIOUS
<1>2. /\ packer.pc = "packing" /\ ~simulator.used /\ queueSize(pool, t) > 0
      /\ pool' = pop(pool, t).pool /\ Take(pop(pool, t).tx)
      /\ UNCHANGED <<statuses, stored, simulator, rollup, l1Txn, Sent, pushes>>
  BY <1>1 DEF PullFromPool, Sent, IsUnmined
<1>3. TypeInv /\ pool \in Pools
  BY DEF IInv, TypeInv
<1>4. t \in DOMAIN FeeReceivers /\ Len(pool[t]) > 0
  BY <1>2, <1>3 DEF queueSize, Pools
<1>5. PICK tx \in Txs : tx = pop(pool, t).tx
  BY <1>3, <1>4, PopTakes
<1>6. pool' \in Pools
  BY <1>2, <1>3, <1>4, PopTakes
<1>7. /\ states' \in StateMaps /\ packer' \in PackerType
      /\ packer'.pc \in {"packing", "committing", "dead"}
      /\ packer'.commits = packer.commits /\ packer'.acceptedTxs = packer.acceptedTxs
  BY <1>2, <1>3, <1>5, TakeIs
<1>8. TypeInv'
  BY <1>2, <1>3, <1>6, <1>7 DEF TypeInv, IsChain
<1>10. SpentInv' /\ UniqueInv'
  BY <1>2, <1>3, <1>5, TakeKeeps DEF IInv
<1>11. StoredInv'
  BY <1>2, <1>7, StoredStays DEF IInv
<1>12. StatusInv'
  <2>1. Extends(statuses, statuses')
    BY <1>2, <1>3, ExtendsSame
  <2> QED
    BY <1>2, <1>3, <2>1, StatusStays DEF IInv
<1>13. PipeInv'
  BY <1>2 DEF PipeInv
<1> QED
  BY <1>8, <1>10, <1>11, <1>12, <1>13 DEF IInv

LEMMA ExhaustedKeeps == ASSUME IInv, Exhausted PROVE IInv'
<1>1. /\ packer.pc = "packing" /\ packer' = [packer EXCEPT !.pc = "committing"]
      /\ UNCHANGED <<states, statuses, stored, pool, simulator, rollup, l1Txn, Sent, pushes>>
  BY DEF Exhausted, Sent, IsUnmined
<1>2. TypeInv /\ packer \in PackerType
  BY DEF IInv, TypeInv
<1>3. /\ packer' \in PackerType /\ packer'.pc = "committing"
      /\ packer'.commits = packer.commits /\ packer'.accepted = packer.accepted
      /\ packer'.acceptedTxs = packer.acceptedTxs
  BY <1>1, <1>2 DEF PackerType
<1>4. Grows(states, states')
  BY <1>1, <1>2, GrowsSame
<1>5. TypeInv' /\ PipeInv'
  BY <1>1, <1>3, <1>4, PackerKeeps
<1>6. SpentInv' /\ UniqueInv'
  BY <1>1, <1>2, <1>3, <1>4, SameKeeps DEF IInv
<1>7. StoredInv'
  BY <1>1, <1>3, StoredStays DEF IInv
<1>8. StatusInv'
  <2>1. Extends(statuses, statuses')
    BY <1>1, <1>2, ExtendsSame
  <2> QED
    BY <1>1, <1>2, <2>1, StatusStays DEF IInv
<1> QED
  BY <1>5, <1>6, <1>7, <1>8 DEF IInv

LEMMA PullFromSimulatorKeeps ==
  ASSUME IInv, NEW receiver \in DOMAIN Users, PullFromSimulator(receiver)
  PROVE  IInv'
<1>1. TypeInv /\ packer \in PackerType /\ simulator \in SimulatorType /\ statuses \in StatusMaps
  BY DEF IInv, TypeInv
<1>2. /\ packer.pc = "packing" /\ simulator.used /\ statuses' = AfterYield.statuses
      /\ UNCHANGED <<stored, pool, rollup, l1Txn, Sent, pushes>>
  BY DEF PullFromSimulator, Sent, IsUnmined
<1>3. packer.tokenID \in DOMAIN FeeReceivers
  BY <1>2 DEF IInv, PipeInv
<1>4. PICK last \in Seq(Txs) : last = simulator.last
  BY <1>1 DEF SimulatorType
<1>5. Extends(statuses, statuses')
  <2>1. CASE last = <<>>
    <3>1. statuses' = statuses
      BY <1>2, <1>4, <2>1 DEF AfterYield, Yielded, Kept
    <3> QED
      BY <1>1, <3>1, ExtendsSame
  <2>2. CASE last # <<>>
    <3>1. last[1] \in Txs
      BY <2>2
    <3>2. messageOfTx(last[1]) \in SignedMessages
      BY <3>1, MessageFields
    <3>3. statuses' = pending(statuses, messageOfTx(last[1])).statuses
      BY <1>2, <1>4, <2>2 DEF AfterYield, Yielded
    <3> QED
      BY <1>1, <3>2, <3>3, PendingExtends
  <2> QED
    BY <2>1, <2>2
<1>6. CASE ~(AfterYield.result = "Ok" /\ canGenTx(packer.tokenID, simulator.user))
  <2>1. Dies /\ states' = states /\ simulator' = simulator
    BY <1>6 DEF PullFromSimulator
  <2>2. /\ packer' \in PackerType /\ packer'.pc = "dead"
        /\ packer'.commits = packer.commits /\ packer'.accepted = packer.accepted
        /\ packer'.acceptedTxs = packer.acceptedTxs
    BY <1>1, <2>1, DiesIs
  <2>3. TypeInv'
    BY <1>1, <1>2, <1>5, <2>1, <2>2 DEF TypeInv, IsChain, Extends
  <2>4. PipeInv'
    BY <1>2, <2>2 DEF IInv, PipeInv
  <2>5. SpentInv' /\ UniqueInv'
    BY <1>1, <1>2, <2>1, <2>2, GrowsSame, SameKeeps DEF IInv
  <2>6. StoredInv'
    BY <1>2, <2>2, StoredStays DEF IInv
  <2>7. StatusInv'
    BY <1>1, <1>2, <1>5, StatusStays DEF IInv
  <2> QED
    BY <2>3, <2>4, <2>5, <2>6, <2>7 DEF IInv
<1>7. CASE AfterYield.result = "Ok" /\ canGenTx(packer.tokenID, simulator.user)
  <2>1. simulator.user \in DOMAIN Users
    BY <1>1 DEF SimulatorType
  <2>2. PICK tx \in Txs : tx = genTx(packer.tokenID, simulator.user, receiver)
    BY <1>1, <1>3, <1>7, <2>1, GenTxIs
  <2>3. /\ Take(tx)
        /\ simulator' = [simulator EXCEPT
             !.numTransfers = simulator.numTransfers + Len(last),
             !.last = IF Full THEN <<>> ELSE <<tx>>,
             !.user = IF Full THEN 1 ELSE (simulator.user % Len(Users)) + 1]
    BY <1>4, <1>7, <2>2 DEF PullFromSimulator, Yielded
  <2>4. simulator' \in SimulatorType /\ simulator'.used = simulator.used
    <3>1. PICK number, user : /\ number = simulator.numTransfers + Len(last)
                              /\ user = IF Full THEN 1 ELSE (simulator.user % Len(Users)) + 1
      OBVIOUS
    <3>2. PICK next : next = IF Full THEN <<>> ELSE <<tx>>
      OBVIOUS
    <3>3. number \in Nat
      BY <1>1, <3>1 DEF SimulatorType
    <3>4. user \in DOMAIN Users
      <4>1. Len(Users) \in Nat \ {0} /\ DOMAIN Users = 1 .. Len(Users)
        BY PackingAssumption
      <4>2. simulator.user \in Nat
        BY <2>1, <4>1
      <4> QED
        BY <3>1, <4>1, <4>2
    <3>5. next \in Seq(Txs)
      BY <3>2
    <3>6. simulator' = [simulator EXCEPT !.numTransfers = number, !.last = next, !.user = user]
      BY <2>3, <3>1, <3>2
    <3> QED
      BY <1>1, <3>3, <3>4, <3>5, <3>6 DEF SimulatorType
  <2>5. /\ states' \in StateMaps /\ packer' \in PackerType
        /\ packer'.pc \in {"packing", "committing", "dead"}
        /\ packer'.commits = packer.commits /\ packer'.acceptedTxs = packer.acceptedTxs
        /\ packer'.tokenID = packer.tokenID
    BY <1>1, <1>2, <2>3, TakeIs
  <2>6. TypeInv'
    BY <1>1, <1>2, <1>5, <2>4, <2>5 DEF TypeInv, IsChain, Extends
  <2>7. PipeInv'
    BY <1>2, <1>3, <2>5 DEF IInv, PipeInv
  <2>8. SpentInv' /\ UniqueInv'
    BY <1>1, <1>2, <2>3, TakeKeeps DEF IInv
  <2>9. StoredInv'
    BY <1>2, <2>5, StoredStays DEF IInv
  <2>10. StatusInv'
    BY <1>1, <1>2, <1>5, StatusStays DEF IInv
  <2> QED
    BY <2>6, <2>7, <2>8, <2>9, <2>10 DEF IInv
<1> QED
  BY <1>6, <1>7

LEMMA StartBatchKeeps == ASSUME IInv, StartBatch PROVE IInv'
<1>1. /\ packer.pc = "idle" /\ packer' = [packer EXCEPT !.pc = "piping"]
      /\ UNCHANGED <<states, statuses, stored, pool, simulator, rollup, l1Txn, Sent, pushes>>
  BY DEF StartBatch, Sent, IsUnmined
<1>2. TypeInv /\ packer \in PackerType
  BY DEF IInv, TypeInv
<1>3. /\ packer' \in PackerType /\ packer'.pc = "piping"
      /\ packer'.commits = packer.commits /\ packer'.accepted = packer.accepted
      /\ packer'.acceptedTxs = packer.acceptedTxs
  BY <1>1, <1>2 DEF PackerType
<1>4. Grows(states, states')
  BY <1>1, <1>2, GrowsSame
<1>5. TypeInv' /\ PipeInv'
  BY <1>1, <1>3, <1>4, PackerKeeps
<1>6. SpentInv' /\ UniqueInv'
  BY <1>1, <1>2, <1>3, <1>4, SameKeeps DEF IInv
<1>7. StoredInv'
  BY <1>1, <1>3, StoredStays DEF IInv
<1>8. StatusInv'
  <2>1. Extends(statuses, statuses')
    BY <1>1, <1>2, ExtendsSame
  <2> QED
    BY <1>1, <1>2, <2>1, StatusStays DEF IInv
<1> QED
  BY <1>5, <1>6, <1>7, <1>8 DEF IInv

LEMMA GetNextPipeKeeps == ASSUME IInv, getNextPipe PROVE IInv'
<1>1. /\ packer.pc = "piping"
      /\ UNCHANGED <<states, statuses, stored, pool, simulator, rollup, l1Txn, Sent, pushes>>
  BY DEF getNextPipe, Sent, IsUnmined
<1>2. TypeInv /\ packer \in PackerType /\ pool \in Pools
  BY DEF IInv, TypeInv
<1>3. PICK tokenID \in IF simulator.used THEN DOMAIN FeeReceivers
                       ELSE {getHighestValueToken(pool)} :
        packer' = [packer EXCEPT !.pc = "packing", !.tokenID = tokenID]
  BY DEF getNextPipe
<1>4. /\ tokenID \in DOMAIN FeeReceivers \cup {NoToken}
      /\ simulator.used => tokenID \in DOMAIN FeeReceivers
  BY <1>2, <1>3, TokensAre
<1>5. /\ packer' \in PackerType /\ packer'.pc = "packing" /\ packer'.tokenID = tokenID
      /\ packer'.commits = packer.commits /\ packer'.accepted = packer.accepted
      /\ packer'.acceptedTxs = packer.acceptedTxs
  BY <1>2, <1>3, <1>4 DEF PackerType
<1>6. Grows(states, states')
  BY <1>1, <1>2, GrowsSame
<1>7. TypeInv' /\ PipeInv'
  BY <1>1, <1>4, <1>5, <1>6, PackerKeeps
<1>8. SpentInv' /\ UniqueInv'
  BY <1>1, <1>2, <1>5, <1>6, SameKeeps DEF IInv
<1>9. StoredInv'
  BY <1>1, <1>5, StoredStays DEF IInv
<1>10. StatusInv'
  <2>1. Extends(statuses, statuses')
    BY <1>1, <1>2, ExtendsSame
  <2> QED
    BY <1>1, <1>2, <2>1, StatusStays DEF IInv
<1> QED
  BY <1>7, <1>8, <1>9, <1>10 DEF IInv

\* One more commitment, of messages that were in none before.
LEMMA CommitDiffers ==
  ASSUME NEW batch \in MadeBatches, NEW commit \in MadeCommits,
         AllDiffer(Signatures(batch)), NoneTwice(commit.signature),
         Messages(batch) \cap ToSet(commit.signature) = {}
  PROVE  AllDiffer(Signatures(Append(batch, commit)))
<1>1. PICK more \in MadeBatches : more = Append(batch, commit)
  BY MoreMessages
<1>2. PICK n \in Nat : n = Len(batch) /\ DOMAIN batch = 1 .. n
  BY BatchMessages
<1>3. /\ Len(more) = n + 1 /\ more[n + 1] = commit
      /\ \A c \in 1 .. n : more[c] = batch[c]
  BY <1>1, <1>2 DEF MadeBatches
<1>4. /\ DOMAIN Signatures(more) = 1 .. n + 1
      /\ \A c \in 1 .. n + 1 : Signatures(more)[c] = more[c].signature
  BY <1>3, BatchMessages
<1>5. /\ DOMAIN Signatures(batch) = 1 .. n
      /\ \A c \in 1 .. n : Signatures(batch)[c] = batch[c].signature
  BY <1>2, BatchMessages
<1>6. PICK old, sign, all : /\ old = Signatures(batch) /\ sign = commit.signature
                            /\ all = Signatures(more)
  OBVIOUS
<1>7. all[n + 1] = sign /\ \A c \in 1 .. n : all[c] = old[c]
  BY <1>3, <1>4, <1>5, <1>6
<1>8. ASSUME NEW c \in 1 .. n, NEW i \in DOMAIN old[c], NEW j \in DOMAIN sign, old[c][i] = sign[j]
      PROVE  FALSE
  <2>1. old[c][i] \in Messages(batch)
    BY <1>2, <1>5, <1>6, BatchMessages
  <2>2. sign[j] \in ToSet(sign)
    BY DEF ToSet
  <2> QED
    BY <1>6, <1>8, <2>1, <2>2
<1>9. ASSUME NEW c \in 1 .. n + 1, NEW d \in 1 .. n + 1,
             NEW i \in DOMAIN all[c], NEW j \in DOMAIN all[d], all[c][i] = all[d][j]
      PROVE  c = d /\ i = j
  <2>1. c \in 1 .. n \/ c = n + 1
    OBVIOUS
  <2>2. d \in 1 .. n \/ d = n + 1
    OBVIOUS
  <2>3. CASE c \in 1 .. n /\ d \in 1 .. n
    <3>1. i \in DOMAIN old[c] /\ j \in DOMAIN old[d] /\ old[c][i] = old[d][j]
      BY <1>7, <1>9, <2>3
    <3> QED
      BY <1>5, <1>6, <2>3, <3>1 DEF AllDiffer
  <2>4. CASE c \in 1 .. n /\ d = n + 1
    <3>1. i \in DOMAIN old[c] /\ j \in DOMAIN sign /\ old[c][i] = sign[j]
      BY <1>7, <1>9, <2>4
    <3> QED
      BY <1>8, <2>4, <3>1
  <2>5. CASE c = n + 1 /\ d \in 1 .. n
    <3>1. j \in DOMAIN old[d] /\ i \in DOMAIN sign /\ old[d][j] = sign[i]
      BY <1>7, <1>9, <2>5
    <3> QED
      BY <1>8, <2>5, <3>1
  <2>6. CASE c = n + 1 /\ d = n + 1
    <3>1. i \in DOMAIN sign /\ j \in DOMAIN sign /\ sign[i] = sign[j]
      BY <1>7, <1>9, <2>6
    <3> QED
      BY <1>6, <2>6, <3>1 DEF NoneTwice
  <2> QED
    BY <2>1, <2>2, <2>3, <2>4, <2>5, <2>6
<1>10. AllDiffer(all)
  BY <1>4, <1>6, <1>9 DEF AllDiffer
<1> QED
  BY <1>1, <1>6, <1>10

LEMMA CommitKeeps == ASSUME IInv, Commit PROVE IInv'
<1>1. PICK fees, id, t : /\ fees = FoldLeft(+, 0, [i \in DOMAIN packer.accepted |-> packer.accepted[i].fee])
                         /\ t = packer.tokenID /\ id = FeeReceivers[t]
  OBVIOUS
<1>2. PICK outcome : outcome = L1!clientReceiver(states, id, t, fees)
  OBVIOUS
<1>3. /\ packer.pc = "committing"
      /\ UNCHANGED <<statuses, stored, pool, simulator, rollup, l1Txn, Sent, pushes>>
  BY DEF Commit, Sent, IsUnmined
<1>4. TypeInv /\ packer \in PackerType /\ states \in StateMaps
  BY DEF IInv, TypeInv
<1>5. /\ packer.accepted \in Seq(Txs) /\ packer.acceptedTxs \in Seq(Txs)
      /\ packer.failed \in Seq(Txs) /\ packer.failedTxs \in Seq(Txs)
      /\ packer.commits \in MadeBatches
  BY <1>4 DEF PackerType
<1>6. fees \in Nat
  BY <1>1, <1>5, FeesAre
<1>7. Extends(statuses, statuses')
  BY <1>3, <1>4, ExtendsSame
<1>8. ASSUME Dies, Grows(states, states') PROVE IInv'
  <2>1. /\ packer' \in PackerType /\ packer'.pc = "dead"
        /\ packer'.commits = packer.commits /\ packer'.accepted = packer.accepted
        /\ packer'.acceptedTxs = packer.acceptedTxs
    BY <1>4, <1>8, DiesIs
  <2>2. TypeInv' /\ PipeInv'
    BY <1>3, <1>8, <2>1, PackerKeeps
  <2>3. SpentInv' /\ UniqueInv'
    BY <1>3, <1>4, <1>8, <2>1, SameKeeps DEF IInv
  <2>4. StoredInv'
    BY <1>3, <2>1, StoredStays DEF IInv
  <2>5. StatusInv'
    BY <1>3, <1>4, <1>7, StatusStays DEF IInv
  <2> QED
    BY <2>2, <2>3, <2>4, <2>5 DEF IInv
<1>9. CASE packer.accepted = <<>> \/ outcome.result # "Ok"
  <2>1. Dies /\ states' = states
    BY <1>1, <1>2, <1>9 DEF Commit
  <2> QED
    BY <1>4, <1>8, <2>1, GrowsSame
<1>10. CASE ~(packer.accepted = <<>> \/ outcome.result # "Ok")
  <2>1. states' = outcome.states
    BY <1>1, <1>2, <1>10 DEF Commit
  <2>2. /\ id \in DOMAIN GenesisStates /\ outcome.states \in StateMaps
        /\ \A k \in DOMAIN GenesisStates : outcome.states[k].nonce = states[k].nonce
    BY <1>2, <1>4, <1>6, <1>10, ReceivedIs
  <2>3. Grows(states, states')
    <3>1. \A k \in DOMAIN GenesisStates : states[k].nonce \in Nat
      BY <1>4 DEF StateMaps, L2State
    <3> QED
      BY <2>1, <2>2, <3>1 DEF Grows
  <2>4. CASE \E tx \in ToSet(packer.accepted) : ~CanEncode("Transfer", tx)
    <3>1. Dies
      BY <1>1, <1>2, <1>10, <2>4 DEF Commit
    <3> QED
      BY <1>8, <2>3, <3>1
  <2>5. CASE ~(\E tx \in ToSet(packer.accepted) : ~CanEncode("Transfer", tx))
    <3>1. PICK commit \in MadeCommits :
            /\ commit = fromTxs(packer.accepted, outcome.states, id)
            /\ commit.signature = [i \in DOMAIN packer.accepted |-> messageOfTx(packer.accepted[i])]
      BY <1>5, <2>2, CommitIs
    <3>2. PICK pc \in {"submitting", "piping"} :
            packer' = [packer EXCEPT
              !.commits = Append(packer.commits, commit),
              !.acceptedTxs = packer.acceptedTxs \o packer.accepted,
              !.failedTxs = packer.failedTxs \o packer.failed,
              !.accepted = <<>>, !.failed = <<>>, !.pc = pc]
      <4>1. PICK pc : pc = IF isEmpty \/ Len(packer.commits) + 1 = MAX_COMMIT_PER_BATCH
                           THEN "submitting" ELSE "piping"
        OBVIOUS
      <4>2. pc \in {"submitting", "piping"}
        BY <4>1
      <4>3. packer' = [packer EXCEPT
              !.commits = Append(packer.commits, commit),
              !.acceptedTxs = packer.acceptedTxs \o packer.accepted,
              !.failedTxs = packer.failedTxs \o packer.failed,
              !.accepted = <<>>, !.failed = <<>>, !.pc = pc]
        BY <1>1, <1>2, <1>10, <2>5, <3>1, <4>1 DEF Commit
      <4> QED
        BY <4>2, <4>3
    <3>3. PICK commits, accepted, failures :
            /\ commits = Append(packer.commits, commit)
            /\ accepted = packer.acceptedTxs \o packer.accepted
            /\ failures = packer.failedTxs \o packer.failed
      OBVIOUS
    <3>4. /\ commits \in MadeBatches
          /\ Messages(commits) = Messages(packer.commits) \cup ToSet(commit.signature)
      BY <1>5, <3>3, MoreMessages
    <3>5. /\ accepted \in Seq(Txs) /\ failures \in Seq(Txs)
          /\ MessagesOf(accepted) = MessagesOf(packer.acceptedTxs) \cup MessagesOf(packer.accepted)
      BY <1>5, <3>3, JoinedTxs
    <3>6. /\ packer' \in PackerType /\ packer'.pc \in {"submitting", "piping"}
          /\ packer'.commits = commits /\ packer'.acceptedTxs = accepted
          /\ packer'.accepted = <<>>
      BY <1>4, <3>2, <3>3, <3>4, <3>5, NoMessages DEF PackerType
    <3>7. ToSet(commit.signature) = InAccepted
      BY <3>1 DEF ToSet, InAccepted, MessagesOf
    <3>8. /\ InSent' = InSent /\ Batches' = Batches
          /\ InMaking' = InMaking \cup InAccepted /\ InAccepted' = {}
      BY <1>3, <3>4, <3>6, <3>7, SameMessages, NoMessages DEF InMaking, InAccepted
    <3>9. TypeInv' /\ PipeInv'
      BY <1>3, <2>3, <3>6, PackerKeeps
    <3>10. SpentInv'
      <4>1. ASSUME NEW m \in InSent \cup InMaking \cup InAccepted PROVE Spent(states', m)
        <5>1. m \in SignedMessages /\ Spent(states, m)
          BY <1>4, MadeMessages DEF SpentInv, IInv
        <5> QED
          BY <1>4, <2>3, <5>1, SpentStays
      <4> QED
        BY <3>8, <4>1 DEF SpentInv
    <3>11. AllDiffer(Signatures(commits))
      <4>1. NoneTwice(commit.signature)
        <5>1. \A i, j \in DOMAIN packer.accepted :
                messageOfTx(packer.accepted[i]) = messageOfTx(packer.accepted[j]) => i = j
          BY DEF IInv, UniqueInv
        <5> QED
          BY <3>1, <5>1 DEF NoneTwice
      <4>2. Messages(packer.commits) \cap ToSet(commit.signature) = {}
        <5>1. InAccepted \cap InMaking = {}
          BY DEF IInv, UniqueInv
        <5> QED
          BY <3>7, <5>1 DEF InMaking
      <4>3. AllDiffer(Signatures(packer.commits))
        BY DEF IInv, UniqueInv
      <4> QED
        BY <1>5, <3>3, <4>1, <4>2, <4>3, CommitDiffers
    <3>12. UniqueInv'
      <4>1. /\ \A b, c \in Batches : Messages(Sent[b]) \cap Messages(Sent[c]) # {} => b = c
            /\ \A b \in Batches : AllDiffer(Signatures(Sent[b]))
            /\ InSent \cap InMaking = {} /\ InAccepted \cap (InSent \cup InMaking) = {}
        BY <1>3 DEF IInv, UniqueInv
      <4>2. InSent \cap (InMaking \cup InAccepted) = {}
        BY <4>1
      <4>3. \A i \in DOMAIN packer'.accepted : FALSE
        BY <3>6
      <4> QED
        BY <1>3, <3>6, <3>8, <3>11, <4>1, <4>2, <4>3 DEF UniqueInv
    <3>13. StoredInv'
      <4>1. /\ MessagesOf(packer.acceptedTxs) = InMaking /\ stored = Sent
            /\ l1Txn.status = "none"
        BY <1>3 DEF IInv, StoredInv
      <4>2. MessagesOf(packer'.acceptedTxs) = InMaking'
        BY <3>5, <3>6, <3>8, <4>1 DEF InAccepted
      <4> QED
        BY <1>3, <3>6, <4>1, <4>2 DEF StoredInv
    <3>14. StatusInv'
      BY <1>3, <1>4, <1>7, StatusStays DEF IInv
    <3> QED
      BY <3>9, <3>10, <3>12, <3>13, <3>14 DEF IInv
  <2> QED
    BY <2>4, <2>5
<1> QED
  BY <1>9, <1>10

\* The chain with one more batch.
LEMMA MoreBatches ==
  ASSUME NEW chain, IsChain(chain), NEW batch \in MadeBatches
  PROVE  /\ Len(chain) \in Nat /\ Len(chain) >= 1
         /\ IsChain(Append(chain, batch)) /\ Len(Append(chain, batch)) = Len(chain) + 1
         /\ Append(chain, batch)[Len(chain) + 1] = batch
         /\ \A b \in 1 .. Len(chain) : Append(chain, batch)[b] = chain[b]
<1>1. PICK n \in Nat : n = Len(chain) /\ n >= 1 /\ DOMAIN chain = 1 .. n
  BY DEF IsChain, Chains
<1>2. PICK more : more = Append(chain, batch)
  OBVIOUS
<1>3. /\ more \in Chains /\ Len(more) = n + 1 /\ more[n + 1] = batch
      /\ \A b \in 1 .. n : more[b] = chain[b]
  BY <1>1, <1>2 DEF IsChain, Chains
<1>4. ASSUME NEW b \in 2 .. n + 1 PROVE more[b] \in MadeBatches
  <2>1. CASE b = n + 1
    BY <1>3, <2>1
  <2>2. CASE b # n + 1
    <3>1. b \in 2 .. Len(chain) /\ b \in 1 .. n
      BY <1>1, <2>2
    <3> QED
      BY <1>3, <3>1 DEF IsChain
  <2> QED
    BY <2>1, <2>2
<1>5. IsChain(more)
  BY <1>1, <1>3, <1>4 DEF IsChain
<1> QED
  BY <1>1, <1>2, <1>3, <1>5

LEMMA SubmitTransferKeeps == ASSUME IInv, submitTransfer PROVE IInv'
<1>1. /\ packer.pc = "submitting"
      /\ UNCHANGED <<states, statuses, stored, pool, simulator, rollup, pushes>>
  BY DEF submitTransfer
<1>2. TypeInv /\ packer \in PackerType /\ IsChain(Sent) /\ packer.commits \in MadeBatches
  BY DEF IInv, TypeInv, PackerType
<1>3. Extends(statuses, statuses') /\ Grows(states, states')
  BY <1>1, <1>2, ExtendsSame, GrowsSame
<1>4. CASE /\ l1Txn' = [status |-> "pending", batchID |-> nextBatchID(stored), commits |-> packer.commits]
           /\ packer' = [packer EXCEPT !.pc = "recording"] \/ Dies
  <2>1. PICK batch \in MadeBatches : batch = packer.commits
    BY <1>2
  <2>2. PICK n \in Nat : n = Len(Sent) /\ n >= 1
    BY <1>2, <2>1, MoreBatches
  <2>3. Sent' = Append(Sent, batch)
    <3>1. Sent = rollup
      BY <1>1 DEF IInv, StoredInv, Sent, IsUnmined
    <3>2. l1Txn'.status = "pending" /\ l1Txn'.commits = batch
      BY <1>4, <2>1
    <3>3. Sent' = Append(rollup', l1Txn'.commits)
      BY <3>2 DEF Sent, IsUnmined
    <3> QED
      BY <1>1, <3>1, <3>2, <3>3
  <2>4. /\ IsChain(Sent') /\ Len(Sent') = n + 1 /\ Sent'[n + 1] = batch
        /\ \A b \in 1 .. n : Sent'[b] = Sent[b]
    BY <1>2, <2>3, <2>1, <2>2, MoreBatches
  <2>5. /\ packer' \in PackerType /\ packer'.pc \in {"recording", "dead"}
        /\ packer'.commits = packer.commits /\ packer'.accepted = packer.accepted
        /\ packer'.acceptedTxs = packer.acceptedTxs
    BY <1>2, <1>4, DiesIs DEF PackerType
  <2>6. /\ Batches = 2 .. n /\ Batches' = 2 .. n + 1
        /\ \A b \in 2 .. n : Sent'[b] = Sent[b]
    BY <2>2, <2>4 DEF Batches
  <2>7. ASSUME NEW m PROVE m \in InSent' <=> m \in InSent \cup InMaking
    <3>1. m \in InSent' <=> \E b \in 2 .. n + 1 : m \in Messages(Sent'[b])
      BY <2>6 DEF InSent
    <3>2. m \in InSent <=> \E b \in 2 .. n : m \in Messages(Sent[b])
      BY <2>6 DEF InSent
    <3>3. m \in InMaking <=> m \in Messages(Sent'[n + 1])
      BY <2>1, <2>4 DEF InMaking
    <3>4. \A b \in 2 .. n + 1 : b \in 2 .. n \/ b = n + 1
      OBVIOUS
    <3>5. n + 1 \in 2 .. n + 1 /\ \A b \in 2 .. n : b \in 2 .. n + 1
      BY <2>2
    <3> QED
      BY <2>6, <3>1, <3>2, <3>3, <3>4, <3>5
  <2>8. InSent' = InSent \cup InMaking /\ InMaking' = InMaking /\ InAccepted' = InAccepted
    <3>1. InSent' = InSent \cup InMaking
      BY <2>7
    <3> QED
      BY <2>5, <3>1, SameMessages
  <2>9. TypeInv'
    <3>1. nextBatchID(stored) \in Int
      BY <1>2 DEF TypeInv, IsChain, Chains, nextBatchID, CurrentBatchID
    <3>2. l1Txn' \in TxnType
      BY <1>4, <2>1, <3>1 DEF TxnType
    <3> QED
      BY <1>1, <1>2, <2>4, <2>5, <3>2 DEF TypeInv, IsChain
  <2>10. PipeInv'
    BY <1>1, <2>5 DEF IInv, PipeInv
  <2>11. SpentInv'
    BY <1>1, <2>8 DEF IInv, SpentInv
  <2>12. /\ \A b, c \in Batches : Messages(Sent[b]) \cap Messages(Sent[c]) # {} => b = c
         /\ \A b \in Batches : AllDiffer(Signatures(Sent[b]))
         /\ InSent \cap InMaking = {} /\ AllDiffer(Signatures(packer.commits))
         /\ InAccepted \cap (InSent \cup InMaking) = {}
         /\ \A i, j \in DOMAIN packer.accepted :
              messageOfTx(packer.accepted[i]) = messageOfTx(packer.accepted[j]) => i = j
    BY <1>1 DEF IInv, UniqueInv
  <2>13. ASSUME NEW b \in Batches', NEW c \in Batches', NEW m,
                m \in Messages(Sent'[b]), m \in Messages(Sent'[c])
         PROVE  b = c
    <3>1. b \in 2 .. n \/ b = n + 1
      BY <2>6
    <3>2. c \in 2 .. n \/ c = n + 1
      BY <2>6
    <3>3. \A d \in 2 .. n : m \in Messages(Sent[d]) => m \in InSent
      BY <2>6 DEF InSent
    <3>4. m \in Messages(Sent'[n + 1]) => m \in InMaking
      BY <2>1, <2>4 DEF InMaking
    <3>5. CASE b \in 2 .. n /\ c \in 2 .. n
      BY <2>6, <2>12, <2>13, <3>5
    <3>6. CASE b = n + 1 /\ c \in 2 .. n
      BY <2>6, <2>12, <2>13, <3>3, <3>4, <3>6
    <3>7. CASE b \in 2 .. n /\ c = n + 1
      BY <2>6, <2>12, <2>13, <3>3, <3>4, <3>7
    <3> QED
      BY <3>1, <3>2, <3>5, <3>6, <3>7
  <2>14. UniqueInv'
    <3>1. \A b, c \in Batches' : Messages(Sent'[b]) \cap Messages(Sent'[c]) # {} => b = c
      BY <2>13
    <3>2. InAccepted \cap (InSent \cup InMaking \cup InMaking) = {}
      BY <2>12
    <3>3. \A b \in Batches' : AllDiffer(Signatures(Sent'[b]))
      <4>1. ASSUME NEW b \in Batches' PROVE AllDiffer(Signatures(Sent'[b]))
        <5>1. b \in 2 .. n \/ b = n + 1
          BY <2>6
        <5>2. CASE b \in 2 .. n
          BY <2>6, <2>12, <5>2
        <5>3. CASE b = n + 1
          BY <2>1, <2>4, <2>12, <5>3
        <5> QED
          BY <5>1, <5>2, <5>3
      <4> QED
        BY <4>1
    <3> QED
      BY <2>5, <2>8, <2>12, <3>1, <3>2, <3>3 DEF UniqueInv
  <2>15. StoredInv'
    <3>1. stored = Sent /\ MessagesOf(packer.acceptedTxs) = InMaking /\ packer.accepted = <<>>
      BY <1>1 DEF IInv, StoredInv
    <3>2. Sent' = Append(stored', packer'.commits) /\ MessagesOf(packer'.acceptedTxs) = InMaking'
      BY <1>1, <2>3, <2>1, <2>5, <2>8, <3>1
    <3> QED
      BY <2>5, <3>1, <3>2 DEF StoredInv
  <2>16. StatusInv'
    BY <1>1, <1>2, <1>3, StatusStays DEF IInv
  <2> QED
    BY <2>9, <2>10, <2>11, <2>14, <2>15, <2>16 DEF IInv
<1>5. CASE Dies /\ l1Txn' = l1Txn /\ Sent' = Sent
  <2>1. /\ packer' \in PackerType /\ packer'.pc = "dead"
        /\ packer'.commits = packer.commits /\ packer'.accepted = packer.accepted
        /\ packer'.acceptedTxs = packer.acceptedTxs
    BY <1>2, <1>5, DiesIs
  <2>2. TypeInv' /\ PipeInv'
    BY <1>1, <1>3, <1>5, <2>1, PackerKeeps
  <2>3. SpentInv' /\ UniqueInv'
    BY <1>1, <1>2, <1>3, <1>5, <2>1, SameKeeps DEF IInv
  <2>4. StoredInv'
    BY <1>1, <1>5, <2>1, StoredStays DEF IInv
  <2>5. StatusInv'
    BY <1>1, <1>2, <1>3, StatusStays DEF IInv
  <2> QED
    BY <2>2, <2>3, <2>4, <2>5 DEF IInv
<1> QED
  BY <1>1, <1>4, <1>5 DEF submitTransfer, Sent, IsUnmined

LEMMA RecordKeeps == ASSUME IInv, Record PROVE IInv'
<1>1. /\ packer.pc = "recording"
      /\ UNCHANGED <<states, pool, simulator, rollup, l1Txn, Sent, pushes>>
  BY DEF Record, Sent, IsUnmined
<1>2. /\ TypeInv /\ packer \in PackerType /\ IsChain(stored) /\ IsChain(Sent)
      /\ statuses \in StatusMaps
  BY DEF IInv, TypeInv
<1>3. /\ Sent = Append(stored, packer.commits)
      /\ MessagesOf(packer.acceptedTxs) = InMaking /\ packer.accepted = <<>>
  BY <1>1 DEF IInv, StoredInv
<1>4. PICK batch \in MadeBatches : batch = packer.commits
  BY <1>2 DEF PackerType
<1>5. PICK n \in Nat : n = Len(stored) /\ n >= 1 /\ Len(Sent) = n + 1
  BY <1>2, <1>3, <1>4, MoreBatches
<1>6. Sent[n + 1] = batch /\ \A b \in 1 .. n : Sent[b] = stored[b]
  BY <1>2, <1>3, <1>4, <1>5, MoreBatches
<1>7. Grows(states, states')
  BY <1>1, <1>2, GrowsSame
<1>8. CASE ~CanAdd(stored, packer.commits)
  <2>1. Dies /\ stored' = stored /\ statuses' = statuses
    BY <1>8 DEF Record
  <2>2. /\ packer' \in PackerType /\ packer'.pc = "dead"
        /\ packer'.commits = packer.commits /\ packer'.accepted = packer.accepted
        /\ packer'.acceptedTxs = packer.acceptedTxs
    BY <1>2, <2>1, DiesIs
  <2>3. TypeInv' /\ PipeInv'
    BY <1>1, <1>7, <2>1, <2>2, PackerKeeps
  <2>4. SpentInv' /\ UniqueInv'
    BY <1>1, <1>2, <1>7, <2>2, SameKeeps DEF IInv
  <2>5. StoredInv'
    <3>1. InMaking' = InMaking
      BY <2>2, SameMessages
    <3> QED
      BY <1>1, <1>3, <2>1, <2>2, <3>1 DEF StoredInv
  <2>6. StatusInv'
    BY <1>1, <1>2, <2>1, ExtendsSame, StatusStays DEF IInv
  <2> QED
    BY <2>3, <2>4, <2>5, <2>6 DEF IInv
<1>9. CASE CanAdd(stored, packer.commits)
  <2>1. PICK outcome : outcome = Recorded(nextBatchID(stored))
    OBVIOUS
  <2>2. nextBatchID(stored) = n
    BY <1>5 DEF nextBatchID, CurrentBatchID
  <2>3. /\ stored' = Sent /\ statuses' = outcome.statuses
        /\ IF outcome.result = "Ok" THEN packer' = [Idle EXCEPT !.pc = "waiting"] ELSE Dies
    BY <1>3, <1>9, <2>1 DEF Record, add
  <2>4. /\ outcome \in Outcomes
        /\ Recording(statuses, outcome.statuses, InMaking, n)
        /\ outcome.result = "Ok" => InBatch(outcome.statuses, InMaking, n)
    BY <1>2, <1>3, <2>1, <2>2, RecordedIs
  <2>5. ASSUME outcome.result = "Ok" PROVE packer' \in PackerType /\ SpentInv' /\ UniqueInv' /\ StoredInv' /\ PipeInv'
    <3>0. packer' = [Idle EXCEPT !.pc = "waiting"]
      BY <2>3, <2>5
    <3>1. /\ packer' \in PackerType /\ packer'.pc = "waiting" /\ packer'.commits = <<>>
          /\ packer'.accepted = <<>> /\ packer'.acceptedTxs = <<>>
      BY <3>0, NoMessages DEF Idle, PackerType
    <3>2. /\ InSent' = InSent /\ Batches' = Batches /\ InMaking' = {} /\ InAccepted' = {}
      BY <1>1, <3>1, SameMessages, NoMessages DEF InMaking, InAccepted
    <3>3. SpentInv'
      BY <1>1, <3>2 DEF IInv, SpentInv
    <3>4. UniqueInv'
      <4>1. /\ \A b, c \in Batches : Messages(Sent[b]) \cap Messages(Sent[c]) # {} => b = c
            /\ \A b \in Batches : AllDiffer(Signatures(Sent[b]))
        BY DEF IInv, UniqueInv
      <4>2. AllDiffer(Signatures(packer'.commits)) /\ \A i \in DOMAIN packer'.accepted : FALSE
        BY <3>1, NoMessages
      <4> QED
        BY <1>1, <3>2, <4>1, <4>2 DEF UniqueInv
    <3>5. StoredInv'
      <4>1. MessagesOf(packer'.acceptedTxs) = InMaking'
        BY <3>1, <3>2, NoMessages
      <4> QED
        BY <1>1, <2>3, <3>1, <4>1 DEF StoredInv
    <3>6. PipeInv'
      BY <3>1 DEF PipeInv
    <3> QED
      BY <3>1, <3>3, <3>4, <3>5, <3>6
  <2>6. ASSUME outcome.result # "Ok" PROVE packer' \in PackerType /\ SpentInv' /\ UniqueInv' /\ StoredInv' /\ PipeInv'
    <3>1. Dies
      BY <2>3, <2>6
    <3>2. /\ packer' \in PackerType /\ packer'.pc = "dead"
          /\ packer'.commits = packer.commits /\ packer'.accepted = packer.accepted
          /\ packer'.acceptedTxs = packer.acceptedTxs
      BY <1>2, <3>1, DiesIs
    <3>3. SpentInv' /\ UniqueInv'
      BY <1>1, <1>2, <1>7, <3>2, SameKeeps DEF IInv
    <3>4. StoredInv'
      <4>1. InMaking' = InMaking
        BY <3>2, SameMessages
      <4> QED
        BY <1>1, <1>3, <2>3, <3>2, <4>1 DEF StoredInv
    <3>5. PipeInv'
      BY <3>2 DEF PipeInv
    <3> QED
      BY <3>2, <3>3, <3>4, <3>5
  <2>7. /\ packer' \in PackerType /\ SpentInv' /\ UniqueInv' /\ StoredInv' /\ PipeInv'
        /\ outcome.result # "Ok" => packer'.pc = "dead" /\ packer'.commits = packer.commits
    <3>1. outcome.result # "Ok" => packer'.pc = "dead" /\ packer'.commits = packer.commits
      <4>1. outcome.result # "Ok" => Dies
        BY <2>3
      <4> QED
        BY <1>2, <4>1, DiesIs
    <3>2. CASE outcome.result = "Ok"
      BY <2>5, <3>1, <3>2
    <3>3. CASE outcome.result # "Ok"
      BY <2>6, <3>1, <3>3
    <3> QED
      BY <3>2, <3>3
  <2>8. TypeInv'
    <3>1. statuses' \in StatusMaps
      BY <2>3, <2>4 DEF Recording
    <3> QED
      BY <1>1, <1>2, <2>3, <2>7, <3>1 DEF TypeInv, IsChain
  <2>10. /\ DOMAIN statuses' = DOMAIN statuses
         /\ \A m \in DOMAIN statuses :
              /\ \/ statuses'[m].batchID = statuses[m].batchID
                 \/ m \in InMaking /\ statuses'[m].batchID = n
              /\ statuses'[m].status = "Pending" => statuses'[m] = statuses[m]
              /\ statuses'[m].status = "Submitted" =>
                   statuses'[m] = statuses[m] \/ statuses'[m].batchID = n
    BY <2>3, <2>4 DEF Recording
  <2>11. n # NoBatch /\ n \in 1 .. Len(Sent) - 1
    BY <1>5 DEF NoBatch
  <2>12. ASSUME NEW m \in DOMAIN statuses
         PROVE  /\ statuses'[m].status = "Pending" => statuses'[m].batchID = NoBatch
                /\ statuses'[m].status = "Submitted" => statuses'[m].batchID # NoBatch
                /\ statuses'[m].batchID # NoBatch =>
                     /\ statuses'[m].batchID \in 1 .. Len(Sent) - 1
                     /\ m \in Messages(Sent[statuses'[m].batchID + 1])
    <3>1. /\ statuses[m].status = "Pending" => statuses[m].batchID = NoBatch
          /\ statuses[m].status = "Submitted" => statuses[m].batchID # NoBatch
          /\ statuses[m].batchID # NoBatch =>
               /\ statuses[m].batchID \in 1 .. Len(stored) - 1
               /\ m \in Messages(stored[statuses[m].batchID + 1])
      BY DEF IInv, StatusInv
    <3>2. statuses'[m].status = "Pending" => statuses'[m].batchID = NoBatch
      BY <2>10, <3>1
    <3>3. statuses'[m].status = "Submitted" => statuses'[m].batchID # NoBatch
      BY <2>10, <2>11, <3>1
    <3>4. ASSUME statuses'[m].batchID # NoBatch
          PROVE  /\ statuses'[m].batchID \in 1 .. Len(Sent) - 1
                 /\ m \in Messages(Sent[statuses'[m].batchID + 1])
      <4>1. CASE statuses'[m].batchID = statuses[m].batchID
        <5>1. PICK id \in 1 .. n - 1 : id = statuses[m].batchID /\ m \in Messages(stored[id + 1])
          BY <1>5, <3>1, <3>4, <4>1
        <5>2. id + 1 \in 1 .. n /\ id \in 1 .. Len(Sent) - 1
          BY <1>5
        <5>3. Sent[id + 1] = stored[id + 1]
          BY <1>6, <5>2
        <5> QED
          BY <4>1, <5>1, <5>2, <5>3
      <4>2. CASE m \in InMaking /\ statuses'[m].batchID = n
        BY <1>4, <1>6, <2>11, <4>2 DEF InMaking
      <4> QED
        BY <2>10, <4>1, <4>2
    <3> QED
      BY <3>2, <3>3, <3>4
  <2>13. ASSUME NEW b \in 2 .. Len(Sent), NEW m \in Messages(Sent[b])
         PROVE  (m \in DOMAIN statuses' /\ statuses'[m].batchID = b - 1) \/ Unrecorded(m)'
    <3>1. CASE b = n + 1
      <4>1. m \in InMaking /\ b - 1 = n
        BY <1>4, <1>6, <3>1 DEF InMaking
      <4>2. CASE outcome.result = "Ok"
        BY <2>3, <2>4, <4>1, <4>2 DEF InBatch
      <4>3. CASE outcome.result # "Ok"
        BY <2>7, <4>1, <4>3 DEF InMaking, Unrecorded
      <4> QED
        BY <4>2, <4>3
    <3>2. CASE b # n + 1
      <4>1. b \in 2 .. Len(stored) /\ b \in 1 .. n
        BY <1>5, <3>2
      <4>2. m \in Messages(stored[b])
        BY <1>6, <4>1
      <4>3. m \in DOMAIN statuses /\ statuses[m].batchID = b - 1
        BY <1>1, <4>1, <4>2 DEF IInv, StatusInv, Unrecorded
      <4>4. m \notin InMaking
        <5>1. n + 1 \in Batches /\ b \in Batches
          BY <1>5 DEF Batches
        <5>2. m \in InMaking => m \in Messages(Sent[b]) \cap Messages(Sent[n + 1])
          BY <1>4, <1>6 DEF InMaking
        <5>3. \A c, d \in Batches : Messages(Sent[c]) \cap Messages(Sent[d]) # {} => c = d
          BY DEF IInv, UniqueInv
        <5> QED
          BY <3>2, <5>1, <5>2, <5>3
      <4> QED
        BY <2>10, <4>3, <4>4
    <3> QED
      BY <3>1, <3>2
  <2>14. StatusInv'
    BY <2>3, <2>10, <2>12, <2>13 DEF StatusInv
  <2> QED
    BY <2>7, <2>8, <2>14 DEF IInv
<1> QED
  BY <1>8, <1>9

LEMMA WaitKeeps == ASSUME IInv, wait PROVE IInv'
<1>1. /\ packer.pc = "waiting"
      /\ UNCHANGED <<states, statuses, stored, pool, simulator, rollup, pushes>>
  BY DEF wait
<1>2. TypeInv /\ packer \in PackerType
  BY DEF IInv, TypeInv
<1>3. Extends(statuses, statuses') /\ Grows(states, states')
  BY <1>1, <1>2, ExtendsSame, GrowsSame
<1>4. stored = Sent
  BY <1>1 DEF IInv, StoredInv
<1>5. CASE l1Txn.status = "mined" /\ packer' = Idle /\ l1Txn' = NoTxn
  <2>1. /\ packer' \in PackerType /\ packer'.pc = "idle" /\ packer'.commits = <<>>
        /\ packer'.accepted = <<>> /\ packer'.acceptedTxs = <<>>
    BY <1>5, NoMessages DEF Idle, PackerType
  <2>2. l1Txn' \in TxnType /\ l1Txn'.status = "none"
    BY <1>5, NoMessages DEF NoTxn, NoBatch, TxnType
  <2>3. Sent' = Sent
    <3>1. Sent = rollup
      BY <1>5 DEF Sent, IsUnmined
    <3>2. Sent' = rollup'
      BY <2>2 DEF Sent, IsUnmined
    <3> QED
      BY <1>1, <3>1, <3>2
  <2>4. /\ InSent' = InSent /\ Batches' = Batches /\ InMaking' = {} /\ InAccepted' = {}
    BY <2>1, <2>3, SameMessages, NoMessages DEF InMaking, InAccepted
  <2>5. TypeInv' /\ PipeInv'
    BY <1>1, <1>2, <2>1, <2>2, <2>3 DEF TypeInv, IsChain, PipeInv
  <2>6. SpentInv'
    BY <1>1, <2>4 DEF IInv, SpentInv
  <2>7. UniqueInv'
    <3>1. /\ \A b, c \in Batches : Messages(Sent[b]) \cap Messages(Sent[c]) # {} => b = c
          /\ \A b \in Batches : AllDiffer(Signatures(Sent[b]))
      BY DEF IInv, UniqueInv
    <3>2. AllDiffer(Signatures(packer'.commits)) /\ \A i \in DOMAIN packer'.accepted : FALSE
      BY <2>1, NoMessages
    <3> QED
      BY <2>3, <2>4, <3>1, <3>2 DEF UniqueInv
  <2>8. StoredInv'
    <3>1. MessagesOf(packer'.acceptedTxs) = InMaking'
      BY <2>1, <2>4, NoMessages
    <3> QED
      BY <1>1, <1>4, <2>1, <2>2, <2>3, <3>1 DEF StoredInv
  <2>9. StatusInv'
    BY <1>1, <1>2, <1>3, StatusStays DEF IInv
  <2> QED
    BY <2>5, <2>6, <2>7, <2>8, <2>9 DEF IInv
<1>6. CASE Dies /\ l1Txn' = l1Txn
  <2>1. /\ packer' \in PackerType /\ packer'.pc = "dead"
        /\ packer'.commits = packer.commits /\ packer'.accepted = packer.accepted
        /\ packer'.acceptedTxs = packer.acceptedTxs
    BY <1>2, <1>6, DiesIs
  <2>2. Sent' = Sent
    BY <1>1, <1>6 DEF Sent, IsUnmined
  <2>3. TypeInv' /\ PipeInv'
    BY <1>1, <1>3, <1>6, <2>1, <2>2, PackerKeeps
  <2>4. SpentInv' /\ UniqueInv'
    BY <1>1, <1>2, <1>3, <2>1, <2>2, SameKeeps DEF IInv
  <2>5. StoredInv'
    <3>1. InMaking' = InMaking
      BY <2>1, SameMessages
    <3> QED
      BY <1>1, <1>4, <2>1, <2>2, <3>1 DEF IInv, StoredInv
  <2>6. StatusInv'
    BY <1>1, <1>2, <1>3, StatusStays DEF IInv
  <2> QED
    BY <2>3, <2>4, <2>5, <2>6 DEF IInv
<1> QED
  BY <1>5, <1>6 DEF wait

\* What was sent remains sent, whether the L1 takes it up or not.
LEMMA L1Keeps == ASSUME IInv, L1Answers PROVE IInv'
<1>1. /\ l1Txn.status = "pending"
      /\ UNCHANGED <<states, statuses, stored, pool, simulator, packer, pushes>>
  BY DEF L1Answers, Mined, Reverted
<1>2. TypeInv /\ l1Txn \in TxnType
  BY DEF IInv, TypeInv
<1>3. Sent = Append(rollup, l1Txn.commits)
  BY <1>1 DEF Sent, IsUnmined
<1>4. /\ l1Txn' \in TxnType /\ l1Txn'.status # "none" /\ Sent' = Sent
      /\ rollup' = rollup \/ rollup' = Sent
  <2>1. CASE Mined
    <3>1. rollup' = Sent /\ l1Txn' = [l1Txn EXCEPT !.status = "mined"]
      BY <1>3, <2>1 DEF Mined
    <3>2. l1Txn' \in TxnType /\ l1Txn'.status = "mined"
      BY <1>2, <3>1 DEF TxnType
    <3>3. Sent' = rollup'
      BY <3>2 DEF Sent, IsUnmined
    <3> QED
      BY <3>1, <3>2, <3>3
  <2>2. CASE Reverted
    <3>1. rollup' = rollup /\ l1Txn' = [l1Txn EXCEPT !.status = "reverted"]
      BY <2>2 DEF Reverted
    <3>2. /\ l1Txn' \in TxnType /\ l1Txn'.status = "reverted"
          /\ l1Txn'.commits = l1Txn.commits
      BY <1>2, <3>1 DEF TxnType
    <3>3. Sent' = Append(rollup', l1Txn'.commits)
      BY <3>2 DEF Sent, IsUnmined
    <3> QED
      BY <1>3, <3>1, <3>2, <3>3
  <2> QED
    BY <2>1, <2>2 DEF L1Answers
<1>5. Extends(statuses, statuses') /\ Grows(states, states')
  BY <1>1, <1>2, ExtendsSame, GrowsSame
<1>6. TypeInv' /\ PipeInv'
  BY <1>1, <1>2, <1>4 DEF TypeInv, IsChain, IInv, PipeInv
<1>7. SpentInv' /\ UniqueInv'
  BY <1>1, <1>2, <1>4, <1>5, SameKeeps DEF IInv
<1>8. StoredInv'
  <2>1. InMaking' = InMaking
    BY <1>1, SameMessages
  <2>2. packer.pc \in {"recording", "waiting", "dead"}
    BY <1>1 DEF IInv, StoredInv
  <2> QED
    BY <1>1, <1>4, <2>1, <2>2 DEF IInv, StoredInv
<1>9. StatusInv'
  BY <1>1, <1>2, <1>5, StatusStays DEF IInv
<1> QED
  BY <1>6, <1>7, <1>8, <1>9 DEF IInv

LEMMA NextKeeps == IInv /\ [Next]_vars => IInv'
<1> SUFFICES ASSUME IInv, [Next]_vars PROVE IInv'
  OBVIOUS
<1>1. ASSUME NEW n \in 1 .. MaxTogether, NEW txs \in [1 .. n -> Offered], Push(txs) PROVE IInv'
  BY <1>1, PushKeeps
<1>2. ASSUME NEW receiver \in DOMAIN Users, PullFromSimulator(receiver) PROVE IInv'
  BY <1>2, PullFromSimulatorKeeps
<1>3. CASE PullFromPool
  BY <1>3, PullFromPoolKeeps
<1>4. CASE Exhausted
  BY <1>4, ExhaustedKeeps
<1>5. CASE Commit
  BY <1>5, CommitKeeps
<1>6. CASE StartBatch
  BY <1>6, StartBatchKeeps
<1>7. CASE getNextPipe
  BY <1>7, GetNextPipeKeeps
<1>8. CASE submitTransfer
  BY <1>8, SubmitTransferKeeps
<1>9. CASE Record
  BY <1>9, RecordKeeps
<1>10. CASE wait
  BY <1>10, WaitKeeps
<1>11. CASE L1Answers
  BY <1>11, L1Keeps
<1>12. CASE UNCHANGED vars
  <2>1. UNCHANGED <<states, statuses, stored, pool, simulator, packer, rollup, l1Txn, Sent, pushes>>
    BY <1>12 DEF vars, Sent, IsUnmined
  <2> QED
    <3>1. InSent' = InSent /\ Batches' = Batches /\ InMaking' = InMaking /\ InAccepted' = InAccepted
      BY <2>1, SameMessages
    <3>2. TypeInv' /\ PipeInv'
      BY <2>1 DEF IInv, TypeInv, IsChain, PipeInv
    <3>3. SpentInv' /\ UniqueInv'
      BY <2>1, <3>1 DEF IInv, SpentInv, UniqueInv
    <3>4. StoredInv'
      BY <2>1, <3>1 DEF IInv, StoredInv
    <3>5. StatusInv'
      BY <2>1, ExtendsSame, StatusStays DEF IInv
    <3> QED
      BY <3>2, <3>3, <3>4, <3>5 DEF IInv
<1>13. CASE Next
  <2>1. CASE Packs
    BY <1>2, <1>3, <1>4, <1>5, <1>6, <1>7, <1>8, <1>9, <1>10, <2>1 DEF Packs
  <2>2. CASE \E txs \in UNION {[1 .. n -> Offered] : n \in 1 .. MaxTogether} : Push(txs)
    <3>1. PICK txs \in UNION {[1 .. n -> Offered] : n \in 1 .. MaxTogether} : Push(txs)
      BY <2>2
    <3>2. PICK n \in 1 .. MaxTogether : txs \in [1 .. n -> Offered]
      OBVIOUS
    <3> QED
      BY <1>1, <3>1, <3>2
  <2> QED
    BY <1>13, <1>11, <2>1, <2>2 DEF Next
<1> QED
  BY <1>12, <1>13

(***************************************************************************)
(* What the invariant says of the statuses.                                *)
(***************************************************************************)
\* A node that has all batches but the last can store the messages of that.
LEMMA OthersFollow ==
  ASSUME IInv
  PROVE  CanFollow
<1> SUFFICES ASSUME l1Txn.status = "pending" PROVE AfterSync.result = "Ok"
  BY DEF CanFollow
<1>1. IsChain(rollup) /\ IsChain(Sent) /\ Sent = Append(rollup, l1Txn.commits)
  BY DEF IInv, TypeInv, Sent, IsUnmined
<1>2. PICK batch \in MadeBatches : batch = l1Txn.commits
  BY DEF IInv, TypeInv, TxnType
<1>3. PICK n \in Nat : Len(Sent) = n + 1 /\ n >= 1 /\ Sent[n + 1] = batch
  BY <1>1, <1>2, MoreBatches
<1>4. Last(Sent) = batch
  BY <1>3 DEF Last
<1>5. PICK k \in Nat : k = Len(batch) /\ DOMAIN batch = 1 .. k
  BY BatchMessages
<1>6. PICK seqs \in [1 .. k -> Seq(SignedMessages)] :
        /\ seqs = Signatures(batch)
        /\ \A m : m \in Messages(batch) <=>
             \E c \in 1 .. k : \E i \in DOMAIN seqs[c] : m = seqs[c][i]
  <2>0. PICK s : s = Signatures(batch)
    OBVIOUS
  <2>1. Signatures(batch) \in [1 .. k -> Seq(SignedMessages)]
    BY <1>5, BatchMessages
  <2>2. \A c \in 1 .. k : Signatures(batch)[c] = batch[c].signature
    BY <1>5, BatchMessages
  <2>3. \A m : m \in Messages(batch) <=>
          \E c \in 1 .. k : \E i \in DOMAIN batch[c].signature : m = batch[c].signature[i]
    BY <1>5, BatchMessages
  <2>4. \A m : m \in Messages(batch) <=>
          \E c \in 1 .. k : \E i \in DOMAIN s[c] : m = s[c][i]
    BY <2>0, <2>2, <2>3
  <2> QED
    BY <2>0, <2>1, <2>4
<1>7. PICK known, all, id :
        /\ known = [m \in UNION {Messages(Sent[b]) : b \in Batches \ {Len(Sent)}} |->
                      [status |-> "Submitted", batchID |-> NoBatch]]
        /\ all = FlattenSeq(seqs) /\ id = nextBatchID(Sent) - 1
  OBVIOUS
<1>8. AfterSync = syncedAll(known, id, all)
  BY <1>4, <1>6, <1>7 DEF AfterSync, syncedAll, syncStep, Signatures
<1>9. known \in StatusMaps
  <2>1. PICK D : D = UNION {Messages(Sent[b]) : b \in Batches \ {Len(Sent)}}
    OBVIOUS
  <2>2. \A b \in Batches : Messages(Sent[b]) \subseteq SignedMessages
    <3>1. \A b \in Batches : Sent[b] \in MadeBatches
      BY <1>1 DEF IsChain, Batches
    <3> QED
      BY <3>1, BatchMessages
  <2>3. D \in SUBSET SignedMessages
    BY <2>1, <2>2
  <2>4. [status |-> "Submitted", batchID |-> NoBatch] \in Status
    BY DEF Status, NoBatch
  <2>5. known \in [D -> Status]
    BY <1>7, <2>1, <2>4
  <2> QED
    BY <2>3, <2>5 DEF StatusMaps
<1>10. id \in Nat
  BY <1>3, <1>7 DEF nextBatchID, CurrentBatchID
<1>11. AllDiffer(seqs)
  BY <1>3, <1>6 DEF IInv, UniqueInv, Batches
<1>12. all \in Seq(SignedMessages) /\ NoneTwice(all) /\ ElementsOf(all, seqs, k)
  <2>1. CASE k = 0
    <3>1. seqs = <<>> /\ Len(seqs) = 0
      BY <2>1
    <3>2. all = <<>>
      BY <1>7, <3>1 DEF FlattenSeq
    <3> QED
      BY <3>2 DEF NoneTwice, ElementsOf
  <2>2. CASE k # 0
    <3>1. k \in Nat \ {0}
      BY <2>2
    <3> QED
      BY <1>7, <1>11, <3>1, FlattenedDiffer
  <2> QED
    BY <2>1, <2>2
<1>13. PICK l \in Nat : all \in [1 .. l -> SignedMessages] /\ DOMAIN all = 1 .. l
  <2>1. Len(all) \in Nat /\ all \in [1 .. Len(all) -> SignedMessages] /\ DOMAIN all = 1 .. Len(all)
    BY <1>12
  <2> QED
    BY <2>1
<1>14. ASSUME NEW i \in 1 .. l PROVE all[i] \notin DOMAIN known
  <2>1. all[i] \in Messages(batch)
    BY <1>6, <1>12, <1>13 DEF ElementsOf
  <2>2. ASSUME all[i] \in DOMAIN known PROVE FALSE
    <3>1. PICK b \in Batches \ {Len(Sent)} : all[i] \in Messages(Sent[b])
      BY <1>7, <2>2
    <3>2. n + 1 \in Batches /\ b # n + 1
      BY <1>3 DEF Batches
    <3>3. all[i] \in Messages(Sent[n + 1])
      BY <1>3, <2>1
    <3>4. \A c, d \in Batches : Messages(Sent[c]) \cap Messages(Sent[d]) # {} => c = d
      BY DEF IInv, UniqueInv
    <3> QED
      BY <3>1, <3>2, <3>3, <3>4
  <2> QED
    BY <2>2
<1> QED
  BY <1>8, <1>9, <1>10, <1>12, <1>13, <1>14, SyncIsOk

LEMMA InvStatuses == ASSUME IInv PROVE StatusesAreTrue
<1>1. IsChain(stored) /\ IsChain(Sent) /\ packer \in PackerType /\ statuses \in StatusMaps
  BY DEF IInv, TypeInv
<1>2. stored = Sent \/ Sent = Append(stored, packer.commits)
  <2>1. packer.pc \in {"idle", "piping", "packing", "committing", "submitting", "recording",
                       "waiting", "dead"}
    BY <1>1 DEF PackerType
  <2> QED
    BY <2>1 DEF IInv, StoredInv
<1>3. PICK n \in Nat : n = Len(stored) /\ n >= 1 /\ DOMAIN stored = 1 .. n
  BY <1>1 DEF IsChain, Chains
<1>4. PICK l \in Nat : l = Len(Sent) /\ n <= l /\ l <= n + 1 /\ \A b \in 1 .. n : Sent[b] = stored[b]
  <2>1. CASE stored = Sent
    BY <1>3, <2>1
  <2>2. CASE Sent = Append(stored, packer.commits)
    <3>1. packer.commits \in MadeBatches
      BY <1>1 DEF PackerType
    <3>2. Len(Sent) = n + 1 /\ \A b \in 1 .. n : Sent[b] = stored[b]
      BY <1>1, <1>3, <2>2, <3>1, MoreBatches
    <3> QED
      BY <3>2
  <2> QED
    BY <1>2, <2>1, <2>2
<1>5. IsPrefix(stored, Sent)
  <2>1. stored \in Chains /\ Sent \in Chains
    BY <1>1 DEF IsChain
  <2>2. PICK A : stored \in Seq(A) /\ Sent \in Seq(A)
    BY <2>1 DEF Chains
  <2>3. /\ SubSeq(stored, 1, n) \in Seq(A) /\ Len(SubSeq(stored, 1, n)) = n
        /\ \A b \in 1 .. n : SubSeq(stored, 1, n)[b] = stored[b]
    BY <1>3, <2>2
  <2>4. /\ SubSeq(Sent, 1, n) \in Seq(A) /\ Len(SubSeq(Sent, 1, n)) = n
        /\ \A b \in 1 .. n : SubSeq(Sent, 1, n)[b] = Sent[b]
    BY <1>3, <1>4, <2>2
  <2>5. SubSeq(stored, 1, n) = SubSeq(Sent, 1, n)
    BY <1>4, <2>3, <2>4, SeqEqual
  <2> QED
    BY <1>3, <1>4, <2>5 DEF IsPrefix
<1>6. StoresWhatWasSent
  <2>1. packer.pc \notin {"recording", "dead"} => stored = Sent
    BY DEF IInv, StoredInv
  <2>2. packer.pc \notin {"recording", "waiting", "dead"} => stored = rollup
    BY DEF IInv, StoredInv, Sent, IsUnmined
  <2>3. Len(Sent) <= Len(stored) + 1
    BY <1>3, <1>4
  <2> QED
    BY <1>5, <2>1, <2>2, <2>3 DEF StoresWhatWasSent
<1>7. ASSUME NEW m \in DOMAIN statuses, NEW in,
             in = {b \in 2 .. Len(stored) : m \in Messages(stored[b])}
      PROVE  /\ statuses[m].status = "Pending" => in = {} \/ Unrecorded(m)
             /\ statuses[m].status = "Submitted" => in = {statuses[m].batchID + 1}
             /\ statuses[m].status = "Failed" =>
                  in = {b \in {statuses[m].batchID + 1} : FailedInBatch(m)} \/ Unrecorded(m)
  <2>1. /\ statuses[m].status = "Pending" => statuses[m].batchID = NoBatch
        /\ statuses[m].status = "Submitted" => statuses[m].batchID # NoBatch
        /\ statuses[m].batchID # NoBatch =>
             /\ statuses[m].batchID \in 1 .. Len(stored) - 1
             /\ m \in Messages(stored[statuses[m].batchID + 1])
    BY DEF IInv, StatusInv
  <2>2. \A b : b \in in <=> b \in 2 .. n /\ m \in Messages(stored[b])
    BY <1>3, <1>7
  <2>3. CASE statuses[m].batchID # NoBatch
    <3>1. PICK b \in 2 .. n : b = statuses[m].batchID + 1 /\ m \in Messages(stored[b])
      <4>1. statuses[m].batchID + 1 \in 2 .. n
        BY <1>3, <2>1, <2>3
      <4> QED
        BY <2>1, <2>3, <4>1
    <3>2. ASSUME NEW c \in in PROVE c = b
      <4>1. c \in 2 .. n /\ m \in Messages(stored[c])
        BY <2>2
      <4>2. /\ c \in Batches /\ m \in Messages(Sent[c])
            /\ b \in Batches /\ m \in Messages(Sent[b])
        BY <1>3, <1>4, <3>1, <4>1 DEF Batches
      <4>3. \A d, e \in Batches : Messages(Sent[d]) \cap Messages(Sent[e]) # {} => d = e
        BY DEF IInv, UniqueInv
      <4> QED
        BY <4>2, <4>3
    <3>3. in = {b}
      BY <2>2, <3>1, <3>2
    <3> QED
      BY <2>1, <2>3, <3>1, <3>3 DEF FailedInBatch
  <2>4. CASE statuses[m].batchID = NoBatch
    <3>1. ASSUME NEW b \in in PROVE Unrecorded(m)
      <4>1. b \in 2 .. Len(stored) /\ m \in Messages(stored[b])
        BY <1>3, <2>2
      <4>2. statuses[m].batchID = b - 1 \/ Unrecorded(m)
        BY <4>1 DEF IInv, StatusInv
      <4> QED
        BY <2>4, <4>1, <4>2 DEF NoBatch
    <3>2. in = {} \/ Unrecorded(m)
      BY <3>1
    <3> QED
      BY <2>1, <2>4, <3>2 DEF FailedInBatch
  <2> QED
    BY <2>3, <2>4
<1>8. CanFollow
  BY OthersFollow
<1> QED
  BY <1>6, <1>7, <1>8 DEF StatusesAreTrue

(***************************************************************************)
(* The theorems.                                                           *)
(***************************************************************************)
(***************************************************************************)
(* No pending transfer is lost.                                            *)
(***************************************************************************)
Pendings == {m \in DOMAIN statuses : statuses[m].status = "Pending"}

\* What the simulator gave last was accepted or failed; no commitment that is
\* made leaves anything of it, and no batch that is recorded.
HeldInv ==
  packer.pc # "dead" =>
    /\ Pendings \subseteq Held
    /\ MessagesOf(simulator.last) \subseteq MessagesOf(packer.accepted) \cup MessagesOf(packer.failed)
    /\ packer.pc # "packing" \/ ~simulator.used => simulator.last = <<>>
    /\ packer.pc \in {"submitting", "recording", "waiting"} =>
         packer.accepted = <<>> /\ packer.failed = <<>>
    /\ packer.pc = "waiting" => packer.acceptedTxs = <<>> /\ packer.failedTxs = <<>>

InHand ==
  MessagesOf(packer.accepted) \cup MessagesOf(packer.failed)
    \cup MessagesOf(packer.acceptedTxs) \cup MessagesOf(packer.failedTxs)

LEMMA HeldIs ==
  /\ Held = PoolMessages(pool) \cup InHand \cup dropped
  /\ Held' = PoolMessages(pool') \cup InHand' \cup dropped'
<1>1. \A P, a, b, c, d, e : P \cup a \cup b \cup c \cup d \cup e = P \cup (a \cup b \cup c \cup d) \cup e
  OBVIOUS
<1>2. PICK P : P = PoolMessages(pool)
  OBVIOUS
<1>3. PICK Q : Q = PoolMessages(pool')
  OBVIOUS
<1>4. /\ Held = P \cup MessagesOf(packer.accepted) \cup MessagesOf(packer.failed)
                \cup MessagesOf(packer.acceptedTxs) \cup MessagesOf(packer.failedTxs) \cup dropped
      /\ Held' = Q \cup MessagesOf(packer'.accepted) \cup MessagesOf(packer'.failed)
                 \cup MessagesOf(packer'.acceptedTxs) \cup MessagesOf(packer'.failedTxs) \cup dropped'
  BY <1>2, <1>3 DEF Held
<1> QED
  BY <1>1, <1>2, <1>3, <1>4 DEF InHand

LEMMA InitHeld == ASSUME Init PROVE HeldInv
<1>1. DOMAIN statuses = {} /\ packer = Idle /\ simulator.last = <<>>
  BY DEF Init
<1>2. Pendings = {} /\ packer.pc = "idle" /\ MessagesOf(simulator.last) = {}
  BY <1>1, NoMessages DEF Pendings, Idle
<1> QED
  BY <1>1, <1>2 DEF HeldInv

\* A step of the packer that leaves all transfers where they are.
LEMMA HeldStays ==
  ASSUME HeldInv, packer.pc # "dead", UNCHANGED <<statuses, pool, simulator, dropped>>,
         packer'.accepted = packer.accepted, packer'.failed = packer.failed,
         packer'.acceptedTxs = packer.acceptedTxs, packer'.failedTxs = packer.failedTxs,
         packer.pc # "packing" \/ ~simulator.used,
         packer'.pc \in {"submitting", "recording", "waiting"} =>
           packer.pc \in {"submitting", "recording", "waiting"},
         packer'.pc # "waiting"
  PROVE  HeldInv'
<1>1. Held' = Held /\ Pendings' = Pendings
  BY DEF Held, Pendings
<1> QED
  BY <1>1 DEF HeldInv

LEMMA PushHeld ==
  ASSUME IInv, HeldInv, NEW n \in 1 .. MaxTogether, NEW txs \in [1 .. n -> Offered], Push(txs)
  PROVE  HeldInv'
<1>1. n \in Nat /\ txs \in [1 .. n -> Txs]
  BY Limits, PackingAssumption DEF Txs
<1>2. /\ pool' = pushed(pool, states, txs) /\ statuses' = pendingAll(statuses, txs)
      /\ UNCHANGED <<simulator, packer, dropped>>
  BY DEF Push, Pushed, pushed, pendingAll
<1>3. pool \in Pools /\ statuses \in StatusMaps
  BY DEF IInv, TypeInv
<1>4. /\ PoolMessages(pool) \subseteq PoolMessages(pool')
      /\ \A i \in 1 .. n : CanPush(pool, states, txs[i]) => messageOfTx(txs[i]) \in PoolMessages(pool')
  BY <1>1, <1>2, <1>3, PushesAdd
<1>5. /\ Extends(statuses, statuses')
      /\ \A m \in DOMAIN statuses' \ DOMAIN statuses :
           \E i \in 1 .. n : m = messageOfTx(txs[i]) /\ CanPush(pool, states, txs[i])
  BY <1>1, <1>2, <1>3, PendingsExtend
<1>6. Held' = PoolMessages(pool') \cup InHand \cup dropped
  BY <1>2, HeldIs DEF InHand
<1>7. Held \subseteq Held'
  BY <1>4, <1>6, HeldIs
<1>8. Pendings' \subseteq Pendings \cup PoolMessages(pool')
  BY <1>4, <1>5 DEF Pendings, Extends
<1> QED
  BY <1>2, <1>6, <1>7, <1>8 DEF HeldInv

\* A transfer that was taken is in hand, or was dropped.
LEMMA TakeHolds ==
  ASSUME TypeInv, NEW tx \in Txs, packer.pc = "packing", Take(tx), packer'.pc # "dead"
  PROVE  /\ InHand \cup dropped \cup {messageOfTx(tx)} \subseteq InHand' \cup dropped'
         /\ MessagesOf(packer.accepted) \cup MessagesOf(packer.failed)
              \subseteq MessagesOf(packer'.accepted) \cup MessagesOf(packer'.failed)
         /\ Full => packer'.pc = "committing"
         /\ ~Full =>
              /\ packer'.pc = "packing"
              /\ messageOfTx(tx) \in MessagesOf(packer'.accepted) \cup MessagesOf(packer'.failed)
<1>1. packer \in PackerType /\ packer.accepted \in Seq(Txs) /\ packer.failed \in Seq(Txs)
  BY DEF TypeInv, PackerType
<1>2. CASE Full
  <2>1. /\ packer' = [packer EXCEPT !.pc = "committing"]
        /\ dropped' = dropped \cup {messageOfTx(tx)}
    BY <1>2 DEF Take
  <2>2. /\ packer'.pc = "committing"
        /\ packer'.accepted = packer.accepted /\ packer'.failed = packer.failed
        /\ packer'.acceptedTxs = packer.acceptedTxs /\ packer'.failedTxs = packer.failedTxs
    BY <1>1, <2>1 DEF PackerType
  <2> QED
    BY <1>2, <2>1, <2>2 DEF InHand
<1>3. CASE ~Full /\ validateTransferStateTransition(tx, packer.tokenID)
  <2>1. packer' = [packer EXCEPT !.accepted = Append(packer.accepted, tx)] /\ dropped' = dropped
    BY <1>3 DEF Take
  <2>2. PICK more : more = Append(packer.accepted, tx)
    OBVIOUS
  <2>3. /\ packer'.pc = "packing"
        /\ packer'.accepted = more /\ packer'.failed = packer.failed
        /\ packer'.acceptedTxs = packer.acceptedTxs /\ packer'.failedTxs = packer.failedTxs
    BY <1>1, <2>1, <2>2 DEF PackerType
  <2>4. MessagesOf(more) = MessagesOf(packer.accepted) \cup {messageOfTx(tx)}
    BY <1>1, <2>2, MoreTxs
  <2> QED
    BY <1>3, <2>1, <2>3, <2>4 DEF InHand
<1>4. CASE ~Full /\ ~validateTransferStateTransition(tx, packer.tokenID)
  <2>1. hasHash(tx)
    <3>1. ~hasHash(tx) => Dies
      BY <1>4 DEF Take
    <3> QED
      BY <1>1, <3>1, DiesIs
  <2>2. packer' = [packer EXCEPT !.failed = Append(packer.failed, tx)] /\ dropped' = dropped
    BY <1>4, <2>1 DEF Take
  <2>3. PICK more : more = Append(packer.failed, tx)
    OBVIOUS
  <2>4. /\ packer'.pc = "packing"
        /\ packer'.accepted = packer.accepted /\ packer'.failed = more
        /\ packer'.acceptedTxs = packer.acceptedTxs /\ packer'.failedTxs = packer.failedTxs
    BY <1>1, <2>2, <2>3 DEF PackerType
  <2>5. MessagesOf(more) = MessagesOf(packer.failed) \cup {messageOfTx(tx)}
    BY <1>1, <2>3, MoreTxs
  <2> QED
    BY <1>4, <2>2, <2>4, <2>5 DEF InHand
<1> QED
  BY <1>2, <1>3, <1>4

LEMMA PullFromPoolHeld == ASSUME IInv, HeldInv, PullFromPool, packer'.pc # "dead" PROVE HeldInv'
<1>1. PICK t : t = packer.tokenID
  OBVIOUS
<1>2. /\ packer.pc = "packing" /\ ~simulator.used /\ queueSize(pool, t) > 0
      /\ pool' = pop(pool, t).pool /\ Take(pop(pool, t).tx)
      /\ UNCHANGED <<statuses, simulator>>
  BY <1>1 DEF PullFromPool
<1>3. TypeInv /\ pool \in Pools
  BY DEF IInv, TypeInv
<1>4. t \in DOMAIN FeeReceivers /\ Len(pool[t]) > 0
  BY <1>2, <1>3 DEF queueSize, Pools
<1>5. PICK tx \in Txs : /\ tx = pop(pool, t).tx
                        /\ PoolMessages(pool) \subseteq PoolMessages(pool') \cup {messageOfTx(tx)}
  BY <1>2, <1>3, <1>4, PopTakes
<1>6. /\ InHand \cup dropped \cup {messageOfTx(tx)} \subseteq InHand' \cup dropped'
      /\ packer'.pc \in {"packing", "committing"}
  BY <1>2, <1>3, <1>5, TakeHolds
<1>7. Held' = PoolMessages(pool') \cup InHand' \cup dropped'
  BY HeldIs
<1>8. Held \subseteq Held' /\ Pendings' = Pendings
  BY <1>2, <1>5, <1>6, <1>7, HeldIs DEF Pendings
<1>9. simulator.last = <<>> /\ Pendings \subseteq Held
  BY <1>2 DEF HeldInv
<1> QED
  BY <1>2, <1>6, <1>8, <1>9, NoMessages DEF HeldInv

LEMMA PullFromSimulatorHeld ==
  ASSUME IInv, HeldInv, NEW receiver \in DOMAIN Users, PullFromSimulator(receiver), packer'.pc # "dead"
  PROVE  HeldInv'
<1>1. TypeInv /\ packer \in PackerType /\ simulator \in SimulatorType /\ statuses \in StatusMaps
  BY DEF IInv, TypeInv
<1>2. packer.pc = "packing" /\ simulator.used /\ statuses' = AfterYield.statuses /\ pool' = pool
  BY DEF PullFromSimulator
<1>3. AfterYield.result = "Ok" /\ canGenTx(packer.tokenID, simulator.user)
  <2>1. ~(AfterYield.result = "Ok" /\ canGenTx(packer.tokenID, simulator.user)) => Dies
    BY DEF PullFromSimulator
  <2> QED
    BY <1>1, <2>1, DiesIs
<1>4. PICK last \in Seq(Txs) : last = simulator.last
  BY <1>1 DEF SimulatorType
<1>5. Pendings' \subseteq Pendings \cup MessagesOf(last)
  <2>1. CASE last = <<>>
    <3>1. statuses' = statuses
      BY <1>2, <1>4, <2>1 DEF AfterYield, Yielded, Kept
    <3> QED
      BY <3>1 DEF Pendings
  <2>2. CASE last # <<>>
    <3>1. last[1] \in Txs /\ 1 \in DOMAIN last
      BY <2>2
    <3>2. PICK m \in SignedMessages : m = messageOfTx(last[1])
      BY <3>1, MessageFields
    <3>3. m \in MessagesOf(last)
      BY <3>1, <3>2 DEF MessagesOf
    <3>4. statuses' = pending(statuses, m).statuses
      BY <1>2, <1>4, <2>2, <3>2 DEF AfterYield, Yielded
    <3>5. Extends(statuses, statuses') /\ DOMAIN statuses' \subseteq DOMAIN statuses \cup {m}
      BY <1>1, <3>4, PendingExtends
    <3> QED
      BY <3>3, <3>5 DEF Pendings, Extends
  <2> QED
    BY <2>1, <2>2
<1>6. PICK tx \in Txs : tx = genTx(packer.tokenID, simulator.user, receiver)
  <2>1. simulator.user \in DOMAIN Users
    BY <1>1 DEF SimulatorType
  <2>2. packer.tokenID \in DOMAIN FeeReceivers
    BY <1>2 DEF IInv, PipeInv
  <2> QED
    BY <1>1, <1>3, <2>1, <2>2, GenTxIs
<1>7. /\ Take(tx)
      /\ simulator'.last = IF Full THEN <<>> ELSE <<tx>>
      /\ simulator'.used = simulator.used
  BY <1>1, <1>3, <1>6 DEF PullFromSimulator, SimulatorType
<1>8. /\ InHand \cup dropped \subseteq InHand' \cup dropped'
      /\ Full => packer'.pc = "committing"
      /\ ~Full =>
           /\ packer'.pc = "packing"
           /\ messageOfTx(tx) \in MessagesOf(packer'.accepted) \cup MessagesOf(packer'.failed)
  BY <1>1, <1>2, <1>7, TakeHolds
<1>9. Held' = PoolMessages(pool) \cup InHand' \cup dropped'
  BY <1>2, HeldIs
<1>10. Held \subseteq Held'
  BY <1>8, <1>9, HeldIs
<1>11. Pendings \subseteq Held /\ MessagesOf(last) \subseteq Held
  <2>1. /\ Pendings \subseteq Held
        /\ MessagesOf(last) \subseteq MessagesOf(packer.accepted) \cup MessagesOf(packer.failed)
    BY <1>2, <1>4 DEF HeldInv
  <2> QED
    BY <2>1, HeldIs DEF InHand
<1>12. MessagesOf(simulator'.last) \subseteq MessagesOf(packer'.accepted) \cup MessagesOf(packer'.failed)
  <2>1. CASE Full
    BY <1>7, <2>1, NoMessages
  <2>2. CASE ~Full
    <3>1. MessagesOf(<<tx>>) = {messageOfTx(tx)}
      BY DEF MessagesOf
    <3> QED
      BY <1>7, <1>8, <2>2, <3>1
  <2> QED
    BY <2>1, <2>2
<1> QED
  BY <1>2, <1>5, <1>7, <1>8, <1>10, <1>11, <1>12 DEF HeldInv

LEMMA CommitHeld == ASSUME IInv, HeldInv, Commit, packer'.pc # "dead" PROVE HeldInv'
<1>1. packer.pc = "committing" /\ UNCHANGED <<statuses, pool, simulator, dropped>>
  BY DEF Commit
<1>2. /\ packer \in PackerType /\ packer.accepted \in Seq(Txs) /\ packer.acceptedTxs \in Seq(Txs)
      /\ packer.failed \in Seq(Txs) /\ packer.failedTxs \in Seq(Txs)
  BY DEF IInv, TypeInv, PackerType
<1>3. ~Dies
  BY <1>2, DiesIs
<1>4. PICK commits, pc : /\ pc \in {"submitting", "piping"}
                         /\ packer' = [packer EXCEPT
                              !.commits = commits,
                              !.acceptedTxs = packer.acceptedTxs \o packer.accepted,
                              !.failedTxs = packer.failedTxs \o packer.failed,
                              !.accepted = <<>>, !.failed = <<>>, !.pc = pc]
  BY <1>3 DEF Commit
<1>5. PICK a, f : a = packer.acceptedTxs \o packer.accepted /\ f = packer.failedTxs \o packer.failed
  OBVIOUS
<1>6. /\ packer'.pc = pc /\ packer'.accepted = <<>> /\ packer'.failed = <<>>
      /\ packer'.acceptedTxs = a /\ packer'.failedTxs = f
  BY <1>2, <1>4, <1>5 DEF PackerType
<1>7. /\ MessagesOf(a) = MessagesOf(packer.acceptedTxs) \cup MessagesOf(packer.accepted)
      /\ MessagesOf(f) = MessagesOf(packer.failedTxs) \cup MessagesOf(packer.failed)
  BY <1>2, <1>5, JoinedTxs
<1>8. InHand' = InHand
  BY <1>6, <1>7, NoMessages DEF InHand
<1>9. Held' = Held /\ Pendings' = Pendings
  <2>1. Held' = PoolMessages(pool) \cup InHand' \cup dropped
    BY <1>1, HeldIs
  <2> QED
    BY <1>1, <1>8, <2>1, HeldIs DEF Pendings
<1>10. simulator.last = <<>> /\ Pendings \subseteq Held
  BY <1>1 DEF HeldInv
<1> QED
  BY <1>1, <1>4, <1>6, <1>9, <1>10, NoMessages DEF HeldInv

LEMMA RecordHeld == ASSUME IInv, HeldInv, Record, packer'.pc # "dead" PROVE HeldInv'
<1>1. /\ packer.pc = "recording" /\ UNCHANGED <<pool, simulator, dropped>>
      /\ TypeInv /\ packer \in PackerType /\ IsChain(stored)
  BY DEF Record, IInv, TypeInv
<1>2. ~Dies
  BY <1>1, DiesIs
<1>3. PICK batchID \in Nat : batchID = nextBatchID(stored)
  BY <1>1 DEF IsChain, Chains, nextBatchID, CurrentBatchID
<1>4. PICK outcome : outcome = Recorded(batchID)
  OBVIOUS
<1>5. /\ statuses' = outcome.statuses /\ outcome.result = "Ok"
      /\ packer' = [Idle EXCEPT !.pc = "waiting"]
  BY <1>2, <1>3, <1>4 DEF Record
<1>6. /\ Recording(statuses, statuses', MessagesOf(packer.acceptedTxs), batchID)
      /\ InBatch(statuses', MessagesOf(packer.acceptedTxs), batchID)
      /\ NonePending(statuses', MessagesOf(packer.failedTxs))
  BY <1>1, <1>4, <1>5, RecordedIs
<1>7. /\ packer'.pc = "waiting" /\ packer'.accepted = <<>> /\ packer'.failed = <<>>
      /\ packer'.acceptedTxs = <<>> /\ packer'.failedTxs = <<>>
  BY <1>5 DEF Idle
<1>8. /\ packer.accepted = <<>> /\ packer.failed = <<>> /\ simulator.last = <<>>
      /\ Pendings \subseteq Held
  BY <1>1 DEF HeldInv
<1>9. ASSUME NEW m \in Pendings' PROVE m \in PoolMessages(pool) \cup dropped
  <2>1. /\ m \in DOMAIN statuses /\ m \in DOMAIN statuses' /\ statuses'[m].status = "Pending"
        /\ statuses'[m] = statuses[m]
    BY <1>6, <1>9 DEF Pendings, Recording
  <2>2. m \in Held
    BY <1>8, <2>1 DEF Pendings
  <2>3. m \notin MessagesOf(packer.failedTxs)
    BY <1>6, <2>1 DEF NonePending
  <2>4. m \notin MessagesOf(packer.acceptedTxs)
    <3>1. statuses[m].batchID = NoBatch
      BY <2>1 DEF IInv, StatusInv
    <3> QED
      BY <1>6, <2>1, <3>1 DEF InBatch, NoBatch
  <2> QED
    BY <1>8, <2>2, <2>3, <2>4, HeldIs, NoMessages DEF InHand
<1>10. Held' = PoolMessages(pool) \cup InHand' \cup dropped
  BY <1>1, HeldIs
<1> QED
  BY <1>1, <1>7, <1>8, <1>9, <1>10, NoMessages DEF HeldInv

LEMMA WaitHeld == ASSUME HeldInv, wait, packer'.pc # "dead", packer \in PackerType PROVE HeldInv'
<1>1. packer.pc = "waiting" /\ UNCHANGED <<statuses, pool, simulator, dropped>> /\ packer' = Idle
  BY DiesIs DEF wait
<1>2. /\ packer.accepted = <<>> /\ packer.failed = <<>>
      /\ packer.acceptedTxs = <<>> /\ packer.failedTxs = <<>>
  BY <1>1 DEF HeldInv
<1>3. /\ packer'.pc = "idle" /\ packer'.accepted = <<>> /\ packer'.failed = <<>>
      /\ packer'.acceptedTxs = <<>> /\ packer'.failedTxs = <<>>
  BY <1>1 DEF Idle
<1> QED
  BY <1>1, <1>2, <1>3, HeldStays

LEMMA PacksHeld == ASSUME IInv, HeldInv, Packs, packer'.pc # "dead" PROVE HeldInv'
<1>1. packer \in PackerType /\ ~Dies
  BY DiesIs DEF IInv, TypeInv
<1>2. ASSUME NEW receiver \in DOMAIN Users, PullFromSimulator(receiver) PROVE HeldInv'
  BY <1>2, PullFromSimulatorHeld
<1>3. CASE PullFromPool
  BY <1>3, PullFromPoolHeld
<1>4. CASE Exhausted
  BY <1>1, <1>4, HeldStays DEF Exhausted, PackerType
<1>5. CASE Commit
  BY <1>5, CommitHeld
<1>6. CASE StartBatch
  BY <1>1, <1>6, HeldStays DEF StartBatch, PackerType
<1>7. CASE getNextPipe
  <2>1. /\ packer.pc = "piping" /\ UNCHANGED <<statuses, pool, simulator, dropped>>
        /\ \E tokenID : packer' = [packer EXCEPT !.pc = "packing", !.tokenID = tokenID]
    BY <1>7 DEF getNextPipe
  <2> QED
    BY <1>1, <2>1, HeldStays DEF PackerType
<1>8. CASE submitTransfer
  BY <1>1, <1>8, HeldStays DEF submitTransfer, PackerType
<1>9. CASE Record
  BY <1>9, RecordHeld
<1>10. CASE wait
  BY <1>1, <1>10, WaitHeld
<1> QED
  BY <1>2, <1>3, <1>4, <1>5, <1>6, <1>7, <1>8, <1>9, <1>10 DEF Packs

LEMMA NextHeld == IInv /\ HeldInv /\ [Next]_vars => HeldInv'
<1> SUFFICES ASSUME IInv, HeldInv, [Next]_vars, packer'.pc # "dead" PROVE HeldInv'
  BY DEF HeldInv
<1>1. CASE \E txs \in UNION {[1 .. n -> Offered] : n \in 1 .. MaxTogether} : Push(txs)
  <2>1. PICK txs \in UNION {[1 .. n -> Offered] : n \in 1 .. MaxTogether} : Push(txs)
    BY <1>1
  <2>2. PICK n \in 1 .. MaxTogether : txs \in [1 .. n -> Offered]
    OBVIOUS
  <2> QED
    BY <2>1, <2>2, PushHeld
<1>2. CASE Packs
  BY <1>2, PacksHeld
<1>3. CASE L1Answers \/ UNCHANGED vars
  <2>1. UNCHANGED <<statuses, pool, simulator, packer, dropped>>
    BY <1>3 DEF L1Answers, Mined, Reverted, vars
  <2>2. Held' = Held /\ Pendings' = Pendings
    BY <2>1 DEF Held, Pendings
  <2> QED
    BY <2>1, <2>2 DEF HeldInv
<1> QED
  BY <1>1, <1>2, <1>3 DEF Next

LEMMA PackingInductive == Spec => []IInv
<1>1. Init => IInv
  BY InitInv
<1>2. IInv /\ [Next]_vars => IInv'
  BY NextKeeps
<1> QED
  BY <1>1, <1>2, PTL DEF Spec

\* Types: the states of the genesis, batches of signed transfers, and a status
\* for the messages of transfers only.
THEOREM PackerTypes == Spec => []TypeInv
<1>1. IInv => TypeInv
  BY DEF IInv
<1> QED
  BY <1>1, PackingInductive, PTL

\* No transfer is accepted twice: the messages of a batch, of the commitments
\* in the making and of what was accepted for the next are all different, since
\* the nonce of each is below that of its sender's state.
THEOREM AcceptedOnce == Spec => [](SpentInv /\ UniqueInv)
<1>1. IInv => SpentInv /\ UniqueInv
  BY DEF IInv
<1> QED
  BY <1>1, PackingInductive, PTL

\* What the node tells of a transfer is so: submitted is in the one batch it
\* names, pending and failed in none, but for a transfer that was pushed twice
\* and for what an exception left to record; and a node that syncs the batches
\* can store the transfers of each.
THEOREM StatusesStayTrue == Spec => []StatusesAreTrue
<1>1. IInv => StatusesAreTrue
  BY InvStatuses
<1> QED
  BY <1>1, PackingInductive, PTL

\* No pending transfer is lost before an exception ends the packer: it is in
\* the pool, also when its push overlapped others that were let in together, or
\* the packer has it and will tell what became of it, or left it over.
THEOREM NothingIsLost == Spec => []PendingIsHeld
<1>1. Init => HeldInv
  BY InitHeld
<1>2. IInv /\ HeldInv /\ [Next]_vars => HeldInv'
  BY NextHeld
<1>3. HeldInv => PendingIsHeld
  BY DEF HeldInv, PendingIsHeld, Pendings
<1> QED
  BY <1>1, <1>2, <1>3, PackingInductive, PTL DEF Spec

-----------------------------------------------------------------------------

(***************************************************************************)
(* Division, slots and donations.                                          *)
(***************************************************************************)
\* The quotient is the largest number whose product with the divisor fits.
LEMMA RoundedDown ==
  ASSUME NEW a \in Nat, NEW b \in Nat \ {0}
  PROVE  /\ a \div b \in Nat
         /\ b * (a \div b) <= a
         /\ a < b * ((a \div b) + 1)
BY Z3

LEMMA ProductsInOrder ==
  ASSUME NEW b \in Nat \ {0}, NEW p \in Nat, NEW q \in Nat, b * p < b * (q + 1)
  PROVE  p <= q
BY Z3

\* Dividing by a positive number keeps the order.
LEMMA QuotientsInOrder ==
  ASSUME NEW a \in Nat, NEW c \in Nat, NEW b \in Nat \ {0}, a <= c
  PROVE  a \div b <= c \div b
<1> DEFINE p == a \div b
           q == c \div b
<1>1. p \in Nat /\ b * p <= a
  BY RoundedDown
<1>2. q \in Nat /\ c < b * (q + 1)
  BY RoundedDown
<1>3. b * p \in Nat /\ b * (q + 1) \in Nat
  BY <1>1, <1>2
<1> HIDE DEF p, q
<1>4. b * p < b * (q + 1)
  BY <1>1, <1>2, <1>3
<1>5. p <= q
  BY <1>1, <1>2, <1>4, ProductsInOrder
<1> QED
  BY <1>5 DEF p, q

\* Slots are numbers, and a later block has no earlier slot.
LEMMA SlotsInOrder ==
  ASSUME NEW earlier \in Nat, NEW later \in Nat, earlier <= later
  PROVE  /\ block2slot(earlier) \in Nat /\ block2slot(later) \in Nat
         /\ block2slot(earlier) <= block2slot(later)
<1>1. genesisBlock \in Nat /\ BLOCKS_PER_SLOT \in Nat \ {0}
  BY AuctionAssumption
<1>2. ASSUME NEW n \in Nat, n >= genesisBlock
      PROVE  n - genesisBlock \in Nat /\ block2slot(n) = (n - genesisBlock) \div BLOCKS_PER_SLOT
  BY <1>1, <1>2 DEF block2slot, SlotFromGenesis
<1>3. ASSUME NEW n \in Nat PROVE block2slot(n) \in Nat
  <2>1. CASE n < genesisBlock
    BY <1>1, <2>1 DEF block2slot
  <2>2. CASE n >= genesisBlock
    BY <1>1, <1>2, <2>2, RoundedDown
  <2> QED
    BY <1>1, <2>1, <2>2
<1>4. CASE earlier < genesisBlock
  <2>1. block2slot(earlier) = 0
    BY <1>4 DEF block2slot
  <2> QED
    BY <1>3, <2>1
<1>5. CASE earlier >= genesisBlock
  <2> DEFINE e == earlier - genesisBlock
             l == later - genesisBlock
  <2>1. later >= genesisBlock /\ e \in Nat /\ l \in Nat /\ e <= l
    BY <1>1, <1>5
  <2>2. /\ block2slot(earlier) = e \div BLOCKS_PER_SLOT
        /\ block2slot(later) = l \div BLOCKS_PER_SLOT
    BY <1>2, <1>5, <2>1
  <2> HIDE DEF e, l
  <2>3. e \div BLOCKS_PER_SLOT <= l \div BLOCKS_PER_SLOT
    BY <1>1, <2>1, QuotientsInOrder
  <2> QED
    BY <1>3, <2>2, <2>3
<1> QED
  BY <1>1, <1>4, <1>5

\* The slot that is open for bids is after the next one.
LEMMA OpenSlot ==
  ASSUME block \in Nat
  PROVE  /\ currentSlot \in Nat /\ auctionSlot \in Nat
         /\ auctionSlot > currentSlot + 1 /\ auctionSlot \in 2 .. auctionSlot
<1>1. currentSlot \in Nat
  BY SlotsInOrder DEF currentSlot
<1> QED
  BY <1>1 DEF auctionSlot

LEMMA DonationType ==
  ASSUME NEW amount \in Nat
  PROVE  Donation(amount) \in Nat
<1>1. donationNumerator \in Nat /\ DONATION_DENOMINATOR \in Nat \ {0}
  BY AuctionAssumption
<1>2. amount * donationNumerator \in Nat
  BY <1>1
<1> QED
  BY <1>1, <1>2, RoundedDown DEF Donation

\* An update that does not revert leaves balances that are not below zero.
LEMMA UpdateType ==
  ASSUME NEW balances \in [Accounts -> Nat], NEW addr \in Accounts,
         NEW incr \in Nat, NEW decr \in Nat, CanUpdate(balances, addr, incr, decr)
  PROVE  updateBalance(balances, addr, incr, decr) \in [Accounts -> Nat]
<1>1. balances[addr] + incr - decr \in Nat
  BY DEF CanUpdate
<1> QED
  BY <1>1 DEF updateBalance

(***************************************************************************)
(* The type invariant.                                                     *)
(***************************************************************************)
LEMMA InitTypeOK == AuctionInit => AuctionTypeOK
<1> SUFFICES ASSUME AuctionInit PROVE AuctionTypeOK
  OBVIOUS
<1>1. DOMAIN auction = {}
  BY DEF AuctionInit
<1> QED
  BY <1>1 DEF AuctionInit, AuctionTypeOK

LEMMA ReceiveType ==
  ASSUME AuctionTypeOK, NEW account \in Accounts, NEW value \in Nat, Receive(account, value)
  PROVE  balance' \in Nat /\ paid' \in [Accounts -> Int]
BY DEF AuctionTypeOK, Receive

LEMMA PayType ==
  ASSUME AuctionTypeOK, NEW account \in Accounts, NEW amount \in Nat, Pay(account, amount)
  PROVE  balance' \in Nat /\ paid' \in [Accounts -> Int]
BY DEF AuctionTypeOK, Pay

\* While the block and the auction stay, so do the slots that are initialized.
LEMMA SameAuction ==
  ASSUME AuctionTypeOK, UNCHANGED <<block, auction>>
  PROVE  /\ block' \in Nat /\ DOMAIN auction' \subseteq 2 .. auctionSlot'
         /\ \A slot \in DOMAIN auction' : auction'[slot] \in Bid
BY DEF AuctionTypeOK, auctionSlot, currentSlot, block2slot, SlotFromGenesis

LEMMA DepositType ==
  ASSUME AuctionTypeOK, NEW account \in Accounts, NEW value \in Nat, deposit(account, value)
  PROVE  AuctionTypeOK'
<1>1. deposits \in [Accounts -> Nat]
  BY DEF AuctionTypeOK
<1>2. CanUpdate(deposits, account, value, 0)
  BY <1>1 DEF CanUpdate
<1>3. deposits' \in [Accounts -> Nat]
  BY <1>1, <1>2, UpdateType DEF deposit
<1>4. Receive(account, value) /\ UNCHANGED <<block, auction>>
  BY DEF deposit
<1> QED
  BY <1>3, <1>4, ReceiveType, SameAuction DEF AuctionTypeOK

\* What a bid does to the auction.
LEMMA BidSetsSlot ==
  ASSUME AuctionTypeOK, NEW sender \in Accounts, NEW bidAmount \in Nat, NEW value \in Nat,
         bid(sender, bidAmount, value)
  PROVE  /\ DOMAIN auction' = DOMAIN auction \cup {auctionSlot}
         /\ auction'[auctionSlot] = [coordinator |-> sender, amount |-> bidAmount]
         /\ \A slot \in DOMAIN auction \ {auctionSlot} : auction'[slot] = auction[slot]
         /\ bidAmount > CurrentBid(auctionSlot) /\ CurrentBid(auctionSlot) \in Nat
<1>1. CurrentBid(auctionSlot) \in Nat
  BY DEF AuctionTypeOK, CurrentBid, Bid
<1> QED
  BY <1>1 DEF bid

LEMMA BidType ==
  ASSUME AuctionTypeOK, NEW sender \in Accounts, NEW bidAmount \in Nat, NEW value \in Nat,
         bid(sender, bidAmount, value)
  PROVE  AuctionTypeOK'
<1> DEFINE slot     == auctionSlot
           lastBid  == CurrentBid(slot)
           refunded == Refunded(slot)
           donated  == updateBalance(refunded, donationAddress,
                                     Donation(bidAmount), Donation(lastBid))
<1>1. deposits \in [Accounts -> Nat] /\ donationAddress \in Accounts /\ block' = block
  BY AuctionAssumption DEF AuctionTypeOK, bid
<1>2. refunded \in [Accounts -> Nat]
  <2>1. CASE slot \in DOMAIN auction
    <3>1. auction[slot].coordinator \in Accounts /\ auction[slot].amount \in Nat
      BY <2>1 DEF AuctionTypeOK, Bid
    <3>2. CanUpdate(deposits, auction[slot].coordinator, auction[slot].amount, 0)
      BY <1>1, <3>1 DEF CanUpdate
    <3> QED
      BY <1>1, <2>1, <3>1, <3>2, UpdateType DEF Refunded
  <2>2. CASE slot \notin DOMAIN auction
    BY <1>1, <2>2 DEF Refunded
  <2> QED
    BY <2>1, <2>2
<1>3. donated \in [Accounts -> Nat]
  <2>1. Donation(bidAmount) \in Nat /\ Donation(lastBid) \in Nat
    BY BidSetsSlot, DonationType
  <2>2. CanUpdate(refunded, donationAddress, Donation(bidAmount), Donation(lastBid))
    BY DEF bid
  <2> QED
    BY <1>1, <1>2, <2>1, <2>2, UpdateType
<1>4. deposits' \in [Accounts -> Nat]
  <2>1. /\ CanUpdate(donated, sender, value, bidAmount)
        /\ deposits' = updateBalance(donated, sender, value, bidAmount)
    BY DEF bid
  <2> QED
    BY <1>3, <2>1, UpdateType
<1>5. balance' \in Nat /\ paid' \in [Accounts -> Int]
  BY ReceiveType DEF bid
<1>6. \A s \in DOMAIN auction' : auction'[s] \in Bid
  <2>1. /\ DOMAIN auction' = DOMAIN auction \cup {auctionSlot}
        /\ auction'[auctionSlot] = [coordinator |-> sender, amount |-> bidAmount]
        /\ \A s \in DOMAIN auction \ {auctionSlot} : auction'[s] = auction[s]
        /\ bidAmount > CurrentBid(auctionSlot) /\ CurrentBid(auctionSlot) \in Nat
    BY BidSetsSlot
  <2>2. bidAmount \in Nat \ {0}
    BY <2>1
  <2>3. auction'[auctionSlot] \in Bid
    BY <2>1, <2>2 DEF Bid
  <2>4. \A s \in DOMAIN auction : auction[s] \in Bid
    BY DEF AuctionTypeOK
  <2> QED
    BY <2>1, <2>3, <2>4
<1>7. DOMAIN auction' \subseteq 2 .. auctionSlot'
  <2>1. auctionSlot' = auctionSlot
    BY <1>1 DEF auctionSlot, currentSlot, block2slot, SlotFromGenesis
  <2>2. auctionSlot \in 2 .. auctionSlot
    BY OpenSlot DEF AuctionTypeOK
  <2> QED
    BY <2>1, <2>2, BidSetsSlot DEF AuctionTypeOK
<1> QED
  BY <1>1, <1>4, <1>5, <1>6, <1>7 DEF AuctionTypeOK

LEMMA WithdrawType ==
  ASSUME AuctionTypeOK, NEW account \in Accounts, NEW amount \in Nat, withdraw(account, amount)
  PROVE  AuctionTypeOK'
<1>1. deposits \in [Accounts -> Nat] /\ CanUpdate(deposits, account, 0, amount)
  BY DEF AuctionTypeOK, withdraw, CanUpdate
<1>2. deposits' \in [Accounts -> Nat]
  BY <1>1, UpdateType DEF withdraw
<1>3. Pay(account, amount) /\ UNCHANGED <<block, auction>>
  BY DEF withdraw
<1> QED
  BY <1>2, <1>3, PayType, SameAuction DEF AuctionTypeOK

LEMMA WithdrawDonationType ==
  ASSUME AuctionTypeOK, withdrawDonation
  PROVE  AuctionTypeOK'
<1>1. deposits \in [Accounts -> Nat] /\ donationAddress \in Accounts
  BY AuctionAssumption DEF AuctionTypeOK
<1>2. deposits' \in [Accounts -> Nat]
  BY <1>1 DEF withdrawDonation
<1>3. Pay(donationAddress, deposits[donationAddress]) /\ UNCHANGED <<block, auction>>
  BY DEF withdrawDonation
<1> QED
  BY <1>1, <1>2, <1>3, PayType, SameAuction DEF AuctionTypeOK

\* A block that passes makes no slot unreachable that bids could reach.
LEMMA NewBlockType ==
  ASSUME AuctionTypeOK, NewBlock
  PROVE  AuctionTypeOK'
<1>1. block \in Nat /\ block' = block + 1 /\ UNCHANGED <<auction, deposits, balance, paid>>
  BY DEF AuctionTypeOK, NewBlock
<1>2. auctionSlot' = block2slot(block + 1) + 2
  BY <1>1 DEF auctionSlot, currentSlot, block2slot, SlotFromGenesis
<1>3. auctionSlot \in Nat /\ auctionSlot' \in Nat /\ auctionSlot <= auctionSlot'
  BY <1>1, <1>2, SlotsInOrder DEF auctionSlot, currentSlot
<1> QED
  BY <1>1, <1>3 DEF AuctionTypeOK

\* Every step preserves the types.
LEMMA NextTypeOK == AuctionTypeOK /\ [AuctionNext]_auctionVars => AuctionTypeOK'
<1> SUFFICES ASSUME AuctionTypeOK, [AuctionNext]_auctionVars PROVE AuctionTypeOK'
  OBVIOUS
<1>1. Values \subseteq Nat
  BY AuctionAssumption
<1>2. ASSUME NEW account \in Accounts, NEW amount \in Values, deposit(account, amount)
      PROVE  AuctionTypeOK'
  BY <1>1, <1>2, DepositType
<1>3. ASSUME NEW account \in Accounts, NEW amount \in Values, NEW value \in Values,
             bid(account, amount, value)
      PROVE  AuctionTypeOK'
  BY <1>1, <1>3, BidType
<1>4. ASSUME NEW account \in Accounts, NEW amount \in Values, withdraw(account, amount)
      PROVE  AuctionTypeOK'
  BY <1>1, <1>4, WithdrawType
<1>5. CASE withdrawDonation
  BY <1>5, WithdrawDonationType
<1>6. CASE NewBlock
  BY <1>6, NewBlockType
<1>7. CASE UNCHANGED auctionVars
  BY <1>7, SameAuction DEF auctionVars, AuctionTypeOK
<1> QED
  BY <1>2, <1>3, <1>4, <1>5, <1>6, <1>7 DEF AuctionNext

\* The variables hold values of their types in every behaviour: no subtraction of
\* bids, refunds, donations or withdrawals goes below zero.
THEOREM TypesHold == AuctionSpec => []AuctionTypeOK
BY InitTypeOK, NextTypeOK, PTL DEF AuctionSpec

(***************************************************************************)
(* Who proposes.                                                           *)
(***************************************************************************)
\* A step changes the outcome of no slot but the one that is open for bids,
\* whose best bid it raises.
LEMMA StepSettles ==
  ASSUME AuctionTypeOK, [AuctionNext]_auctionVars
  PROVE  \A slot \in DOMAIN auction \cup DOMAIN auction' :
           \/ slot \in DOMAIN auction \cap DOMAIN auction' /\ auction'[slot] = auction[slot]
           \/ slot > currentSlot + 1 /\ slot \in DOMAIN auction'
                /\ auction'[slot].amount > CurrentBid(slot)
<1>1. ASSUME NEW account \in Accounts, NEW amount \in Values, NEW value \in Values,
             bid(account, amount, value),
             NEW slot \in DOMAIN auction \cup DOMAIN auction'
      PROVE  \/ slot \in DOMAIN auction \cap DOMAIN auction' /\ auction'[slot] = auction[slot]
             \/ /\ slot > currentSlot + 1 /\ slot \in DOMAIN auction'
                /\ auction'[slot].amount > CurrentBid(slot)
  <2>1. amount \in Nat /\ value \in Nat
    BY AuctionAssumption
  <2>2. CASE slot = auctionSlot
    <3>1. auctionSlot > currentSlot + 1
      BY OpenSlot DEF AuctionTypeOK
    <3>2. /\ DOMAIN auction' = DOMAIN auction \cup {auctionSlot}
          /\ auction'[auctionSlot] = [coordinator |-> account, amount |-> amount]
          /\ \A s \in DOMAIN auction \ {auctionSlot} : auction'[s] = auction[s]
          /\ amount > CurrentBid(auctionSlot) /\ CurrentBid(auctionSlot) \in Nat
      BY <1>1, <2>1, BidSetsSlot
    <3> QED
      BY <2>2, <3>1, <3>2
  <2>3. CASE slot # auctionSlot
    BY <1>1, <2>1, <2>3, BidSetsSlot
  <2> QED
    BY <2>2, <2>3
<1>2. ASSUME auction' = auction, NEW slot \in DOMAIN auction \cup DOMAIN auction'
      PROVE  slot \in DOMAIN auction \cap DOMAIN auction' /\ auction'[slot] = auction[slot]
  BY <1>2
<1>3. \/ auction' = auction
      \/ \E account \in Accounts, amount \in Values, value \in Values :
           bid(account, amount, value)
  BY DEF AuctionNext, auctionVars, deposit, withdraw, withdrawDonation, NewBlock
<1> QED
  BY <1>1, <1>2, <1>3

\* getProposer's answer for the current slot and for the next one cannot be
\* changed by any call, and the best bid of the open slot only rises.
THEOREM ProposersSettled == AuctionSpec => ProposersAreSettled
<1>1. AuctionTypeOK /\ [AuctionNext]_auctionVars =>
        [\A slot \in DOMAIN auction \cup DOMAIN auction' :
           \/ slot \in DOMAIN auction \cap DOMAIN auction' /\ auction'[slot] = auction[slot]
           \/ slot > currentSlot + 1 /\ slot \in DOMAIN auction'
                /\ auction'[slot].amount > CurrentBid(slot)]_auctionVars
  BY StepSettles
<1> QED
  BY <1>1, TypesHold, PTL DEF AuctionSpec, ProposersAreSettled

(***************************************************************************)
(* Where the ether is.                                                     *)
(***************************************************************************)
BidsSum(account) == SumFunctionOnSet(AmountOf, BidsOf(account))

\* The two invariants in terms of these.
AddsUp ==
  \A account \in Accounts :
    deposits[account] + BidsSum(account)
      = paid[account]
          + (IF account = donationAddress
             THEN SumFunctionOnSet(DonationOf, DOMAIN auction) ELSE 0)

Covered ==
  balance = SumFunctionOnSet(deposits, Accounts)
              + SumFunctionOnSet(BurntOf, DOMAIN auction)

\* Every slot's values can be summed up.
LEMMA SlotsSummable ==
  AuctionTypeOK => /\ Summable(AmountOf, DOMAIN auction)
            /\ Summable(DonationOf, DOMAIN auction)
            /\ Summable(BurntOf, DOMAIN auction)
            /\ \A account \in Accounts : Summable(AmountOf, BidsOf(account))
<1> SUFFICES ASSUME AuctionTypeOK
             PROVE  /\ Summable(AmountOf, DOMAIN auction)
                    /\ Summable(DonationOf, DOMAIN auction)
                    /\ Summable(BurntOf, DOMAIN auction)
                    /\ \A account \in Accounts : Summable(AmountOf, BidsOf(account))
  OBVIOUS
<1>1. IsFiniteSet(DOMAIN auction)
  <2>1. auctionSlot \in Nat
    BY OpenSlot DEF AuctionTypeOK
  <2>2. IsFiniteSet(2 .. auctionSlot)
    BY <2>1, FS_Interval
  <2> QED
    BY <2>2, FS_Subset DEF AuctionTypeOK
<1>2. \A slot \in DOMAIN auction :
        auction[slot].amount \in Nat /\ Donation(auction[slot].amount) \in Nat
  BY DonationType DEF AuctionTypeOK, Bid
<1>3. Summable(AmountOf, DOMAIN auction)
  BY <1>1, <1>2 DEF Summable, AmountOf
<1>4. Summable(DonationOf, DOMAIN auction)
  BY <1>1, <1>2 DEF Summable, DonationOf
<1>5. Summable(BurntOf, DOMAIN auction)
  BY <1>1, <1>2 DEF Summable, BurntOf
<1>6. \A account : BidsOf(account) \in SUBSET DOMAIN auction
  BY DEF BidsOf
<1> QED
  BY <1>3, <1>4, <1>5, <1>6, SummableSubset

LEMMA SumsInTermsOf ==
  AuctionTypeOK => (AccountsAddUp <=> AddsUp) /\ (DepositsAreCovered <=> Covered)
<1> SUFFICES ASSUME AuctionTypeOK
             PROVE  (AccountsAddUp <=> AddsUp) /\ (DepositsAreCovered <=> Covered)
  OBVIOUS
<1>1. DOMAIN deposits = Accounts
  BY DEF AuctionTypeOK
<1>2. /\ SumFunction(DonationOf) = SumFunctionOnSet(DonationOf, DOMAIN auction)
      /\ SumFunction(BurntOf) = SumFunctionOnSet(BurntOf, DOMAIN auction)
      /\ SumFunction(deposits) = SumFunctionOnSet(deposits, Accounts)
  BY <1>1 DEF SumFunction, DonationOf, BurntOf
<1>3. AccountsAddUp <=> AddsUp
  BY <1>2 DEF AccountsAddUp, AddsUp, BidsSum
<1>4. DepositsAreCovered <=> Covered
  BY <1>2 DEF DepositsAreCovered, Covered
<1> QED
  BY <1>3, <1>4

LEMMA InitSums == AuctionInit => AddsUp /\ Covered
<1> SUFFICES ASSUME AuctionInit PROVE AddsUp /\ Covered
  OBVIOUS
<1>1. /\ DOMAIN auction = {} /\ balance = 0
      /\ deposits = [a \in Accounts |-> 0] /\ paid = [a \in Accounts |-> 0]
  BY DEF AuctionInit
<1>2. \A account : BidsOf(account) = {}
  BY <1>1 DEF BidsOf
<1>3. \A account : BidsSum(account) = 0
  BY <1>2, SumOfNone DEF BidsSum
<1>4. /\ SumFunctionOnSet(DonationOf, DOMAIN auction) = 0
      /\ SumFunctionOnSet(BurntOf, DOMAIN auction) = 0
  BY <1>1, SumOfNone
<1>5. SumFunctionOnSet(deposits, Accounts) = 0
  BY <1>1, AuctionAssumption, SumOfZeros
<1> QED
  BY <1>1, <1>3, <1>4, <1>5 DEF AddsUp, Covered

\* While no bid is made, ether comes in and goes out through deposits only.
LEMMA SameBids ==
  ASSUME AuctionTypeOK, AuctionTypeOK', AddsUp, Covered, UNCHANGED auction,
         NEW account \in Accounts, NEW change \in Int,
         deposits' = [deposits EXCEPT ![account] = @ + change],
         paid' = [paid EXCEPT ![account] = @ + change],
         balance' = balance + change
  PROVE  AddsUp' /\ Covered'
<1>1. /\ AmountOf' = AmountOf /\ DonationOf' = DonationOf /\ BurntOf' = BurntOf
      /\ \A a \in Accounts : BidsOf(a)' = BidsOf(a)
  BY DEF AmountOf, DonationOf, BurntOf, BidsOf
<1>2. \A a \in Accounts : BidsSum(a)' = BidsSum(a) /\ BidsSum(a) \in Int
  BY <1>1, SlotsSummable, SumInt DEF BidsSum
<1>3. /\ SumFunctionOnSet(DonationOf, DOMAIN auction) \in Int
      /\ SumFunctionOnSet(BurntOf, DOMAIN auction) \in Int
  BY SlotsSummable, SumInt
<1>4. deposits \in [Accounts -> Nat] /\ paid \in [Accounts -> Int]
  BY DEF AuctionTypeOK
<1>5. AddsUp'
  <2>1. ASSUME NEW a \in Accounts
        PROVE  deposits'[a] + BidsSum(a)
                 = paid'[a] + (IF a = donationAddress
                               THEN SumFunctionOnSet(DonationOf, DOMAIN auction) ELSE 0)
    <3>1. deposits[a] + BidsSum(a)
            = paid[a] + (IF a = donationAddress
                         THEN SumFunctionOnSet(DonationOf, DOMAIN auction) ELSE 0)
      BY DEF AddsUp
    <3>2. \/ deposits'[a] = deposits[a] + change /\ paid'[a] = paid[a] + change
          \/ deposits'[a] = deposits[a] /\ paid'[a] = paid[a]
      BY <1>4
    <3> QED
      BY <1>2, <1>3, <1>4, <3>1, <3>2
  <2> QED
    BY <1>1, <1>2, <2>1 DEF AddsUp
<1>6. Covered'
  <2>1. Summable(deposits, Accounts) /\ Summable(deposits', Accounts)
    BY AuctionAssumption DEF Summable, AuctionTypeOK
  <2>2. \A a \in Accounts \ {account} : deposits'[a] = deposits[a]
    BY <1>4
  <2>3. SumFunctionOnSet(deposits', Accounts)
          = SumFunctionOnSet(deposits, Accounts) + deposits'[account] - deposits[account]
    <3> DEFINE old == deposits
               new == deposits'
    <3> HIDE DEF old, new
    <3>1. /\ Summable(old, Accounts) /\ Summable(new, Accounts)
          /\ \A a \in Accounts \ {account} : new[a] = old[a]
      BY <2>1, <2>2 DEF old, new
    <3>2. SumFunctionOnSet(new, Accounts)
            = SumFunctionOnSet(old, Accounts) + new[account] - old[account]
      BY <3>1, SumUpdate
    <3> QED
      BY <3>2 DEF old, new
  <2>4. deposits'[account] = deposits[account] + change /\ deposits[account] \in Int
    BY <1>4
  <2>5. SumFunctionOnSet(deposits, Accounts) \in Int
    BY <2>1, SumInt
  <2> QED
    BY <1>1, <1>3, <2>3, <2>4, <2>5 DEF Covered
<1> QED
  BY <1>5, <1>6

LEMMA DepositSums ==
  ASSUME AuctionTypeOK, AuctionTypeOK', AddsUp, Covered,
         NEW account \in Accounts, NEW value \in Nat, deposit(account, value)
  PROVE  AddsUp' /\ Covered'
<1>1. /\ UNCHANGED auction /\ value \in Int /\ balance' = balance + value
      /\ paid' = [paid EXCEPT ![account] = @ + value]
  BY DEF deposit, Receive
<1>2. deposits' = [deposits EXCEPT ![account] = @ + value]
  BY DEF AuctionTypeOK, deposit, updateBalance
<1> QED
  BY <1>1, <1>2, SameBids

LEMMA WithdrawSums ==
  ASSUME AuctionTypeOK, AuctionTypeOK', AddsUp, Covered,
         NEW account \in Accounts, NEW amount \in Nat, withdraw(account, amount)
  PROVE  AddsUp' /\ Covered'
<1> DEFINE change == 0 - amount
<1>1. UNCHANGED auction /\ change \in Int /\ balance' = balance + change
  BY DEF AuctionTypeOK, withdraw, Pay
<1>2. /\ paid[account] - amount = paid[account] + change
      /\ deposits[account] + 0 - amount = deposits[account] + change
  BY DEF AuctionTypeOK
<1>3. /\ paid' = [paid EXCEPT ![account] = @ + change]
      /\ deposits' = [deposits EXCEPT ![account] = @ + change]
  BY <1>2 DEF withdraw, Pay, updateBalance
<1> HIDE DEF change
<1> QED
  BY <1>1, <1>3, SameBids

LEMMA WithdrawDonationSums ==
  ASSUME AuctionTypeOK, AuctionTypeOK', AddsUp, Covered, withdrawDonation
  PROVE  AddsUp' /\ Covered'
<1>1. PICK change \in Int : change = 0 - deposits[donationAddress]
  BY AuctionAssumption DEF AuctionTypeOK
<1>2. donationAddress \in Accounts
  BY AuctionAssumption
<1>3. UNCHANGED auction /\ balance' = balance + change
  BY <1>1, <1>2 DEF AuctionTypeOK, withdrawDonation, Pay
<1>4. /\ paid[donationAddress] - deposits[donationAddress]
           = paid[donationAddress] + change
      /\ deposits[donationAddress] + change = 0
  BY <1>1, <1>2 DEF AuctionTypeOK
<1>5. /\ paid' = [paid EXCEPT ![donationAddress] = @ + change]
      /\ deposits' = [deposits EXCEPT ![donationAddress] = @ + change]
  BY <1>4 DEF withdrawDonation, Pay
<1> QED
  BY <1>2, <1>3, <1>5, SameBids

LEMMA UpdateSum ==
  ASSUME NEW balances \in [Accounts -> Int], NEW addr \in Accounts,
         NEW incr \in Int, NEW decr \in Int
  PROVE  /\ updateBalance(balances, addr, incr, decr) \in [Accounts -> Int]
         /\ SumFunctionOnSet(updateBalance(balances, addr, incr, decr), Accounts)
              = SumFunctionOnSet(balances, Accounts) + incr - decr
<1> DEFINE updated == updateBalance(balances, addr, incr, decr)
<1>1. /\ updated \in [Accounts -> Int]
      /\ updated[addr] = balances[addr] + incr - decr
      /\ \A a \in Accounts \ {addr} : updated[a] = balances[a]
  BY DEF updateBalance
<1> HIDE DEF updated
<1>2. Summable(balances, Accounts) /\ Summable(updated, Accounts)
  BY <1>1, AuctionAssumption DEF Summable
<1>3. SumFunctionOnSet(updated, Accounts)
        = SumFunctionOnSet(balances, Accounts) + updated[addr] - balances[addr]
  BY <1>1, <1>2, SumUpdate
<1>4. SumFunctionOnSet(balances, Accounts) \in Int /\ balances[addr] \in Int
  BY <1>2, SumInt
<1>5. SumFunctionOnSet(updated, Accounts)
        = SumFunctionOnSet(balances, Accounts) + incr - decr
  BY <1>1, <1>3, <1>4
<1> QED
  BY <1>1, <1>5 DEF updated

LEMMA DonationOfNone == Donation(0) = 0
<1>1. donationNumerator \in Nat /\ DONATION_DENOMINATOR \in Nat \ {0}
  BY AuctionAssumption
<1>2. 0 * donationNumerator = 0
  BY <1>1
<1> DEFINE q == 0 \div DONATION_DENOMINATOR
<1>3. q \in Nat /\ DONATION_DENOMINATOR * q <= 0
  BY <1>1, RoundedDown
<1> HIDE DEF q
<1>4. q = 0
  BY <1>1, <1>3, Z3
<1> QED
  BY <1>2, <1>4 DEF Donation, q

\* A bid replaces one winning bid in the sums.
LEMMA BidReplaces ==
  ASSUME AuctionTypeOK, NEW sender \in Accounts, NEW bidAmount \in Nat, NEW value \in Nat,
         bid(sender, bidAmount, value)
  PROVE  LET slot    == auctionSlot
             lastBid == CurrentBid(slot)
         IN  /\ \A a \in Accounts :
                  BidsSum(a)' = BidsSum(a) - (IF slot \in BidsOf(a) THEN lastBid ELSE 0)
                                  + (IF a = sender THEN bidAmount ELSE 0)
             /\ SumFunctionOnSet(DonationOf, DOMAIN auction)'
                  = SumFunctionOnSet(DonationOf, DOMAIN auction)
                      - Donation(lastBid) + Donation(bidAmount)
             /\ SumFunctionOnSet(BurntOf, DOMAIN auction)'
                  = SumFunctionOnSet(BurntOf, DOMAIN auction)
                      - (lastBid - Donation(lastBid)) + (bidAmount - Donation(bidAmount))
<1> DEFINE slot    == auctionSlot
           lastBid == CurrentBid(slot)
<1>1. /\ DOMAIN auction' = DOMAIN auction \cup {slot}
      /\ auction'[slot] = [coordinator |-> sender, amount |-> bidAmount]
      /\ \A s \in DOMAIN auction \ {slot} : auction'[s] = auction[s]
      /\ lastBid \in Nat
  BY BidSetsSlot
<1>2. PICK x : x = slot
  OBVIOUS
<1>3. PICK cur \in Nat : cur = lastBid
  BY <1>1
<1>4. Donation(cur) \in Nat /\ Donation(bidAmount) \in Nat /\ Donation(0) = 0
  BY DonationType, DonationOfNone
<1>5. /\ x \in DOMAIN auction => auction[x].amount = cur
      /\ x \notin DOMAIN auction => cur = 0
  BY <1>2, <1>3 DEF CurrentBid
<1>6. /\ DOMAIN auction' = DOMAIN auction \cup {x}
      /\ auction'[x].amount = bidAmount /\ auction'[x].coordinator = sender
      /\ \A s \in DOMAIN auction \ {x} : auction'[s] = auction[s]
  BY <1>1, <1>2
<1> HIDE DEF slot, lastBid
<1>7. ASSUME NEW a \in Accounts
      PROVE  BidsSum(a)' = BidsSum(a) - (IF x \in BidsOf(a) THEN cur ELSE 0)
                             + (IF a = sender THEN bidAmount ELSE 0)
  <2>1. PICK S, R, f, g : S = BidsOf(a) /\ R = BidsOf(a)' /\ f = AmountOf /\ g = AmountOf'
    OBVIOUS
  <2>2. R \ {x} = S \ {x} /\ (x \in R <=> a = sender)
    BY <1>6, <2>1 DEF BidsOf
  <2>3. /\ x \in R => g[x] = bidAmount
        /\ x \in S => f[x] = cur
        /\ \A y \in S \ {x} : g[y] = f[y]
    BY <1>5, <1>6, <2>1 DEF BidsOf, AmountOf
  <2>4. Summable(f, S)
    BY <2>1, SlotsSummable
  <2>5. SumFunctionOnSet(g, R)
          = SumFunctionOnSet(f, S)
              - (IF x \in S THEN f[x] ELSE 0) + (IF x \in R THEN g[x] ELSE 0)
    BY <2>2, <2>3, <2>4, SumReplace
  <2> QED
    BY <2>1, <2>2, <2>3, <2>5 DEF BidsSum
<1>8. PICK S, R : S = DOMAIN auction /\ R = DOMAIN auction'
  OBVIOUS
<1>9. R \ {x} = S \ {x} /\ x \in R
  BY <1>6, <1>8
<1>10. SumFunctionOnSet(DonationOf, DOMAIN auction)'
         = SumFunctionOnSet(DonationOf, DOMAIN auction) - Donation(cur) + Donation(bidAmount)
  <2>1. PICK f, g : f = DonationOf /\ g = DonationOf'
    OBVIOUS
  <2>2. /\ g[x] = Donation(bidAmount)
        /\ (IF x \in S THEN f[x] ELSE 0) = Donation(cur)
        /\ \A y \in S \ {x} : g[y] = f[y]
    BY <1>4, <1>5, <1>6, <1>8, <2>1 DEF DonationOf, Donation
  <2>3. Summable(f, S)
    BY <1>8, <2>1, SlotsSummable
  <2>4. SumFunctionOnSet(g, R)
          = SumFunctionOnSet(f, S)
              - (IF x \in S THEN f[x] ELSE 0) + (IF x \in R THEN g[x] ELSE 0)
    <3>1. x \in R => g[x] \in Int
      BY <1>4, <2>2
    <3>2. \A y \in S \ {x} : g[y] = f[y]
      BY <2>2
    <3> QED
      BY <1>9, <2>3, <3>1, <3>2, SumReplace
  <2> QED
    BY <1>8, <1>9, <2>1, <2>2, <2>4
<1>11. SumFunctionOnSet(BurntOf, DOMAIN auction)'
         = SumFunctionOnSet(BurntOf, DOMAIN auction)
             - (cur - Donation(cur)) + (bidAmount - Donation(bidAmount))
  <2>1. PICK f, g : f = BurntOf /\ g = BurntOf'
    OBVIOUS
  <2>2. /\ g[x] = bidAmount - Donation(bidAmount)
        /\ (IF x \in S THEN f[x] ELSE 0) = cur - Donation(cur)
        /\ \A y \in S \ {x} : g[y] = f[y]
    <3>1. /\ \A y \in S : f[y] = auction[y].amount - Donation(auction[y].amount)
          /\ \A y \in R : g[y] = auction'[y].amount - Donation(auction'[y].amount)
      BY <1>8, <2>1 DEF BurntOf, Donation
    <3>2. x \in S => f[x] = cur - Donation(cur)
      BY <1>5, <1>8, <3>1
    <3>3. x \notin S => cur - Donation(cur) = 0
      BY <1>4, <1>5, <1>8
    <3> QED
      BY <1>6, <1>8, <3>1, <3>2, <3>3
  <2>3. Summable(f, S)
    BY <1>8, <2>1, SlotsSummable
  <2>4. SumFunctionOnSet(g, R)
          = SumFunctionOnSet(f, S)
              - (IF x \in S THEN f[x] ELSE 0) + (IF x \in R THEN g[x] ELSE 0)
    BY <1>4, <1>9, <2>2, <2>3, SumReplace
  <2> QED
    BY <1>8, <1>9, <2>1, <2>2, <2>4
<1> QED
  BY <1>2, <1>3, <1>7, <1>10, <1>11 DEF slot, lastBid

\* What a bid does to the deposits, of one account and in all.
LEMMA BidDeposits ==
  ASSUME AuctionTypeOK, NEW sender \in Accounts, NEW bidAmount \in Nat, NEW value \in Nat,
         bid(sender, bidAmount, value)
  PROVE  LET slot    == auctionSlot
             lastBid == CurrentBid(slot)
             back    == Donation(bidAmount) - Donation(lastBid)
         IN  /\ \A a \in Accounts :
                  deposits'[a] = deposits[a]
                    + (IF slot \in BidsOf(a) THEN lastBid ELSE 0)
                    + (IF a = donationAddress THEN back ELSE 0)
                    + (IF a = sender THEN value - bidAmount ELSE 0)
             /\ SumFunctionOnSet(deposits', Accounts)
                  = SumFunctionOnSet(deposits, Accounts) + lastBid + back + value - bidAmount
<1> DEFINE slot     == auctionSlot
           lastBid  == CurrentBid(slot)
           refunded == Refunded(slot)
           donated  == updateBalance(refunded, donationAddress,
                                     Donation(bidAmount), Donation(lastBid))
<1>1. /\ lastBid \in Nat /\ Donation(bidAmount) \in Nat /\ Donation(lastBid) \in Nat
      /\ deposits \in [Accounts -> Int] /\ donationAddress \in Accounts
  <2>1. lastBid \in Nat
    BY BidSetsSlot
  <2> HIDE DEF lastBid
  <2>2. deposits \in [Accounts -> Int]
    BY DEF AuctionTypeOK
  <2> QED
    BY <2>1, <2>2, DonationType, AuctionAssumption
<1>2. /\ refunded \in [Accounts -> Int]
      /\ SumFunctionOnSet(refunded, Accounts) = SumFunctionOnSet(deposits, Accounts) + lastBid
      /\ \A a \in Accounts :
           refunded[a] = deposits[a] + (IF slot \in BidsOf(a) THEN lastBid ELSE 0)
  <2>1. SumFunctionOnSet(deposits, Accounts) \in Int
    BY <1>1, AuctionAssumption, SumInt DEF Summable
  <2>2. CASE slot \in DOMAIN auction
    <3>1. PICK winner \in Accounts : winner = auction[slot].coordinator
      BY <2>2 DEF AuctionTypeOK, Bid
    <3>2. refunded = updateBalance(deposits, winner, lastBid, 0)
      BY <2>2, <3>1 DEF Refunded, CurrentBid
    <3>3. /\ refunded \in [Accounts -> Int]
          /\ SumFunctionOnSet(refunded, Accounts)
               = SumFunctionOnSet(deposits, Accounts) + lastBid - 0
      <4> HIDE DEF refunded, lastBid
      <4> QED
        BY <1>1, <3>2, UpdateSum
    <3>4. \A a \in Accounts : slot \in BidsOf(a) <=> a = winner
      BY <2>2, <3>1 DEF BidsOf
    <3>5. \A a \in Accounts :
            refunded[a] = deposits[a] + (IF slot \in BidsOf(a) THEN lastBid ELSE 0)
      <4> HIDE DEF refunded, lastBid, slot
      <4> QED
        BY <1>1, <3>2, <3>4 DEF updateBalance
    <3> HIDE DEF refunded, lastBid, slot
    <3> QED
      BY <1>1, <2>1, <3>3, <3>5
  <2>3. CASE slot \notin DOMAIN auction
    <3>1. refunded = deposits /\ lastBid = 0 /\ \A a \in Accounts : slot \notin BidsOf(a)
      BY <2>3 DEF Refunded, CurrentBid, BidsOf
    <3> HIDE DEF refunded, lastBid, slot
    <3> QED
      BY <1>1, <2>1, <3>1
  <2> QED
    BY <2>2, <2>3
<1>3. deposits' = updateBalance(donated, sender, value, bidAmount)
  BY DEF bid
<1> HIDE DEF slot, lastBid, refunded
<1>4. /\ donated \in [Accounts -> Int]
      /\ SumFunctionOnSet(donated, Accounts)
           = SumFunctionOnSet(refunded, Accounts) + Donation(bidAmount) - Donation(lastBid)
  BY <1>1, <1>2, UpdateSum
<1>5. \A a \in Accounts :
        donated[a] = refunded[a] + (IF a = donationAddress
                                    THEN Donation(bidAmount) - Donation(lastBid) ELSE 0)
  BY <1>1, <1>2 DEF updateBalance
<1> HIDE DEF donated
<1>6. SumFunctionOnSet(deposits', Accounts)
        = SumFunctionOnSet(donated, Accounts) + value - bidAmount
  BY <1>3, <1>4, UpdateSum
<1>7. \A a \in Accounts :
        deposits'[a] = donated[a] + (IF a = sender THEN value - bidAmount ELSE 0)
  BY <1>3, <1>4 DEF updateBalance
<1>8. SumFunctionOnSet(deposits, Accounts) \in Int
  BY <1>1, AuctionAssumption, SumInt DEF Summable
<1>9. SumFunctionOnSet(deposits', Accounts)
        = SumFunctionOnSet(deposits, Accounts) + lastBid
            + (Donation(bidAmount) - Donation(lastBid)) + value - bidAmount
  BY <1>1, <1>2, <1>4, <1>6, <1>8
<1>10. ASSUME NEW a \in Accounts
       PROVE  deposits'[a] = deposits[a]
                + (IF slot \in BidsOf(a) THEN lastBid ELSE 0)
                + (IF a = donationAddress
                   THEN Donation(bidAmount) - Donation(lastBid) ELSE 0)
                + (IF a = sender THEN value - bidAmount ELSE 0)
  BY <1>1, <1>2, <1>5, <1>7
<1> QED
  BY <1>9, <1>10 DEF slot, lastBid

\* A bid moves what it costs, and no more.
LEMMA BidSums ==
  ASSUME AuctionTypeOK, AuctionTypeOK', AddsUp, Covered,
         NEW sender \in Accounts, NEW bidAmount \in Nat, NEW value \in Nat,
         bid(sender, bidAmount, value)
  PROVE  AddsUp' /\ Covered'
<1>1. PICK slot, lastBid : slot = auctionSlot /\ lastBid = CurrentBid(auctionSlot)
  OBVIOUS
<1>2. /\ lastBid \in Nat /\ Donation(bidAmount) \in Nat /\ Donation(lastBid) \in Nat
      /\ deposits \in [Accounts -> Nat] /\ paid \in [Accounts -> Int]
  BY <1>1, BidSetsSlot, DonationType DEF AuctionTypeOK
<1>3. /\ SumFunctionOnSet(DonationOf, DOMAIN auction) \in Int
      /\ SumFunctionOnSet(BurntOf, DOMAIN auction) \in Int
      /\ SumFunctionOnSet(deposits, Accounts) \in Int
      /\ \A a \in Accounts : BidsSum(a) \in Int
  BY <1>2, AuctionAssumption, SlotsSummable, SumInt DEF Summable, BidsSum
<1>4. balance' = balance + value /\ paid' = [paid EXCEPT ![sender] = @ + value]
  BY DEF bid, Receive
<1>5. ASSUME NEW a \in Accounts
      PROVE  deposits'[a] + BidsSum(a)'
               = paid'[a] + (IF a = donationAddress
                             THEN SumFunctionOnSet(DonationOf, DOMAIN auction)' ELSE 0)
  <2>1. deposits'[a] = deposits[a]
          + (IF slot \in BidsOf(a) THEN lastBid ELSE 0)
          + (IF a = donationAddress THEN Donation(bidAmount) - Donation(lastBid) ELSE 0)
          + (IF a = sender THEN value - bidAmount ELSE 0)
    BY <1>1, BidDeposits
  <2>2. BidsSum(a)' = BidsSum(a) - (IF slot \in BidsOf(a) THEN lastBid ELSE 0)
                        + (IF a = sender THEN bidAmount ELSE 0)
    BY <1>1, BidReplaces
  <2>3. SumFunctionOnSet(DonationOf, DOMAIN auction)'
          = SumFunctionOnSet(DonationOf, DOMAIN auction)
              - Donation(lastBid) + Donation(bidAmount)
    BY <1>1, BidReplaces
  <2>4. paid'[a] = paid[a] + (IF a = sender THEN value ELSE 0)
    BY <1>2, <1>4
  <2>5. deposits[a] + BidsSum(a)
          = paid[a] + (IF a = donationAddress
                       THEN SumFunctionOnSet(DonationOf, DOMAIN auction) ELSE 0)
    BY DEF AddsUp
  <2> QED
    BY <1>2, <1>3, <2>1, <2>2, <2>3, <2>4, <2>5
<1>6. AddsUp'
  BY <1>5 DEF AddsUp
<1>7. Covered'
  <2>1. SumFunctionOnSet(deposits', Accounts)
          = SumFunctionOnSet(deposits, Accounts) + lastBid
              + (Donation(bidAmount) - Donation(lastBid)) + value - bidAmount
    BY <1>1, BidDeposits
  <2>2. SumFunctionOnSet(BurntOf, DOMAIN auction)'
          = SumFunctionOnSet(BurntOf, DOMAIN auction)
              - (lastBid - Donation(lastBid)) + (bidAmount - Donation(bidAmount))
    BY <1>1, BidReplaces
  <2> QED
    BY <1>2, <1>3, <1>4, <2>1, <2>2 DEF Covered
<1> QED
  BY <1>6, <1>7

\* Every step keeps the sums.
LEMMA NextSums ==
  AuctionTypeOK /\ AuctionTypeOK' /\ AddsUp /\ Covered /\ [AuctionNext]_auctionVars => AddsUp' /\ Covered'
<1> SUFFICES ASSUME AuctionTypeOK, AuctionTypeOK', AddsUp, Covered, [AuctionNext]_auctionVars
             PROVE  AddsUp' /\ Covered'
  OBVIOUS
<1>1. Values \subseteq Nat
  BY AuctionAssumption
<1>2. ASSUME NEW account \in Accounts, NEW amount \in Values, deposit(account, amount)
      PROVE  AddsUp' /\ Covered'
  BY <1>1, <1>2, DepositSums
<1>3. ASSUME NEW account \in Accounts, NEW amount \in Values, NEW value \in Values,
             bid(account, amount, value)
      PROVE  AddsUp' /\ Covered'
  BY <1>1, <1>3, BidSums
<1>4. ASSUME NEW account \in Accounts, NEW amount \in Values, withdraw(account, amount)
      PROVE  AddsUp' /\ Covered'
  BY <1>1, <1>4, WithdrawSums
<1>5. CASE withdrawDonation
  BY <1>5, WithdrawDonationSums
<1>6. CASE UNCHANGED <<auction, deposits, balance, paid>>
  BY <1>6 DEF AddsUp, Covered, BidsSum, BidsOf, AmountOf, DonationOf, BurntOf
<1>7. CASE NewBlock
  BY <1>6, <1>7 DEF NewBlock
<1>8. CASE UNCHANGED auctionVars
  BY <1>6, <1>8 DEF auctionVars
<1> QED
  BY <1>2, <1>3, <1>4, <1>5, <1>7, <1>8 DEF AuctionNext

LEMMA SumsHold == AuctionSpec => [](AccountsAddUp /\ DepositsAreCovered)
<1>1. AuctionTypeOK /\ AddsUp /\ Covered => AccountsAddUp /\ DepositsAreCovered
  BY SumsInTermsOf
<1> QED
  BY <1>1, InitSums, NextSums, TypesHold, PTL DEF AuctionSpec

\* The auction costs every account its winning bids and nothing else.
THEOREM AccountsBalance == AuctionSpec => []AccountsAddUp
BY SumsHold, PTL

\* The ether the contract holds is what can be withdrawn and what was burnt.
THEOREM EtherCovered == AuctionSpec => []DepositsAreCovered
BY SumsHold, PTL
=============================================================================
