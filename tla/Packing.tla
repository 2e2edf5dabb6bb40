------------------------------- MODULE Packing -------------------------------
(***************************************************************************)
(* ts/client/features/transfer.ts with services/packer.ts: how a proposer  *)
(* makes transfers into commitments and batches, submits them and records  *)
(* what became of each transfer.  The transfers come from the transfer     *)
(* pool, or from the simulator's, which makes them up as they are asked    *)
(* for.  The batches that the L1 accepted are replayed by module           *)
(* Transition.                                                             *)
(*                                                                         *)
(* States are in memory: between two reads of the packer from the disk or  *)
(* the L1, its own steps and those of a push are each done to the end.  A  *)
(* nonce is compared with that of the state as objects, so that only one   *)
(* that was taken from the state itself (own) is ever equal to it.         *)
(***************************************************************************)
EXTENDS Codec, TransactionStorage, TransferPool, BatchStorage

CONSTANTS
  GenesisStates,
  Keys,                   \* the public keys the node knows
  Offered,                \* transfers that callers push
  MAX_TXS_PER_COMMIT,
  MAX_COMMIT_PER_BATCH,   \* 32
  Users,                  \* the simulator's group: its states, by token
  maxTransfers,           \* the simulator's
  MaxPushes,              \* bound: transfers pushed
  MaxTogether             \* bound: pushes that overlap

L2State == [pubkeyID : Nat, tokenID : Nat, balance : Nat, nonce : Nat]
TransferOffchainTx ==
  [from : Nat, to : Nat, amount : Nat, fee : Nat, nonce : Nat, own : BOOLEAN,
   signature : {"valid", "invalid", "none"}]

\* A user has a state of each token.
ASSUME PackingAssumption ==
  /\ {MAX_TXS_PER_COMMIT, MAX_COMMIT_PER_BATCH, maxTransfers, MaxPushes, MaxTogether}
       \subseteq Nat \ {0}
  /\ DOMAIN GenesisStates \subseteq Nat /\ GenesisStates \in [DOMAIN GenesisStates -> L2State]
  /\ Offered \subseteq TransferOffchainTx
  /\ Users \in Seq([DOMAIN FeeReceivers -> DOMAIN GenesisStates]) /\ Users # <<>>

VARIABLES
  states,      \* the node's L2 states
  statuses,    \* its transaction storage
  stored,      \* its batches
  pool,        \* the transfer pool
  simulator,   \* the simulator's pool, or the transfer pool in its place
  packer,      \* what packBatch and pack have so far
  rollup,      \* the batches of the L1, with the genesis batch
  l1Txn,       \* the packer's L1 transaction, from when it is sent
  pushes,      \* transfers pushed so far
  dropped      \* history: transfers that pack took and left

vars == <<states, statuses, stored, pool, simulator, packer, rollup, l1Txn, pushes, dropped>>

L1 == INSTANCE Transition WITH
  StateIDs <- DOMAIN GenesisStates, PubkeyIDs <- Keys, TokenIDs <- DOMAIN FeeReceivers,
  Transfers <- {}, Create2Transfers <- {}, MassMigrations <- {}, DepositStates <- {},
  paramMaxTxsPerCommit <- MAX_TXS_PER_COMMIT, MaxNonce <- 0, MaxLeaves <- 0,
  deposited <- <<>>, migrated <- <<>>

messageOfTx(tx) == message("Transfer", tx)

Genesis == [stateRoot |-> GenesisStates]

(***************************************************************************)
(* Callers push transfers, some at once: each then makes its own pending.  *)
(***************************************************************************)
NonceExists(tx) == tx.own => tx.from \in DOMAIN states /\ tx.nonce <= states[tx.from].nonce

\* A push that throws makes nothing pending.
pendingOf(kept, tx) ==
  IF CanPush(pool, states, tx) THEN pending(kept, messageOfTx(tx)).statuses ELSE kept
Pushed(txs) ==
  /\ pool' = FoldLeft(LAMBDA p, tx : push(p, states, tx), pool, txs)
  /\ statuses' = FoldLeft(pendingOf, statuses, txs)

Push(txs) ==
  /\ ~simulator.used
  /\ pushes + Len(txs) <= MaxPushes
  /\ \A tx \in ToSet(txs) : NonceExists(tx)
  /\ HasRoom(pool)
  /\ Pushed(txs)
  /\ pushes' = pushes + Len(txs)
  /\ UNCHANGED <<states, stored, simulator, packer, rollup, l1Txn, dropped>>

(***************************************************************************)
(* The simulator: each user of the group in turn sends to one at random.   *)
(***************************************************************************)
isComplete == simulator.numTransfers >= maxTransfers

isEmpty == IF simulator.used THEN isComplete ELSE poolSize(pool) = 0

\* round throws for a balance that is too large.
canGenTx(tokenID, sender) == CanRound(states[Users[sender][tokenID]].balance \div 10)
genTx(tokenID, sender, receiver) ==
  LET from   == Users[sender][tokenID]
      amount == round(states[from].balance \div 10)
  IN  [from |-> from, to |-> Users[receiver][tokenID], amount |-> amount,
       fee |-> round(amount \div 10), nonce |-> states[from].nonce, own |-> TRUE,
       signature |-> "valid"]

\* When it is asked for the next, the generator makes the last one pending.
Yielded == simulator.last
AfterYield ==
  IF Yielded = <<>> THEN Kept(statuses, "Ok") ELSE pending(statuses, messageOfTx(Yielded[1]))

(***************************************************************************)
(* pack.                                                                   *)
(***************************************************************************)
\* Mutant: any nonce.
AnyNonce(tx, tokenID) ==
  /\ {tx.from, tx.to} \subseteq DOMAIN states
  /\ L1!clientSender(states, tx.from, tokenID, tx.amount, tx.fee).result = "Ok"
  /\ states[tx.to].tokenID = tokenID
  /\ states[tx.from].pubkeyID \in Keys
  /\ tx.signature = "valid"
validateTransferStateTransition(tx, tokenID) ==
  /\ {tx.from, tx.to} \subseteq DOMAIN states
  /\ L1!clientSender(states, tx.from, tokenID, tx.amount, tx.fee).result = "Ok"
  /\ states[tx.to].tokenID = tokenID
  /\ states[tx.from].pubkeyID \in Keys
  /\ tx.own /\ tx.nonce = states[tx.from].nonce
  /\ tx.signature = "valid"

processTransfer(tx, tokenID) ==
  L1!Then(L1!clientSender(states, tx.from, tokenID, tx.amount, tx.fee),
          LAMBDA s : L1!clientReceiver(s, tx.to, tokenID, tx.amount)).states

\* A bad transfer is logged by its hash, which it must have.
hasHash(tx) == tx.signature # "none" /\ CanEncode("Transfer", tx)

Full == Len(packer.accepted) >= MAX_TXS_PER_COMMIT

\* What becomes of a transfer that was taken.
Dies == packer' = [packer EXCEPT !.pc = "dead"]

Take(tx) ==
  CASE Full ->
         /\ dropped' = dropped \cup {messageOfTx(tx)}
         /\ packer' = [packer EXCEPT !.pc = "committing"]
         /\ UNCHANGED states
    [] ~Full /\ validateTransferStateTransition(tx, packer.tokenID) ->
         /\ states' = processTransfer(tx, packer.tokenID)
         /\ packer' = [packer EXCEPT !.accepted = Append(@, tx)]
         /\ UNCHANGED dropped
    [] ~Full /\ ~validateTransferStateTransition(tx, packer.tokenID) ->
         /\ IF hasHash(tx) THEN packer' = [packer EXCEPT !.failed = Append(@, tx)] ELSE Dies
         /\ UNCHANGED <<states, dropped>>

PullFromPool ==
  /\ packer.pc = "packing"
  /\ ~simulator.used
  /\ queueSize(pool, packer.tokenID) > 0
  /\ LET popped == pop(pool, packer.tokenID)
     IN  pool' = popped.pool /\ Take(popped.tx)
  /\ UNCHANGED <<statuses, stored, simulator, rollup, l1Txn, pushes>>

Exhausted ==
  /\ packer.pc = "packing"
  /\ ~simulator.used
  /\ queueSize(pool, packer.tokenID) = 0
  /\ packer' = [packer EXCEPT !.pc = "committing"]
  /\ UNCHANGED <<states, statuses, stored, pool, simulator, rollup, l1Txn, pushes, dropped>>

\* The transfer that pack leaves at the end is neither counted nor pending.
PullFromSimulator(receiver) ==
  /\ packer.pc = "packing"
  /\ simulator.used
  /\ LET tx == genTx(packer.tokenID, simulator.user, receiver)
     IN  /\ statuses' = AfterYield.statuses
         /\ IF AfterYield.result = "Ok" /\ canGenTx(packer.tokenID, simulator.user)
            THEN /\ Take(tx)
                 /\ simulator' = [simulator EXCEPT
                      !.numTransfers = @ + Len(Yielded),
                      !.last = IF Full THEN <<>> ELSE <<tx>>,
                      !.user = IF Full THEN 1 ELSE (@ % Len(Users)) + 1]
            ELSE Dies /\ UNCHANGED <<states, dropped, simulator>>
  /\ UNCHANGED <<stored, pool, rollup, l1Txn, pushes>>

\* No accepted transfer is an exception; so are fees that the fee receiver
\* cannot have and, when the engine is committed, a number without encoding.
fromTxs(accepted, after, feeReceiver) ==
  [stateRoot |-> after, signature |-> [i \in DOMAIN accepted |-> messageOfTx(accepted[i])],
   feeReceiver |-> feeReceiver, txs |-> serialize("Transfer", accepted)]

Commit ==
  LET fees    == FoldLeft(+, 0, [i \in DOMAIN packer.accepted |-> packer.accepted[i].fee])
      outcome == L1!clientReceiver(states, FeeReceivers[packer.tokenID], packer.tokenID, fees)
  IN  /\ packer.pc = "committing"
      /\ IF packer.accepted = <<>> \/ outcome.result # "Ok"
         THEN Dies /\ UNCHANGED states
         ELSE /\ states' = outcome.states
              /\ IF \E tx \in ToSet(packer.accepted) : ~CanEncode("Transfer", tx)
                 THEN Dies
                 ELSE packer' = [packer EXCEPT
                        !.commits = Append(@, fromTxs(packer.accepted, outcome.states,
                                                      FeeReceivers[packer.tokenID])),
                        !.acceptedTxs = @ \o packer.accepted,
                        !.failedTxs = @ \o packer.failed,
                        !.accepted = <<>>, !.failed = <<>>,
                        !.pc = IF isEmpty \/ Len(packer.commits) + 1 = MAX_COMMIT_PER_BATCH
                               THEN "submitting" ELSE "piping"]
      /\ UNCHANGED <<statuses, stored, pool, simulator, rollup, l1Txn, pushes, dropped>>

(***************************************************************************)
(* packBatch and packAndSubmit.                                            *)
(***************************************************************************)
Idle == [pc |-> "idle", tokenID |-> NoToken, accepted |-> <<>>, failed |-> <<>>,
         commits |-> <<>>, acceptedTxs |-> <<>>, failedTxs |-> <<>>]

\* maybePackTransfers
StartBatch ==
  /\ packer.pc = "idle"
  /\ ~isEmpty
  /\ packer' = [packer EXCEPT !.pc = "piping"]
  /\ UNCHANGED <<states, statuses, stored, pool, simulator, rollup, l1Txn, pushes, dropped>>

getNextPipe ==
  /\ packer.pc = "piping"
  /\ \E tokenID \in IF simulator.used THEN DOMAIN FeeReceivers ELSE {getHighestValueToken(pool)} :
       packer' = [packer EXCEPT !.pc = "packing", !.tokenID = tokenID]
  /\ UNCHANGED <<states, statuses, stored, pool, simulator, rollup, l1Txn, pushes, dropped>>

\* The transaction is sent, unless its gas cannot be estimated, as the L1 wants
\* the next batch ID, and from the proposer; or it is sent and the answer lost.
NoTxn == [status |-> "none", batchID |-> NoBatch, commits |-> <<>>]

submitTransfer ==
  /\ packer.pc = "submitting"
  /\ \/ /\ nextBatchID(stored) = nextBatchID(rollup)
        /\ l1Txn' = [status |-> "pending", batchID |-> nextBatchID(stored), commits |-> packer.commits]
        /\ packer' = [packer EXCEPT !.pc = "recording"] \/ Dies
     \/ Dies /\ UNCHANGED l1Txn
  /\ UNCHANGED <<states, statuses, stored, pool, simulator, rollup, pushes, dropped>>

\* The first exception of the storages ends it.
AfterOk(outcome, next) == IF outcome.result = "Ok" THEN next ELSE outcome
AllSubmitted(batchID) ==
  FoldLeft(LAMBDA o, tx : AfterOk(o, submitted(o.statuses, messageOfTx(tx), batchID)),
           Kept(statuses, "Ok"), packer.acceptedTxs)
\* Mutant: what failed is forgotten.
ForgetFailed(batchID) == AllSubmitted(batchID)
Recorded(batchID) ==
  FoldLeft(LAMBDA o, tx : AfterOk(o, failed(o.statuses, messageOfTx(tx))),
           AllSubmitted(batchID), packer.failedTxs)

Record ==
  /\ packer.pc = "recording"
  /\ IF CanAdd(stored, packer.commits)
     THEN LET outcome == Recorded(nextBatchID(stored))
          IN  /\ stored' = add(stored, packer.commits)
              /\ statuses' = outcome.statuses
              /\ IF outcome.result = "Ok" THEN packer' = [Idle EXCEPT !.pc = "waiting"] ELSE Dies
     ELSE Dies /\ UNCHANGED <<stored, statuses>>
  /\ UNCHANGED <<states, pool, simulator, rollup, l1Txn, pushes, dropped>>

\* wait throws when the transaction was reverted.
wait ==
  /\ packer.pc = "waiting"
  /\ \/ l1Txn.status = "mined" /\ packer' = Idle /\ l1Txn' = NoTxn
     \/ l1Txn.status = "reverted" /\ Dies /\ UNCHANGED l1Txn
  /\ UNCHANGED <<states, statuses, stored, pool, simulator, rollup, pushes, dropped>>

(***************************************************************************)
(* The L1, which takes up what was sent some time, also while the packer   *)
(* records it or is dead.  It may be reverted: the slot can be another's   *)
(* by then, or the gas run out.                                            *)
(***************************************************************************)
Mined ==
  /\ l1Txn.status = "pending"
  /\ l1Txn.batchID = nextBatchID(rollup)
  /\ rollup' = Append(rollup, l1Txn.commits)
  /\ l1Txn' = [l1Txn EXCEPT !.status = "mined"]
  /\ UNCHANGED <<states, statuses, stored, pool, simulator, packer, pushes, dropped>>

Reverted ==
  /\ l1Txn.status = "pending"
  /\ l1Txn' = [l1Txn EXCEPT !.status = "reverted"]
  /\ UNCHANGED <<states, statuses, stored, pool, simulator, packer, rollup, pushes, dropped>>

(***************************************************************************)
(* The specification.                                                      *)
(***************************************************************************)
Init ==
  /\ states = GenesisStates
  /\ statuses = <<>>
  /\ stored = <<<<Genesis>>>> /\ rollup = <<<<Genesis>>>>
  /\ l1Txn = NoTxn
  /\ pool = EmptyPool
  /\ \E used \in BOOLEAN :
       simulator = [used |-> used, numTransfers |-> 0, user |-> 1, last |-> <<>>]
  /\ packer = Idle
  /\ pushes = 0
  /\ dropped = {}

Packs ==
  \/ StartBatch
  \/ getNextPipe
  \/ PullFromPool
  \/ \E receiver \in DOMAIN Users : PullFromSimulator(receiver)
  \/ Exhausted
  \/ Commit
  \/ submitTransfer
  \/ Record
  \/ wait

L1Answers == Mined \/ Reverted

Next ==
  \/ \E txs \in UNION {[1 .. n -> Offered] : n \in 1 .. MaxTogether} : Push(txs)
  \/ Packs
  \/ L1Answers

\* The packer's promises are resolved some time: the run loop of a service, the
\* disk, and the L1, which answers once for each transaction.
Spec == Init /\ [][Next]_vars /\ WF_vars(Packs \/ L1Answers)

(***************************************************************************)
(* Properties.                                                             *)
(***************************************************************************)
\* The batches of the L1, with the one that was sent when it is not there.
IsUnmined == l1Txn.status \in {"pending", "reverted"}
Sent      == IF IsUnmined THEN Append(rollup, l1Txn.commits) ELSE rollup
Batches   == 2 .. Len(Sent)

StatesBefore(c) ==
  IF c > 1 THEN Last(Sent)[c - 1].stateRoot ELSE Last(Sent[Len(Sent) - 1]).stateRoot

\* What the packer sends is what a dispute of its own kind, against the
\* commitment before, asks for: the contract's replay of each commitment ends
\* well, in the states that the commitment claims, and with the nonces that were
\* signed for.  (That the L1 looks at neither the kind nor the place of what is
\* disputed is the matter of module Rollup.)
BatchesReplay ==
  l1Txn.status = "pending" =>
    \A c \in DOMAIN Last(Sent) :
      LET commit  == Last(Sent)[c]
          txs     == [i \in 1 .. size("Transfer", commit.txs) |->
                        decodeTx("Transfer", commit.txs, i - 1)]
          outcome == L1!processCommit(StatesBefore(c),
                       [kind |-> "Transfer", txs |-> txs, feeReceiver |-> commit.feeReceiver])
      IN  /\ outcome.result = "Ok"
          /\ outcome.states = commit.stateRoot
          /\ \A i \in DOMAIN txs :
               commit.signature[i] = messageOf("Transfer", txs[i],
                 L1!SignedNonce(outcome.states, txs, i), "", 0)

Messages(batch) == UNION {ToSet(batch[c].signature) : c \in DOMAIN batch}
FailedInBatch(m) == statuses[m].batchID # NoBatch

\* Another node knows the transfers of the batches before the last; it syncs
\* those of the last, in the order of handleNewBatch.
AfterSync ==
  LET known == [m \in UNION {Messages(Sent[b]) : b \in Batches \ {Len(Sent)}} |->
                  [status |-> "Submitted", batchID |-> NoBatch]]
      all   == FlattenSeq([c \in DOMAIN Last(Sent) |-> Last(Sent)[c].signature])
  IN  FoldLeft(LAMBDA o, m : AfterOk(o, sync(o.statuses, m, nextBatchID(Sent) - 1, FALSE)),
               Kept(known, "Ok"), all)
CanFollow == l1Txn.status = "pending" => AfterSync.result = "Ok"

\* An exception in Record leaves the storage without what is left to record.
Unrecorded(m) == packer.pc = "dead" /\ m \in Messages(packer.commits)

\* What the node stores is what the L1 has, but for the batch that was sent
\* last: it is stored before the L1 has it (packAndSubmit does not wait), and
\* remains so when it is reverted, but then the packer does not go on; or the L1
\* has it before it is stored, or without, when an exception comes between.
StoresWhatWasSent ==
  /\ IsPrefix(stored, Sent) /\ Len(Sent) <= Len(stored) + 1
  /\ packer.pc \notin {"recording", "dead"} => stored = Sent
  /\ packer.pc \notin {"recording", "waiting", "dead"} => stored = rollup

\* What the node tells of a transfer: submitted is in the batch it names, in the
\* storage, and so on the L1, but for the batch that was sent last; pending and
\* failed are in no batch of the storage, except that a transfer that was pushed
\* twice is told to have failed, with the batch that its first copy is in.  One
\* that failed, is pushed again and then accepted cannot become submitted: it
\* ends the packer.  And a node that syncs the batches can store the transfers of
\* each: none has the message of an earlier one.
StatusesAreTrue ==
  /\ \A m \in DOMAIN statuses :
       LET status == statuses[m]
           in     == {b \in 2 .. Len(stored) : m \in Messages(stored[b])}
       IN  /\ status.status = "Pending" => in = {} \/ Unrecorded(m)
           /\ status.status = "Submitted" => in = {status.batchID + 1}
           /\ status.status = "Failed" =>
                in = {b \in {status.batchID + 1} : FailedInBatch(m)} \/ Unrecorded(m)
  /\ StoresWhatWasSent
  /\ CanFollow

\* No pending transfer is lost: it is in the pool, or was taken from it for the
\* batch in the making, where it is accepted or to be told failed, or was left by
\* pack since the commitment was full; until an exception ends the packer.
MessagesOf(txs)  == {messageOfTx(txs[i]) : i \in DOMAIN txs}
PoolMessages(p)  == UNION {MessagesOf(p[tokenID]) : tokenID \in DOMAIN p}
Held ==
  PoolMessages(pool)
    \cup MessagesOf(packer.accepted) \cup MessagesOf(packer.failed)
    \cup MessagesOf(packer.acceptedTxs) \cup MessagesOf(packer.failedTxs) \cup dropped
PendingIsHeld ==
  packer.pc # "dead" => {m \in DOMAIN statuses : statuses[m].status = "Pending"} \subseteq Held

\* When no more are pushed, each pending transfer is submitted or fails some
\* time, unless the packer took it for a commitment that was full, or an
\* exception has ended the packer.
Decided(m) ==
  \/ statuses[m].status # "Pending"
  \/ m \in dropped
  \/ packer.pc = "dead"
PendingIsDecided == <>[](\A m \in DOMAIN statuses : Decided(m))
=============================================================================
