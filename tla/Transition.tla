----------------------------- MODULE Transition -----------------------------
(***************************************************************************)
(* contracts/libs/Transition.sol, Transfer.sol, Create2Transfer.sol and    *)
(* MassMigrations.sol: what the transactions of a commitment do to the L2  *)
(* states; Authenticity.sol: the nonces their signatures must be for; and  *)
(* the node's own replay, ts/client/features/transfer.ts with              *)
(* stateTransitions.ts.                                                    *)
(*                                                                         *)
(* The state tree is a function from the leaves that are not empty to      *)
(* states; a proof is for what the tree holds, so that a check of a leaf   *)
(* reverts when the leaf is not what it should be.  A withdraw root is the *)
(* sequence of states it is the root of.  Only commitments that replay to  *)
(* Ok are applied here: what becomes of the others, and of those whose     *)
(* replay reverts, is up to module Rollup.                                 *)
(***************************************************************************)
EXTENDS Integers, SequencesExt, FiniteSetsExt, Functions

CONSTANTS
  StateIDs, PubkeyIDs, TokenIDs,
  Transfers,              \* decoded transactions, of each kind
  Create2Transfers,
  MassMigrations,
  DepositStates,          \* states that deposits create
  paramMaxTxsPerCommit,
  MaxNonce,               \* bound: transactions of one state
  MaxLeaves               \* bound: leaves in use when a deposit is made

State == [pubkeyID : PubkeyIDs, tokenID : TokenIDs, balance : Nat, nonce : Nat]

\* Transactions have all fields; a mass migration has no use for those of the
\* receiver, a transfer for that of the public key.
Tx == [from : StateIDs, to : StateIDs, toPubkeyID : PubkeyIDs, amount : Nat, fee : Nat]

\* The tree of states has a fixed depth.
ASSUME TransitionAssumption ==
  /\ IsFiniteSet(StateIDs)
  /\ DepositStates \subseteq State
  /\ UNION {Transfers, Create2Transfers, MassMigrations} \subseteq Tx
  /\ {paramMaxTxsPerCommit, MaxNonce, MaxLeaves} \subseteq Nat

VARIABLES
  states,      \* the leaves that are not empty -> State
  deposited,   \* history: per token, what deposits brought in
  migrated     \* history: per token, the amounts that commitments took out

vars == <<states, deposited, migrated>>

Total(values) == FoldLeft(+, 0, values)

(***************************************************************************)
(* The contract: one transaction.                                          *)
(***************************************************************************)
Outcome(result, newStates) == [result |-> result, states |-> newStates]

Then(outcome, Step(_)) ==
  IF outcome.result = "Ok" THEN Step(outcome.states) ELSE outcome

createState(pubkeyID, tokenID, amount) ==
  [pubkeyID |-> pubkeyID, tokenID |-> tokenID, balance |-> amount, nonce |-> 0]

AnyBalance(tokenID, amount, fee, sender) ==
  IF amount = 0 THEN "InvalidTokenAmount"
  ELSE IF sender.tokenID # tokenID THEN "BadFromTokenID"
  ELSE "Ok"
validateSender(tokenID, amount, fee, sender) ==
  IF amount = 0 THEN "InvalidTokenAmount"
  ELSE IF sender.balance < amount + fee THEN "NotEnoughTokenBalance"
  ELSE IF sender.tokenID # tokenID THEN "BadFromTokenID"
  ELSE "Ok"

FeeForFree(sender, amount, fee) ==
  [sender EXCEPT !.balance = @ - amount, !.nonce = @ + 1]
ApplySender(sender, amount, fee) ==
  [sender EXCEPT !.balance = @ - (amount + fee), !.nonce = @ + 1]

validateReceiver(tokenID, receiver) ==
  IF receiver.tokenID # tokenID THEN "BadToTokenID" ELSE "Ok"

ApplyReceiver(receiver, amount) == [receiver EXCEPT !.balance = @ + amount]

processSender(before, id, tokenID, amount, fee) ==
  IF id \notin DOMAIN before THEN Outcome("Revert", before)
  ELSE Then(Outcome(validateSender(tokenID, amount, fee, before[id]), before),
            LAMBDA s : Outcome("Ok", [s EXCEPT ![id] = ApplySender(@, amount, fee)]))

processReceiver(before, id, tokenID, amount) ==
  IF id \notin DOMAIN before THEN Outcome("Revert", before)
  ELSE Then(Outcome(validateReceiver(tokenID, before[id]), before),
            LAMBDA s : Outcome("Ok", [s EXCEPT ![id] = ApplyReceiver(@, amount)]))

AnyLeaf(before, id)   == id \in StateIDs
EmptyLeaf(before, id) == id \in StateIDs \ DOMAIN before

processCreate2TransferReceiver(before, tx, tokenID) ==
  IF ~EmptyLeaf(before, tx.to) THEN Outcome("Revert", before)
  ELSE Outcome("Ok", [id \in DOMAIN before \cup {tx.to} |->
         IF id = tx.to THEN createState(tx.toPubkeyID, tokenID, tx.amount)
                       ELSE before[id]])

\* processTransfer, processCreate2Transfer and processMassMigration.
processTx(kind, before, tx, tokenID) ==
  Then(processSender(before, tx.from, tokenID, tx.amount, tx.fee),
       LAMBDA s : CASE kind = "Transfer" -> processReceiver(s, tx.to, tokenID, tx.amount)
                    [] kind = "Create2Transfer" -> processCreate2TransferReceiver(s, tx, tokenID)
                    [] kind = "MassMigration" -> Outcome("Ok", s))

(***************************************************************************)
(* The contract: the transactions of a commitment.                         *)
(***************************************************************************)
\* The fresh states of a mass migration, which the spoke may claim.
WithdrawLeaves(before, txs, tokenID) ==
  [i \in DOMAIN txs |-> createState(before[txs[i].from].pubkeyID, tokenID, txs[i].amount)]

\* A mass migration names its token; else it is that of the first proof.
CommitToken(before, commit) ==
  IF commit.kind = "MassMigration" THEN commit.tokenID
  ELSE LET first == IF commit.txs = <<>> THEN commit.feeReceiver ELSE commit.txs[1].from
       IN  IF first \in DOMAIN before THEN before[first].tokenID
                                      ELSE CHOOSE tokenID \in TokenIDs : TRUE

\* What a mass migration claims to take out is what its transactions do.
\* merklize of no leaves does not end: it uses up the gas of the call.
CheckMigration(before, after, commit) ==
  IF commit.kind # "MassMigration" THEN Outcome("Ok", after)
  ELSE IF commit.amount # Total([i \in DOMAIN commit.txs |-> commit.txs[i].amount])
    THEN Outcome("MismatchedAmount", after)
  ELSE IF commit.txs = <<>> THEN Outcome("Revert", after)
  ELSE IF commit.withdrawRoot # WithdrawLeaves(before, commit.txs, commit.tokenID)
    THEN Outcome("BadWithdrawRoot", after)
  ELSE Outcome("Ok", after)

Replay(kind, before, txs, tokenID) ==
  FoldLeft(LAMBDA outcome, tx :
             Then(outcome, LAMBDA s : processTx(kind, s, tx, tokenID)),
           Outcome("Ok", before), txs)

\* processTransferCommit, processCreate2TransferCommit, processMassMigrationCommit
processCommit(before, commit) ==
  LET tokenID == CommitToken(before, commit)
      txs     == commit.txs
      fees    == Total([i \in DOMAIN txs |-> txs[i].fee])
      replay  == Replay(commit.kind, before, txs, tokenID)
  IN  IF Len(txs) > paramMaxTxsPerCommit THEN Outcome("TooManyTx", before)
      ELSE Then(Then(replay, LAMBDA s : processReceiver(s, commit.feeReceiver, tokenID, fees)),
                LAMBDA s : CheckMigration(before, s, commit))

\* verifyTransfer and its siblings: the nonce that transaction i must be signed
\* for, from the state its sender has after the commitment.
NonceFromTheFront(after, txs, i) ==
  after[txs[i].from].nonce - 1
    - Cardinality({k \in DOMAIN txs : k < i /\ txs[k].from = txs[i].from})
SignedNonce(after, txs, i) ==
  after[txs[i].from].nonce - 1
    - Cardinality({k \in DOMAIN txs : k > i /\ txs[k].from = txs[i].from})

(***************************************************************************)
(* The node: an exception ends the replay of a commitment.                 *)
(***************************************************************************)
Thrown(before) == Outcome("Thrown", before)

clientSender(before, id, tokenID, amount, fee) ==
  IF \/ id \notin DOMAIN before
     \/ amount = 0
     \/ before[id].balance < amount + fee
     \/ before[id].tokenID # tokenID
  THEN Thrown(before)
  ELSE Outcome("Ok", [before EXCEPT ![id] = ApplySender(@, amount, fee)])

AnyReceiver(before, id, tokenID, amount) ==
  IF id \notin DOMAIN before THEN Thrown(before)
  ELSE Outcome("Ok", [before EXCEPT ![id] = ApplyReceiver(@, amount)])
clientReceiver(before, id, tokenID, amount) ==
  IF id \notin DOMAIN before \/ before[id].tokenID # tokenID THEN Thrown(before)
  ELSE Outcome("Ok", [before EXCEPT ![id] = ApplyReceiver(@, amount)])

clientReplay(before, txs, tokenID) ==
  FoldLeft(LAMBDA outcome, tx :
             Then(Then(outcome, LAMBDA s : clientSender(s, tx.from, tokenID, tx.amount, tx.fee)),
                  LAMBDA s : clientReceiver(s, tx.to, tokenID, tx.amount)),
           Outcome("Ok", before), txs)

\* process of features/transfer.ts
clientProcess(before, commit) ==
  LET txs     == commit.txs
      tokenID == before[txs[1].from].tokenID
      fees    == Total([i \in DOMAIN txs |-> txs[i].fee])
      replay  == clientReplay(before, txs, tokenID)
  IN  IF \/ Len(txs) \notin 1 .. paramMaxTxsPerCommit
         \/ txs[1].from \notin DOMAIN before
      THEN Thrown(before)
      ELSE Then(replay, LAMBDA s : clientReceiver(s, commit.feeReceiver, tokenID, fees))

(***************************************************************************)
(* The specification.                                                      *)
(***************************************************************************)
TxLists(txs) == UNION {[1 .. n -> txs] : n \in 0 .. paramMaxTxsPerCommit + 1}

TransferCommits(kind, txs) ==
  [kind : {kind}, txs : TxLists(txs), feeReceiver : StateIDs]

\* A mass migration claims what it takes out, or one more, or no states.
MigrationCommits ==
  UNION {LET total  == Total([i \in DOMAIN txs |-> txs[i].amount])
             leaves == IF \A i \in DOMAIN txs : txs[i].from \in DOMAIN states
                       THEN {WithdrawLeaves(states, txs, tokenID)} ELSE {}
         IN  [kind : {"MassMigration"}, txs : {txs}, feeReceiver : StateIDs,
              tokenID : {tokenID}, amount : {total, total + 1},
              withdrawRoot : leaves \cup {<<>>}] :
           txs \in TxLists(MassMigrations), tokenID \in TokenIDs}

Commits ==
  UNION {TransferCommits("Transfer", Transfers),
         TransferCommits("Create2Transfer", Create2Transfers), MigrationCommits}

Init ==
  /\ states = <<>>
  /\ deposited = [tokenID \in TokenIDs |-> 0]
  /\ migrated = [tokenID \in TokenIDs |-> 0]

\* A deposit batch writes to empty leaves.
Deposit(id, state) ==
  /\ id \notin DOMAIN states
  /\ Cardinality(DOMAIN states) < MaxLeaves
  /\ states' = [i \in DOMAIN states \cup {id} |-> IF i = id THEN state ELSE states[i]]
  /\ deposited' = [deposited EXCEPT ![state.tokenID] = @ + state.balance]
  /\ UNCHANGED migrated

\* A commitment that nobody can dispute.
Commit(commit) ==
  LET outcome == processCommit(states, commit)
  IN  /\ outcome.result = "Ok"
      /\ \A id \in DOMAIN outcome.states : outcome.states[id].nonce <= MaxNonce
      /\ states' = outcome.states
      /\ migrated' = IF commit.kind = "MassMigration"
                     THEN [migrated EXCEPT ![commit.tokenID] = @ + commit.amount]
                     ELSE migrated
      /\ UNCHANGED deposited

Next ==
  \/ \E id \in StateIDs, state \in DepositStates : Deposit(id, state)
  \/ \E commit \in Commits : Commit(commit)

Spec == Init /\ [][Next]_vars

(***************************************************************************)
(* Properties.                                                             *)
(***************************************************************************)
\* Leaves hold states, and no balance is below zero.
TypeOK ==
  /\ DOMAIN states \subseteq StateIDs
  /\ states \in [DOMAIN states -> State]
  /\ deposited \in [TokenIDs -> Nat] /\ migrated \in [TokenIDs -> Nat]

Balances(someStates, tokenID) ==
  SumFunctionOnSet([id \in DOMAIN someStates |-> someStates[id].balance],
                   {id \in DOMAIN someStates : someStates[id].tokenID = tokenID})

\* No commitment makes or destroys tokens: what was deposited of a token is in
\* the L2's balances or was taken out by mass migrations.
TokensConserved ==
  \A tokenID \in TokenIDs :
    Balances(states, tokenID) + migrated[tokenID] = deposited[tokenID]

\* No commitment empties a leaf or gives it to another owner or token.
StatesKeepOwners ==
  [][\A id \in DOMAIN states :
       /\ id \in DOMAIN states'
       /\ states'[id].pubkeyID = states[id].pubkeyID
       /\ states'[id].tokenID = states[id].tokenID]_vars

\* The nonce a transaction must be signed for, which the contract computes
\* backwards from the state after the commitment, is the one its sender had when
\* the transaction was applied: none can be applied twice or out of order.
NoncesAreSpentInOrder ==
  \A commit \in Commits :
    LET outcome   == processCommit(states, commit)
        txs       == commit.txs
        nonce(id) == IF id \in DOMAIN states THEN states[id].nonce ELSE 0
    IN  outcome.result = "Ok" =>
          \A i \in DOMAIN txs :
            SignedNonce(outcome.states, txs, i)
              = nonce(txs[i].from)
                  + Cardinality({k \in 1 .. i - 1 : txs[k].from = txs[i].from})

\* The node accepts a transfer commitment with transactions exactly when it
\* cannot be disputed, and has the same states afterwards.
NodeAgrees ==
  \A commit \in TransferCommits("Transfer", Transfers) :
    LET contract == processCommit(states, commit)
        node     == clientProcess(states, commit)
    IN  commit.txs # <<>> =>
          /\ contract.result = "Ok" <=> node.result = "Ok"
          /\ contract.result = "Ok" => contract.states = node.states
=============================================================================
