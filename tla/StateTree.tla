------------------------------ MODULE StateTree ------------------------------
(***************************************************************************)
(* ts/stateTree.ts: the state tree that coordinators build commitments     *)
(* with and challengers make dispute proofs with.  A proof is the leaf it  *)
(* is for and the state that leaf had, ZERO_STATE for an empty one; its    *)
(* witness is one of module Trees.  Each commit is a generator of proofs:  *)
(* the exception of a step leaves the tree as that step found it or, when  *)
(* the receiver is at fault, with the sender already updated.              *)
(***************************************************************************)
EXTENDS Transition

ZERO_STATE == [pubkeyID |-> 0, tokenID |-> 0, balance |-> 0, nonce |-> 0]
PLACEHOLDER == [id |-> -1, state |-> ZERO_STATE]

\* A tree that processes a commitment: its states, the proofs yielded so far
\* and whether an exception has ended the generator.
Tree(before, proofs, safe) == [states |-> before, proofs |-> proofs, safe |-> safe]
Raised(tree) == [tree EXCEPT !.safe = FALSE]

getState(before, id) ==
  [id |-> id, state |-> IF id \in DOMAIN before THEN before[id] ELSE ZERO_STATE]
updateState(before, id, state) ==
  [i \in DOMAIN before \cup {id} |-> IF i = id THEN state ELSE before[i]]

\* The proof is of the state before the update.
\* Mutant: the other way round.
ProofAfterUpdate(tree, id, state) ==
  [tree EXCEPT !.states = updateState(@, id, state),
               !.proofs = Append(@, getState(updateState(tree.states, id, state), id))]
getProofAndUpdate(tree, id, state) ==
  [tree EXCEPT !.states = updateState(@, id, state),
               !.proofs = Append(@, getState(tree.states, id))]

treeSender(tree, id, tokenID, amount, fee) ==
  IF \/ id \notin DOMAIN tree.states
     \/ amount = 0
     \/ tree.states[id].balance < amount + fee
     \/ tree.states[id].tokenID # tokenID
  THEN Raised(tree)
  ELSE getProofAndUpdate(tree, id, ApplySender(tree.states[id], amount, fee))

treeReceiver(tree, id, amount, tokenID) ==
  IF id \notin DOMAIN tree.states \/ tree.states[id].tokenID # tokenID THEN Raised(tree)
  ELSE getProofAndUpdate(tree, id, ApplyReceiver(tree.states[id], amount))

treeCreate(tree, id, pubkeyID, amount, tokenID) ==
  IF id \in DOMAIN tree.states THEN Raised(tree)
  ELSE getProofAndUpdate(tree, id, createState(pubkeyID, tokenID, amount))

\* processTransfer, processCreate2Transfer, processMassMigration: the proofs of
\* a transaction are yielded when all of it is done.
treeTx(kind, tree, tx, tokenID) ==
  LET sent == treeSender(tree, tx.from, tokenID, tx.amount, tx.fee)
      done == IF ~sent.safe THEN sent
              ELSE CASE kind = "Transfer" -> treeReceiver(sent, tx.to, tx.amount, tokenID)
                     [] kind = "Create2Transfer" ->
                          treeCreate(sent, tx.to, tx.toPubkeyID, tx.amount, tokenID)
                     [] kind = "MassMigration" -> sent
  IN  IF done.safe THEN done ELSE [done EXCEPT !.proofs = tree.proofs]

\* The generators: the token is that of the first sender, who must exist.
CanGenerate(before, txs) == txs # <<>> /\ txs[1].from \in DOMAIN before
generate(before, commit) ==
  LET tokenID == before[commit.txs[1].from].tokenID
      fees    == Total([i \in DOMAIN commit.txs |-> commit.txs[i].fee])
      applied == FoldLeft(LAMBDA tree, tx :
                            IF tree.safe THEN treeTx(commit.kind, tree, tx, tokenID) ELSE tree,
                          Tree(before, <<>>, TRUE), commit.txs)
  IN  IF applied.safe THEN treeReceiver(applied, commit.feeReceiver, fees, tokenID) ELSE applied

\* processNoRaise: the step that raised yields no proof, those after it
\* placeholders, so that one proof is missing.
ExpectedProofs(commit) ==
  IF commit.kind = "MassMigration" THEN Len(commit.txs) + 1 ELSE 2 * Len(commit.txs) + 1
processNoRaise(before, commit) ==
  LET tree    == generate(before, commit)
      missing == ExpectedProofs(commit) - Len(tree.proofs)
  IN  IF tree.safe THEN tree
      ELSE [tree EXCEPT !.proofs = @ \o [i \in 1 .. missing - 1 |-> PLACEHOLDER]]

\* MassMigrationCommitment.fromStateProvider: what the tree, after the
\* transactions, says of their senders.
MigrationStates(after, txs) ==
  [i \in DOMAIN txs |->
     createState(after[txs[i].from].pubkeyID, after[txs[i].from].tokenID, txs[i].amount)]
fromStateProvider(after, commit) ==
  LET destinations == MigrationStates(after, commit.txs)
  IN  [kind |-> "MassMigration", txs |-> commit.txs, feeReceiver |-> commit.feeReceiver,
       withdrawRoot |-> destinations, tokenID |-> destinations[1].tokenID,
       amount |-> Total([i \in DOMAIN commit.txs |-> commit.txs[i].amount])]

(***************************************************************************)
(* The contract, given the proofs: each step must find the state proved.   *)
(***************************************************************************)
\* The leaves a commitment reads, in order, and the states it finds there.
StepsOf(commit) ==
  FlattenSeq([i \in DOMAIN commit.txs |->
    IF commit.kind = "MassMigration" THEN <<commit.txs[i].from>>
    ELSE <<commit.txs[i].from, commit.txs[i].to>>]) \o <<commit.feeReceiver>>
\* The states after the first k transactions.
StatesAfter(before, commit, tokenID, k) ==
  FoldLeft(LAMBDA outcome, tx :
             Then(outcome, LAMBDA s : processTx(commit.kind, s, tx, tokenID)),
           Outcome("Ok", before), SubSeq(commit.txs, 1, k)).states
SenderProofHolds(before, commit, tokenID, proofs, i) ==
  LET perTx == IF commit.kind = "MassMigration" THEN 1 ELSE 2
  IN  proofs[perTx * (i - 1) + 1]
        = getState(StatesAfter(before, commit, tokenID, i - 1), commit.txs[i].from)
FeeProofHolds(before, commit, tokenID, proofs) ==
  proofs[Len(proofs)]
    = getState(StatesAfter(before, commit, tokenID, Len(commit.txs)), commit.feeReceiver)

(***************************************************************************)
(* Properties.                                                             *)
(***************************************************************************)
BuildableCommits ==
  {commit \in Commits :
     CanGenerate(states, commit.txs) /\ Len(commit.txs) <= paramMaxTxsPerCommit}

\* What the tree builds without an exception cannot be disputed, has the
\* contract's states and the proofs its replay asks for, one for each leaf it
\* reads; and the mass migration made from the tree claims exactly what its
\* transactions take out.  Where the tree raises, the replay does not end Ok.
TreeAgrees ==
  \A commit \in BuildableCommits :
    LET tree     == processNoRaise(states, commit)
        migrates == commit.kind = "MassMigration"
        built    == IF migrates /\ tree.safe THEN fromStateProvider(tree.states, commit) ELSE commit
        contract == processCommit(states, built)
        tokenID  == states[commit.txs[1].from].tokenID
    IN  /\ tree.safe <=> contract.result = "Ok"
        /\ tree.safe =>
             /\ tree.states = contract.states
             /\ Len(tree.proofs) = ExpectedProofs(commit)
             /\ [i \in DOMAIN tree.proofs |-> tree.proofs[i].id] = StepsOf(commit)
             /\ \A i \in DOMAIN commit.txs :
                  SenderProofHolds(states, commit, tokenID, tree.proofs, i)
             /\ FeeProofHolds(states, commit, tokenID, tree.proofs)
=============================================================================
