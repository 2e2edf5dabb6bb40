------------------------------- MODULE Rollup -------------------------------
(***************************************************************************)
(* contracts/rollup/BatchManager.sol and Rollup.sol: batches, the stakes   *)
(* behind them, disputes and the roll back of disputed batches, composed   *)
(* with the queue of deposit subtrees (module DepositQueue, which          *)
(* DepositManager implements).                                             *)
(*                                                                         *)
(* A transaction is one step.  What the L2 state is told apart by is which *)
(* deposit subtree stands at which position of the state tree: a state     *)
(* root is a function from Slots to subtree numbers, Vacant or Taken.  A   *)
(* commitment is a state root and a body, the body reduced to what each of *)
(* the dispute functions makes of it.                                      *)
(*                                                                         *)
(* Assumed of Merkle proofs: hashes do not collide, and a proof has as     *)
(* many nodes as its tree is deep.  MerkleTree.verify does not compare the *)
(* two; nothing here speaks of a proof of another length.  The path of a   *)
(* proof is not assumed to be in range.                                    *)
(***************************************************************************)
EXTENDS Integers, Sequences, FiniteSets

CONSTANTS
  Coordinators,      \* accounts the chooser may name as proposer
  Deployer,          \* msg.sender of the constructor
  Payments,          \* values of msg.value in a submission
  Slots,             \* values of vacant.pathAtDepth
  L2Usage,           \* batch types coordinators submit, besides deposits
  Bodies,            \* commitment bodies
  paramStakeAmount, paramBlocksToFinalise,
  MaxCommits,        \* bound: commitments of one batch (the code's is 32)
  MaxBlock,          \* bound: block.number
  MaxBatchID,        \* bound: nextBatchID
  MaxSubtrees,       \* bound: deposit subtrees completed in a behaviour
  MaxWaiting,        \* bound: subtrees in the queue at once
  MaxOverpaid        \* bound: ether sent above the stake, in total

Vacant == 0          \* zeroHashAtSubtreeDepth
Taken  == -1         \* leaves that create2Transfer wrote

StateRoots == [Slots -> 0 .. MaxSubtrees \cup {Taken}]

\* The uses that have a disputeTransition* and a disputeSignature* function
Usages   == {"Transfer", "Create2Transfer", "MassMigration"}
Outcomes == {"Ok", "Bad", "Revert"}

\* What disputeTransition* and disputeSignature* of each kind make of its
\* transactions and of its signature (one that names a sender or receiver that
\* does not exist reverts), and the slots that its create2Transfers write to
BodyType ==
  [replay : [Usages -> Outcomes], signature : [Usages -> Outcomes],
   creates : SUBSET Slots]

ASSUME RollupAssumption ==
  /\ paramStakeAmount \in Nat /\ paramBlocksToFinalise \in Nat
  /\ Payments \subseteq Nat
  /\ L2Usage \subseteq Usages
  /\ Bodies \subseteq BodyType
  /\ {MaxCommits, MaxBlock, MaxBatchID, MaxSubtrees, MaxWaiting,
      MaxOverpaid} \subseteq Nat

VARIABLES
  block,               \* block.number
  batches,             \* batches: batchID -> Batch; deleted ones leave the domain
  nextBatchID,
  deposits,            \* deposits: batchID -> subtree; unset ones are not in it
  withdrawalBitmap,    \* the batchIDs whose bit is set
  invalidBatchMarker,
  balance,             \* the ether the contract holds
  overpaid,            \* history: msg.value above paramStakeAmount, in total
  queue, ready         \* the deposit manager

depositVars == <<queue, ready>>
stakeVars   == <<withdrawalBitmap, balance, overpaid>>
vars == <<block, batches, nextBatchID, deposits, invalidBatchMarker,
          stakeVars, depositVars>>

DepositManager == INSTANCE DepositQueue

(***************************************************************************)
(* Batches and commitments.                                                *)
(***************************************************************************)
Batch(commitments, batchType, committer, finaliseOn) ==
  [commitments |-> commitments, batchType |-> batchType,
   committer |-> committer, finaliseOn |-> finaliseOn]

Commitment(stateRoot, body) == [stateRoot |-> stateRoot, body |-> body]

\* ZERO_BYTES32 where the hash of a body stands
NoBody ==
  [replay |-> [kind \in Usages |-> "Revert"],
   signature |-> [kind \in Usages |-> "Revert"], creates |-> {}]

\* 1-tuples: the genesis batch and a deposit batch have one commitment
Single(stateRoot) == <<Commitment(stateRoot, NoBody)>>

LastStateRoot(commitments) == commitments[Len(commitments)].stateRoot

\* merklize: the tree over a batch's commitments has no empty leaf
Full(size) == \E depth \in 1 .. size : size = 2 ^ depth

\* The paths of proofs that a commitment is in a batch.  verify reads as many
\* bits of a path as the tree is deep: in a full tree the path after the last
\* one is that of the first commitment again.  The greater ones add nothing:
\* their targets and predecessors are those of these paths.
Paths(commitments) ==
  LET size == Len(commitments)
  IN  IF Full(size) THEN 0 .. size ELSE 0 .. size - 1

Target(commitments, path) == commitments[(path % Len(commitments)) + 1]

\* checkPreviousCommitment: the state root that a replay of `path' starts from
PreviousStateRoot(batchID, path) ==
  IF path = 0 THEN LastStateRoot(batches[batchID - 1].commitments)
              ELSE batches[batchID].commitments[path].stateRoot

\* process*Commit of a kind: the state root that a good body leads to
Processed(kind, stateRoot, body) ==
  [s \in Slots |->
     IF kind = "Create2Transfer" /\ s \in body.creates /\ stateRoot[s] = Vacant
     THEN Taken ELSE stateRoot[s]]

\* ... unless it reverts, as on a leaf that is not empty: subtrees are full.
Reverts(kind, stateRoot, body) ==
  \/ body.replay[kind] = "Revert"
  \/ /\ kind = "Create2Transfer"
     /\ \E s \in body.creates : stateRoot[s] \notin {Vacant, Taken}

ReadsAnyBody(kind, batchType) == batchType \in Usages

\* The dispute functions do not read batchType.  Which bodies they can be given
\* is up to the hash of a leaf: that of a Transfer and of a Create2Transfer
\* commitment is of the same fields, and a deposit has no body at all.
Reads(kind, batchType) ==
  \/ kind = batchType
  \/ {kind, batchType} = {"Transfer", "Create2Transfer"}

\* disputeTransition*, up to startRollingBack.  From the commitment before it
\* the replay has its own outcome; in front of the first commitment of a full
\* tree the last one stands as well, and what a replay from there leads to is
\* left open.
TransitionFails(kind, batchID, path) ==
  LET target == Target(batches[batchID].commitments, path)
      start  == PreviousStateRoot(batchID, path)
  IN  \/ path = Len(batches[batchID].commitments)
      \/ /\ ~Reverts(kind, start, target.body)
         /\ \/ target.body.replay[kind] = "Bad"
            \/ target.stateRoot # Processed(kind, start, target.body)

\* disputeSignature*, up to startRollingBack
SignatureFails(kind, batchID, path) ==
  Target(batches[batchID].commitments, path).body.signature[kind] = "Bad"

\* The vacancy proof of submitDeposits.
AnySlot(stateRoot, slot)  == slot \in DOMAIN stateRoot
IsVacant(stateRoot, slot) == stateRoot[slot] = Vacant

isNotRollingBack == invalidBatchMarker = 0
OffByOneMarker   == invalidBatchMarker > 1
isRollingBack    == invalidBatchMarker > 0

AnyTimeDisputable(batchID) ==
  /\ batchID \in DOMAIN batches \ {0}
  /\ batchID < invalidBatchMarker \/ invalidBatchMarker = 0

\* a batch that does not exist has finaliseOn = 0
isDisputable(batchID) ==
  /\ batchID \in DOMAIN batches
  /\ block < batches[batchID].finaliseOn
  /\ batchID < invalidBatchMarker \/ invalidBatchMarker = 0

(***************************************************************************)
(* Submission.                                                             *)
(***************************************************************************)
\* Bound: whatever is rolled back later, the queue stays within MaxWaiting.
QueueHasRoom == Len(queue) + nextBatchID <= MaxWaiting

\* BatchManager.submitBatch
submitBatch(commitments, batchType, sender, value) ==
  /\ nextBatchID < MaxBatchID /\ QueueHasRoom
  /\ overpaid + (value - paramStakeAmount) <= MaxOverpaid
  /\ value >= paramStakeAmount
  /\ batches' = [id \in DOMAIN batches \cup {nextBatchID} |->
                   IF id = nextBatchID
                   THEN Batch(commitments, batchType, sender,
                              block + paramBlocksToFinalise)
                   ELSE batches[id]]
  /\ nextBatchID' = nextBatchID + 1
  /\ balance' = balance + value
  /\ overpaid' = overpaid + (value - paramStakeAmount)

\* A coordinator posts what it likes: the root the body leads to (only those of
\* Create2Transfer batches create), the root it started from, or an empty tree.
PostedRoots(stateRoot, body) ==
  {Processed("Create2Transfer", stateRoot, body), stateRoot,
   [s \in Slots |-> Vacant]}

\* The commitments of a batch submitted now.
CommitmentLists ==
  LET start(list, path) ==
        IF path = 1 THEN LastStateRoot(batches[nextBatchID - 1].commitments)
                    ELSE list[path - 1].stateRoot
      posted(list) == \A path \in DOMAIN list :
        list[path].stateRoot \in PostedRoots(start(list, path), list[path].body)
  IN  UNION {{list \in [1 .. n -> [stateRoot : StateRoots, body : Bodies]] : posted(list)} :
               n \in 1 .. MaxCommits}

\* submitTransfer, submitCreate2Transfer, submitMassMigration; the chooser
\* names the sender, batchID = nextBatchID
SubmitCommitments(sender, value, batchType, commitments) ==
  /\ isNotRollingBack
  /\ \A path \in DOMAIN commitments :
       commitments[path].body.creates # {} => batchType = "Create2Transfer"
  /\ submitBatch(commitments, batchType, sender, value)
  /\ UNCHANGED <<block, deposits, withdrawalBitmap, invalidBatchMarker, depositVars>>

submitDeposits(sender, value, slot) ==
  LET previous == LastStateRoot(batches[nextBatchID - 1].commitments)
      subtree  == Head(queue)
  IN  /\ isNotRollingBack
      /\ IsVacant(previous, slot)
      /\ DepositManager!Dequeue
      /\ deposits' = [id \in DOMAIN deposits \cup {nextBatchID} |->
                        IF id = nextBatchID THEN subtree ELSE deposits[id]]
      /\ submitBatch(Single([previous EXCEPT ![slot] = subtree]), "Deposit",
                     sender, value)
      /\ UNCHANGED <<block, withdrawalBitmap, invalidBatchMarker>>

(***************************************************************************)
(* Dispute and roll back.                                                  *)
(***************************************************************************)
\* How many batches the roll back to a marker deletes.
nExpect(marker)    == nextBatchID - marker

\* The marker after nActual of them are gone.
NeverReset(marker, nActual)  == marker
ResetEarly(marker, nActual)  == IF nActual > 0 THEN 0 ELSE marker
MarkerAfter(marker, nActual) == IF nActual = nExpect(marker) THEN 0 ELSE marker

\* The batches whose subtree goes back to the queue: the record is not cleared
\* when a batch is deleted, so it may be one of an earlier batch of that ID.
SkipOldest(deleted)  == {id \in deleted \cap DOMAIN deposits : id - 1 \in deleted}
WithSubtree(deleted) == deleted \cap DOMAIN deposits

SlashOnce(nActual) == paramStakeAmount
slashed(nActual)   == nActual * paramStakeAmount

\* BatchManager.rollback, when the gas lasts for nActual iterations: the last
\* nActual batches are deleted, from the newest to the oldest, the subtrees
\* recorded under their IDs go back to the deposit manager in that order, and
\* their stakes leave the contract (two thirds to the caller, the rest burnt).
rollback(marker, nActual) ==
  LET deleted == nextBatchID - nActual .. nextBatchID - 1
      named   == WithSubtree(deleted)
  IN  /\ nActual \in 0 .. nExpect(marker)
      /\ batches' = [id \in DOMAIN batches \ deleted |-> batches[id]]
      /\ \E ids \in [1 .. Cardinality(named) -> named] :
           /\ \A i, j \in DOMAIN ids : i < j => ids[i] > ids[j]
           /\ DepositManager!Reenqueue([i \in DOMAIN ids |-> deposits[ids[i]]])
      /\ nextBatchID' = nextBatchID - nActual
      /\ invalidBatchMarker' = MarkerAfter(marker, nActual)
      /\ balance >= slashed(nActual)
      /\ balance' = balance - slashed(nActual)
      /\ UNCHANGED <<block, deposits, withdrawalBitmap, overpaid>>

\* disputeTransitionTransfer, -MassMigration and -Create2Transfer, where they
\* end in startRollingBack; a dispute that finds nothing wrong changes no state
disputeTransition(kind, batchID, path, nActual) ==
  /\ isDisputable(batchID)
  /\ Reads(kind, batches[batchID].batchType)
  /\ path \in Paths(batches[batchID].commitments)
  /\ TransitionFails(kind, batchID, path)
  /\ rollback(batchID, nActual)

\* disputeSignatureTransfer, -MassMigration and -Create2Transfer, likewise
disputeSignature(kind, batchID, path, nActual) ==
  /\ isDisputable(batchID)
  /\ Reads(kind, batches[batchID].batchType)
  /\ path \in Paths(batches[batchID].commitments)
  /\ SignatureFails(kind, batchID, path)
  /\ rollback(batchID, nActual)

keepRollingBack(nActual) ==
  /\ isRollingBack
  /\ rollback(invalidBatchMarker, nActual)

withdrawStake(sender, batchID) ==
  /\ batchID \in DOMAIN batches
  /\ sender = batches[batchID].committer
  /\ block > batches[batchID].finaliseOn
  /\ batchID \notin withdrawalBitmap
  /\ withdrawalBitmap' = withdrawalBitmap \cup {batchID}
  /\ balance >= paramStakeAmount
  /\ balance' = balance - paramStakeAmount
  /\ UNCHANGED <<block, batches, nextBatchID, deposits, invalidBatchMarker,
                 overpaid, depositVars>>

(***************************************************************************)
(* The environment: deposits that complete a subtree, and time.            *)
(***************************************************************************)
SubtreeReady ==
  /\ ready < MaxSubtrees
  /\ QueueHasRoom
  /\ DepositManager!SubtreeReady
  /\ UNCHANGED <<block, batches, nextBatchID, deposits, invalidBatchMarker,
                 stakeVars>>

NewBlock ==
  /\ block < MaxBlock
  /\ block' = block + 1
  /\ UNCHANGED <<batches, nextBatchID, deposits, invalidBatchMarker, stakeVars,
                 depositVars>>

(***************************************************************************)
(* The specification.                                                      *)
(***************************************************************************)
\* The constructor: the genesis batch is final in the block it is made in,
\* and nothing is staked for it.
Init ==
  /\ block = 0
  /\ batches = [id \in {0} |->
       Batch(Single([s \in Slots |-> Vacant]), "Genesis", Deployer, block)]
  /\ nextBatchID = 1
  /\ deposits = <<>>
  /\ withdrawalBitmap = {}
  /\ invalidBatchMarker = 0
  /\ balance = 0 /\ overpaid = 0
  /\ DepositManager!QueueInit

Next ==
  \/ \E commitments \in CommitmentLists :
       \E sender \in Coordinators, value \in Payments, batchType \in L2Usage :
         SubmitCommitments(sender, value, batchType, commitments)
  \/ \E sender \in Coordinators, value \in Payments, slot \in Slots :
       submitDeposits(sender, value, slot)
  \/ \E kind \in Usages, batchID \in DOMAIN batches, nActual \in 0 .. MaxBatchID :
       \E path \in 0 .. MaxCommits :
         \/ disputeTransition(kind, batchID, path, nActual)
         \/ disputeSignature(kind, batchID, path, nActual)
  \/ \E nActual \in 0 .. MaxBatchID : keepRollingBack(nActual)
  \/ \E sender \in Coordinators \cup {Deployer} :
       \E batchID \in DOMAIN batches : withdrawStake(sender, batchID)
  \/ SubtreeReady
  \/ NewBlock

Spec == Init /\ [][Next]_vars

\* Whoever deletes a batch earns two thirds of its stake, so as long as there
\* is a stake to earn somebody calls keepRollingBack with gas for one batch.
FairSpec == Spec /\ WF_vars(\E nActual \in 1 .. MaxBatchID : keepRollingBack(nActual))

(***************************************************************************)
(* Properties.                                                             *)
(***************************************************************************)
BatchType ==
  [commitments : Seq([stateRoot : StateRoots, body : BodyType]) \ {<<>>},
   batchType : {"Genesis", "Deposit"} \cup L2Usage,
   committer : Coordinators \cup {Deployer},
   finaliseOn : Nat]

\* The variables hold values of their types; batchIDs are contiguous, and the
\* marker is 0 or the ID of a batch still to be deleted.
TypeOK ==
  /\ block \in Nat
  /\ nextBatchID \in Nat \ {0}
  /\ DOMAIN batches = 0 .. nextBatchID - 1
  /\ \A id \in DOMAIN batches : batches[id] \in BatchType
  /\ ready \in 0 .. MaxSubtrees
  /\ queue \in Seq(1 .. ready)
  /\ DOMAIN deposits \subseteq Nat \ {0}
  /\ \A id \in DOMAIN deposits : deposits[id] \in 1 .. ready
  /\ withdrawalBitmap \subseteq Nat /\ IsFiniteSet(withdrawalBitmap)
  /\ invalidBatchMarker \in 0 .. nextBatchID - 1
  /\ balance \in Nat /\ overpaid \in Nat

\* The state roots of the batch are those that its transactions lead to, and
\* its signatures are good.
Correct(batchID) ==
  LET batch == batches[batchID]
  IN  batch.batchType \in Usages =>
        \A i \in DOMAIN batch.commitments :
          LET target == batch.commitments[i]
              start  == PreviousStateRoot(batchID, i - 1)
          IN  /\ target.body.replay[batch.batchType] = "Ok"
              /\ target.body.signature[batch.batchType] = "Ok"
              /\ ~Reverts(batch.batchType, start, target.body)
              /\ target.stateRoot = Processed(batch.batchType, start, target.body)

\* The batches that may be disputed though they are correct: those that the
\* functions of another kind read, and those in whose tree the last commitment
\* stands in front of the first.
Exposed(batchID) ==
  \/ batches[batchID].batchType \in {"Transfer", "Create2Transfer"}
  \/ /\ batches[batchID].batchType \in Usages
     /\ Full(Len(batches[batchID].commitments))

\* The batches below the marker, which no roll back is about to delete.
Standing(batchID) == invalidBatchMarker = 0 \/ batchID < invalidBatchMarker

\* The stakes of all batches but the genesis one, less one stake for each bit
\* of the bitmap, is what the contract holds: no stake is paid out twice, and
\* slashing takes exactly the stakes of the batches that go.
StakeLedger ==
  balance + paramStakeAmount * Cardinality(withdrawalBitmap)
    = paramStakeAmount * (nextBatchID - 1) + overpaid

\* A batch that reached finaliseOn while no roll back was about to delete it
\* is never deleted or changed: a withdrawal may rely on it for ever.
FinalisedIsPermanent ==
  [][\A id \in DOMAIN batches :
       block >= batches[id].finaliseOn /\ Standing(id)
         => id \in DOMAIN batches' /\ batches'[id] = batches[id]]_vars

\* Once a roll back has begun, no batch is added and its marker never moves up,
\* until every batch from the marker on is gone.
RollbackIsThorough ==
  [][~isNotRollingBack =>
       /\ nextBatchID' <= nextBatchID
       /\ invalidBatchMarker' <= invalidBatchMarker
       /\ invalidBatchMarker' = 0 => nextBatchID' <= invalidBatchMarker]_vars

\* The batch a roll back began with, in a step of it: the marker as long as
\* there are batches left to delete, then the last one deleted.
Origin(marker, next) == IF marker # 0 THEN marker ELSE next

\* Whenever batches are deleted, the one that the roll back began with, maybe
\* many calls ago, is there and is wrong or Exposed.  A deposit batch, or a
\* correct mass migration batch whose tree is not full, never starts one.
RollbackHasGrounds ==
  [][nextBatchID' < nextBatchID =>
       LET base == Origin(invalidBatchMarker', nextBatchID')
       IN  base \in DOMAIN batches /\ (~Correct(base) \/ Exposed(base))]_vars

\* Roll backs lose no deposits: every subtree waits in the queue or is the one
\* that a deposit batch in place included.
NoSubtreeLost ==
  \A k \in 1 .. ready :
    \/ \E i \in DOMAIN queue : queue[i] = k
    \/ \E id \in DOMAIN deposits \cap DOMAIN batches :
         batches[id].batchType = "Deposit" /\ deposits[id] = k

\* As long as every batch is correct, the newest state holds the subtree of
\* every deposit batch: none is placed on top of another or of a used leaf.
DepositsCredited ==
  (\A id \in DOMAIN batches : Correct(id)) =>
    \A id \in DOMAIN deposits \cap DOMAIN batches :
      batches[id].batchType = "Deposit" =>
        \E slot \in Slots :
          LastStateRoot(batches[nextBatchID - 1].commitments)[slot] = deposits[id]

\* A roll back comes to its end, unless the contract cannot pay for the next
\* deletion.
RollbackCompletes ==
  ~isNotRollingBack ~> (isNotRollingBack \/ balance < paramStakeAmount)

\* The batches after genesis as the chain of module BatchChain.
Link(batch) == [content |-> batch.batchType, finaliseOn |-> batch.finaliseOn]

Chain == INSTANCE BatchChain WITH
  Contents <- {"Deposit"} \cup L2Usage,
  BlocksToFinalise <- paramBlocksToFinalise,
  chain <- [id \in 1 .. nextBatchID - 1 |-> Link(batches[id])],
  marker <- invalidBatchMarker

\* Stakes, deposits and the reasons of disputes left aside, the contract is a
\* chain of batches that become final, of which disputes cut off tails.
ImplementsChain == Chain!ChainSpec

(***************************************************************************)
(* What comments and the README say, and the code does not do.             *)
(***************************************************************************)
\* Rollup.sol:344, `This deposit subtree is included in the batch whose ID is
\* postBatchID': a subtree waits in the queue once, or is in one batch.
SubtreeInOnePlace ==
  \A k \in 1 .. ready :
    Cardinality({i \in DOMAIN queue : queue[i] = k})
      + Cardinality({id \in DOMAIN deposits \cap DOMAIN batches :
                       batches[id].batchType = "Deposit" /\ deposits[id] = k}) <= 1
=============================================================================
