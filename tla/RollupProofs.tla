---------------------------- MODULE RollupProofs ----------------------------
(***************************************************************************)
(* Proofs about module Rollup: its safety properties hold for every value  *)
(* of the constants.  The inductive invariant is TypeOK, StakeLedger,      *)
(* FinaliseOrder and MarkerFails together; each action is treated once   *)
(* for each of them.  The refinement of BatchChain and the crediting of    *)
(* deposits rest on it.                                                    *)
(***************************************************************************)
EXTENDS Rollup, SequenceTheorems, SumTheorems

\* Genesis is final; later batches are final later, and none later than a batch
\* made now.
FinaliseOrder ==
  /\ batches[0].finaliseOn <= block
  /\ \A i, j \in DOMAIN batches :
       i <= j => batches[i].finaliseOn <= batches[j].finaliseOn
  /\ \A id \in DOMAIN batches :
       batches[id].finaliseOn <= block + paramBlocksToFinalise

\* Some dispute function that can be given the batch's bodies ends in
\* startRollingBack.
Fails(batchID) ==
  \E kind \in Usages, path \in Paths(batches[batchID].commitments) :
    /\ Reads(kind, batches[batchID].batchType)
    /\ TransitionFails(kind, batchID, path) \/ SignatureFails(kind, batchID, path)

\* The batch that a roll back under way began with is one a dispute can fail.
MarkerFails == ~isNotRollingBack => Fails(invalidBatchMarker)

IInv == TypeOK /\ StakeLedger /\ FinaliseOrder /\ MarkerFails

-----------------------------------------------------------------------------
(* Two facts about sequences. *)
\* A function on 1 .. n is a sequence of its values' set.
LEMMA FunctionIsSeq ==
  ASSUME NEW S, NEW n \in Nat, NEW f \in [1 .. n -> S]
  PROVE  f \in Seq(S) /\ Len(f) = n
OBVIOUS

\* A sequence that is not empty has an entry.
LEMMA NonEmptyLen ==
  ASSUME NEW S, NEW s \in Seq(S), s # <<>>
  PROVE  Len(s) \in Nat \ {0} /\ Len(s) \in DOMAIN s
<1>1. Len(s) \in Nat /\ DOMAIN s = 1 .. Len(s)
  OBVIOUS
<1>2. Len(s) # 0
  BY EmptySeq
<1> QED
  BY <1>1, <1>2

\* The entries of a concatenation are those of its two parts, and no others.
LEMMA ConcatEntries ==
  ASSUME NEW S, NEW s \in Seq(S), NEW t \in Seq(S)
  PROVE  /\ s \o t \in Seq(S)
         /\ DOMAIN (s \o t) = 1 .. Len(s) + Len(t)
         /\ \A i \in 1 .. Len(s) : (s \o t)[i] = s[i]
         /\ \A i \in 1 .. Len(t) : (s \o t)[Len(s) + i] = t[i]
OBVIOUS

-----------------------------------------------------------------------------
(***************************************************************************)
(* What the two kinds of steps that change the batches do to them.         *)
(***************************************************************************)

\* submitBatch appends one batch and leaves the others alone.
LEMMA SubmitAppends ==
  ASSUME TypeOK, NEW commitments, NEW batchType, NEW sender, NEW value,
         submitBatch(commitments, batchType, sender, value)
  PROVE  /\ nextBatchID \in Nat \ {0} /\ nextBatchID < MaxBatchID
         /\ nextBatchID' = nextBatchID + 1
         /\ DOMAIN batches' = 0 .. nextBatchID
         /\ \A id \in DOMAIN batches : batches'[id] = batches[id]
         /\ batches'[nextBatchID] = Batch(commitments, batchType, sender,
                                          block + paramBlocksToFinalise)
<1>1. /\ nextBatchID \in Nat \ {0} /\ DOMAIN batches = 0 .. nextBatchID - 1
  BY DEF TypeOK
<1>2. 0 .. nextBatchID = (0 .. nextBatchID - 1) \cup {nextBatchID}
  BY <1>1
<1>3. nextBatchID \notin DOMAIN batches
  BY <1>1
<1> QED
  BY <1>1, <1>2, <1>3, RollupAssumption DEF submitBatch

\* A roll back deletes a suffix of the batches, no further than its marker.
LEMMA RollbackTruncates ==
  ASSUME TypeOK, NEW marker \in 1 .. nextBatchID - 1, NEW nActual,
         rollback(marker, nActual)
  PROVE  /\ nActual \in 0 .. nextBatchID - marker
         /\ nextBatchID' = nextBatchID - nActual
         /\ nextBatchID' \in Nat \ {0}
         /\ DOMAIN batches' = 0 .. nextBatchID' - 1
         /\ DOMAIN batches' \subseteq DOMAIN batches
         /\ \A id \in DOMAIN batches' : batches'[id] = batches[id]
         /\ \/ invalidBatchMarker' = 0 /\ nextBatchID' = marker
            \/ invalidBatchMarker' = marker /\ marker \in DOMAIN batches'
<1>1. /\ nextBatchID \in Nat \ {0} /\ DOMAIN batches = 0 .. nextBatchID - 1
  BY DEF TypeOK
<1>2. /\ nActual \in 0 .. nextBatchID - marker
      /\ nextBatchID' = nextBatchID - nActual
      /\ batches' = [id \in DOMAIN batches \ (nextBatchID - nActual .. nextBatchID - 1)
                       |-> batches[id]]
      /\ invalidBatchMarker' = IF nActual = nextBatchID - marker THEN 0 ELSE marker
  BY DEF rollback, nExpect, MarkerAfter
<1>3. (0 .. nextBatchID - 1) \ (nextBatchID - nActual .. nextBatchID - 1)
        = 0 .. nextBatchID - nActual - 1
  BY <1>1, <1>2
<1> QED
  BY <1>1, <1>2, <1>3

\* A roll back moves the subtrees recorded under the deleted IDs into the queue.
LEMMA RollbackRequeues ==
  ASSUME TypeOK, NEW marker \in 1 .. nextBatchID - 1, NEW nActual,
         rollback(marker, nActual)
  PROVE  /\ queue' \in Seq(1 .. ready)
         /\ \A i \in DOMAIN queue : i \in DOMAIN queue' /\ queue'[i] = queue[i]
         /\ \A id \in (DOMAIN deposits \cap DOMAIN batches) \ DOMAIN batches' :
              \E i \in DOMAIN queue' : queue'[i] = deposits[id]
<1> DEFINE deleted == nextBatchID - nActual .. nextBatchID - 1
           named   == deleted \cap DOMAIN deposits
<1>1. /\ nextBatchID \in Nat \ {0} /\ DOMAIN batches = 0 .. nextBatchID - 1
      /\ queue \in Seq(1 .. ready)
      /\ \A id \in DOMAIN deposits : deposits[id] \in 1 .. ready
  BY DEF TypeOK
<1>2. nActual \in 0 .. nextBatchID - marker
  BY RollbackTruncates
<1>3. PICK ids \in [1 .. Cardinality(named) -> named] :
        /\ \A i, j \in DOMAIN ids : i < j => ids[i] > ids[j]
        /\ queue' = queue \o [i \in DOMAIN ids |-> deposits[ids[i]]]
  BY DEF rollback, WithSubtree, DepositManager!Reenqueue
<1> DEFINE back == [i \in DOMAIN ids |-> deposits[ids[i]]]
<1>4. IsFiniteSet(named) /\ Cardinality(named) \in Nat
  <2>1. IsFiniteSet(deleted)
    BY <1>1, <1>2, FS_Interval
  <2> QED
    BY <2>1, FS_Subset, FS_CardinalityType
<1>5. back \in Seq(1 .. ready) /\ Len(back) = Cardinality(named)
  <2>1. back \in [1 .. Cardinality(named) -> 1 .. ready]
    BY <1>1, <1>3
  <2> HIDE DEF back, named
  <2> QED
    BY <1>4, <2>1, FunctionIsSeq
<1>6. /\ queue' \in Seq(1 .. ready)
      /\ DOMAIN queue' = 1 .. Len(queue) + Len(back)
      /\ \A i \in 1 .. Len(queue) : queue'[i] = queue[i]
      /\ \A i \in 1 .. Len(back) : queue'[Len(queue) + i] = back[i]
  <2>1. queue' = queue \o back
    BY <1>3
  <2>2. queue \in Seq(1 .. ready) /\ back \in Seq(1 .. ready)
    BY <1>1, <1>5
  <2> HIDE DEF back
  <2>3. /\ queue \o back \in Seq(1 .. ready)
        /\ DOMAIN (queue \o back) = 1 .. Len(queue) + Len(back)
        /\ \A i \in 1 .. Len(queue) : (queue \o back)[i] = queue[i]
        /\ \A i \in 1 .. Len(back) : (queue \o back)[Len(queue) + i] = back[i]
    BY <2>2, ConcatEntries
  <2> QED
    BY <2>1, <2>3
<1>7. \A id \in named : \E i \in 1 .. Cardinality(named) : ids[i] = id
  <2>1. \A i, j \in 1 .. Cardinality(named) : ids[i] = ids[j] => i = j
    <3>1. \A i \in 1 .. Cardinality(named) : ids[i] \in Int
      <4>1. named \subseteq Int
        BY <1>1, <1>2
      <4> HIDE DEF named
      <4> QED
        BY <4>1
    <3>2. \A i, j \in 1 .. Cardinality(named) : i < j => ids[i] > ids[j]
      BY <1>3
    <3> HIDE DEF named
    <3> QED
      BY <1>4, <3>1, <3>2
  <2>2. /\ IsFiniteSet(1 .. Cardinality(named))
        /\ Cardinality(1 .. Cardinality(named)) = Cardinality(named)
    BY <1>4, FS_Interval
  <2>3. ids \in Injection(1 .. Cardinality(named), named)
    BY <1>3, <2>1 DEF Injection, IsInjective
  <2>4. ids \in Surjection(1 .. Cardinality(named), named)
    BY <1>4, <2>2, <2>3, FS_Injection
  <2> QED
    BY <2>4 DEF Surjection
<1>8. ASSUME NEW id \in (DOMAIN deposits \cap DOMAIN batches) \ DOMAIN batches'
      PROVE  \E i \in DOMAIN queue' : queue'[i] = deposits[id]
  <2>1. id \in named
    BY <1>1, RollbackTruncates
  <2>2. PICK i \in 1 .. Cardinality(named) : ids[i] = id
    BY <2>1, <1>7
  <2>3. back[i] = deposits[id]
    BY <2>2, <1>3
  <2>4. queue'[Len(queue) + i] = deposits[id]
    BY <1>5, <1>6, <2>3
  <2>5. Len(queue) + i \in DOMAIN queue'
    <3>1. Len(queue) \in Nat
      BY <1>1
    <3> HIDE DEF back, named
    <3> QED
      BY <3>1, <1>4, <1>5, <1>6
  <2> QED
    BY <2>4, <2>5
<1>9. \A i \in DOMAIN queue : i \in DOMAIN queue' /\ queue'[i] = queue[i]
  <2>1. DOMAIN queue = 1 .. Len(queue) /\ Len(queue) \in Nat
    BY <1>1
  <2>2. Len(back) \in Nat
    BY <1>4, <1>5
  <2> HIDE DEF back, named
  <2> QED
    BY <2>1, <2>2, <1>6
<1> QED
  BY <1>6, <1>8, <1>9

-----------------------------------------------------------------------------
(***************************************************************************)
(* Type correctness.                                                       *)
(***************************************************************************)
Commitments == Seq([stateRoot : StateRoots, body : BodyType]) \ {<<>>}

\* The last commitment of a batch has a state root.
LEMMA LastOfCommitments ==
  ASSUME NEW list \in Commitments
  PROVE  /\ Len(list) \in DOMAIN list
         /\ LastStateRoot(list) \in StateRoots
<1>1. list \in Seq([stateRoot : StateRoots, body : BodyType]) /\ list # <<>>
  BY DEF Commitments
<1>2. Len(list) \in DOMAIN list
  BY <1>1, NonEmptyLen
<1>3. list[Len(list)] \in [stateRoot : StateRoots, body : BodyType]
  BY <1>1, <1>2, LenProperties, ElementOfSeq
<1> QED
  BY <1>2, <1>3 DEF LastStateRoot

\* A batch of one commitment that has no body.
LEMMA SingleType ==
  ASSUME NEW stateRoot \in StateRoots
  PROVE  Single(stateRoot) \in Commitments
<1>1. NoBody \in BodyType
  BY DEF NoBody, BodyType, Outcomes
<1>2. Commitment(stateRoot, NoBody) \in [stateRoot : StateRoots, body : BodyType]
  BY <1>1 DEF Commitment
<1> QED
  BY <1>2 DEF Single, Commitments

\* The constructor leaves the variables in their types.
LEMMA InitTypeOK == Init => TypeOK
<1> SUFFICES ASSUME Init PROVE TypeOK
  OBVIOUS
<1>1. [s \in Slots |-> Vacant] \in StateRoots
  BY RollupAssumption DEF StateRoots, Vacant
<1>2. Single([s \in Slots |-> Vacant]) \in Commitments
  BY <1>1, SingleType
<1>3. batches[0] \in BatchType
  BY <1>2 DEF Init, Batch, BatchType, Commitments
<1> QED
  BY <1>3, RollupAssumption, FS_EmptySet DEF Init, TypeOK, DepositManager!QueueInit

\* submitBatch keeps what TypeOK says of the variables it writes.
LEMMA SubmitBatchType ==
  ASSUME TypeOK, NEW commitments \in Commitments,
         NEW batchType \in {"Deposit"} \cup L2Usage,
         NEW sender \in Coordinators, NEW value \in Payments,
         submitBatch(commitments, batchType, sender, value)
  PROVE  /\ nextBatchID' \in Nat \ {0}
         /\ DOMAIN batches' = 0 .. nextBatchID' - 1
         /\ \A id \in DOMAIN batches' : batches'[id] \in BatchType
         /\ invalidBatchMarker \in 0 .. nextBatchID' - 1
         /\ balance' \in Nat /\ overpaid' \in Nat
<1>1. batches'[nextBatchID] \in BatchType
  <2>1. block + paramBlocksToFinalise \in Nat
    BY RollupAssumption DEF TypeOK
  <2> QED
    <3> DEFINE made == Batch(commitments, batchType, sender,
                             block + paramBlocksToFinalise)
    <3>1. made \in BatchType
      BY <2>1 DEF Batch, BatchType, Commitments
    <3> HIDE DEF made
    <3>2. batches'[nextBatchID] = made
      BY SubmitAppends DEF made
    <3> QED
      BY <3>1, <3>2
<1>2. \A id \in DOMAIN batches' : batches'[id] \in BatchType
  <2>1. \A id \in DOMAIN batches' : id \in DOMAIN batches \/ id = nextBatchID
    BY SubmitAppends DEF TypeOK
  <2> QED
    BY <1>1, <2>1, SubmitAppends DEF TypeOK
<1>3. balance' \in Nat /\ overpaid' \in Nat
  BY RollupAssumption DEF TypeOK, submitBatch
<1> QED
  BY <1>2, <1>3, SubmitAppends DEF TypeOK

\* submitTransfer and its two siblings keep the variables in their types.
LEMMA SubmitCommitmentsType ==
  ASSUME TypeOK, NEW sender \in Coordinators, NEW value \in Payments,
         NEW batchType \in L2Usage, NEW commitments \in CommitmentLists,
         SubmitCommitments(sender, value, batchType, commitments)
  PROVE  TypeOK'
<1>1. commitments \in Commitments
  <2>1. PICK n \in 1 .. MaxCommits :
          commitments \in [1 .. n -> [stateRoot : StateRoots, body : Bodies]]
    BY DEF CommitmentLists
  <2>2. n \in Nat /\ n # 0
    BY RollupAssumption
  <2>3. commitments \in [1 .. n -> [stateRoot : StateRoots, body : BodyType]]
    BY <2>1, RollupAssumption
  <2> QED
    BY <2>2, <2>3, FunctionIsSeq DEF Commitments
<1>2. submitBatch(commitments, batchType, sender, value)
  BY DEF SubmitCommitments
<1> QED
  BY <1>1, <1>2, SubmitBatchType
  DEF TypeOK, SubmitCommitments, depositVars

\* submitDeposits keeps the variables in their types.
LEMMA SubmitDepositsType ==
  ASSUME TypeOK, NEW sender \in Coordinators, NEW value \in Payments,
         NEW slot \in Slots, submitDeposits(sender, value, slot)
  PROVE  TypeOK'
<1> DEFINE previous == LastStateRoot(batches[nextBatchID - 1].commitments)
           after    == [previous EXCEPT ![slot] = Head(queue)]
<1>1. Head(queue) \in 1 .. ready /\ queue' \in Seq(1 .. ready)
  BY DEF TypeOK, submitDeposits, DepositManager!Dequeue
<1>2. previous \in StateRoots
  <2>1. batches[nextBatchID - 1].commitments \in Commitments
    <3>1. batches[nextBatchID - 1] \in BatchType
      BY DEF TypeOK
    <3> QED
      BY <3>1 DEF BatchType, Commitments
  <2> QED
    BY <2>1, LastOfCommitments
<1>3. after \in StateRoots
  <2>1. Head(queue) \in 0 .. MaxSubtrees
    <3>1. ready \in 0 .. MaxSubtrees /\ MaxSubtrees \in Nat
      BY RollupAssumption DEF TypeOK
    <3> QED
      BY <1>1, <3>1
  <2>2. previous \in [Slots -> 0 .. MaxSubtrees \cup {Taken}]
    BY <1>2 DEF StateRoots
  <2> HIDE DEF previous
  <2> QED
    BY <2>1, <2>2 DEF StateRoots
<1>4. Single(after) \in Commitments
  <2> HIDE DEF after
  <2> QED
    BY <1>3, SingleType
<1>5. submitBatch(Single(after), "Deposit", sender, value)
  BY DEF submitDeposits
<1>6. /\ DOMAIN deposits' \subseteq Nat \ {0}
      /\ \A id \in DOMAIN deposits' : deposits'[id] \in 1 .. ready
  BY <1>1 DEF TypeOK, submitDeposits
<1>7. /\ nextBatchID' \in Nat \ {0}
      /\ DOMAIN batches' = 0 .. nextBatchID' - 1
      /\ \A id \in DOMAIN batches' : batches'[id] \in BatchType
      /\ invalidBatchMarker \in 0 .. nextBatchID' - 1
      /\ balance' \in Nat /\ overpaid' \in Nat
  <2> HIDE DEF after
  <2> QED
    BY <1>4, <1>5, SubmitBatchType
<1> QED
  BY <1>1, <1>6, <1>7 DEF TypeOK, submitDeposits, DepositManager!Dequeue

\* rollback keeps the variables in their types, from any marker it is called with.
LEMMA RollbackType ==
  ASSUME TypeOK, NEW marker \in 1 .. nextBatchID - 1, NEW nActual,
         rollback(marker, nActual)
  PROVE  TypeOK'
<1>1. balance' \in Nat
  <2>1. nActual \in Nat
    BY RollbackTruncates DEF TypeOK
  <2>2. slashed(nActual) \in Nat
    BY <2>1, RollupAssumption DEF slashed
  <2> QED
    BY <2>2 DEF TypeOK, rollback
<1>2. \A id \in DOMAIN batches' : batches'[id] \in BatchType
  BY RollbackTruncates DEF TypeOK
<1>3. invalidBatchMarker' \in 0 .. nextBatchID' - 1
  BY RollbackTruncates
<1>4. ready' = ready
  BY DEF rollback, DepositManager!Reenqueue
<1> QED
  BY <1>1, <1>2, <1>3, <1>4, RollbackTruncates, RollbackRequeues
  DEF TypeOK, rollback

\* The genesis batch is final from the start, so that no dispute starts there.
LEMMA DisputeMarker ==
  ASSUME TypeOK, FinaliseOrder, NEW batchID, isDisputable(batchID)
  PROVE  batchID \in 1 .. nextBatchID - 1
<1>1. batchID \in 0 .. nextBatchID - 1 /\ block < batches[batchID].finaliseOn
  BY DEF TypeOK, isDisputable
<1>2. batches[batchID].finaliseOn \in Nat /\ block \in Nat
  BY <1>1 DEF TypeOK, BatchType
<1>3. batchID # 0
  BY <1>1, <1>2 DEF FinaliseOrder
<1> QED
  BY <1>1, <1>3 DEF TypeOK

\* A step of Next is one of these; Next's bounded choices are opened here once.
LEMMA NextCases ==
  ASSUME TypeOK, FinaliseOrder, Next, NEW P,
         \A sender \in Coordinators, value \in Payments, batchType \in L2Usage,
            commitments \in CommitmentLists :
           SubmitCommitments(sender, value, batchType, commitments) => P,
         \A sender \in Coordinators, value \in Payments, slot \in Slots :
           submitDeposits(sender, value, slot) => P,
         \A marker \in 1 .. nextBatchID - 1, nActual \in Nat :
           /\ rollback(marker, nActual)
           /\ \/ marker = invalidBatchMarker
              \/ /\ isDisputable(marker)
                 /\ Fails(marker)
           => P,
         \A sender \in Coordinators \cup {Deployer}, batchID \in DOMAIN batches :
           withdrawStake(sender, batchID) => P,
         SubtreeReady => P,
         NewBlock => P
  PROVE  P
<1>1. CASE \/ \E commitments \in CommitmentLists :
                 \E sender \in Coordinators, value \in Payments,
                    batchType \in L2Usage :
                   SubmitCommitments(sender, value, batchType, commitments)
           \/ \E sender \in Coordinators, value \in Payments, slot \in Slots :
                submitDeposits(sender, value, slot)
  BY <1>1
<1>2. CASE \E kind \in Usages, batchID \in DOMAIN batches,
                nActual \in 0 .. MaxBatchID : \E path \in 0 .. MaxCommits :
             \/ disputeTransition(kind, batchID, path, nActual)
             \/ disputeSignature(kind, batchID, path, nActual)
  <2>1. PICK kind \in Usages, batchID \in DOMAIN batches,
             nActual \in 0 .. MaxBatchID, path \in 0 .. MaxCommits :
          \/ disputeTransition(kind, batchID, path, nActual)
          \/ disputeSignature(kind, batchID, path, nActual)
    BY <1>2
  <2>2. /\ isDisputable(batchID) /\ Fails(batchID)
        /\ rollback(batchID, nActual)
    BY <2>1 DEF disputeTransition, disputeSignature, Fails
  <2>3. batchID \in 1 .. nextBatchID - 1 /\ nActual \in Nat
    BY <2>2, DisputeMarker
  <2> QED
    BY <2>2, <2>3
<1>3. CASE \E nActual \in 0 .. MaxBatchID : keepRollingBack(nActual)
  <2>1. PICK nActual \in 0 .. MaxBatchID : keepRollingBack(nActual)
    BY <1>3
  <2>2. invalidBatchMarker \in 1 .. nextBatchID - 1 /\ nActual \in Nat
    BY <2>1 DEF keepRollingBack, isRollingBack, TypeOK
  <2> QED
    BY <2>1, <2>2 DEF keepRollingBack
<1>4. CASE \E sender \in Coordinators \cup {Deployer} :
             \E batchID \in DOMAIN batches : withdrawStake(sender, batchID)
  BY <1>4
<1> QED
  BY <1>1, <1>2, <1>3, <1>4 DEF Next

\* Type correctness is inductive, given that dispute never starts at the genesis batch.
LEMMA NextTypeOK == TypeOK /\ FinaliseOrder /\ [Next]_vars => TypeOK'
<1> SUFFICES ASSUME TypeOK, FinaliseOrder, [Next]_vars PROVE TypeOK'
  OBVIOUS
<1>1. CASE UNCHANGED vars
  BY <1>1 DEF TypeOK, vars, stakeVars, depositVars
<1>2. CASE Next
  <2>1. ASSUME NEW sender \in Coordinators \cup {Deployer},
               NEW batchID \in DOMAIN batches, withdrawStake(sender, batchID)
        PROVE  TypeOK'
    <3>1. /\ withdrawalBitmap' = withdrawalBitmap \cup {batchID}
          /\ withdrawalBitmap' \subseteq Nat
      <4>1. batchID \in Nat
        BY DEF TypeOK
      <4> QED
        BY <2>1, <4>1 DEF TypeOK, withdrawStake
    <3>2. IsFiniteSet(withdrawalBitmap')
      BY <3>1, FS_AddElement DEF TypeOK
    <3>3. balance' \in Nat
      BY <2>1, RollupAssumption DEF TypeOK, withdrawStake
    <3> QED
      BY <2>1, <3>1, <3>2, <3>3 DEF TypeOK, withdrawStake, depositVars
  <2>2. ASSUME SubtreeReady PROVE TypeOK'
    <3>1. /\ ready' \in 0 .. MaxSubtrees /\ ready' = ready + 1
          /\ 1 .. ready \subseteq 1 .. ready'
      <4>1. ready \in 0 .. MaxSubtrees /\ MaxSubtrees \in Nat
        BY RollupAssumption DEF TypeOK
      <4>2. ready < MaxSubtrees /\ ready' = ready + 1
        BY <2>2 DEF SubtreeReady, DepositManager!SubtreeReady
      <4> QED
        BY <4>1, <4>2
    <3>2. queue' \in Seq(1 .. ready')
      BY <2>2, <3>1, SeqMonotonic
      DEF TypeOK, SubtreeReady, DepositManager!SubtreeReady
    <3>3. /\ UNCHANGED <<block, batches, nextBatchID, deposits, withdrawalBitmap,
                        invalidBatchMarker, balance, overpaid>>
          /\ \A id \in DOMAIN deposits' : deposits'[id] \in 1 .. ready'
      BY <2>2, <3>1 DEF TypeOK, SubtreeReady, stakeVars
    <3> QED
      BY <3>1, <3>2, <3>3 DEF TypeOK
  <2>3. ASSUME NewBlock PROVE TypeOK'
    BY <2>3 DEF TypeOK, NewBlock, stakeVars, depositVars
  <2> QED
    BY <1>2, <2>1, <2>2, <2>3, NextCases, SubmitCommitmentsType,
       SubmitDepositsType, RollbackType
<1> QED
  BY <1>1, <1>2

-----------------------------------------------------------------------------
(***************************************************************************)
(* The stakes.                                                             *)
(***************************************************************************)
\* The equation of the stakes is inductive: each call changes both of its sides alike.
LEMMA NextStakeLedger ==
  ASSUME TypeOK, FinaliseOrder, StakeLedger, [Next]_vars
  PROVE  StakeLedger'
<1> DEFINE claims == Cardinality(withdrawalBitmap)
<1>1. /\ claims \in Nat /\ paramStakeAmount \in Nat /\ nextBatchID \in Nat
      /\ balance \in Nat /\ overpaid \in Nat
  BY FS_CardinalityType, RollupAssumption DEF TypeOK
<1>2. balance + paramStakeAmount * claims
        = paramStakeAmount * (nextBatchID - 1) + overpaid
  BY DEF StakeLedger
<1>3. ASSUME UNCHANGED <<nextBatchID, stakeVars>> PROVE StakeLedger'
  BY <1>3 DEF StakeLedger, stakeVars
<1>4. ASSUME NEW commitments, NEW batchType, NEW sender, NEW value \in Payments,
             submitBatch(commitments, batchType, sender, value),
             UNCHANGED withdrawalBitmap
      PROVE  StakeLedger'
  <2>1. /\ balance' = balance + value
        /\ overpaid' = overpaid + (value - paramStakeAmount)
        /\ nextBatchID' = nextBatchID + 1
        /\ value \in Nat
    BY <1>4, RollupAssumption DEF submitBatch
  <2>2. paramStakeAmount * nextBatchID
          = paramStakeAmount * (nextBatchID - 1) + paramStakeAmount
    BY <1>1
  <2>3. balance' + paramStakeAmount * claims
          = paramStakeAmount * nextBatchID + overpaid'
    <3> DEFINE paid == paramStakeAmount * claims
               held == paramStakeAmount * (nextBatchID - 1)
    <3>1. paid \in Nat /\ held \in Int
      BY <1>1
    <3> HIDE DEF paid, held, claims
    <3> QED
      BY <1>1, <1>2, <2>1, <2>2, <3>1 DEF paid, held
  <2>4. nextBatchID' - 1 = nextBatchID
    BY <1>1, <2>1
  <2> QED
    BY <1>4, <2>3, <2>4 DEF StakeLedger
<1>5. ASSUME NEW marker \in 1 .. nextBatchID - 1, NEW nActual,
             rollback(marker, nActual)
      PROVE  StakeLedger'
  <2>1. /\ nActual \in Nat
        /\ nextBatchID' = nextBatchID - nActual
        /\ balance' = balance - nActual * paramStakeAmount
        /\ UNCHANGED <<withdrawalBitmap, overpaid>>
    <3>1. nActual \in 0 .. nextBatchID - marker /\ nextBatchID' = nextBatchID - nActual
      BY <1>5, RollbackTruncates
    <3>2. nActual \in Nat
      BY <1>1, <3>1
    <3> QED
      BY <1>5, <3>1, <3>2 DEF rollback, slashed
  <2>2. paramStakeAmount * (nextBatchID - nActual - 1)
          = paramStakeAmount * (nextBatchID - 1) - nActual * paramStakeAmount
    BY <1>1, <2>1
  <2>3. balance - nActual * paramStakeAmount + paramStakeAmount * claims
          = paramStakeAmount * (nextBatchID - nActual - 1) + overpaid
    <3> HIDE DEF claims
    <3> QED
      BY <1>1, <1>2, <2>1, <2>2
  <2> QED
    BY <2>1, <2>3 DEF StakeLedger
<1>6. ASSUME NEW sender, NEW batchID \in DOMAIN batches,
             withdrawStake(sender, batchID)
      PROVE  StakeLedger'
  <2>1. /\ balance' = balance - paramStakeAmount
        /\ UNCHANGED <<nextBatchID, overpaid>>
    BY <1>6 DEF withdrawStake
  <2>2. Cardinality(withdrawalBitmap') = claims + 1
    BY <1>6, FS_AddElement DEF TypeOK, withdrawStake
  <2>3. paramStakeAmount * (claims + 1)
          = paramStakeAmount * claims + paramStakeAmount
    <3> HIDE DEF claims
    <3> QED
      BY <1>1
  <2>4. balance - paramStakeAmount + paramStakeAmount * (claims + 1)
          = paramStakeAmount * (nextBatchID - 1) + overpaid
    <3> HIDE DEF claims
    <3> QED
      BY <1>1, <1>2, <2>3
  <2> QED
    BY <2>1, <2>2, <2>4 DEF StakeLedger
<1>7. CASE UNCHANGED vars
  BY <1>3, <1>7 DEF vars, stakeVars
<1>8. CASE Next
  <2>1. ASSUME NEW sender \in Coordinators, NEW value \in Payments,
               NEW batchType \in L2Usage, NEW commitments \in CommitmentLists,
               SubmitCommitments(sender, value, batchType, commitments)
        PROVE  StakeLedger'
    BY <1>4, <2>1 DEF SubmitCommitments
  <2>2. ASSUME NEW sender \in Coordinators, NEW value \in Payments,
               NEW slot \in Slots, submitDeposits(sender, value, slot)
        PROVE  StakeLedger'
    BY <1>4, <2>2 DEF submitDeposits
  <2>3. SubtreeReady \/ NewBlock => StakeLedger'
    BY <1>3 DEF SubtreeReady, NewBlock
  <2> QED
    BY <1>5, <1>6, <1>8, <2>1, <2>2, <2>3, NextCases
<1> QED
  BY <1>7, <1>8

-----------------------------------------------------------------------------
(***************************************************************************)
(* The order in which batches become final, and where a roll back starts.  *)
(***************************************************************************)
\* Both facts survive any step that leaves the batches and the marker alone.
LEMMA BatchesUnchanged ==
  ASSUME TypeOK, FinaliseOrder, MarkerFails,
         UNCHANGED <<batches, invalidBatchMarker>>,
         block' \in Nat, block <= block'
  PROVE  FinaliseOrder' /\ MarkerFails'
<1>1. FinaliseOrder'
  <2>1. /\ block \in Nat /\ paramBlocksToFinalise \in Nat
        /\ \A id \in DOMAIN batches : batches[id].finaliseOn \in Nat
        /\ 0 \in DOMAIN batches
    BY RollupAssumption DEF TypeOK, BatchType
  <2> QED
    BY <2>1 DEF FinaliseOrder
<1>2. MarkerFails'
  BY DEF MarkerFails, isNotRollingBack, Fails, TransitionFails, SignatureFails,
         PreviousStateRoot
<1> QED
  BY <1>1, <1>2

\* A new batch is the last to become final and leaves the others' order alone.
LEMMA SubmitOrder ==
  ASSUME TypeOK, FinaliseOrder, NEW commitments, NEW batchType, NEW sender,
         NEW value, submitBatch(commitments, batchType, sender, value),
         isNotRollingBack, UNCHANGED <<block, invalidBatchMarker>>
  PROVE  FinaliseOrder' /\ MarkerFails'
<1>1. /\ block \in Nat /\ paramBlocksToFinalise \in Nat
      /\ nextBatchID \in Nat \ {0} /\ DOMAIN batches = 0 .. nextBatchID - 1
      /\ \A id \in DOMAIN batches : batches[id].finaliseOn \in Nat
  BY RollupAssumption DEF TypeOK, BatchType
<1>2. batches'[nextBatchID].finaliseOn = block + paramBlocksToFinalise
  <2>1. batches'[nextBatchID] = Batch(commitments, batchType, sender,
                                      block + paramBlocksToFinalise)
    BY SubmitAppends
  <2> QED
    BY <2>1 DEF Batch
<1>3. /\ \A id \in DOMAIN batches' : id \in DOMAIN batches \/ id = nextBatchID
      /\ \A id \in DOMAIN batches : batches'[id] = batches[id]
      /\ 0 \in DOMAIN batches
  BY <1>1, SubmitAppends
<1>4. ASSUME NEW i \in DOMAIN batches', NEW j \in DOMAIN batches', i <= j
      PROVE  batches'[i].finaliseOn <= batches'[j].finaliseOn
  <2>1. CASE j = nextBatchID
    BY <1>1, <1>2, <1>3, <2>1 DEF FinaliseOrder
  <2>2. CASE j # nextBatchID
    <3>1. i \in DOMAIN batches /\ j \in DOMAIN batches
      BY <1>1, <1>3, <1>4, <2>2
    <3> QED
      BY <1>3, <1>4, <3>1 DEF FinaliseOrder
  <2> QED
    BY <2>1, <2>2
<1>5. \A id \in DOMAIN batches' :
        batches'[id].finaliseOn <= block + paramBlocksToFinalise
  BY <1>1, <1>2, <1>3 DEF FinaliseOrder
<1> QED
  BY <1>3, <1>4, <1>5 DEF FinaliseOrder, MarkerFails, isNotRollingBack

\* Deleting the newest batches keeps the order of the rest, and the marker's reason.
LEMMA RollbackOrder ==
  ASSUME TypeOK, FinaliseOrder, NEW marker \in 1 .. nextBatchID - 1, NEW nActual,
         rollback(marker, nActual),
         Fails(marker)
  PROVE  FinaliseOrder' /\ MarkerFails'
<1>1. FinaliseOrder'
  <2>1. block' = block
    BY DEF rollback
  <2>2. 0 \in DOMAIN batches'
    BY RollbackTruncates
  <2> QED
    BY <2>1, <2>2, RollbackTruncates DEF FinaliseOrder
<1>2. CASE invalidBatchMarker' = 0
  BY <1>1, <1>2 DEF MarkerFails, isNotRollingBack
<1>3. CASE invalidBatchMarker' = marker /\ marker \in DOMAIN batches'
  <2>1. /\ marker - 1 \in DOMAIN batches'
        /\ batches'[marker] = batches[marker]
        /\ batches'[marker - 1] = batches[marker - 1]
    BY <1>3, RollbackTruncates
  <2>2. Fails(marker)'
    BY <2>1 DEF Fails, TransitionFails, SignatureFails, PreviousStateRoot
  <2> QED
    BY <1>1, <1>3, <2>2 DEF MarkerFails
<1> QED
  BY <1>1, <1>2, <1>3, RollbackTruncates

\* Batches become final in order and the marker stays where a dispute failed: both are inductive.
LEMMA NextOrder ==
  ASSUME TypeOK, FinaliseOrder, MarkerFails, [Next]_vars
  PROVE  FinaliseOrder' /\ MarkerFails'
<1>1. block \in Nat
  BY DEF TypeOK
<1>2. CASE UNCHANGED vars
  BY <1>1, <1>2, BatchesUnchanged DEF vars
<1>3. CASE Next
  <2>1. ASSUME NEW sender \in Coordinators, NEW value \in Payments,
               NEW batchType \in L2Usage, NEW commitments \in CommitmentLists,
               SubmitCommitments(sender, value, batchType, commitments)
        PROVE  FinaliseOrder' /\ MarkerFails'
    BY <2>1, SubmitOrder DEF SubmitCommitments
  <2>2. ASSUME NEW sender \in Coordinators, NEW value \in Payments,
               NEW slot \in Slots, submitDeposits(sender, value, slot)
        PROVE  FinaliseOrder' /\ MarkerFails'
    BY <2>2, SubmitOrder DEF submitDeposits
  <2>3. ASSUME NEW marker \in 1 .. nextBatchID - 1, NEW nActual \in Nat,
               rollback(marker, nActual),
               \/ marker = invalidBatchMarker
               \/ /\ isDisputable(marker)
                  /\ Fails(marker)
        PROVE  FinaliseOrder' /\ MarkerFails'
    <3>1. Fails(marker)
      BY <2>3 DEF MarkerFails, isNotRollingBack
    <3> QED
      BY <2>3, <3>1, RollbackOrder
  <2>4. ASSUME NEW sender, NEW batchID, withdrawStake(sender, batchID)
        PROVE  FinaliseOrder' /\ MarkerFails'
    BY <1>1, <2>4, BatchesUnchanged DEF withdrawStake
  <2>5. SubtreeReady => FinaliseOrder' /\ MarkerFails'
    BY <1>1, BatchesUnchanged DEF SubtreeReady
  <2>6. NewBlock => FinaliseOrder' /\ MarkerFails'
    BY <1>1, BatchesUnchanged DEF NewBlock
  <2> QED
    BY <1>3, <2>1, <2>2, <2>3, <2>4, <2>5, <2>6, NextCases
<1> QED
  BY <1>2, <1>3

-----------------------------------------------------------------------------
(***************************************************************************)
(* The theorems.                                                           *)
(***************************************************************************)
\* The inductive invariant holds initially.
LEMMA InitIInv == Init => IInv
<1> SUFFICES ASSUME Init PROVE IInv
  OBVIOUS
<1>1. StakeLedger
  <2>1. Cardinality({}) = 0
    BY FS_EmptySet
  <2> QED
    BY <2>1, RollupAssumption DEF Init, StakeLedger
<1>2. FinaliseOrder /\ MarkerFails
  <2>1. block = 0 /\ DOMAIN batches = {0} /\ batches[0].finaliseOn = 0
    BY DEF Init, Batch
  <2> QED
    BY <2>1, RollupAssumption
    DEF Init, FinaliseOrder, MarkerFails, isNotRollingBack
<1> QED
  BY <1>1, <1>2, InitTypeOK DEF IInv

\* The inductive invariant is kept by every step.
LEMMA NextIInv == IInv /\ [Next]_vars => IInv'
  BY NextTypeOK, NextStakeLedger, NextOrder DEF IInv

\* The inductive invariant holds in every reachable state.
THEOREM Invariance == Spec => []IInv
  BY InitIInv, NextIInv, PTL DEF Spec

\* Rollup.sol and BatchManager.sol keep their variables in their types: batchIDs
\* stay contiguous and the marker points at a batch still to be deleted.
THEOREM TypeCorrect == Spec => []TypeOK
<1>1. IInv => TypeOK
  BY DEF IInv
<1> QED
  BY <1>1, Invariance, PTL

\* submitBatch, rollback and withdrawStake account for every stake: what the
\* contract holds is determined by nextBatchID and the withdrawal bitmap.
THEOREM StakesAccounted == Spec => []StakeLedger
<1>1. IInv => StakeLedger
  BY DEF IInv
<1> QED
  BY <1>1, Invariance, PTL

\* isDisputable stops a dispute at finaliseOn, and batches become final in their
\* order, so no roll back reaches below a batch that is final and standing.
THEOREM FinalisedPermanent == Spec => FinalisedIsPermanent
<1> DEFINE Kept(id) == id \in DOMAIN batches' /\ batches'[id] = batches[id]
           Step == \A id \in DOMAIN batches :
                     block >= batches[id].finaliseOn /\ Standing(id) => Kept(id)
<1>1. ASSUME IInv, [Next]_vars PROVE Step
  <2> USE DEF IInv
  <2>1. CASE UNCHANGED vars
    BY <1>1, <2>1 DEF vars
  <2>2. CASE Next
    <3>1. ASSUME NEW commitments, NEW batchType, NEW sender, NEW value,
                 submitBatch(commitments, batchType, sender, value)
          PROVE  Step
      <4>1. DOMAIN batches \subseteq DOMAIN batches'
        BY <1>1, <3>1, SubmitAppends DEF TypeOK
      <4> QED
        BY <1>1, <3>1, <4>1, SubmitAppends
    <3>2. ASSUME NEW marker \in 1 .. nextBatchID - 1, NEW nActual \in Nat,
                 rollback(marker, nActual),
                 marker = invalidBatchMarker \/ isDisputable(marker)
          PROVE  Step
      <4> SUFFICES ASSUME NEW id \in DOMAIN batches,
                          block >= batches[id].finaliseOn, Standing(id)
                   PROVE  Kept(id)
        OBVIOUS
      <4>1. id < marker
        <5>1. CASE marker = invalidBatchMarker
          BY <5>1 DEF Standing
        <5>2. CASE isDisputable(marker)
          <6>1. /\ marker \in DOMAIN batches /\ block < batches[marker].finaliseOn
                /\ block \in Nat /\ id \in Nat /\ marker \in Nat
                /\ batches[id].finaliseOn \in Nat
                /\ batches[marker].finaliseOn \in Nat
            BY <1>1, <5>2 DEF isDisputable, TypeOK, BatchType
          <6>2. marker <= id => batches[marker].finaliseOn <= batches[id].finaliseOn
            BY <1>1, <6>1 DEF FinaliseOrder
          <6>3. ~(marker <= id)
            BY <6>1, <6>2
          <6> QED
            BY <6>1, <6>3
        <5> QED
          BY <3>2, <5>1, <5>2
      <4>2. /\ DOMAIN batches = 0 .. nextBatchID - 1 /\ nextBatchID \in Nat \ {0}
            /\ nActual \in 0 .. nextBatchID - marker
            /\ DOMAIN batches' = 0 .. nextBatchID - nActual - 1
            /\ \A old \in DOMAIN batches' : batches'[old] = batches[old]
        BY <1>1, <3>2, RollbackTruncates DEF TypeOK
      <4>3. id \in DOMAIN batches'
        BY <4>1, <4>2
      <4> QED
        BY <4>2, <4>3
    <3>3. UNCHANGED batches => Step
      OBVIOUS
    <3> HIDE DEF Step
    <3>4. ASSUME NEW sender \in Coordinators, NEW value \in Payments,
                 NEW batchType \in L2Usage, NEW commitments \in CommitmentLists,
                 SubmitCommitments(sender, value, batchType, commitments)
          PROVE  Step
      BY <3>1, <3>4 DEF SubmitCommitments
    <3>5. ASSUME NEW sender \in Coordinators, NEW value \in Payments,
                 NEW slot \in Slots, submitDeposits(sender, value, slot)
          PROVE  Step
      BY <3>1, <3>5 DEF submitDeposits
    <3>6. ASSUME NEW sender, NEW batchID, withdrawStake(sender, batchID)
          PROVE  Step
      BY <3>3, <3>6 DEF withdrawStake
    <3>7. SubtreeReady \/ NewBlock => Step
      BY <3>3 DEF SubtreeReady, NewBlock
    <3> QED
      BY <1>1, <2>2, <3>2, <3>4, <3>5, <3>6, <3>7, NextCases
  <2> QED
    BY <1>1, <2>1, <2>2
<1> QED
  BY <1>1, Invariance, PTL DEF Spec, FinalisedIsPermanent

\* A dispute function only fails a batch that is wrong or Exposed: those of its
\* own kind, given a commitment and the one before it, fail what is not Correct.
LEMMA FailsHasGrounds ==
  ASSUME TypeOK, NEW id \in DOMAIN batches, Fails(id)
  PROVE  ~Correct(id) \/ Exposed(id)
<1> DEFINE batch == batches[id]
           size  == Len(batch.commitments)
<1>1. SUFFICES ASSUME ~Exposed(id), Correct(id) PROVE FALSE
  OBVIOUS
<1>2. PICK kind \in Usages, path \in Paths(batch.commitments) :
        /\ Reads(kind, batch.batchType)
        /\ TransitionFails(kind, id, path) \/ SignatureFails(kind, id, path)
  BY DEF Fails
<1>3. kind = batch.batchType /\ kind \in Usages
  BY <1>1, <1>2 DEF Reads, Exposed
<1>4. size \in Nat /\ DOMAIN batch.commitments = 1 .. size
  <2>1. batch \in BatchType
    BY DEF TypeOK
  <2>2. batch.commitments \in Commitments
    BY <2>1 DEF BatchType, Commitments
  <2> HIDE DEF batch
  <2> QED
    BY <2>2 DEF Commitments
<1>5. path \in 0 .. size - 1
  BY <1>1, <1>2, <1>3 DEF Paths, Exposed
<1> PICK i : i = path + 1
  OBVIOUS
<1>6. i \in DOMAIN batch.commitments /\ i - 1 = path /\ path # size
  BY <1>4, <1>5
<1>7. Target(batch.commitments, path) = batch.commitments[i]
  <2>1. PICK m, q, r : m = size /\ q = path \div m /\ r = path % m
    OBVIOUS
  <2>2. m \in Nat \ {0} /\ path \in Nat /\ path < m
    BY <1>4, <1>5, <2>1
  <2>3. q \in Nat /\ r \in 0 .. m - 1 /\ path = m * q + r
    <3>1. /\ path \div m \in Nat /\ path % m \in 0 .. m - 1
          /\ path = m * (path \div m) + (path % m)
      BY <2>2
    <3> QED
      BY <2>1, <3>1
  <2>4. q < 1
    <3>1. q >= 1 => m * q >= m
      BY <2>2, <2>3
    <3> QED
      BY <2>2, <2>3, <3>1
  <2>5. path % size = path
    <3>1. q = 0
      BY <2>3, <2>4
    <3>2. m * q = 0
      BY <2>2, <3>1
    <3>3. r = path
      BY <2>2, <2>3, <3>2
    <3> QED
      BY <2>1, <3>3
  <2> QED
    BY <2>5 DEF Target
<1>8. /\ batch.commitments[i].body.replay[kind] = "Ok"
      /\ batch.commitments[i].body.signature[kind] = "Ok"
      /\ batch.commitments[i].stateRoot =
           Processed(kind, PreviousStateRoot(id, path), batch.commitments[i].body)
  BY <1>1, <1>3, <1>6 DEF Correct
<1> QED
  BY <1>2, <1>6, <1>7, <1>8 DEF TransitionFails, SignatureFails

\* rollback deletes from the newest batch down to the one that a dispute failed
\* and to nothing below it, in as many calls as it takes; and only a batch that
\* is wrong or Exposed fails a dispute.
THEOREM GroundsForRollback == Spec => RollbackHasGrounds
<1> DEFINE Step == nextBatchID' < nextBatchID =>
                     LET base == Origin(invalidBatchMarker', nextBatchID')
                     IN  base \in DOMAIN batches /\ (~Correct(base) \/ Exposed(base))
<1>1. ASSUME IInv, [Next]_vars PROVE Step
  <2> USE DEF IInv
  <2>0. nextBatchID \in Nat
    BY <1>1 DEF TypeOK
  <2>1. CASE UNCHANGED vars
    BY <1>1, <2>0, <2>1 DEF vars
  <2>2. CASE Next
    <3>1. ASSUME NEW commitments, NEW batchType, NEW sender, NEW value,
                 submitBatch(commitments, batchType, sender, value)
          PROVE  Step
      BY <2>0, <3>1 DEF submitBatch
    <3>2. ASSUME NEW marker \in 1 .. nextBatchID - 1, NEW nActual \in Nat,
                 rollback(marker, nActual),
                 \/ marker = invalidBatchMarker
                 \/ /\ isDisputable(marker)
                    /\ Fails(marker)
          PROVE  Step
      <4>1. marker \in DOMAIN batches
        BY <1>1 DEF TypeOK
      <4>2. ~Correct(marker) \/ Exposed(marker)
        BY <1>1, <3>2, <4>1, FailsHasGrounds DEF MarkerFails, isNotRollingBack
      <4>3. Origin(invalidBatchMarker', nextBatchID') = marker
        <5>1. \/ nActual = nextBatchID - marker /\ invalidBatchMarker' = 0
              \/ invalidBatchMarker' = marker
          BY <3>2 DEF rollback, MarkerAfter, nExpect
        <5>2. nextBatchID' = nextBatchID - nActual
          BY <3>2 DEF rollback
        <5> QED
          BY <2>0, <5>1, <5>2 DEF Origin
      <4> QED
        BY <4>1, <4>2, <4>3
    <3>3. UNCHANGED nextBatchID => Step
      BY <2>0
    <3> HIDE DEF Step
    <3>4. ASSUME NEW sender \in Coordinators, NEW value \in Payments,
                 NEW batchType \in L2Usage, NEW commitments \in CommitmentLists,
                 SubmitCommitments(sender, value, batchType, commitments)
          PROVE  Step
      BY <3>1, <3>4 DEF SubmitCommitments
    <3>5. ASSUME NEW sender \in Coordinators, NEW value \in Payments,
                 NEW slot \in Slots, submitDeposits(sender, value, slot)
          PROVE  Step
      BY <3>1, <3>5 DEF submitDeposits
    <3>6. ASSUME NEW sender, NEW batchID, withdrawStake(sender, batchID)
          PROVE  Step
      BY <3>3, <3>6 DEF withdrawStake
    <3>7. SubtreeReady \/ NewBlock => Step
      BY <3>3 DEF SubtreeReady, NewBlock
    <3> QED
      BY <1>1, <2>2, <3>2, <3>4, <3>5, <3>6, <3>7, NextCases
  <2> QED
    BY <1>1, <2>1, <2>2
<1> QED
  BY <1>1, Invariance, PTL DEF Spec, RollbackHasGrounds

\* The marker only moves down while a roll back is under way, nothing is
\* submitted meanwhile, and it is reset when the last marked batch is gone.
THEOREM RollbackThorough == Spec => RollbackIsThorough
<1> DEFINE Step == ~isNotRollingBack =>
                     /\ nextBatchID' <= nextBatchID
                     /\ invalidBatchMarker' <= invalidBatchMarker
                     /\ invalidBatchMarker' = 0 => nextBatchID' <= invalidBatchMarker
<1>1. ASSUME IInv, [Next]_vars PROVE Step
  <2>1. /\ nextBatchID \in Nat \ {0} /\ invalidBatchMarker \in Nat
        /\ invalidBatchMarker < nextBatchID
    BY <1>1 DEF IInv, TypeOK
  <2>2. UNCHANGED <<nextBatchID, invalidBatchMarker>> => Step
    BY <2>1 DEF isNotRollingBack
  <2>3. CASE UNCHANGED vars
    BY <2>2, <2>3 DEF vars
  <2>4. CASE Next
    <3>1. ASSUME NEW marker \in 1 .. nextBatchID - 1, NEW nActual \in Nat,
                 rollback(marker, nActual),
                 marker = invalidBatchMarker \/ isDisputable(marker)
          PROVE  Step
      <4>1. /\ nextBatchID' = nextBatchID - nActual
            /\ \/ invalidBatchMarker' = 0 /\ nextBatchID' = marker
               \/ invalidBatchMarker' = marker
        BY <1>1, <3>1, RollbackTruncates DEF IInv
      <4>2. ~isNotRollingBack => marker <= invalidBatchMarker
        BY <2>1, <3>1 DEF isDisputable, isNotRollingBack
      <4> QED
        BY <2>1, <4>1, <4>2
    <3>2. ASSUME isNotRollingBack PROVE Step
      BY <3>2
    <3> HIDE DEF Step
    <3>3. ASSUME NEW sender \in Coordinators, NEW value \in Payments,
                 NEW batchType \in L2Usage, NEW commitments \in CommitmentLists,
                 SubmitCommitments(sender, value, batchType, commitments)
          PROVE  Step
      BY <3>2, <3>3 DEF SubmitCommitments
    <3>4. ASSUME NEW sender \in Coordinators, NEW value \in Payments,
                 NEW slot \in Slots, submitDeposits(sender, value, slot)
          PROVE  Step
      BY <3>2, <3>4 DEF submitDeposits
    <3>5. ASSUME NEW sender, NEW batchID, withdrawStake(sender, batchID)
          PROVE  Step
      BY <2>2, <3>5 DEF withdrawStake
    <3>6. SubtreeReady \/ NewBlock => Step
      BY <2>2 DEF SubtreeReady, NewBlock
    <3> QED
      BY <1>1, <2>4, <3>1, <3>3, <3>4, <3>5, <3>6, NextCases DEF IInv
  <2> QED
    BY <1>1, <2>3, <2>4
<1> QED
  BY <1>1, Invariance, PTL DEF Spec, RollbackIsThorough

-----------------------------------------------------------------------------
(***************************************************************************)
(* The deposits.                                                           *)
(***************************************************************************)
InQueue(k) == \E i \in DOMAIN queue : queue[i] = k

Included(k) ==
  \E id \in DOMAIN deposits \cap DOMAIN batches :
    batches[id].batchType = "Deposit" /\ deposits[id] = k

\* NoSubtreeLost, in terms of the two places a subtree can be in.
LEMMA NoSubtreeLostParts ==
  NoSubtreeLost <=> \A k \in 1 .. ready : InQueue(k) \/ Included(k)
BY DEF NoSubtreeLost, InQueue, Included

\* A submission leaves the recorded subtrees of the batches in place.
LEMMA SubmitKeepsIncluded ==
  ASSUME TypeOK, NEW commitments, NEW batchType, NEW sender, NEW value,
         submitBatch(commitments, batchType, sender, value),
         \A id \in DOMAIN deposits \ {nextBatchID} :
           id \in DOMAIN deposits' /\ deposits'[id] = deposits[id],
         NEW k, Included(k)
  PROVE  Included(k)'
<1>1. PICK id \in DOMAIN deposits \cap DOMAIN batches :
        batches[id].batchType = "Deposit" /\ deposits[id] = k
  BY DEF Included
<1>2. id # nextBatchID /\ id \in DOMAIN batches'
  BY SubmitAppends DEF TypeOK
<1>3. batches'[id] = batches[id]
  BY SubmitAppends
<1>4. id \in DOMAIN deposits' /\ deposits'[id] = deposits[id]
  BY <1>1, <1>2
<1> QED
  BY <1>1, <1>2, <1>3, <1>4 DEF Included

\* submitDeposits moves the subtree at the head of the queue into a batch.
LEMMA DepositsKeepSubtrees ==
  ASSUME TypeOK, NoSubtreeLost, NEW sender \in Coordinators,
         NEW value \in Payments, NEW slot \in Slots,
         submitDeposits(sender, value, slot)
  PROVE  NoSubtreeLost'
<1> DEFINE previous == LastStateRoot(batches[nextBatchID - 1].commitments)
           made     == Single([previous EXCEPT ![slot] = Head(queue)])
<1>1. /\ submitBatch(made, "Deposit", sender, value)
      /\ queue # <<>> /\ queue' = Tail(queue) /\ ready' = ready
      /\ deposits' = [id \in DOMAIN deposits \cup {nextBatchID} |->
                        IF id = nextBatchID THEN Head(queue) ELSE deposits[id]]
  BY DEF submitDeposits, DepositManager!Dequeue
<1> HIDE DEF made
<1>2. ASSUME NEW k \in 1 .. ready, Included(k) PROVE Included(k)'
  BY <1>1, <1>2, SubmitKeepsIncluded
<1>3. ASSUME NEW k, k = Head(queue) PROVE Included(k)'
  <2>1. /\ nextBatchID \in DOMAIN batches'
        /\ batches'[nextBatchID] = Batch(made, "Deposit", sender,
                                         block + paramBlocksToFinalise)
    BY <1>1, SubmitAppends
  <2>2. batches'[nextBatchID].batchType = "Deposit"
    BY <2>1 DEF Batch
  <2> QED
    BY <1>1, <1>3, <2>1, <2>2 DEF Included
<1>4. ASSUME NEW k \in 1 .. ready, InQueue(k)
      PROVE  k = Head(queue) \/ InQueue(k)'
  <2>1. queue \in Seq(1 .. ready)
    BY DEF TypeOK
  <2>2. PICK i \in 1 .. Len(queue) : queue[i] = k
    BY <1>4, <2>1 DEF InQueue
  <2>3. CASE i = 1
    BY <2>1, <2>2, <2>3
  <2>4. CASE i # 1
    <3>1. /\ i - 1 \in 1 .. Len(Tail(queue)) /\ Tail(queue) \in Seq(1 .. ready)
          /\ Tail(queue)[i - 1] = queue[i]
      BY <1>1, <2>1, <2>2, <2>4, HeadTailProperties
    <3>2. i - 1 \in DOMAIN Tail(queue)
      BY <3>1
    <3> QED
      BY <1>1, <2>2, <3>1, <3>2 DEF InQueue
  <2> QED
    BY <2>3, <2>4
<1>5. \A k \in 1 .. ready' : InQueue(k)' \/ Included(k)'
  BY <1>1, <1>2, <1>3, <1>4, NoSubtreeLostParts
<1> QED
  BY <1>5 DEF NoSubtreeLost, InQueue, Included

\* rollback moves the subtrees of the batches it deletes back into the queue.
LEMMA RollbackKeepsSubtrees ==
  ASSUME TypeOK, NoSubtreeLost, NEW marker \in 1 .. nextBatchID - 1,
         NEW nActual, rollback(marker, nActual)
  PROVE  NoSubtreeLost'
<1>1. deposits' = deposits /\ ready' = ready
  BY DEF rollback, DepositManager!Reenqueue
<1>2. ASSUME NEW k \in 1 .. ready, InQueue(k) PROVE InQueue(k)'
  BY <1>2, RollbackRequeues DEF InQueue
<1>3. ASSUME NEW k \in 1 .. ready, Included(k) PROVE InQueue(k)' \/ Included(k)'
  <2>1. PICK id \in DOMAIN deposits \cap DOMAIN batches :
          batches[id].batchType = "Deposit" /\ deposits[id] = k
    BY <1>3 DEF Included
  <2>2. CASE id \in DOMAIN batches'
    BY <1>1, <2>1, <2>2, RollbackTruncates DEF Included
  <2>3. CASE id \notin DOMAIN batches'
    BY <2>1, <2>3, RollbackRequeues DEF InQueue
  <2> QED
    BY <2>2, <2>3
<1>4. \A k \in 1 .. ready' : InQueue(k)' \/ Included(k)'
  BY <1>1, <1>2, <1>3, NoSubtreeLostParts
<1> QED
  BY <1>4 DEF NoSubtreeLost, InQueue, Included

\* rollback re-enqueues every subtree whose batch it deletes and submitDeposits
\* records the one it dequeues, so no completed subtree is ever lost.
THEOREM SubtreesKept == Spec => []NoSubtreeLost
<1>1. Init => NoSubtreeLost
  BY DEF Init, NoSubtreeLost, DepositManager!QueueInit
<1>2. ASSUME IInv, NoSubtreeLost, [Next]_vars PROVE NoSubtreeLost'
  <2> USE DEF IInv
  <2>1. ASSUME UNCHANGED <<batches, deposits, queue, ready>>
        PROVE  NoSubtreeLost'
    BY <1>2, <2>1 DEF NoSubtreeLost
  <2>2. CASE UNCHANGED vars
    BY <2>1, <2>2 DEF vars, depositVars
  <2>3. CASE Next
    <3>1. ASSUME NEW sender \in Coordinators, NEW value \in Payments,
                 NEW batchType \in L2Usage, NEW commitments \in CommitmentLists,
                 SubmitCommitments(sender, value, batchType, commitments)
          PROVE  NoSubtreeLost'
      <4>1. /\ submitBatch(commitments, batchType, sender, value)
            /\ UNCHANGED <<deposits, queue, ready>>
        BY <3>1 DEF SubmitCommitments, depositVars
      <4>2. \A k \in 1 .. ready : InQueue(k) => InQueue(k)'
        BY <4>1 DEF InQueue
      <4>3. \A k \in 1 .. ready : Included(k) => Included(k)'
        BY <1>2, <4>1, SubmitKeepsIncluded
      <4>4. \A k \in 1 .. ready' : InQueue(k)' \/ Included(k)'
        BY <1>2, <4>1, <4>2, <4>3, NoSubtreeLostParts
      <4> QED
        BY <4>4 DEF NoSubtreeLost, InQueue, Included
    <3>2. ASSUME NEW sender, NEW batchID, withdrawStake(sender, batchID)
          PROVE  NoSubtreeLost'
      BY <2>1, <3>2 DEF withdrawStake, depositVars
    <3>3. ASSUME SubtreeReady PROVE NoSubtreeLost'
      <4>1. /\ queue \in Seq(1 .. ready) /\ ready \in Nat
            /\ queue' = Append(queue, ready + 1) /\ ready' = ready + 1
            /\ UNCHANGED <<batches, deposits>>
        BY <1>2, <3>3
        DEF TypeOK, SubtreeReady, DepositManager!SubtreeReady
      <4>2. /\ Len(queue) + 1 \in DOMAIN queue'
            /\ queue'[Len(queue) + 1] = ready'
            /\ \A i \in DOMAIN queue : i \in DOMAIN queue' /\ queue'[i] = queue[i]
        BY <4>1
      <4>3. \A k \in 1 .. ready : InQueue(k) => InQueue(k)'
        BY <4>2 DEF InQueue
      <4>4. \A k \in 1 .. ready : Included(k) => Included(k)'
        BY <4>1 DEF Included
      <4>5. \A k \in 1 .. ready' : k \in 1 .. ready \/ k = ready'
        BY <4>1
      <4>6. \A k \in 1 .. ready' : InQueue(k)' \/ Included(k)'
        <5>1. \A k \in 1 .. ready : InQueue(k)' \/ Included(k)'
          BY <1>2, <4>3, <4>4, NoSubtreeLostParts
        <5>2. \A k : k = ready' => InQueue(k)'
          BY <4>2 DEF InQueue
        <5> QED
          BY <4>5, <5>1, <5>2
      <4> QED
        BY <4>6 DEF NoSubtreeLost, InQueue, Included
    <3>4. NewBlock => NoSubtreeLost'
      BY <2>1 DEF NewBlock, depositVars
    <3> QED
      BY <1>2, <2>3, <3>1, <3>2, <3>3, <3>4, NextCases, DepositsKeepSubtrees,
         RollbackKeepsSubtrees
  <2> QED
    BY <1>2, <2>2, <2>3
<1>3. IInv /\ NoSubtreeLost /\ [Next]_vars => NoSubtreeLost'
  BY <1>2
<1> QED
  BY <1>1, <1>3, Invariance, PTL DEF Spec

(***************************************************************************)
(* The chain: the contract implements the chain of batches that the        *)
(* contracts and clients around it rely on (module BatchChain).            *)
(***************************************************************************)
links == [id \in 1 .. nextBatchID - 1 |-> Link(batches[id])]

LinkType == [content : {"Deposit"} \cup L2Usage \cup {"Genesis"}, finaliseOn : Nat]

\* What a map of batches stands for is a sequence of links.
LEMMA LinksAreSeq ==
  ASSUME NEW n \in Nat \ {0}, NEW f, \A id \in 0 .. n - 1 : f[id] \in BatchType
  PROVE  /\ [id \in 1 .. n - 1 |-> Link(f[id])] \in Seq(LinkType)
         /\ Len([id \in 1 .. n - 1 |-> Link(f[id])]) = n - 1
<1>1. n - 1 \in Nat /\ 1 .. n - 1 \subseteq 0 .. n - 1
  OBVIOUS
<1>2. [id \in 1 .. n - 1 |-> Link(f[id])] \in [1 .. n - 1 -> LinkType]
  BY <1>1 DEF BatchType, Link, LinkType
<1> HIDE DEF LinkType
<1> QED
  BY <1>1, <1>2, FunctionIsSeq

\* The chain is a sequence, one link for each batch after genesis.
LEMMA LinksType ==
  ASSUME TypeOK
  PROVE  /\ links \in Seq(LinkType) /\ Len(links) = nextBatchID - 1
         /\ DOMAIN links = 1 .. nextBatchID - 1
         /\ \A id \in 1 .. nextBatchID - 1 : links[id] = Link(batches[id])
<1>1. /\ nextBatchID \in Nat \ {0}
      /\ \A id \in 0 .. nextBatchID - 1 : batches[id] \in BatchType
  BY DEF TypeOK
<1> QED
  BY <1>1, LinksAreSeq DEF links

\* The same of the chain after a step.
LEMMA LinksTypeNext ==
  ASSUME TypeOK'
  PROVE  /\ links' \in Seq(LinkType) /\ Len(links') = nextBatchID' - 1
         /\ \A id \in 1 .. nextBatchID' - 1 : links'[id] = Link(batches'[id])
<1>1. /\ nextBatchID' \in Nat \ {0}
      /\ \A id \in 0 .. nextBatchID' - 1 : batches'[id] \in BatchType
  BY DEF TypeOK, BatchType
<1>2. links' = [id \in 1 .. nextBatchID' - 1 |-> Link(batches'[id])]
  BY DEF links, Link
<1> HIDE DEF LinkType
<1> QED
  BY <1>1, <1>2, LinksAreSeq

\* submitBatch is a Submit of the chain.
LEMMA SubmitIsSubmit ==
  ASSUME TypeOK, TypeOK', NEW commitments, NEW batchType, NEW sender, NEW value,
         batchType \in {"Deposit"} \cup L2Usage,
         submitBatch(commitments, batchType, sender, value),
         isNotRollingBack, UNCHANGED <<block, invalidBatchMarker>>
  PROVE  Chain!Submit(batchType)
<1> DEFINE link == [content |-> batchType,
                    finaliseOn |-> block + paramBlocksToFinalise]
           longer == Append(links, link)
<1>1. link \in LinkType
  BY RollupAssumption DEF TypeOK, LinkType
<1>2. /\ nextBatchID \in Nat \ {0} /\ nextBatchID' = nextBatchID + 1
      /\ \A id \in 0 .. nextBatchID - 1 : batches'[id] = batches[id]
      /\ batches'[nextBatchID] = Batch(commitments, batchType, sender,
                                       block + paramBlocksToFinalise)
  BY SubmitAppends DEF TypeOK
<1>3. /\ links \in Seq(LinkType) /\ Len(links) = nextBatchID - 1
      /\ \A id \in 1 .. nextBatchID - 1 : links[id] = Link(batches[id])
  BY LinksType
<1>4. /\ links' \in Seq(LinkType) /\ Len(links') = nextBatchID
      /\ \A id \in 1 .. nextBatchID : links'[id] = Link(batches'[id])
  <2>1. /\ links' \in Seq(LinkType) /\ Len(links') = nextBatchID' - 1
        /\ \A id \in 1 .. nextBatchID' - 1 : links'[id] = Link(batches'[id])
    BY LinksTypeNext
  <2> QED
    BY <1>2, <2>1
<1>5. /\ longer \in Seq(LinkType) /\ Len(longer) = nextBatchID
      /\ \A id \in 1 .. nextBatchID - 1 : longer[id] = links[id]
      /\ longer[nextBatchID] = link
  <2> HIDE DEF link, LinkType
  <2> QED
    BY <1>1, <1>2, <1>3
<1>6. \A id \in 1 .. nextBatchID : links'[id] = longer[id]
  <2> SUFFICES ASSUME NEW id \in 1 .. nextBatchID PROVE links'[id] = longer[id]
    OBVIOUS
  <2>1. CASE id = nextBatchID
    <3>1. Link(batches'[nextBatchID]) = link
      BY <1>2 DEF Link, Batch
    <3> QED
      BY <1>4, <1>5, <2>1, <3>1
  <2>2. CASE id \in 1 .. nextBatchID - 1
    <3>1. batches'[id] = batches[id]
      BY <1>2, <2>2
    <3> QED
      BY <1>2, <1>3, <1>4, <1>5, <2>2, <3>1
  <2>3. id = nextBatchID \/ id \in 1 .. nextBatchID - 1
    BY <1>2
  <2> HIDE DEF longer
  <2> QED
    BY <2>1, <2>2, <2>3
<1>7. links' = longer
  <2> HIDE DEF longer, link, LinkType
  <2> QED
    BY <1>4, <1>5, <1>6, SeqEqual
<1> QED
  BY <1>7 DEF Chain!Submit, isNotRollingBack, links

\* rollback cuts the same tail off the chain.
LEMMA RollbackIsRollBack ==
  ASSUME TypeOK, TypeOK', NEW marker \in 1 .. nextBatchID - 1,
         NEW nActual \in Nat, rollback(marker, nActual)
  PROVE  /\ Chain!RollBack(marker, nActual)
         /\ marker \in DOMAIN links /\ nActual \in 0 .. Len(links)
<1> DEFINE shorter == SubSeq(links, 1, Len(links) - nActual)
<1>1. /\ nextBatchID \in Nat \ {0} /\ nActual \in 0 .. nextBatchID - marker
      /\ nextBatchID' = nextBatchID - nActual /\ nextBatchID' \in Nat \ {0}
  BY RollbackTruncates DEF TypeOK
<1>2. /\ links \in Seq(LinkType) /\ Len(links) = nextBatchID - 1
      /\ DOMAIN links = 1 .. nextBatchID - 1
      /\ \A id \in 1 .. nextBatchID - 1 : links[id] = Link(batches[id])
  BY LinksType
<1>3. /\ links' \in Seq(LinkType) /\ Len(links') = nextBatchID' - 1
      /\ \A id \in 1 .. nextBatchID' - 1 : links'[id] = Link(batches'[id])
  BY LinksTypeNext
<1>4. /\ shorter \in Seq(LinkType) /\ Len(shorter) = nextBatchID' - 1
      /\ \A id \in 1 .. nextBatchID' - 1 : shorter[id] = links[id]
  <2>1. \A id \in 1 .. nextBatchID' - 1 : links[id] \in LinkType
    BY <1>1, <1>2, ElementOfSeq
  <2>2. Len(links) - nActual = nextBatchID' - 1
    BY <1>1, <1>2
  <2> HIDE DEF LinkType
  <2> QED
    BY <1>1, <2>1, <2>2, SubSeqProperties
<1>5. \A id \in 1 .. nextBatchID' - 1 : links'[id] = shorter[id]
  <2> SUFFICES ASSUME NEW id \in 1 .. nextBatchID' - 1
               PROVE  links'[id] = shorter[id]
    OBVIOUS
  <2>1. batches'[id] = batches[id]
    BY RollbackTruncates
  <2>2. id \in 1 .. nextBatchID - 1
    BY <1>1
  <2> HIDE DEF shorter
  <2> QED
    BY <1>2, <1>3, <1>4, <2>1, <2>2
<1>6. links' = shorter
  <2> HIDE DEF shorter, LinkType
  <2> QED
    BY <1>3, <1>4, <1>5, SeqEqual
<1>7. /\ invalidBatchMarker' = IF nActual = Len(links) - marker + 1 THEN 0 ELSE marker
      /\ nActual \in 0 .. Len(links) - marker + 1
      /\ UNCHANGED block
  <2>1. /\ invalidBatchMarker' = IF nActual = nextBatchID - marker THEN 0 ELSE marker
        /\ UNCHANGED block
    BY DEF rollback, MarkerAfter, nExpect
  <2> QED
    BY <1>1, <1>2, <2>1
<1>8. Chain!RollBack(marker, nActual)
  BY <1>6, <1>7 DEF Chain!RollBack, links
<1> QED
  BY <1>1, <1>2, <1>8

\* Every step of the contract is a step of the chain or leaves it alone.
LEMMA StepIsChainStep ==
  IInv /\ IInv' /\ [Next]_vars => [Chain!ChainNext]_(Chain!chainVars)
<1> SUFFICES ASSUME IInv, IInv', [Next]_vars
             PROVE  [Chain!ChainNext]_(Chain!chainVars)
  OBVIOUS
<1> DEFINE Step == Chain!ChainNext \/ UNCHANGED Chain!chainVars
<1>0. TypeOK /\ TypeOK' /\ FinaliseOrder
  BY DEF IInv
<1>1. UNCHANGED <<block, batches, nextBatchID, invalidBatchMarker>> => Step
  BY DEF Chain!chainVars
<1>2. CASE UNCHANGED vars
  BY <1>1, <1>2 DEF vars
<1>3. CASE Next
  <2>1. ASSUME NEW sender \in Coordinators, NEW value \in Payments,
               NEW batchType \in L2Usage, NEW commitments \in CommitmentLists,
               SubmitCommitments(sender, value, batchType, commitments)
        PROVE  Step
    <3>1. Chain!Submit(batchType)
      BY <1>0, <2>1, SubmitIsSubmit DEF SubmitCommitments
    <3> QED
      BY <3>1 DEF Chain!ChainNext
  <2>2. ASSUME NEW sender \in Coordinators, NEW value \in Payments,
               NEW slot \in Slots, submitDeposits(sender, value, slot)
        PROVE  Step
    <3>1. Chain!Submit("Deposit")
      BY <1>0, <2>2, SubmitIsSubmit DEF submitDeposits
    <3> QED
      BY <3>1 DEF Chain!ChainNext
  <2>3. ASSUME NEW marker \in 1 .. nextBatchID - 1, NEW nActual \in Nat,
               rollback(marker, nActual),
               marker = invalidBatchMarker \/ isDisputable(marker)
        PROVE  Step
    <3>1. /\ Chain!RollBack(marker, nActual)
          /\ marker \in DOMAIN links /\ nActual \in 0 .. Len(links)
      BY <1>0, <2>3, RollbackIsRollBack
    <3>2. CASE marker = invalidBatchMarker
      <4>1. Chain!KeepRollingBack(nActual)
        BY <3>1, <3>2 DEF Chain!KeepRollingBack
      <4> QED
        BY <3>1, <4>1 DEF Chain!ChainNext, links
    <3>3. CASE isDisputable(marker)
      <4>1. ~Chain!Final(marker)
        <5>1. links[marker] = Link(batches[marker])
          BY <1>0, LinksType
        <5>2. block \in Nat /\ batches[marker].finaliseOn \in Nat
          BY <1>0, <3>3 DEF TypeOK, BatchType, isDisputable
        <5> QED
          BY <3>3, <5>1, <5>2 DEF Chain!Final, links, Link, isDisputable
      <4>2. Chain!Dispute(marker, nActual)
        BY <3>1, <3>3, <4>1 DEF Chain!Dispute, Chain!Standing, isDisputable
      <4> QED
        BY <3>1, <4>2 DEF Chain!ChainNext, links
    <3> QED
      BY <2>3, <3>2, <3>3
  <2>4. ASSUME NEW sender, NEW batchID, withdrawStake(sender, batchID)
        PROVE  Step
    BY <1>1, <2>4 DEF withdrawStake
  <2>5. SubtreeReady => Step
    BY <1>1 DEF SubtreeReady
  <2>6. NewBlock => Step
    <3>1. NewBlock => Chain!Tick
      BY DEF NewBlock, Chain!Tick
    <3> QED
      BY <3>1 DEF Chain!ChainNext
  <2>7. Step
    <3> HIDE DEF Step
    <3> QED
      BY <1>0, <1>3, <2>1, <2>2, <2>3, <2>4, <2>5, <2>6, NextCases
  <2> QED
    BY <2>7
<1> QED
  BY <1>2, <1>3

\* The genesis batch is no link of the chain, which begins empty.
LEMMA InitIsChainInit == Init => Chain!ChainInit
<1> SUFFICES ASSUME Init PROVE Chain!ChainInit
  OBVIOUS
<1>1. links = <<>>
  <2>1. links \in Seq(LinkType) /\ Len(links) = 0
    BY InitTypeOK, LinksType DEF Init
  <2> HIDE DEF LinkType
  <2> QED
    BY <2>1, EmptySeq
<1> QED
  BY <1>1 DEF Init, Chain!ChainInit, links

\* Rollup.sol and BatchManager.sol implement a chain of batches of which only
\* tails that are not final are cut off, whatever the stakes, the deposits and
\* the reasons for disputes.
THEOREM ChainImplemented == Spec => ImplementsChain
<1>1. Init => Chain!ChainInit
  BY InitIsChainInit
<1>2. IInv /\ IInv' /\ [Next]_vars => [Chain!ChainNext]_(Chain!chainVars)
  BY StepIsChainStep
<1> QED
  BY <1>1, <1>2, Invariance, PTL DEF Spec, ImplementsChain, Chain!ChainSpec

(***************************************************************************)
(* Deposits are credited.  DepositsCredited says this of the newest state  *)
(* only, and a roll back makes an older one the newest: the inductive      *)
(* invariant says it of the state after each batch.  Along the commitments *)
(* of one batch the proof is by the least counterexample.                  *)
(***************************************************************************)
\* The L2 state after a batch.
Root(id) == LastStateRoot(batches[id].commitments)

\* The state after batch n holds the subtree of every deposit batch up to n.
CreditedAfter(n) ==
  \A id \in DOMAIN deposits \cap DOMAIN batches :
    id <= n /\ batches[id].batchType = "Deposit" =>
      \E slot \in Slots : Root(n)[slot] = deposits[id]

CreditedUpTo ==
  \A n \in DOMAIN batches :
    (\A id \in 1 .. n : Correct(id)) => CreditedAfter(n)

\* process*Commit leaves alone what is not vacant: along commitments that are
\* what their bodies lead to, a subtree stays where it is.
LEMMA ReplayKeeps ==
  ASSUME NEW list \in Commitments, NEW kind, NEW before, NEW slot \in Slots,
         before[slot] # Vacant,
         \A path \in DOMAIN list :
           list[path].stateRoot =
             Processed(kind, IF path = 1 THEN before ELSE list[path - 1].stateRoot,
                       list[path].body)
  PROVE  LastStateRoot(list)[slot] = before[slot]
<1> DEFINE moved == {path \in DOMAIN list :
                       list[path].stateRoot[slot] # before[slot]}
<1>1. DOMAIN list = 1 .. Len(list) /\ Len(list) \in Nat
  BY DEF Commitments
<1>2. SUFFICES ASSUME moved # {} PROVE FALSE
  BY <1>2, LastOfCommitments DEF LastStateRoot
<1>3. moved \subseteq Nat
  BY <1>1
<1>4. PICK path \in moved : \A other \in moved : path <= other
  <2> HIDE DEF moved
  <2> QED
    BY <1>2, <1>3, LeastNumber
<1> DEFINE start == IF path = 1 THEN before ELSE list[path - 1].stateRoot
<1>5. start[slot] = before[slot]
  <2>1. CASE path = 1
    BY <2>1
  <2>2. CASE path # 1
    <3>1. path - 1 \in DOMAIN list /\ ~(path <= path - 1)
      BY <1>1, <1>4, <2>2
    <3>2. path - 1 \notin moved
      BY <1>4, <3>1
    <3> QED
      BY <2>2, <3>1, <3>2
  <2> QED
    BY <2>1, <2>2
<1>6. list[path].stateRoot[slot] = start[slot]
  <2>1. list[path].stateRoot = Processed(kind, start, list[path].body)
    BY <1>4
  <2> HIDE DEF start, moved
  <2> QED
    BY <1>5, <2>1 DEF Processed
<1> QED
  BY <1>4, <1>5, <1>6

-----------------------------------------------------------------------------
\* What is said of the batches that stay does not change: submissions append and
\* roll backs cut off.
LEMMA OldBatchesKeep ==
  ASSUME TypeOK, NEW n \in DOMAIN batches, n \in DOMAIN batches',
         DOMAIN batches' = 0 .. nextBatchID' - 1, nextBatchID' \in Nat,
         \A id \in DOMAIN batches \cap DOMAIN batches' : batches'[id] = batches[id],
         \A id \in DOMAIN batches :
           id \in DOMAIN deposits' <=> id \in DOMAIN deposits,
         \A id \in DOMAIN batches \cap DOMAIN deposits : deposits'[id] = deposits[id],
         CreditedUpTo, \A id \in 1 .. n : Correct(id)'
  PROVE  CreditedAfter(n)'
<1>1. /\ DOMAIN batches = 0 .. nextBatchID - 1 /\ nextBatchID \in Nat
      /\ n \in Nat
  BY DEF TypeOK
<1>2. ASSUME NEW id \in 1 .. n PROVE Correct(id)
  <2>1. /\ id \in DOMAIN batches \cap DOMAIN batches'
        /\ id - 1 \in DOMAIN batches \cap DOMAIN batches'
    BY <1>1
  <2>2. batches'[id] = batches[id] /\ batches'[id - 1] = batches[id - 1]
    BY <2>1
  <2>3. \A path : PreviousStateRoot(id, path)' = PreviousStateRoot(id, path)
    BY <2>2 DEF PreviousStateRoot
  <2>4. Correct(id)'
    OBVIOUS
  <2> QED
    BY <2>2, <2>3, <2>4 DEF Correct
<1>3. CreditedAfter(n) /\ Root(n)' = Root(n)
  BY <1>2 DEF CreditedUpTo, Root
<1>4. ASSUME NEW id \in DOMAIN deposits' \cap DOMAIN batches', id <= n,
             batches'[id].batchType = "Deposit"
      PROVE  \E slot \in Slots : Root(n)'[slot] = deposits'[id]
  <2>1. id \in DOMAIN batches
    BY <1>1, <1>4
  <2>2. /\ id \in DOMAIN deposits \cap DOMAIN batches
        /\ batches[id].batchType = "Deposit" /\ deposits'[id] = deposits[id]
    BY <1>4, <2>1
  <2> QED
    BY <1>3, <1>4, <2>2 DEF CreditedAfter
<1> QED
  BY <1>4 DEF CreditedAfter

\* A step that leaves the batches and the deposit record alone.
LEMMA NothingCredited ==
  ASSUME TypeOK, CreditedUpTo, UNCHANGED <<batches, deposits, nextBatchID>>
  PROVE  CreditedUpTo'
<1> SUFFICES ASSUME NEW n \in DOMAIN batches',
                    \A id \in 1 .. n : Correct(id)'
             PROVE  CreditedAfter(n)'
  BY DEF CreditedUpTo
<1>1. nextBatchID' \in Nat /\ DOMAIN batches' = 0 .. nextBatchID' - 1
  BY DEF TypeOK
<1> QED
  BY <1>1, OldBatchesKeep

\* rollback keeps the deposit record, and older states are as they were.
LEMMA RollbackKeepsCredit ==
  ASSUME TypeOK, CreditedUpTo, NEW marker \in 1 .. nextBatchID - 1, NEW nActual,
         rollback(marker, nActual)
  PROVE  CreditedUpTo'
<1> SUFFICES ASSUME NEW n \in DOMAIN batches',
                    \A id \in 1 .. n : Correct(id)'
             PROVE  CreditedAfter(n)'
  BY DEF CreditedUpTo
<1>1. deposits' = deposits
  BY DEF rollback
<1>2. /\ nextBatchID' \in Nat /\ DOMAIN batches' = 0 .. nextBatchID' - 1
      /\ n \in DOMAIN batches
      /\ \A id \in DOMAIN batches \cap DOMAIN batches' : batches'[id] = batches[id]
  BY RollbackTruncates
<1> QED
  BY <1>1, <1>2, OldBatchesKeep

\* A batch of transactions holds what the state before it held.
LEMMA CommitmentsKeepCredit ==
  ASSUME TypeOK, TypeOK', CreditedUpTo, NEW sender \in Coordinators,
         NEW value \in Payments, NEW batchType \in L2Usage, NEW commitments,
         SubmitCommitments(sender, value, batchType, commitments)
  PROVE  CreditedUpTo'
<1> PICK new : new = nextBatchID
  OBVIOUS
<1> SUFFICES ASSUME NEW n \in DOMAIN batches',
                    \A id \in 1 .. n : Correct(id)'
             PROVE  CreditedAfter(n)'
  BY DEF CreditedUpTo
<1>1. submitBatch(commitments, batchType, sender, value) /\ deposits' = deposits
  BY DEF SubmitCommitments
<1>2. /\ new \in Nat \ {0} /\ nextBatchID' = new + 1
      /\ DOMAIN batches = 0 .. new - 1 /\ DOMAIN batches' = 0 .. new
      /\ \A id \in DOMAIN batches : batches'[id] = batches[id]
      /\ batches'[new].commitments = commitments
      /\ batches'[new].batchType = batchType
  <2>1. /\ nextBatchID \in Nat \ {0} /\ nextBatchID' = nextBatchID + 1
        /\ DOMAIN batches' = 0 .. nextBatchID
        /\ \A id \in DOMAIN batches : batches'[id] = batches[id]
        /\ batches'[nextBatchID] = Batch(commitments, batchType, sender,
                                         block + paramBlocksToFinalise)
    BY <1>1, SubmitAppends
  <2>2. DOMAIN batches = 0 .. nextBatchID - 1
    BY DEF TypeOK
  <2> QED
    BY <2>1, <2>2 DEF Batch
<1>3. \A id \in DOMAIN batches \cap DOMAIN batches' : batches'[id] = batches[id]
  BY <1>2
<1>4. ASSUME n \in DOMAIN batches PROVE CreditedAfter(n)'
  <2>1. nextBatchID' \in Nat /\ DOMAIN batches' = 0 .. nextBatchID' - 1
    BY <1>2
  <2> QED
    BY <1>1, <1>3, <1>4, <2>1, OldBatchesKeep
<1>5. ASSUME n = new PROVE CreditedAfter(n)'
  <2>1. /\ new - 1 \in DOMAIN batches /\ new - 1 \in DOMAIN batches'
        /\ nextBatchID' \in Nat /\ DOMAIN batches' = 0 .. nextBatchID' - 1
        /\ \A id \in 1 .. new - 1 : Correct(id)'
    BY <1>2, <1>5
  <2>2. CreditedAfter(new - 1)'
    BY <1>1, <1>3, <2>1, OldBatchesKeep
  <2> SUFFICES ASSUME NEW id \in DOMAIN deposits' \cap DOMAIN batches', id <= n,
                      batches'[id].batchType = "Deposit"
               PROVE  \E slot \in Slots : Root(n)'[slot] = deposits'[id]
    BY DEF CreditedAfter
  <2>3. id <= new - 1
    <3>1. "Deposit" \notin L2Usage
      BY RollupAssumption DEF Usages
    <3>2. id # new
      BY <1>2, <3>1
    <3> QED
      BY <1>2, <1>5, <3>2
  <2>4. PICK slot \in Slots : Root(new - 1)'[slot] = deposits'[id]
    BY <2>2, <2>3 DEF CreditedAfter
  <2>5. deposits'[id] # Vacant
    <3>1. deposits'[id] \in 1 .. ready' /\ ready' \in Nat
      BY DEF TypeOK
    <3> QED
      BY <3>1 DEF Vacant
  <2>6. commitments \in Commitments
    <3>1. \A one \in DOMAIN batches' : (batches[one] \in BatchType)'
      BY DEF TypeOK
    <3>2. \A one \in DOMAIN batches' : batches'[one].commitments \in Commitments
      BY <3>1 DEF BatchType, Commitments
    <3> QED
      BY <1>2, <3>2
  <2>7. ASSUME NEW path \in DOMAIN commitments
        PROVE  commitments[path].stateRoot =
                 Processed(batchType,
                           IF path = 1 THEN Root(new - 1)'
                                       ELSE commitments[path - 1].stateRoot,
                           commitments[path].body)
    <3>1. Correct(new)' /\ batchType \in Usages
      BY <1>2, <1>5, RollupAssumption
    <3>2. commitments[path].stateRoot =
            Processed(batchType, PreviousStateRoot(new, path - 1)',
                      commitments[path].body)
      BY <1>2, <3>1 DEF Correct
    <3>3. path \in Nat /\ (path - 1 = 0 <=> path = 1)
      BY <2>6 DEF Commitments
    <3>4. PreviousStateRoot(new, path - 1)' =
            IF path = 1 THEN Root(new - 1)' ELSE commitments[path - 1].stateRoot
      BY <1>2, <3>3 DEF PreviousStateRoot, Root
    <3> QED
      BY <3>2, <3>4
  <2>8. Root(new)'[slot] = Root(new - 1)'[slot]
    <3> DEFINE before == Root(new - 1)'
    <3>1. before[slot] # Vacant
      BY <2>4, <2>5
    <3>2. \A path \in DOMAIN commitments :
            commitments[path].stateRoot =
              Processed(batchType,
                        IF path = 1 THEN before ELSE commitments[path - 1].stateRoot,
                        commitments[path].body)
      BY <2>7
    <3>3. Root(new)' = LastStateRoot(commitments)
      BY <1>2 DEF Root
    <3> HIDE DEF before
    <3>4. LastStateRoot(commitments)[slot] = before[slot]
      BY <2>6, <3>1, <3>2, ReplayKeeps
    <3> QED
      BY <3>3, <3>4 DEF before
  <2> QED
    BY <1>5, <2>4, <2>8
<1> QED
  BY <1>2, <1>4, <1>5

\* A deposit batch holds what the state before it held, and its own subtree, in
\* a slot that was vacant.
LEMMA DepositsAddCredit ==
  ASSUME TypeOK, TypeOK', CreditedUpTo, NEW sender \in Coordinators,
         NEW value \in Payments, NEW slot \in Slots,
         submitDeposits(sender, value, slot)
  PROVE  CreditedUpTo'
<1> PICK new : new = nextBatchID
  OBVIOUS
<1> DEFINE previous == Root(new - 1)
           after    == [previous EXCEPT ![slot] = Head(queue)]
<1> SUFFICES ASSUME NEW n \in DOMAIN batches',
                    \A id \in 1 .. n : Correct(id)'
             PROVE  CreditedAfter(n)'
  BY DEF CreditedUpTo
<1>1. /\ submitBatch(Single(after), "Deposit", sender, value)
      /\ previous[slot] = Vacant
      /\ deposits' = [id \in DOMAIN deposits \cup {new} |->
                        IF id = new THEN Head(queue) ELSE deposits[id]]
  BY DEF submitDeposits, Root, IsVacant
<1>2. /\ new \in Nat \ {0} /\ nextBatchID' = new + 1
      /\ DOMAIN batches = 0 .. new - 1 /\ DOMAIN batches' = 0 .. new
      /\ \A id \in DOMAIN batches : batches'[id] = batches[id]
      /\ batches'[new].commitments = Single(after)
  <2> HIDE DEF after
  <2>1. /\ nextBatchID \in Nat \ {0} /\ nextBatchID' = nextBatchID + 1
        /\ DOMAIN batches' = 0 .. nextBatchID
        /\ \A id \in DOMAIN batches : batches'[id] = batches[id]
        /\ batches'[nextBatchID] = Batch(Single(after), "Deposit", sender,
                                         block + paramBlocksToFinalise)
    BY <1>1, SubmitAppends
  <2>2. DOMAIN batches = 0 .. nextBatchID - 1
    BY DEF TypeOK
  <2> QED
    BY <2>1, <2>2 DEF Batch
<1> HIDE DEF after
<1>3. /\ \A id \in DOMAIN batches \cap DOMAIN batches' : batches'[id] = batches[id]
      /\ \A id \in DOMAIN batches : id \in DOMAIN deposits' <=> id \in DOMAIN deposits
      /\ \A id \in DOMAIN batches \cap DOMAIN deposits : deposits'[id] = deposits[id]
      /\ nextBatchID' \in Nat /\ DOMAIN batches' = 0 .. nextBatchID' - 1
  BY <1>1, <1>2
<1>4. ASSUME n \in DOMAIN batches PROVE CreditedAfter(n)'
  BY <1>3, <1>4, OldBatchesKeep
<1>5. ASSUME n = new PROVE CreditedAfter(n)'
  <2>1. /\ new - 1 \in DOMAIN batches /\ new - 1 \in DOMAIN batches'
        /\ \A id \in 1 .. new - 1 : Correct(id)'
    BY <1>2, <1>5
  <2>2. CreditedAfter(new - 1)'
    BY <1>3, <2>1, OldBatchesKeep
  <2>3. Root(new)' = after /\ Root(new - 1)' = previous
    BY <1>2, <2>1 DEF Root, Single, Commitment, LastStateRoot
  <2>4. DOMAIN previous = Slots
    <3>1. batches[new - 1] \in BatchType
      BY <2>1 DEF TypeOK
    <3>2. batches[new - 1].commitments \in Commitments
      BY <3>1 DEF BatchType, Commitments
    <3>3. previous \in StateRoots
      BY <3>2, LastOfCommitments DEF Root
    <3> QED
      BY <3>3 DEF StateRoots
  <2> SUFFICES ASSUME NEW id \in DOMAIN deposits' \cap DOMAIN batches', id <= n,
                      batches'[id].batchType = "Deposit"
               PROVE  \E s \in Slots : after[s] = deposits'[id]
    BY <1>5, <2>3 DEF CreditedAfter
  <2>5. CASE id = new
    <3>1. deposits'[id] = Head(queue)
      BY <1>1, <2>5
    <3>2. after[slot] = Head(queue)
      BY <2>4 DEF after
    <3> QED
      BY <3>1, <3>2
  <2>6. CASE id # new
    <3>1. id <= new - 1
      BY <1>2, <1>5, <2>6
    <3>2. PICK s \in Slots : previous[s] = deposits'[id]
      BY <2>2, <2>3, <3>1 DEF CreditedAfter
    <3>3. deposits'[id] # Vacant
      BY DEF TypeOK, Vacant
    <3>4. s # slot
      BY <1>1, <3>2, <3>3
    <3>5. after[s] = previous[s]
      BY <2>4, <3>4 DEF after
    <3> QED
      BY <3>2, <3>5
  <2> QED
    BY <2>5, <2>6
<1> QED
  BY <1>2, <1>4, <1>5

-----------------------------------------------------------------------------
\* Initially the only batch is the genesis one, and no deposits are recorded.
LEMMA InitCredited == Init => CreditedUpTo
<1> SUFFICES ASSUME Init PROVE CreditedUpTo
  OBVIOUS
<1>1. DOMAIN deposits = {}
  BY DEF Init
<1> QED
  BY <1>1 DEF CreditedUpTo, CreditedAfter

\* One step for each action; the invariant of RollupProofs gives the types.
LEMMA NextCredited == IInv /\ CreditedUpTo /\ [Next]_vars => CreditedUpTo'
<1> SUFFICES ASSUME IInv, CreditedUpTo, [Next]_vars PROVE CreditedUpTo'
  OBVIOUS
<1>1. TypeOK /\ FinaliseOrder /\ TypeOK'
  BY NextIInv DEF IInv
<1>2. CASE UNCHANGED vars
  BY <1>1, <1>2, NothingCredited DEF vars
<1>3. CASE Next
  <2>1. \A sender \in Coordinators, value \in Payments, batchType \in L2Usage,
           commitments \in CommitmentLists :
          SubmitCommitments(sender, value, batchType, commitments) => CreditedUpTo'
    BY <1>1, CommitmentsKeepCredit
  <2>2. \A sender \in Coordinators, value \in Payments, slot \in Slots :
          submitDeposits(sender, value, slot) => CreditedUpTo'
    BY <1>1, DepositsAddCredit
  <2>3. \A marker \in 1 .. nextBatchID - 1, nActual \in Nat :
          rollback(marker, nActual) => CreditedUpTo'
    BY <1>1, RollbackKeepsCredit
  <2>4. \A sender \in Coordinators \cup {Deployer}, batchID \in DOMAIN batches :
          withdrawStake(sender, batchID) => CreditedUpTo'
    BY <1>1, NothingCredited DEF withdrawStake
  <2>5. SubtreeReady => CreditedUpTo'
    BY <1>1, NothingCredited DEF SubtreeReady
  <2>6. NewBlock => CreditedUpTo'
    BY <1>1, NothingCredited DEF NewBlock
  <2> QED
    BY <1>1, <1>3, <2>1, <2>2, <2>3, <2>4, <2>5, <2>6, NextCases
<1> QED
  BY <1>2, <1>3

\* submitDeposits puts a subtree only where the state is vacant, and the replay
\* of transactions leaves it there: as long as every batch is correct, no
\* deposit that was included is missing from the newest state, whatever was
\* rolled back in between.
THEOREM DepositsAreCredited == Spec => []DepositsCredited
<1>1. IInv /\ CreditedUpTo => DepositsCredited
  <2> SUFFICES ASSUME IInv, CreditedUpTo,
                      \A id \in DOMAIN batches : Correct(id)
               PROVE  \A id \in DOMAIN deposits \cap DOMAIN batches :
                        batches[id].batchType = "Deposit" =>
                          \E slot \in Slots :
                            Root(nextBatchID - 1)[slot] = deposits[id]
    BY DEF DepositsCredited, Root
  <2>1. /\ nextBatchID - 1 \in DOMAIN batches
        /\ \A id \in 1 .. nextBatchID - 1 : id \in DOMAIN batches
        /\ \A id \in DOMAIN batches : id <= nextBatchID - 1
    BY DEF IInv, TypeOK
  <2>2. CreditedAfter(nextBatchID - 1)
    BY <2>1 DEF CreditedUpTo
  <2> QED
    BY <2>1, <2>2 DEF CreditedAfter
<1>2. Spec => []CreditedUpTo
  BY Invariance, InitCredited, NextCredited, PTL DEF Spec
<1> QED
  BY <1>1, <1>2, Invariance, PTL
=============================================================================
