----------------------------- MODULE Commitments -----------------------------
(***************************************************************************)
(* ts/commitments.ts (and its twin in ts/client/features): commitments and *)
(* batches as the client makes them, the calldata it submits, and what it  *)
(* reads back; Rollup.sol, MerkleTree.sol and Types.sol: what the contract *)
(* makes of that calldata and which proofs it accepts.  A hash is a record *)
(* of what was hashed.  A coordinator adds transactions to a commitment    *)
(* and commitments to a batch.                                             *)
(***************************************************************************)
EXTENDS Codec, Trees

CONSTANTS
  Txs,              \* kind -> the transactions to choose from
  MaxTxs,           \* bound: transactions of a commitment
  MaxCommitments,   \* bound: commitments of a batch
  Numbers,          \* bound: the numbers the codec is tried on
  MaxMerklized         \* bound: the leaves merklize is tried on

Kinds == {"Transfer", "Create2Transfer", "MassMigration"}

ASSUME CommitmentsAssumption ==
  /\ DOMAIN Txs = Kinds
  /\ {MaxTxs, MaxCommitments, MaxMerklized} \subseteq Nat
  /\ Numbers \subseteq Nat

VARIABLES
  kind,          \* the kind of the batch
  txs,           \* the transactions of the commitment being made
  commitments    \* the commitments made so far

commitmentVars == <<kind, txs, commitments>>

(***************************************************************************)
(* The client.                                                             *)
(***************************************************************************)
ZERO_BYTES32 == ZeroLeaf

BodylessCommitment(stateRoot) == [stateRoot |-> stateRoot]

TransferFields == <<"accountRoot", "signature", "feeReceiver", "txs">>
MigrationFields ==
  <<"accountRoot", "signature", "spokeID", "withdrawRoot", "tokenID", "amount", "feeReceiver", "txs">>
BodyFields(usage) == IF usage = "MassMigration" THEN MigrationFields ELSE TransferFields

bodyRoot(usage, commitment) ==
  IF usage \in {"Genesis", "Deposit"} THEN ZERO_BYTES32
  ELSE [i \in DOMAIN BodyFields(usage) |-> <<commitment[BodyFields(usage)[i]]>>]
hash(usage, commitment) ==
  [stateRoot |-> commitment.stateRoot, bodyRoot |-> bodyRoot(usage, commitment)]

Leaves(usage, batch) == [i \in DOMAIN batch |-> hash(usage, batch[i])]
batchTree(usage, batch) == merklize(Leaves(usage, batch))
commitmentRoot(usage, batch) == treeRoot(batchTree(usage, batch))

\* proof and proofCompressed: the same leaf, with its body or the root of it.
proof(usage, batch, i) ==
  [leaf |-> hash(usage, batch[i]), path |-> i - 1,
   witness |-> witness(batchTree(usage, batch), i - 1, minTreeDepth(Len(batch))).nodes]

getGenesisProof(stateRoot) == proof("Genesis", <<BodylessCommitment(stateRoot)>>, 1)

\* submit: the arguments of the call, in arrays side by side.
Column(batch, field) == [i \in DOMAIN batch |-> batch[i][field]]
meta(batch) ==
  [i \in DOMAIN batch |-> <<batch[i].spokeID, batch[i].tokenID, batch[i].amount, batch[i].feeReceiver>>]
submit(usage, batch) ==
  [stateRoots |-> Column(batch, "stateRoot"), signatures |-> Column(batch, "signature"),
   txss |-> Column(batch, "txs")]
  @@ IF usage = "MassMigration"
     THEN [meta |-> meta(batch), withdrawRoots |-> Column(batch, "withdrawRoot")]
     ELSE [feeReceivers |-> Column(batch, "feeReceiver")]

\* fromCalldata of the three kinds of batches.
TransferFrom(args, accountRoot) ==
  [i \in DOMAIN args.stateRoots |->
     [stateRoot |-> args.stateRoots[i], accountRoot |-> accountRoot,
      signature |-> args.signatures[i], feeReceiver |-> args.feeReceivers[i],
      txs |-> args.txss[i]]]
\* Mutant: two of the four numbers swapped.
SwappedMeta(args, accountRoot) ==
  [i \in DOMAIN args.stateRoots |->
     [stateRoot |-> args.stateRoots[i], accountRoot |-> accountRoot,
      signature |-> args.signatures[i], spokeID |-> args.meta[i][1],
      withdrawRoot |-> args.withdrawRoots[i], tokenID |-> args.meta[i][2],
      amount |-> args.meta[i][4], feeReceiver |-> args.meta[i][3], txs |-> args.txss[i]]]
MigrationFrom(args, accountRoot) ==
  [i \in DOMAIN args.stateRoots |->
     [stateRoot |-> args.stateRoots[i], accountRoot |-> accountRoot,
      signature |-> args.signatures[i], spokeID |-> args.meta[i][1],
      withdrawRoot |-> args.withdrawRoots[i], tokenID |-> args.meta[i][2],
      amount |-> args.meta[i][3], feeReceiver |-> args.meta[i][4], txs |-> args.txss[i]]]

\* That of Create2TransferBatch, which nothing calls.
Create2TransferFrom(args, accountRoot) == TransferFrom(args, accountRoot)

\* batchFactory: a batch of create2Transfers is read as mass migrations, whose
\* arguments it does not have; genesis and deposit batches are refused.
CanParse(usage, args) ==
  \/ usage = "Transfer"
  \/ usage \in {"MassMigration", "Create2Transfer"} /\ "meta" \in DOMAIN args
batchFactory(usage, args, accountRoot) ==
  IF usage = "Transfer" THEN TransferFrom(args, accountRoot) ELSE MigrationFrom(args, accountRoot)

\* handleNewBatch of batchHandler.ts refuses a batch with another root.
handleNewBatch(usage, args, accountRoot, onchainRoot) ==
  IF /\ CanParse(usage, args)
     /\ commitmentRoot(usage, batchFactory(usage, args, accountRoot)) = onchainRoot
  THEN <<batchFactory(usage, args, accountRoot)>> ELSE <<>>

(***************************************************************************)
(* The contract.                                                           *)
(***************************************************************************)
\* MerkleTree.getRoot: the hash of a tree of zeros, by its height.
getRoot(height) == zeros(height)[0]

\* MerkleTree.merklize: an odd node is paired with the zeros of its height.
PairUp(nodes, level) ==
  [i \in 1 .. (Len(nodes) + 1) \div 2 |->
     Hash2(nodes[2 * i - 1], IF 2 * i <= Len(nodes) THEN nodes[2 * i] ELSE getRoot(level))]
solMerklize(leaves) ==
  LET nodes[level \in 0 .. Len(leaves)] ==
        IF level = 0 THEN PairUp(leaves, 0)
        ELSE IF Len(nodes[level - 1]) = 1 THEN nodes[level - 1]
        ELSE PairUp(nodes[level - 1], level)
  IN  nodes[Len(leaves)][1]

\* MerkleTree.verify: bits of the path beyond the witness are not looked at.
verify(root, leaf, path, nodes) ==
  LET up[i \in 0 .. Len(nodes)] ==
        IF i = 0 THEN leaf
        ELSE IF (path \div 2^(i - 1)) % 2 = 0 THEN Hash2(up[i - 1], nodes[i])
                                              ELSE Hash2(nodes[i], up[i - 1])
  IN  up[Len(nodes)] = root

\* submitTransfer, submitCreate2Transfer and submitMassMigration: the root.
SubmittedBody(usage, args, i, accountRoot) ==
  IF usage = "MassMigration"
  THEN <<accountRoot, args.signatures[i], args.meta[i][1], args.withdrawRoots[i],
         args.meta[i][2], args.meta[i][3], args.meta[i][4], args.txss[i]>>
  ELSE <<accountRoot, args.signatures[i], args.feeReceivers[i], args.txss[i]>>
SubmittedLeaf(usage, args, i, accountRoot) ==
  LET body == SubmittedBody(usage, args, i, accountRoot)
  IN  [stateRoot |-> args.stateRoots[i], bodyRoot |-> [k \in DOMAIN body |-> <<body[k]>>]]
submittedRoot(usage, args, accountRoot) ==
  solMerklize([i \in DOMAIN args.stateRoots |-> SubmittedLeaf(usage, args, i, accountRoot)])

\* The constructor of Rollup, and submitDeposits: one commitment, one zero.
bodylessRoot(stateRoot) ==
  Hash2([stateRoot |-> stateRoot, bodyRoot |-> ZERO_BYTES32], ZERO_BYTES32)

(***************************************************************************)
(* A coordinator makes a batch.                                            *)
(***************************************************************************)
\* State roots and signatures differ from commitment to commitment.
newCommitment(usage, list, number) ==
  [stateRoot |-> number, accountRoot |-> "accounts", signature |-> number,
   feeReceiver |-> list[1].to, txs |-> serialize(usage, list)]
  @@ IF usage = "MassMigration"
     THEN [spokeID |-> list[1].spokeID, withdrawRoot |-> number, tokenID |-> list[1].toPubkeyID,
           amount |-> FoldLeft(LAMBDA n, tx : n + tx.amount, 0, list)]
     ELSE << >>

CommitmentInit == kind \in Kinds /\ txs = <<>> /\ commitments = <<>>

AddTx(tx) ==
  /\ CanEncode(kind, tx)
  /\ Len(txs) < MaxTxs
  /\ Len(commitments) < MaxCommitments
  /\ txs' = Append(txs, tx)
  /\ UNCHANGED <<kind, commitments>>

MakeCommitment ==
  /\ txs # <<>>
  /\ commitments' = Append(commitments, newCommitment(kind, txs, Len(commitments) + 1))
  /\ txs' = <<>>
  /\ UNCHANGED kind

CommitmentNext ==
  \/ \E tx \in Txs[kind] : AddTx(tx)
  \/ MakeCommitment

(***************************************************************************)
(* Properties.                                                             *)
(***************************************************************************)
NumbersAreExact ==
  \A n \in Numbers :
    /\ CanCompress(n) <=> n \in Representable
    /\ CanCompress(n) => /\ decompress(compress(n)) = n
                         /\ NumberOf(compress(n)) = encodeDecimal(n)
    /\ CanRound(n) => /\ round(n) \in Representable /\ round(n) <= n
                      /\ n \in Representable => round(n) = n
    /\ \A l1Decimals \in 0 .. 18 :
         /\ l2Decimals(l1Decimals) <= l1Decimals
         /\ n < 3 => l2Value(l1Decimals, fromL2Value(l1Decimals, n)) = n

\* The transactions that the contract decodes from a commitment, and those the
\* node reads back from it, are those the coordinator put in, and the messages
\* the contract checks the signatures of are those that were signed: no amount,
\* fee or index changes on the way, and numbers that would change are refused.
CalldataDecodes ==
  /\ NumbersAreExact
  /\ LET bytes == serialize(kind, txs)
     IN  /\ IsWhole(kind, bytes) /\ ~hasExcessData(kind, bytes)
         /\ size(kind, bytes) = Len(txs) /\ Len(decompressTxs(kind, bytes)) = Len(txs)
         /\ \A i \in DOMAIN txs : \A field \in ToSet(FieldsOf(kind)) :
              /\ decodeTx(kind, bytes, i - 1)[field] = txs[i][field]
              /\ decompressTxs(kind, bytes)[i][field] = txs[i][field]
         /\ \A i \in DOMAIN txs :
              message(kind, txs[i])
                = messageOf(kind, decodeTx(kind, bytes, i - 1), txs[i].nonce,
                            hashPubkey(txs[i].toPubkey), txs[i].spokeID)

MerklizeAgrees ==
  \A n \in 1 .. MaxMerklized :
    LET leaves == [i \in 1 .. n |-> toLeaf(i)]
    IN  solMerklize(leaves) = treeRoot(merklize(leaves))

\* The client and the contract compute the same commitment root from the same
\* batch, the client does so again from the calldata, and a proof of the client
\* convinces the contract of the commitment at its place and of no other.  A
\* batch of create2Transfers cannot be read back: batchFactory takes it for
\* mass migrations.
BatchesAgree ==
  /\ MerklizeAgrees
  /\ commitmentRoot("Genesis", <<BodylessCommitment(0)>>) = bodylessRoot(0)
  /\ verify(bodylessRoot(0), getGenesisProof(0).leaf, 0, getGenesisProof(0).witness)
  /\ commitments # <<>> =>
       LET args == submit(kind, commitments)
           root == submittedRoot(kind, args, "accounts")
       IN  /\ commitmentRoot(kind, commitments) = root
           /\ handleNewBatch(kind, args, "accounts", root)
                = IF kind = "Create2Transfer" THEN <<>> ELSE <<commitments>>
           /\ kind = "Create2Transfer" => Create2TransferFrom(args, "accounts") = commitments
           /\ \A i, j \in DOMAIN commitments :
                LET p == proof(kind, commitments, i)
                IN  verify(root, hash(kind, commitments[j]), p.path, p.witness) <=> i = j
=============================================================================
