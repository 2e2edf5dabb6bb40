---------------------------- MODULE Withdrawals ----------------------------
(***************************************************************************)
(* contracts/Vault.sol, WithdrawManager.sol and SpokeRegistry.sol: tokens  *)
(* that a mass migration takes out of the L2 leave the vault for a spoke,  *)
(* of which the withdraw manager is one.  The rollup is the chain of       *)
(* batches of module BatchChain, which module Rollup implements; a batch   *)
(* is the sequence of its mass migration commitments.                      *)
(*                                                                         *)
(* There is one token.  A withdraw root is the sequence of the states that *)
(* were merklized (hashes are injective), and Merkle proofs, public keys   *)
(* and signatures are those of the state that is claimed.                  *)
(*                                                                         *)
(* Whoever submits a commitment chooses its withdraw root and its amount:  *)
(* neither need be what its transactions lead to, nor agree with the       *)
(* other.  Wrong ones are disputed or not; those whose replay reverts      *)
(* cannot be, so that batches with any root and any amount become final.   *)
(***************************************************************************)
EXTENDS Integers, FiniteSetsExt, SequencesExt, Functions

CONSTANTS
  Contents,           \* batches: sequences of mass migration commitments
  BlocksToFinalise,
  PubkeyIDs,
  l2Unit,             \* of the token, from the TokenRegistry
  withdrawManager,    \* the address of the WithdrawManager
  OtherSpokes,        \* contracts of other L2 solutions (external)
  Deposited,          \* tokens the deposit manager has put in the vault
  MaxBlock,           \* bound: block.number
  MaxBatches,         \* bound: length of the chain
  MaxSpokes           \* bound: spokes registered

State == [pubkeyID : PubkeyIDs, balance : Nat]
MMCommitment == [spokeID : Nat \ {0}, withdrawRoot : Seq(State), amount : Nat]

ASSUME WithdrawalAssumption ==
  /\ Contents \subseteq Seq(MMCommitment)
  /\ {BlocksToFinalise, l2Unit, Deposited, MaxBlock, MaxBatches, MaxSpokes}
       \subseteq Nat
  /\ withdrawManager \notin OtherSpokes

VARIABLES
  block, chain, marker,   \* the rollup
  registeredSpokes,       \* spokeID -> address, from 1
  bitmap,                 \* Vault: the batches that are approved
  allowance,              \* ERC20: what each spoke may take from the vault
  tokens,                 \* ERC20: the tokens of the vault and of the manager
  processed,              \* WithdrawManager: the withdraw roots it knows
  received,               \* history: the amounts that came with each of them
  claimed,                \* WithdrawManager.bitmap: <<withdrawRoot, pubkeyID>>
  paid,                   \* history: what each public key was paid, in tokens
  doomed                  \* history: approved while a roll back was to delete them

rollupVars == <<block, chain, marker>>
spokeVars  == <<bitmap, doomed, allowance, tokens>>
claimVars  == <<processed, received, claimed, paid>>
vars == <<rollupVars, registeredSpokes, spokeVars, claimVars>>

Rollup == INSTANCE BatchChain

Spokes == {withdrawManager} \cup OtherSpokes

(***************************************************************************)
(* The rollup.                                                             *)
(***************************************************************************)
Submit(content) ==
  /\ Len(chain) < MaxBatches
  /\ Rollup!Submit(content)

\* A dispute may have other reasons than the amount or the withdraw root.
Dispute(from, n) == Rollup!Dispute(from, n)

KeepRollingBack(n) == Rollup!KeepRollingBack(n)

NewBlock ==
  /\ block < MaxBlock
  /\ Rollup!Tick

(***************************************************************************)
(* The spokes, the vault and the withdraw manager.                         *)
(***************************************************************************)
registerSpoke(spokeContract) ==
  /\ Len(registeredSpokes) < MaxSpokes
  /\ registeredSpokes' = Append(registeredSpokes, spokeContract)
  /\ UNCHANGED <<rollupVars, spokeVars, claimVars>>

NoUnits(amount)  == amount
l1Amount(amount) == amount * l2Unit

AnyBatch(batchID)  == batchID \in DOMAIN chain
Finalised(batchID) == batchID \in DOMAIN chain /\ Rollup!Final(batchID)

\* The checks of Vault.requestApproval.
Approvable(sender, batchID, path) ==
  /\ Finalised(batchID)
  /\ path \in DOMAIN chain[batchID].content
  /\ LET spokeID == chain[batchID].content[path].spokeID
     IN  spokeID \in DOMAIN registeredSpokes /\ registeredSpokes[spokeID] = sender

approve(batchID) ==
  /\ bitmap' = bitmap \cup {batchID}
  /\ doomed' = IF Rollup!Standing(batchID) THEN doomed ELSE doomed \cup {batchID}

\* A spoke of another L2 solution asks for the tokens that migrate to it ...
requestApproval(sender, batchID, path) ==
  /\ Approvable(sender, batchID, path)
  /\ approve(batchID)
  /\ allowance' = [allowance EXCEPT
                     ![sender] = l1Amount(chain[batchID].content[path].amount)]
  /\ UNCHANGED <<rollupVars, registeredSpokes, tokens, claimVars>>

\* ... and takes them (external).
SpokeTakes(spoke) ==
  /\ allowance[spoke] > 0
  /\ tokens.vault >= allowance[spoke]
  /\ tokens' = [tokens EXCEPT !.vault = @ - allowance[spoke]]
  /\ allowance' = [allowance EXCEPT ![spoke] = 0]
  /\ UNCHANGED <<rollupVars, registeredSpokes, bitmap, doomed, claimVars>>

Before(root) == IF root \in processed THEN received[root] ELSE 0

\* The approval that requestApproval gives is used up in the same call.
processWithdrawCommitment(batchID, path) ==
  LET commitment == chain[batchID].content[path]
      amount     == l1Amount(commitment.amount)
  IN  /\ Approvable(withdrawManager, batchID, path)
      /\ approve(batchID)
      /\ processed' = processed \cup {commitment.withdrawRoot}
      /\ received' = [root \in processed' |->
                        Before(root) + (IF root = commitment.withdrawRoot
                                        THEN commitment.amount ELSE 0)]
      /\ tokens.vault >= amount
      /\ tokens' = [vault |-> tokens.vault - amount, manager |-> tokens.manager + amount]
      /\ allowance' = [allowance EXCEPT ![withdrawManager] = 0]
      /\ UNCHANGED <<rollupVars, registeredSpokes, claimed, paid>>

KnownRoots == processed

NeverSet(withdrawRoot, pubkeyID)   == claimed
setClaimed(withdrawRoot, pubkeyID) == claimed \cup {<<withdrawRoot, pubkeyID>>}

claimTokens(withdrawRoot, path) ==
  LET state == withdrawRoot[path]
  IN  /\ withdrawRoot \in KnownRoots
      /\ path \in DOMAIN withdrawRoot
      /\ <<withdrawRoot, state.pubkeyID>> \notin claimed
      /\ claimed' = setClaimed(withdrawRoot, state.pubkeyID)
      /\ tokens.manager >= state.balance * l2Unit
      /\ tokens' = [tokens EXCEPT !.manager = @ - state.balance * l2Unit]
      /\ paid' = [paid EXCEPT ![state.pubkeyID] = @ + state.balance * l2Unit]
      /\ UNCHANGED <<rollupVars, registeredSpokes, bitmap, doomed, allowance, processed, received>>

(***************************************************************************)
(* The specification.                                                      *)
(***************************************************************************)
Init ==
  /\ Rollup!ChainInit
  /\ registeredSpokes = <<>>
  /\ bitmap = {} /\ doomed = {}
  /\ allowance = [spoke \in Spokes |-> 0]
  /\ tokens = [vault |-> Deposited, manager |-> 0]
  /\ processed = {} /\ received = <<>> /\ claimed = {}
  /\ paid = [id \in PubkeyIDs |-> 0]

RollupNext ==
  /\ \/ \E content \in Contents : Submit(content)
     \/ \E from \in DOMAIN chain, n \in 0 .. MaxBatches : Dispute(from, n)
     \/ \E n \in 1 .. MaxBatches : KeepRollingBack(n)
     \/ NewBlock
  /\ UNCHANGED <<registeredSpokes, spokeVars, claimVars>>

Next ==
  \/ RollupNext
  \/ \E spoke \in Spokes : registerSpoke(spoke)
  \/ \E batchID \in DOMAIN chain : \E path \in DOMAIN chain[batchID].content :
       \/ \E spoke \in OtherSpokes : requestApproval(spoke, batchID, path)
       \/ processWithdrawCommitment(batchID, path)
  \/ \E spoke \in OtherSpokes : SpokeTakes(spoke)
  \/ \E withdrawRoot \in KnownRoots : \E path \in DOMAIN withdrawRoot :
       claimTokens(withdrawRoot, path)

Spec == Init /\ [][Next]_vars

(***************************************************************************)
(* Properties.                                                             *)
(***************************************************************************)
IDsIn(withdrawRoot) == {withdrawRoot[path].pubkeyID : path \in DOMAIN withdrawRoot}

\* The most that a claim <<withdrawRoot, pubkeyID>> may be for, in L2 units.
LargestState(claim) ==
  Max({state.balance : state \in {s \in ToSet(claim[1]) : s.pubkeyID = claim[2]}})

LargestStates(claims) ==
  SumFunctionOnSet([claim \in claims |-> LargestState(claim)], claims)

\* The claims that states of these roots allow.
Claims(roots) == UNION {{<<root, id>> : id \in IDsIn(root)} : root \in roots}

\* The variables hold values of their types, and only states of processed
\* roots are marked as claimed.
TypeOK ==
  /\ block \in Nat /\ marker \in 0 .. Len(chain)
  /\ \A i \in DOMAIN chain : chain[i].content \in Contents /\ chain[i].finaliseOn \in Nat
  /\ registeredSpokes \in Seq(Spokes)
  /\ bitmap \subseteq Nat /\ doomed \subseteq bitmap
  /\ allowance \in [Spokes -> Nat]
  /\ tokens \in [vault : Nat, manager : Nat]
  /\ received \in [processed -> Nat]
  /\ \A claim \in claimed : claim[1] \in processed /\ claim[2] \in IDsIn(claim[1])
  /\ paid \in [PubkeyIDs -> Nat]

\* A batch the vault approved while no roll back was about to delete it stays:
\* what was paid for it on L1 has left the L2 for good.
ApprovedIsPermanent ==
  [][\A id \in bitmap \ doomed : id \in DOMAIN chain' /\ chain'[id] = chain[id]]_vars

\* The total of the states of a root, which processMassMigrationCommit compares
\* with the amount that the commitment claims
Total(withdrawRoot) ==
  SumFunction([path \in DOMAIN withdrawRoot |-> withdrawRoot[path].balance])

\* What the commitments that a root was processed from claimed less than that,
\* all of them together.
Missing(root) == IF received[root] < Total(root) THEN Total(root) - received[root] ELSE 0
Shortfall     == SumFunctionOnSet([root \in processed |-> Missing(root)], processed)

\* The withdraw manager holds what it may still have to pay (of each processed
\* root and each public key with a state in it, one state that is not claimed)
\* but for what wrong commitments claimed too little, whoever processes which
\* commitments in which order, and whatever was disputed in time: a root whose
\* commitments claimed its total is covered, and one that is not makes the
\* manager short of its own missing tokens and of no others.
ManagerCoversClaims ==
  tokens.manager + l2Unit * Shortfall
    >= l2Unit * LargestStates(Claims(processed) \ claimed)

\* A public key is paid at most once from each withdraw root, however often the
\* root is processed and whatever becomes of the batches it came from.
PaidOncePerRoot ==
  \A id \in PubkeyIDs :
    paid[id] <= l2Unit * LargestStates({claim \in Claims(processed) : claim[2] = id})

\* The states that are withdrawn by the batches in place, by their position.
StateAt(t) == chain[t[1]].content[t[2]].withdrawRoot[t[3]]
MigratedStates(id) ==
  LET root(i, path) == chain[i].content[path].withdrawRoot
  IN  {t \in UNION {UNION {{<<i, path, k>> : k \in DOMAIN root(i, path)} :
                            path \in DOMAIN chain[i].content} : i \in DOMAIN chain} :
         StateAt(t).pubkeyID = id}

\* Nobody is paid more than the withdraw roots of the batches in place name for
\* it, however often roots recur and are processed, unless a batch was approved
\* that is being rolled back.  Where those roots are what the transactions lead
\* to, that is what was taken from its L2 balance.
PaidAtMostMigrated ==
  doomed = {} =>
    \A id \in PubkeyIDs :
      paid[id] <= l2Unit * SumFunctionOnSet([t \in MigratedStates(id) |-> StateAt(t).balance],
                                            MigratedStates(id))
=============================================================================
