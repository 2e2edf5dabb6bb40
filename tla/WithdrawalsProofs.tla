------------------------- MODULE WithdrawalsProofs -------------------------
(***************************************************************************)
(* Withdrawals, for every rate of blocks, batches, roll backs and spokes,  *)
(* every withdraw root and every order of processing and claiming.         *)
(*                                                                         *)
(* What the vault approves while no roll back is about to delete it stays  *)
(* in the chain: a dispute cuts the chain where it is not final yet.       *)
(* Because finaliseOn never falls along the chain, everything that is      *)
(* final lies before the cut; and while a cut is under way, what lies      *)
(* before its marker is safe.                                              *)
(*                                                                         *)
(* The money follows the claims.  A processed root allows one claim for    *)
(* each public key with a state in it; what a public key was paid is at    *)
(* most the largest states of the claims it made; and what the manager     *)
(* holds, with what the commitments of a root claimed less than its total, *)
(* covers the largest states of the claims that are open.                  *)
(***************************************************************************)
EXTENDS Withdrawals, SequenceTheorems, SumTheorems

Link == [content : Contents, finaliseOn : Nat]

\* The chain holds links and the marker is one of them.
ChainType ==
  /\ block \in Nat
  /\ chain \in Seq(Link)
  /\ marker \in 0 .. Len(chain)

\* finaliseOn never falls along the chain, and no batch is final too late for
\* the next one to be submitted behind it.
ChainOrder ==
  /\ \A i, j \in 1 .. Len(chain) : i <= j => chain[i].finaliseOn <= chain[j].finaliseOn
  /\ \A i \in 1 .. Len(chain) : chain[i].finaliseOn <= block + BlocksToFinalise

\* What was approved in good time is there, final, and not about to be deleted.
ApprovedIsSafe ==
  \A id \in bitmap \ doomed :
    id \in 1 .. Len(chain) /\ block >= chain[id].finaliseOn /\ (marker = 0 \/ id < marker)

IInv == ChainType /\ ChainOrder /\ ApprovedIsSafe

\* A step keeps the batches that were approved in good time.
Keeps ==
  \A id \in bitmap \ doomed : id \in DOMAIN chain' /\ chain'[id] = chain[id]

\* What is in the chain are links, numbered from 1.
LEMMA LinksOfChain ==
  ASSUME ChainType
  PROVE  /\ DOMAIN chain = 1 .. Len(chain) /\ Len(chain) \in Nat
         /\ \A i \in 1 .. Len(chain) : chain[i].finaliseOn \in Nat
<1>1. /\ DOMAIN chain = 1 .. Len(chain) /\ Len(chain) \in Nat
      /\ \A i \in 1 .. Len(chain) : chain[i] \in Link
  BY DEF ChainType
<1> QED
  BY <1>1 DEF Link

LEMMA Bounds == BlocksToFinalise \in Nat /\ MaxBatches \in Nat
BY WithdrawalAssumption

\* The invariant holds of the chain that has no batches yet.
LEMMA InitIInv == Init => IInv
BY Bounds DEF Init, IInv, ChainType, ChainOrder, ApprovedIsSafe, Rollup!ChainInit

\* A new batch goes behind the others.
LEMMA SubmitKeeps ==
  ASSUME IInv, NEW content \in Contents, Submit(content), UNCHANGED <<bitmap, doomed>>
  PROVE  IInv' /\ Keeps
<1> DEFINE link == [content |-> content, finaliseOn |-> block + BlocksToFinalise]
<1>1. /\ chain \in Seq(Link) /\ block \in Nat /\ BlocksToFinalise \in Nat
      /\ marker = 0 /\ chain' = Append(chain, link) /\ block' = block /\ marker' = 0
  BY Bounds DEF IInv, ChainType, Submit, Rollup!Submit
<1>2. link \in Link
  BY <1>1 DEF Link
<1>3. /\ chain' \in Seq(Link) /\ Len(chain') = Len(chain) + 1 /\ Len(chain) \in Nat
      /\ \A i \in 1 .. Len(chain) : chain'[i] = chain[i]
      /\ chain'[Len(chain) + 1] = link
      /\ \A i \in 1 .. Len(chain) : chain[i] \in Link
      /\ DOMAIN chain' = 1 .. Len(chain')
  BY <1>1, <1>2
<1>4. ChainType'
  BY <1>1, <1>3 DEF ChainType
<1>5. ChainOrder'
  <2>1. \A i \in 1 .. Len(chain) : chain'[i].finaliseOn <= block + BlocksToFinalise
    BY <1>3 DEF IInv, ChainOrder
  <2>2. chain'[Len(chain) + 1].finaliseOn = block + BlocksToFinalise
    BY <1>3
  <2>3. \A i, j \in 1 .. Len(chain) : i <= j => chain'[i].finaliseOn <= chain'[j].finaliseOn
    BY <1>3 DEF IInv, ChainOrder
  <2>4. \A i \in 1 .. Len(chain') : i \in 1 .. Len(chain) \/ i = Len(chain) + 1
    BY <1>3
  <2>5. BlocksToFinalise' = BlocksToFinalise
    OBVIOUS
  <2>6. ASSUME NEW i \in 1 .. Len(chain'), NEW j \in 1 .. Len(chain'), i <= j
        PROVE  chain'[i].finaliseOn <= chain'[j].finaliseOn
    <3>1. CASE j \in 1 .. Len(chain)
      <4>1. i \in 1 .. Len(chain)
        BY <1>3, <2>6, <3>1
      <4> QED
        BY <2>3, <2>6, <3>1, <4>1
    <3>2. CASE j = Len(chain) + 1
      <4>1. chain'[j].finaliseOn = block + BlocksToFinalise
        BY <2>2, <3>2
      <4>2. i \in 1 .. Len(chain) \/ i = j
        BY <2>4, <3>2
      <4> QED
        BY <1>1, <2>1, <4>1, <4>2
    <3> QED
      BY <2>4, <3>1, <3>2
  <2>7. \A i \in 1 .. Len(chain') : chain'[i].finaliseOn <= block + BlocksToFinalise
    BY <1>1, <2>1, <2>2, <2>4
  <2> QED
    BY <1>1, <2>6, <2>7 DEF ChainOrder
<1>6. ApprovedIsSafe' /\ Keeps
  BY <1>1, <1>3 DEF IInv, ApprovedIsSafe, Keeps
<1> QED
  BY <1>4, <1>5, <1>6 DEF IInv

\* A roll back that starts behind everything approved in good time.
LEMMA RollBackKeeps ==
  ASSUME IInv, NEW from \in 1 .. Len(chain), NEW n \in Nat, Rollup!RollBack(from, n),
         \A id \in bitmap \ doomed : id < from,
         UNCHANGED <<bitmap, doomed>>
  PROVE  IInv' /\ Keeps
<1>1. /\ chain \in Seq(Link) /\ Len(chain) \in Nat /\ block \in Nat /\ block' = block
      /\ n <= Len(chain) - from + 1
      /\ chain' = SubSeq(chain, 1, Len(chain) - n)
      /\ marker' = IF n = Len(chain) - from + 1 THEN 0 ELSE from
  BY DEF IInv, ChainType, Rollup!RollBack
<1>2. /\ Len(chain) - n \in 0 .. Len(chain)
      /\ from - 1 <= Len(chain) - n
  BY <1>1
<1>3. /\ chain' \in Seq(Link) /\ Len(chain') = Len(chain) - n
      /\ DOMAIN chain' = 1 .. Len(chain')
      /\ \A i \in 1 .. Len(chain') : i \in 1 .. Len(chain) /\ chain'[i] = chain[i]
  BY <1>1, <1>2
<1>4. marker' \in 0 .. Len(chain')
  <2>1. CASE n = Len(chain) - from + 1
    <3>1. marker' = 0
      BY <1>1, <2>1
    <3>2. Len(chain') \in Nat
      BY <1>1, <1>2, <1>3
    <3> QED
      BY <3>1, <3>2
  <2>2. CASE n # Len(chain) - from + 1
    <3>1. marker' = from
      BY <1>1, <2>2
    <3>2. from <= Len(chain) - n /\ from \in Nat /\ Len(chain) - n \in Nat
      <4>1. from \in Nat /\ n \in Nat /\ Len(chain) \in Nat
        BY <1>1
      <4>2. n <= Len(chain) - from + 1 /\ n # Len(chain) - from + 1
        BY <1>1, <2>2
      <4>3. from <= Len(chain) - n
        BY <4>1, <4>2
      <4>4. Len(chain) - n \in Nat
        BY <4>1, <4>3
      <4> QED
        BY <4>1, <4>3, <4>4
    <3> QED
      BY <1>3, <3>1, <3>2
  <2> QED
    BY <2>1, <2>2
<1>5. ChainType'
  BY <1>1, <1>3, <1>4 DEF ChainType
<1>6. ChainOrder'
  BY <1>1, <1>3 DEF IInv, ChainOrder
<1>7. ApprovedIsSafe' /\ Keeps
  BY <1>1, <1>2, <1>3 DEF IInv, ApprovedIsSafe, Keeps
<1> QED
  BY <1>5, <1>6, <1>7 DEF IInv

\* A dispute is of a batch that is not final; what is approved lies before it.
LEMMA DisputeKeeps ==
  ASSUME IInv, NEW from \in DOMAIN chain, NEW n \in Nat, Dispute(from, n),
         UNCHANGED <<bitmap, doomed>>
  PROVE  IInv' /\ Keeps
<1>1. /\ from \in 1 .. Len(chain) /\ Len(chain) \in Nat /\ block \in Nat
      /\ \A i \in 1 .. Len(chain) : chain[i].finaliseOn \in Nat
  BY LinksOfChain DEF IInv, ChainType
<1>2. ~(block >= chain[from].finaliseOn) /\ Rollup!RollBack(from, n)
  BY DEF Dispute, Rollup!Dispute, Rollup!Final
<1>3. ASSUME NEW id \in bitmap \ doomed PROVE id < from
  <2>1. id \in 1 .. Len(chain) /\ block >= chain[id].finaliseOn
    BY DEF IInv, ApprovedIsSafe
  <2>2. from <= id => chain[from].finaliseOn <= chain[id].finaliseOn
    BY <1>1, <2>1 DEF IInv, ChainOrder
  <2> QED
    BY <1>1, <1>2, <2>1, <2>2
<1> QED
  BY <1>1, <1>2, <1>3, RollBackKeeps

\* A roll back that goes on deletes nothing before its marker.
LEMMA KeepRollingBackKeeps ==
  ASSUME IInv, NEW n \in Nat, KeepRollingBack(n), UNCHANGED <<bitmap, doomed>>
  PROVE  IInv' /\ Keeps
<1>1. marker \in 1 .. Len(chain) /\ Rollup!RollBack(marker, n)
  BY DEF IInv, ChainType, KeepRollingBack, Rollup!KeepRollingBack
<1>2. \A id \in bitmap \ doomed : id < marker
  BY <1>1 DEF IInv, ApprovedIsSafe
<1> QED
  BY <1>1, <1>2, RollBackKeeps

\* Blocks only make more batches final.
LEMMA NewBlockKeeps ==
  ASSUME IInv, NewBlock, UNCHANGED <<bitmap, doomed>>
  PROVE  IInv' /\ Keeps
<1>1. /\ block \in Nat /\ BlocksToFinalise \in Nat
      /\ block' = block + 1 /\ chain' = chain /\ marker' = marker
      /\ \A i \in 1 .. Len(chain) : chain[i].finaliseOn \in Nat
      /\ DOMAIN chain = 1 .. Len(chain)
  BY Bounds, LinksOfChain DEF IInv, ChainType, NewBlock, Rollup!Tick
<1>2. ChainType'
  BY <1>1 DEF IInv, ChainType
<1>3. ChainOrder'
  <2>1. \A i \in 1 .. Len(chain) : chain[i].finaliseOn <= block + BlocksToFinalise
    BY DEF IInv, ChainOrder
  <2>2. \A i \in 1 .. Len(chain) : chain[i].finaliseOn <= block + 1 + BlocksToFinalise
    BY <1>1, <2>1
  <2> QED
    BY <1>1, <2>2 DEF IInv, ChainOrder
<1>4. ApprovedIsSafe' /\ Keeps
  <2>1. \A id \in bitmap \ doomed : id \in 1 .. Len(chain) /\ block >= chain[id].finaliseOn
    BY DEF IInv, ApprovedIsSafe
  <2>2. \A id \in bitmap \ doomed : block + 1 >= chain[id].finaliseOn
    BY <1>1, <2>1
  <2> QED
    BY <1>1, <2>1, <2>2 DEF IInv, ApprovedIsSafe, Keeps
<1> QED
  BY <1>2, <1>3, <1>4 DEF IInv

\* The chain stays as it is while batch batchID is approved.
LEMMA ApproveKeeps ==
  ASSUME IInv, NEW batchID, Finalised(batchID), approve(batchID), UNCHANGED rollupVars
  PROVE  IInv' /\ Keeps
<1>1. /\ block' = block /\ chain' = chain /\ marker' = marker
      /\ DOMAIN chain = 1 .. Len(chain)
  BY DEF rollupVars, IInv, ChainType
<1>2. batchID \in 1 .. Len(chain) /\ block >= chain[batchID].finaliseOn
  BY <1>1 DEF Finalised, Rollup!Final
<1>3. ChainType' /\ ChainOrder'
  BY <1>1 DEF IInv, ChainType, ChainOrder
<1>4. \A id \in bitmap' \ doomed' :
        \/ id \in bitmap \ doomed
        \/ id = batchID /\ (marker = 0 \/ batchID < marker)
  <2>1. bitmap' = bitmap \cup {batchID}
    BY DEF approve
  <2>2. CASE marker = 0 \/ batchID < marker
    <3>1. doomed' = doomed
      BY <2>2 DEF approve, Rollup!Standing
    <3> QED
      BY <2>1, <2>2, <3>1
  <2>3. CASE ~(marker = 0 \/ batchID < marker)
    <3>1. ~Rollup!Standing(batchID)
      BY <2>3 DEF Rollup!Standing
    <3>2. doomed' = doomed \cup {batchID}
      BY <3>1 DEF approve
    <3> QED
      BY <2>1, <3>2
  <2> QED
    BY <2>2, <2>3
<1>5. ApprovedIsSafe' /\ Keeps
  BY <1>1, <1>2, <1>4 DEF IInv, ApprovedIsSafe, Keeps
<1> QED
  BY <1>3, <1>5 DEF IInv

\* Steps that neither move the chain nor approve anything.
LEMMA RestKeeps ==
  ASSUME IInv, UNCHANGED <<rollupVars, bitmap, doomed>>
  PROVE  IInv' /\ Keeps
<1>1. /\ block' = block /\ chain' = chain /\ marker' = marker
      /\ bitmap' = bitmap /\ doomed' = doomed /\ DOMAIN chain = 1 .. Len(chain)
  BY DEF rollupVars, IInv, ChainType
<1> QED
  BY <1>1 DEF IInv, ChainType, ChainOrder, ApprovedIsSafe, Keeps

\* Every step preserves the invariant and what was approved in good time.
LEMMA NextKeeps == IInv /\ [Next]_vars => IInv' /\ Keeps
<1> SUFFICES ASSUME IInv, [Next]_vars PROVE IInv' /\ Keeps
  OBVIOUS
<1>1. CASE RollupNext
  <2>1. UNCHANGED <<bitmap, doomed>>
    BY <1>1 DEF RollupNext, spokeVars
  <2>2. CASE \E content \in Contents : Submit(content)
    BY <2>1, <2>2, SubmitKeeps
  <2>3. CASE \E from \in DOMAIN chain, n \in 0 .. MaxBatches : Dispute(from, n)
    BY <2>1, <2>3, DisputeKeeps, Bounds
  <2>4. CASE \E n \in 1 .. MaxBatches : KeepRollingBack(n)
    BY <2>1, <2>4, KeepRollingBackKeeps, Bounds
  <2>5. CASE NewBlock
    BY <2>1, <2>5, NewBlockKeeps
  <2> QED
    BY <1>1, <2>2, <2>3, <2>4, <2>5 DEF RollupNext
<1>2. CASE \E spoke \in Spokes : registerSpoke(spoke)
  BY <1>2, RestKeeps DEF registerSpoke, spokeVars
<1>3. CASE \E batchID \in DOMAIN chain : \E path \in DOMAIN chain[batchID].content :
             \/ \E spoke \in OtherSpokes : requestApproval(spoke, batchID, path)
             \/ processWithdrawCommitment(batchID, path)
  <2>1. PICK batchID \in DOMAIN chain : \E path \in DOMAIN chain[batchID].content :
             \/ \E spoke \in OtherSpokes : requestApproval(spoke, batchID, path)
             \/ processWithdrawCommitment(batchID, path)
    BY <1>3
  <2>2. Finalised(batchID) /\ approve(batchID) /\ UNCHANGED rollupVars
    BY <2>1 DEF requestApproval, processWithdrawCommitment, Approvable
  <2> QED
    BY <2>2, ApproveKeeps
<1>4. CASE \E spoke \in OtherSpokes : SpokeTakes(spoke)
  BY <1>4, RestKeeps DEF SpokeTakes
<1>5. CASE \E withdrawRoot \in KnownRoots : \E path \in DOMAIN withdrawRoot :
             claimTokens(withdrawRoot, path)
  BY <1>5, RestKeeps DEF claimTokens
<1>6. CASE UNCHANGED vars
  BY <1>6, RestKeeps DEF vars, spokeVars
<1> QED
  BY <1>1, <1>2, <1>3, <1>4, <1>5, <1>6 DEF Next

\* In every behaviour the invariant holds: finaliseOn is in order along the
\* chain, and what was approved in good time is there and final.
THEOREM InvariantHolds == Spec => []IInv
BY InitIInv, NextKeeps, PTL DEF Spec

\* Vault.requestApproval: a batch approved while no roll back was about to delete
\* it is never rolled back, so what was paid for it has left the L2 for good.
THEOREM ApprovedBatchesStay == Spec => ApprovedIsPermanent
<1>1. IInv /\ [Next]_vars =>
        [\A id \in bitmap \ doomed : id \in DOMAIN chain' /\ chain'[id] = chain[id]]_vars
  BY NextKeeps DEF Keeps
<1> QED
  BY <1>1, InvariantHolds, PTL DEF Spec, ApprovedIsPermanent

(***************************************************************************)
(* Claims: what a withdraw root may be claimed for.                        *)
(***************************************************************************)
Roots == Seq(State)

LEMMA RootType ==
  ASSUME NEW root \in Roots
  PROVE  /\ IsFiniteSet(DOMAIN root)
         /\ \A path \in DOMAIN root :
              /\ root[path] \in State
              /\ root[path].pubkeyID \in PubkeyIDs /\ root[path].balance \in Nat
<1>1. /\ DOMAIN root = 1 .. Len(root) /\ Len(root) \in Nat
      /\ \A path \in DOMAIN root : root[path] \in State
  BY DEF Roots
<1>2. IsFiniteSet(DOMAIN root)
  BY <1>1, FS_Interval
<1> QED
  BY <1>1, <1>2 DEF State

LEMMA LargestType ==
  ASSUME NEW root \in Roots, NEW id \in IDsIn(root)
  PROVE  /\ LargestState(<<root, id>>) \in Nat
         /\ \E path \in DOMAIN root :
              /\ root[path].pubkeyID = id
              /\ root[path].balance = LargestState(<<root, id>>)
         /\ \A path \in DOMAIN root :
              root[path].pubkeyID = id => root[path].balance <= LargestState(<<root, id>>)
<1> DEFINE paths == {path \in DOMAIN root : root[path].pubkeyID = id}
           balance == [path \in DOMAIN root |-> root[path].balance]
           balances == {balance[path] : path \in paths}
<1>1. LargestState(<<root, id>>) = Max(balances)
  <2>1. balances = {state.balance : state \in {s \in ToSet(root) : s.pubkeyID = id}}
    BY DEF ToSet
  <2> QED
    BY <2>1 DEF LargestState
<1>2. IsFiniteSet(paths)
  <2>1. paths \in SUBSET DOMAIN root
    OBVIOUS
  <2> HIDE DEF paths
  <2> QED
    BY <2>1, RootType, FS_Subset
<1>3. balances \subseteq Nat
  BY RootType
<1>4. paths # {}
  BY DEF IDsIn
<1>5. balances # {}
  BY <1>4
<1>6. IsFiniteSet(balances)
  <2> HIDE DEF paths, balance
  <2> QED
    BY <1>2, FiniteImage
<1>7. Max(balances) \in balances /\ \A b \in balances : b <= Max(balances)
  <2> HIDE DEF balances
  <2> QED
    BY <1>3, <1>5, <1>6, LargestNumber
<1>8. PICK path \in paths : balance[path] = Max(balances)
  BY <1>7
<1>9. \A p \in paths : balance[p] <= Max(balances)
  BY <1>7
<1> HIDE DEF balances
<1> QED
  BY <1>1, <1>3, <1>7, <1>8, <1>9

IsClaim(claim) ==
  \E root \in Roots : \E id \in IDsIn(root) : claim = <<root, id>>

LEMMA ClaimType ==
  ASSUME NEW claim, IsClaim(claim)
  PROVE  /\ claim = <<claim[1], claim[2]>>
         /\ claim[1] \in Roots /\ claim[2] \in IDsIn(claim[1])
         /\ LargestState(claim) \in Nat
<1>1. PICK root \in Roots : \E id \in IDsIn(root) : claim = <<root, id>>
  BY DEF IsClaim
<1> QED
  BY <1>1, LargestType

LEMMA ClaimsOfRoots ==
  ASSUME NEW roots, roots \subseteq Roots, IsFiniteSet(roots)
  PROVE  /\ IsFiniteSet(Claims(roots))
         /\ \A claim \in Claims(roots) : IsClaim(claim) /\ claim[1] \in roots
         /\ \A root \in roots : \A id \in IDsIn(root) : <<root, id>> \in Claims(roots)
<1> DEFINE of == [root \in roots |-> {<<root, id>> : id \in IDsIn(root)}]
           sets == {of[root] : root \in roots}
<1>1. IsFiniteSet(sets)
  <2> HIDE DEF of
  <2> QED
    BY FiniteImage
<1>2. ASSUME NEW root \in roots PROVE IsFiniteSet(of[root])
  <2> DEFINE ids == [path \in DOMAIN root |-> root[path].pubkeyID]
             pairs == [id \in IDsIn(root) |-> <<root, id>>]
  <2>1. IsFiniteSet(DOMAIN root)
    BY RootType
  <2>2. IDsIn(root) = {ids[path] : path \in DOMAIN root}
    BY DEF IDsIn
  <2>3. of[root] = {pairs[id] : id \in IDsIn(root)}
    OBVIOUS
  <2> HIDE DEF ids, pairs
  <2>4. IsFiniteSet(IDsIn(root))
    BY <2>1, <2>2, FiniteImage
  <2>5. IsFiniteSet({pairs[id] : id \in IDsIn(root)})
    BY <2>4, FiniteImage
  <2> QED
    BY <2>3, <2>5
<1>3. \A set \in sets : IsFiniteSet(set)
  BY <1>2
<1>4. Claims(roots) = UNION sets
  BY DEF Claims
<1>5. IsFiniteSet(UNION sets)
  <2> HIDE DEF sets
  <2> QED
    BY <1>1, <1>3, FS_UNION
<1>6. \A claim \in Claims(roots) : IsClaim(claim) /\ claim[1] \in roots
  BY DEF Claims, IsClaim
<1>7. \A root \in roots : \A id \in IDsIn(root) : <<root, id>> \in Claims(roots)
  BY DEF Claims
<1> QED
  BY <1>4, <1>5, <1>6, <1>7

\* The amounts of claims add up, whatever larger set of claims they are in.
LEMMA LargestStatesType ==
  ASSUME NEW claims, IsFiniteSet(claims), \A claim \in claims : IsClaim(claim)
  PROVE  LargestStates(claims) \in Nat
<1> DEFINE f == [claim \in claims |-> LargestState(claim)]
<1>1. \A claim \in claims : f[claim] \in Nat
  BY ClaimType
<1>2. LargestStates(claims) = SumFunctionOnSet(f, claims)
  BY DEF LargestStates
<1> HIDE DEF f
<1> QED
  BY <1>1, <1>2, SumNat

LEMMA LargestStatesOfSome ==
  ASSUME NEW all, IsFiniteSet(all), \A claim \in all : IsClaim(claim),
         NEW f, \A claim \in all : f[claim] = LargestState(claim),
         NEW some \in SUBSET all
  PROVE  LargestStates(some) = SumFunctionOnSet(f, some)
<1> DEFINE g == [claim \in some |-> LargestState(claim)]
<1>1. IsFiniteSet(some)
  BY FS_Subset
<1>2. \A claim \in some : g[claim] = f[claim] /\ f[claim] \in Int
  BY ClaimType
<1>3. LargestStates(some) = SumFunctionOnSet(g, some)
  BY DEF LargestStates
<1> HIDE DEF g
<1>4. Summable(f, some)
  BY <1>1, <1>2 DEF Summable
<1>5. SumFunctionOnSet(g, some) = SumFunctionOnSet(f, some)
  BY <1>2, <1>4, SumsEqual
<1> QED
  BY <1>3, <1>5

LEMMA FewerClaims ==
  ASSUME NEW all, IsFiniteSet(all), \A claim \in all : IsClaim(claim),
         NEW some \in SUBSET all
  PROVE  LargestStates(some) <= LargestStates(all)
<1> DEFINE f == [claim \in all |-> LargestState(claim)]
<1>1. \A claim \in all : f[claim] = LargestState(claim) /\ f[claim] \in Nat
  BY ClaimType
<1> HIDE DEF f
<1>2. LargestStates(some) = SumFunctionOnSet(f, some)
  BY <1>1, LargestStatesOfSome
<1>3. LargestStates(all) = SumFunctionOnSet(f, all)
  BY <1>1, LargestStatesOfSome
<1> QED
  BY <1>1, <1>2, <1>3, SumSubset

LEMMA OneClaimLess ==
  ASSUME NEW all, IsFiniteSet(all), \A claim \in all : IsClaim(claim), NEW c \in all
  PROVE  /\ LargestStates(all) = LargestState(c) + LargestStates(all \ {c})
         /\ LargestState(c) \in Nat /\ LargestStates(all \ {c}) \in Nat
<1> DEFINE f == [claim \in all |-> LargestState(claim)]
<1>1. \A claim \in all : f[claim] = LargestState(claim) /\ f[claim] \in Int
  BY ClaimType
<1> HIDE DEF f
<1>2. Summable(f, all)
  BY <1>1 DEF Summable
<1>3. SumFunctionOnSet(f, all) = f[c] + SumFunctionOnSet(f, all \ {c})
  BY <1>2, SumTakeOut
<1>4. LargestStates(all) = SumFunctionOnSet(f, all)
  BY <1>1, LargestStatesOfSome
<1>5. all \ {c} \in SUBSET all
  OBVIOUS
<1>6. LargestStates(all \ {c}) = SumFunctionOnSet(f, all \ {c})
  BY <1>1, <1>5, LargestStatesOfSome
<1>7. IsFiniteSet(all \ {c}) /\ \A claim \in all \ {c} : IsClaim(claim)
  BY <1>5, FS_Subset
<1>8. LargestStates(all \ {c}) \in Nat
  BY <1>7, LargestStatesType
<1>9. LargestState(c) \in Nat
  BY ClaimType
<1> QED
  BY <1>1, <1>3, <1>4, <1>6, <1>8, <1>9

LEMMA MoreClaims ==
  ASSUME NEW some, NEW others, IsFiniteSet(some), IsFiniteSet(others),
         \A claim \in some : IsClaim(claim), \A claim \in others : IsClaim(claim),
         some \cap others = {}
  PROVE  LargestStates(some \cup others) = LargestStates(some) + LargestStates(others)
<1> DEFINE all == some \cup others
           f == [claim \in all |-> LargestState(claim)]
<1>1. IsFiniteSet(all) /\ \A claim \in all : IsClaim(claim)
  BY FS_Union
<1>2. some \in SUBSET all /\ others \in SUBSET all /\ all \in SUBSET all
  OBVIOUS
<1>3. \A claim \in all : f[claim] = LargestState(claim) /\ f[claim] \in Int
  BY <1>1, ClaimType
<1> HIDE DEF f
<1>4. Summable(f, some) /\ Summable(f, others)
  BY <1>3 DEF Summable
<1>5. SumFunctionOnSet(f, all) = SumFunctionOnSet(f, some) + SumFunctionOnSet(f, others)
  BY <1>4, SumDisjoint
<1> HIDE DEF all
<1>6. LargestStates(some) = SumFunctionOnSet(f, some)
  BY <1>1, <1>2, <1>3, LargestStatesOfSome
<1>7. LargestStates(others) = SumFunctionOnSet(f, others)
  BY <1>1, <1>2, <1>3, LargestStatesOfSome
<1>8. LargestStates(all) = SumFunctionOnSet(f, all)
  BY <1>1, <1>2, <1>3, LargestStatesOfSome
<1> QED
  BY <1>5, <1>6, <1>7, <1>8 DEF all

\* The total of a root covers one claim for each public key with a state in it.
LEMMA TotalCovers ==
  ASSUME NEW root \in Roots
  PROVE  /\ Total(root) \in Nat
         /\ LargestStates(Claims({root})) <= Total(root)
<1> DEFINE f == [path \in DOMAIN root |-> root[path].balance]
           T == Claims({root})
           g == [claim \in T |-> LargestState(claim)]
           h == [claim \in T |->
                   CHOOSE path \in DOMAIN root :
                     root[path].pubkeyID = claim[2] /\ root[path].balance = LargestState(claim)]
<1>1. IsFiniteSet({root}) /\ {root} \subseteq Roots
  BY FS_Singleton
<1>2. IsFiniteSet(T) /\ \A claim \in T : IsClaim(claim) /\ claim[1] \in {root}
  <2> HIDE DEF T
  <2> QED
    BY <1>1, ClaimsOfRoots DEF T
<1>3. DOMAIN f = DOMAIN root /\ IsFiniteSet(DOMAIN root)
      /\ \A path \in DOMAIN root : f[path] \in Nat
  BY RootType
<1>4. Total(root) = SumFunctionOnSet(f, DOMAIN root)
  BY DEF Total, SumFunction
<1>5. ASSUME NEW claim \in T
      PROVE  /\ h[claim] \in DOMAIN root /\ root[h[claim]].pubkeyID = claim[2]
             /\ f[h[claim]] = g[claim] /\ g[claim] \in Nat /\ claim = <<root, claim[2]>>
  <2>1. claim = <<root, claim[2]>> /\ claim[2] \in IDsIn(root)
    BY <1>2, ClaimType
  <2>2. \E path \in DOMAIN root :
          root[path].pubkeyID = claim[2] /\ root[path].balance = LargestState(claim)
    BY <2>1, LargestType
  <2>3. h[claim] \in DOMAIN root /\ root[h[claim]].pubkeyID = claim[2]
        /\ root[h[claim]].balance = LargestState(claim)
    BY <2>2
  <2>4. g[claim] = LargestState(claim) /\ LargestState(claim) \in Nat
    BY <1>2, ClaimType
  <2> HIDE DEF h, g
  <2> QED
    BY <2>1, <2>3, <2>4
<1>6. LargestStates(T) = SumFunctionOnSet(g, T)
  BY DEF LargestStates
<1> HIDE DEF f, T, g, h
<1>7. \A claim \in T : h[claim] \in DOMAIN root /\ g[claim] <= f[h[claim]]
  BY <1>5
<1>8. \A a, b \in T : h[a] = h[b] => a = b
  BY <1>5
<1>9. \A claim \in T : g[claim] \in Nat
  BY <1>5
<1>10. SumFunctionOnSet(g, T) <= SumFunctionOnSet(f, DOMAIN root)
  BY <1>2, <1>3, <1>7, <1>8, <1>9, SumInjection
<1>11. Total(root) \in Nat
  BY <1>3, <1>4, SumNat
<1> QED
  BY <1>4, <1>6, <1>10, <1>11 DEF T

(***************************************************************************)
(* The money: what was paid, and for which claims.                         *)
(***************************************************************************)
ClaimedBy(id) == {claim \in claimed : claim[2] = id}

\* Processed roots are roots, and only states of them were claimed.
MoneyType ==
  /\ allowance \in [Spokes -> Nat]
  /\ tokens \in [vault : Nat, manager : Nat]
  /\ paid \in [PubkeyIDs -> Nat]
  /\ processed \subseteq Roots /\ IsFiniteSet(processed)
  /\ received \in [processed -> Nat]
  /\ claimed \subseteq Claims(processed)

\* Processed roots are those of approved batches.
ProcessedInPlace ==
  doomed = {} =>
    \A root \in processed :
      \E i \in bitmap : \E path \in DOMAIN chain[i].content :
        chain[i].content[path].withdrawRoot = root

\* What a public key was paid was paid for its claims.
PaidByClaims ==
  \A id \in PubkeyIDs : paid[id] <= l2Unit * LargestStates(ClaimedBy(id))

MoneyInv == MoneyType /\ ProcessedInPlace /\ PaidByClaims

LEMMA Units ==
  ASSUME NEW u \in Nat, NEW a \in Nat, NEW b \in Nat
  PROVE  /\ u * a \in Nat /\ a * u = u * a
         /\ u * (a + b) = u * a + u * b
         /\ a <= b => u * a <= u * b
<1>1. u * a \in Nat /\ a * u = u * a
  OBVIOUS
<1>2. u * (a + b) = u * a + u * b
  OBVIOUS
<1>3. ASSUME a <= b PROVE u * a <= u * b
  <2>1. PICK d \in Nat : b = a + d
    BY <1>3
  <2>2. u * b = u * a + u * d /\ u * d \in Nat /\ u * a \in Nat
    BY <2>1
  <2> QED
    BY <2>2
<1> QED
  BY <1>1, <1>2, <1>3

LEMMA UnitType == l2Unit \in Nat /\ Deposited \in Nat
BY WithdrawalAssumption

LEMMA ContentType ==
  ASSUME ChainType, NEW i \in DOMAIN chain, NEW path \in DOMAIN chain[i].content
  PROVE  /\ chain[i].content[path] \in MMCommitment
         /\ chain[i].content[path].withdrawRoot \in Roots
         /\ chain[i].content[path].amount \in Nat
<1>1. chain[i] \in Link
  BY DEF ChainType
<1>2. chain[i].content \in Seq(MMCommitment)
  BY <1>1, WithdrawalAssumption DEF Link
<1>3. chain[i].content[path] \in MMCommitment
  BY <1>2
<1> QED
  BY <1>3 DEF MMCommitment, Roots

LEMMA ClaimsMade ==
  ASSUME MoneyType
  PROVE  /\ IsFiniteSet(claimed) /\ \A claim \in claimed : IsClaim(claim)
         /\ IsFiniteSet(Claims(processed)) /\ \A claim \in Claims(processed) : IsClaim(claim)
         /\ \A id \in PubkeyIDs : IsFiniteSet(ClaimedBy(id))
<1>1. IsFiniteSet(Claims(processed)) /\ \A claim \in Claims(processed) : IsClaim(claim)
  BY ClaimsOfRoots DEF MoneyType
<1>2. IsFiniteSet(claimed) /\ \A claim \in claimed : IsClaim(claim)
  BY <1>1, FS_Subset DEF MoneyType
<1>3. ASSUME NEW id \in PubkeyIDs PROVE IsFiniteSet(ClaimedBy(id))
  <2>1. ClaimedBy(id) \in SUBSET claimed
    BY DEF ClaimedBy
  <2> QED
    BY <1>2, <2>1, FS_Subset
<1> QED
  BY <1>1, <1>2, <1>3

LEMMA InitMoney == Init => MoneyInv
<1> SUFFICES ASSUME Init PROVE MoneyInv
  OBVIOUS
<1>1. /\ processed = {} /\ received = <<>> /\ claimed = {}
      /\ paid = [id \in PubkeyIDs |-> 0]
  BY DEF Init
<1>2. MoneyType
  <2>1. received \in [processed -> Nat]
    BY <1>1
  <2> QED
    BY <1>1, <2>1, UnitType, FS_EmptySet DEF Init, MoneyType
<1>3. ProcessedInPlace
  BY <1>1 DEF ProcessedInPlace
<1>4. PaidByClaims
  <2> SUFFICES ASSUME NEW id \in PubkeyIDs
               PROVE  paid[id] <= l2Unit * LargestStates(ClaimedBy(id))
    BY DEF PaidByClaims
  <2>1. LargestStates(ClaimedBy(id)) \in Nat
    BY <1>1, <1>2, ClaimsMade, LargestStatesType DEF ClaimedBy
  <2> QED
    BY <1>1, <2>1, UnitType, Units
<1> QED
  BY <1>2, <1>3, <1>4 DEF MoneyInv

\* Whatever does not process or claim leaves the claims and payments alone.
LEMMA OtherStepsOfMoney ==
  ASSUME MoneyInv, Keeps, UNCHANGED claimVars, bitmap \subseteq bitmap', doomed \subseteq doomed',
         allowance' \in [Spokes -> Nat], tokens' \in [vault : Nat, manager : Nat]
  PROVE  MoneyInv'
<1>1. /\ processed' = processed /\ received' = received
      /\ claimed' = claimed /\ paid' = paid
  BY DEF claimVars
<1>2. MoneyType'
  BY <1>1 DEF MoneyInv, MoneyType
<1>3. ProcessedInPlace'
  <2> SUFFICES ASSUME doomed' = {}, NEW root \in processed
               PROVE  \E i \in bitmap' : \E path \in DOMAIN chain'[i].content :
                        chain'[i].content[path].withdrawRoot = root
    BY <1>1 DEF ProcessedInPlace
  <2>1. PICK i \in bitmap : \E path \in DOMAIN chain[i].content :
          chain[i].content[path].withdrawRoot = root
    BY DEF MoneyInv, ProcessedInPlace
  <2>2. chain'[i] = chain[i]
    BY DEF Keeps
  <2> QED
    BY <2>1, <2>2
<1>4. PaidByClaims'
  BY <1>1 DEF MoneyInv, PaidByClaims, ClaimedBy
<1> QED
  BY <1>2, <1>3, <1>4 DEF MoneyInv

\* Processing adds the amount of the commitment to what came with its root.
LEMMA ReceivedAfter ==
  ASSUME MoneyType, NEW batchID, NEW path, processWithdrawCommitment(batchID, path),
         chain[batchID].content[path].amount \in Nat
  PROVE  LET root   == chain[batchID].content[path].withdrawRoot
             amount == chain[batchID].content[path].amount
         IN  /\ received' \in [processed' -> Nat]
             /\ \A r \in processed : r # root => received'[r] = received[r]
             /\ root \in processed => received'[root] = received[root] + amount
             /\ root \notin processed => received'[root] = amount
<1>1. PICK root, amount : /\ root = chain[batchID].content[path].withdrawRoot
                          /\ amount = chain[batchID].content[path].amount
  OBVIOUS
<1>2. /\ processed' = processed \cup {root}
      /\ received' = [r \in processed' |->
                        Before(r) + (IF r = root THEN amount ELSE 0)]
  BY <1>1 DEF processWithdrawCommitment
<1>3. /\ \A r \in processed : Before(r) = received[r] /\ received[r] \in Nat
      /\ \A r : r \notin processed => Before(r) = 0
  BY DEF Before, MoneyType
<1>4. amount \in Nat
  BY <1>1
<1>5. received' \in [processed' -> Nat]
  BY <1>2, <1>3, <1>4
<1>6. \A r \in processed : r # root => received'[r] = received[r]
  BY <1>2, <1>3
<1>7. received'[root] = Before(root) + amount
  BY <1>2
<1> QED
  BY <1>1, <1>3, <1>4, <1>5, <1>6, <1>7

LEMMA ProcessStepOfMoney ==
  ASSUME IInv, MoneyInv, NEW batchID \in DOMAIN chain, NEW path \in DOMAIN chain[batchID].content,
         processWithdrawCommitment(batchID, path)
  PROVE  MoneyInv'
<1>1. PICK root, amount : /\ root = chain[batchID].content[path].withdrawRoot
                          /\ amount = chain[batchID].content[path].amount
  OBVIOUS
<1>2. root \in Roots /\ amount \in Nat
  BY <1>1, ContentType DEF IInv
<1>3. /\ processed' = processed \cup {root} /\ claimed' = claimed /\ paid' = paid
      /\ chain' = chain /\ bitmap' = bitmap \cup {batchID}
      /\ tokens.vault >= l1Amount(amount)
      /\ tokens' = [vault |-> tokens.vault - l1Amount(amount),
                    manager |-> tokens.manager + l1Amount(amount)]
      /\ allowance' = [allowance EXCEPT ![withdrawManager] = 0]
      /\ doomed \subseteq doomed'
  BY <1>1 DEF processWithdrawCommitment, approve, rollupVars
<1>4. l1Amount(amount) \in Nat
  BY <1>2, UnitType, Units DEF l1Amount
<1>5. MoneyType'
  <2>1. allowance' \in [Spokes -> Nat]
    BY <1>3 DEF MoneyInv, MoneyType
  <2>2. tokens' \in [vault : Nat, manager : Nat]
    <3>1. tokens.vault \in Nat /\ tokens.manager \in Nat
      BY DEF MoneyInv, MoneyType
    <3> HIDE DEF l1Amount
    <3> QED
      BY <1>3, <1>4, <3>1
  <2>3. processed' \subseteq Roots /\ IsFiniteSet(processed')
    BY <1>2, <1>3, FS_AddElement DEF MoneyInv, MoneyType
  <2>4. Claims(processed) \subseteq Claims(processed')
    BY <1>3 DEF Claims
  <2>5. received' \in [processed' -> Nat]
    BY <1>1, <1>2, ReceivedAfter DEF MoneyInv
  <2> QED
    BY <1>3, <2>1, <2>2, <2>3, <2>4, <2>5 DEF MoneyInv, MoneyType
<1>6. ProcessedInPlace'
  <2> SUFFICES ASSUME doomed' = {}, NEW r \in processed'
               PROVE  \E i \in bitmap' : \E p \in DOMAIN chain[i].content :
                        chain[i].content[p].withdrawRoot = r
    BY <1>3 DEF ProcessedInPlace
  <2>1. CASE r = root
    BY <1>1, <1>3, <2>1
  <2>2. CASE r \in processed
    BY <1>3, <2>2 DEF MoneyInv, ProcessedInPlace
  <2> QED
    BY <1>3, <2>1, <2>2
<1>7. PaidByClaims'
  BY <1>3 DEF MoneyInv, PaidByClaims, ClaimedBy
<1> QED
  BY <1>5, <1>6, <1>7 DEF MoneyInv

\* A claim: what it is for, and that it is a new one.
LEMMA ClaimIsOpen ==
  ASSUME MoneyInv, NEW root \in processed, NEW path \in DOMAIN root, claimTokens(root, path)
  PROVE  LET state == root[path]
             claim == <<root, state.pubkeyID>>
         IN  /\ claim \in Claims(processed) \ claimed /\ IsClaim(claim)
             /\ state.pubkeyID \in PubkeyIDs /\ state.balance \in Nat
             /\ LargestState(claim) \in Nat /\ state.balance <= LargestState(claim)
             /\ claimed' = claimed \cup {claim}
<1>1. root \in Roots
  BY DEF MoneyInv, MoneyType
<1>2. /\ root[path].pubkeyID \in PubkeyIDs /\ root[path].balance \in Nat
      /\ root[path].pubkeyID \in IDsIn(root)
  BY <1>1, RootType DEF IDsIn
<1>3. <<root, root[path].pubkeyID>> \in Claims(processed)
  BY <1>2 DEF Claims
<1>4. IsClaim(<<root, root[path].pubkeyID>>)
  BY <1>1, <1>2 DEF IsClaim
<1>5. /\ LargestState(<<root, root[path].pubkeyID>>) \in Nat
      /\ root[path].balance <= LargestState(<<root, root[path].pubkeyID>>)
  BY <1>1, <1>2, LargestType
<1>6. /\ <<root, root[path].pubkeyID>> \notin claimed
      /\ claimed' = claimed \cup {<<root, root[path].pubkeyID>>}
  BY DEF claimTokens, setClaimed
<1> QED
  BY <1>2, <1>3, <1>4, <1>5, <1>6

LEMMA ClaimStepOfMoney ==
  ASSUME IInv, MoneyInv, NEW root \in processed, NEW path \in DOMAIN root, claimTokens(root, path)
  PROVE  MoneyInv'
<1>1. PICK id, balance, claim :
        /\ id = root[path].pubkeyID /\ balance = root[path].balance
        /\ claim = <<root, root[path].pubkeyID>>
  OBVIOUS
<1>2. /\ claim \in Claims(processed) \ claimed /\ IsClaim(claim)
      /\ id \in PubkeyIDs /\ balance \in Nat
      /\ LargestState(claim) \in Nat /\ balance <= LargestState(claim)
      /\ claimed' = claimed \cup {claim}
  BY <1>1, ClaimIsOpen
<1>3. /\ processed' = processed /\ received' = received
      /\ chain' = chain /\ bitmap' = bitmap /\ doomed' = doomed
      /\ allowance' = allowance
      /\ tokens.manager >= balance * l2Unit
      /\ tokens' = [tokens EXCEPT !.manager = @ - balance * l2Unit]
      /\ paid' = [paid EXCEPT ![id] = @ + balance * l2Unit]
  BY <1>1 DEF claimTokens, rollupVars
<1>4. balance * l2Unit \in Nat /\ balance * l2Unit = l2Unit * balance
  BY <1>2, UnitType, Units
<1>5. MoneyType'
  <2>1. tokens' \in [vault : Nat, manager : Nat]
    <3>1. tokens \in [vault : Nat, manager : Nat] /\ tokens.manager \in Nat
      BY DEF MoneyInv, MoneyType
    <3>2. PICK cost \in Nat : cost = balance * l2Unit
      BY <1>4
    <3>3. tokens.manager - cost \in Nat
      BY <1>3, <3>1, <3>2
    <3> QED
      BY <1>3, <3>1, <3>2, <3>3
  <2>2. paid' \in [PubkeyIDs -> Nat]
    <3>1. PICK cost \in Nat : cost = balance * l2Unit
      BY <1>4
    <3> QED
      BY <1>2, <1>3, <3>1 DEF MoneyInv, MoneyType
  <2> QED
    BY <1>2, <1>3, <2>1, <2>2 DEF MoneyInv, MoneyType
<1>6. ProcessedInPlace'
  BY <1>3 DEF MoneyInv, ProcessedInPlace
<1>7. ASSUME NEW other \in PubkeyIDs
      PROVE  paid'[other] <= l2Unit * LargestStates(ClaimedBy(other)')
  <2>1. paid[other] \in Nat /\ paid[other] <= l2Unit * LargestStates(ClaimedBy(other))
    BY DEF MoneyInv, MoneyType, PaidByClaims
  <2>2. claim[2] = id
    BY <1>1
  <2>3. CASE other # id
    <3>1. ClaimedBy(other)' = ClaimedBy(other)
      BY <1>2, <2>2, <2>3 DEF ClaimedBy
    <3>2. paid'[other] = paid[other]
      BY <1>3, <2>3 DEF MoneyInv, MoneyType
    <3> QED
      BY <2>1, <3>1, <3>2
  <2>4. CASE other = id
    <3>1. PICK before, after : before = ClaimedBy(id) /\ after = ClaimedBy(id)'
      OBVIOUS
    <3>2. after = before \cup {claim} /\ claim \notin before /\ after \ {claim} = before
      BY <1>2, <2>2, <3>1 DEF ClaimedBy
    <3>3. IsFiniteSet(after) /\ \A c \in after : IsClaim(c)
      <4>1. IsFiniteSet(before)
        BY <1>2, <3>1, ClaimsMade DEF MoneyInv
      <4>3. IsFiniteSet(after)
        BY <3>2, <4>1, FS_AddElement
      <4>2. \A c \in before : IsClaim(c)
        BY <3>1, ClaimsMade DEF MoneyInv, ClaimedBy
      <4> QED
        BY <1>2, <3>2, <4>2, <4>3
    <3>4. /\ LargestStates(after) = LargestState(claim) + LargestStates(before)
          /\ LargestStates(before) \in Nat
      <4>1. claim \in after
        BY <3>2
      <4>2. /\ LargestStates(after) = LargestState(claim) + LargestStates(after \ {claim})
            /\ LargestStates(after \ {claim}) \in Nat
        BY <3>3, <4>1, OneClaimLess
      <4>3. after \ {claim} = before
        BY <3>2
      <4> QED
        BY <4>2, <4>3
    <3>5. PICK largest, sum : largest = LargestState(claim) /\ sum = LargestStates(before)
      OBVIOUS
    <3>6. largest \in Nat /\ sum \in Nat /\ balance <= largest
      BY <1>2, <3>4, <3>5
    <3>7. /\ l2Unit * (largest + sum) = l2Unit * largest + l2Unit * sum
          /\ l2Unit * balance <= l2Unit * largest
      BY <1>2, <3>6, UnitType, Units
    <3>8. l2Unit * largest \in Nat /\ l2Unit * sum \in Nat /\ l2Unit * balance \in Nat
      BY <1>2, <3>6, UnitType, Units
    <3>9. paid'[id] = paid[id] + l2Unit * balance
      BY <1>2, <1>3, <1>4 DEF MoneyInv, MoneyType
    <3>10. paid[id] <= l2Unit * sum /\ paid[id] \in Nat
      BY <2>1, <2>4, <3>1, <3>5
    <3>11. paid'[id] <= l2Unit * (largest + sum)
      BY <3>7, <3>8, <3>9, <3>10
    <3> QED
      BY <2>4, <3>1, <3>4, <3>5, <3>11
  <2> QED
    BY <2>3, <2>4
<1>8. PaidByClaims'
  BY <1>7, UnitType DEF PaidByClaims
<1> QED
  BY <1>5, <1>6, <1>8 DEF MoneyInv

\* An approval of a spoke of another L2 solution, and what it takes.
LEMMA ApprovalStepOfMoney ==
  ASSUME IInv, MoneyInv, NEW sender \in OtherSpokes, NEW batchID \in DOMAIN chain,
         NEW path \in DOMAIN chain[batchID].content,
         requestApproval(sender, batchID, path), Keeps
  PROVE  MoneyInv'
<1>1. PICK amount : amount = l1Amount(chain[batchID].content[path].amount)
  OBVIOUS
<1>2. amount \in Nat
  BY <1>1, ContentType, UnitType, Units DEF IInv, l1Amount
<1>3. /\ allowance' = [allowance EXCEPT ![sender] = amount] /\ tokens' = tokens
      /\ UNCHANGED claimVars /\ bitmap \subseteq bitmap' /\ doomed \subseteq doomed'
  BY <1>1 DEF requestApproval, approve
<1>4. allowance' \in [Spokes -> Nat]
  BY <1>2, <1>3 DEF MoneyInv, MoneyType
<1>5. tokens' \in [vault : Nat, manager : Nat]
  BY <1>3 DEF MoneyInv, MoneyType
<1> QED
  BY <1>3, <1>4, <1>5, OtherStepsOfMoney

LEMMA TakeStepOfMoney ==
  ASSUME MoneyInv, NEW spoke \in OtherSpokes, SpokeTakes(spoke), Keeps
  PROVE  MoneyInv'
<1>1. /\ tokens \in [vault : Nat, manager : Nat] /\ allowance \in [Spokes -> Nat]
      /\ tokens.vault \in Nat /\ spoke \in Spokes
  BY DEF MoneyInv, MoneyType, Spokes
<1>2. /\ UNCHANGED <<claimVars, bitmap, doomed>>
      /\ allowance' = [allowance EXCEPT ![spoke] = 0]
      /\ tokens' = [tokens EXCEPT !.vault = @ - allowance[spoke]]
      /\ tokens.vault >= allowance[spoke]
  BY DEF SpokeTakes
<1>3. allowance' \in [Spokes -> Nat]
  BY <1>1, <1>2
<1>4. tokens.vault - allowance[spoke] \in Nat
  BY <1>1, <1>2
<1>5. tokens' \in [vault : Nat, manager : Nat]
  BY <1>1, <1>2, <1>4
<1> QED
  BY <1>2, <1>3, <1>5, OtherStepsOfMoney

\* Steps that touch none of the spokes' variables.
LEMMA RestOfMoney ==
  ASSUME MoneyInv, Keeps, UNCHANGED <<spokeVars, claimVars>>
  PROVE  MoneyInv'
<1>1. /\ bitmap' = bitmap /\ doomed' = doomed /\ allowance' = allowance /\ tokens' = tokens
      /\ UNCHANGED claimVars
  BY DEF spokeVars
<1>2. allowance' \in [Spokes -> Nat] /\ tokens' \in [vault : Nat, manager : Nat]
  BY <1>1 DEF MoneyInv, MoneyType
<1> QED
  BY <1>1, <1>2, OtherStepsOfMoney

LEMMA NextMoney == IInv /\ MoneyInv /\ [Next]_vars => MoneyInv'
<1> SUFFICES ASSUME IInv, MoneyInv, [Next]_vars PROVE MoneyInv'
  OBVIOUS
<1>0. Keeps
  BY NextKeeps
<1>1. CASE RollupNext
  BY <1>0, <1>1, RestOfMoney DEF RollupNext
<1>2. CASE \E spoke \in Spokes : registerSpoke(spoke)
  BY <1>0, <1>2, RestOfMoney DEF registerSpoke
<1>3. CASE \E batchID \in DOMAIN chain : \E path \in DOMAIN chain[batchID].content :
             \/ \E spoke \in OtherSpokes : requestApproval(spoke, batchID, path)
             \/ processWithdrawCommitment(batchID, path)
  BY <1>0, <1>3, ApprovalStepOfMoney, ProcessStepOfMoney
<1>4. CASE \E spoke \in OtherSpokes : SpokeTakes(spoke)
  BY <1>0, <1>4, TakeStepOfMoney
<1>5. CASE \E withdrawRoot \in KnownRoots : \E path \in DOMAIN withdrawRoot :
             claimTokens(withdrawRoot, path)
  BY <1>5, ClaimStepOfMoney DEF KnownRoots
<1>6. CASE UNCHANGED vars
  BY <1>0, <1>6, RestOfMoney DEF vars
<1> QED
  BY <1>1, <1>2, <1>3, <1>4, <1>5, <1>6 DEF Next

\* In every behaviour, what a public key was paid was paid for states of roots
\* that were processed, each of which was claimed.
THEOREM MoneyHolds == Spec => []MoneyInv
<1>1. Init => MoneyInv
  BY InitMoney
<1> QED
  BY <1>1, NextMoney, InvariantHolds, PTL DEF Spec

(***************************************************************************)
(* What a public key is paid at most.                                      *)
(***************************************************************************)
\* A public key is paid at most once from each withdraw root.
THEOREM PaidOnce == Spec => []PaidOncePerRoot
<1>1. ASSUME MoneyInv PROVE PaidOncePerRoot
  <2> SUFFICES ASSUME NEW id \in PubkeyIDs
               PROVE  paid[id] <=
                        l2Unit * LargestStates({claim \in Claims(processed) : claim[2] = id})
    BY DEF PaidOncePerRoot
  <2>1. PICK all, some : /\ all = {claim \in Claims(processed) : claim[2] = id}
                         /\ some = ClaimedBy(id)
    OBVIOUS
  <2>2. /\ IsFiniteSet(Claims(processed)) /\ \A claim \in Claims(processed) : IsClaim(claim)
        /\ IsFiniteSet(some)
    BY <1>1, <2>1, ClaimsMade DEF MoneyInv
  <2>3. all \in SUBSET Claims(processed) /\ some \in SUBSET all
    BY <1>1, <2>1 DEF MoneyInv, MoneyType, ClaimedBy
  <2>4. IsFiniteSet(all) /\ \A claim \in all : IsClaim(claim)
    BY <2>2, <2>3, FS_Subset
  <2>5. \A claim \in some : IsClaim(claim)
    BY <2>3, <2>4
  <2>6. LargestStates(some) <= LargestStates(all)
    BY <2>3, <2>4, FewerClaims
  <2>7. LargestStates(some) \in Nat /\ LargestStates(all) \in Nat
    BY <2>2, <2>4, <2>5, LargestStatesType
  <2>8. PICK s, a : s = LargestStates(some) /\ a = LargestStates(all)
    OBVIOUS
  <2>9. l2Unit * s <= l2Unit * a /\ l2Unit * s \in Nat /\ l2Unit * a \in Nat
    BY <2>6, <2>7, <2>8, UnitType, Units
  <2>10. paid[id] <= l2Unit * s /\ paid[id] \in Nat
    BY <1>1, <2>1, <2>8 DEF MoneyInv, MoneyType, PaidByClaims
  <2>11. paid[id] <= l2Unit * a
    BY <2>9, <2>10
  <2> QED
    BY <2>1, <2>8, <2>11
<1> QED
  BY <1>1, MoneyHolds, PTL

\* There are finitely many states in the batches in place.
LEMMA MigratedType ==
  ASSUME ChainType, NEW id
  PROVE  /\ IsFiniteSet(MigratedStates(id))
         /\ \A t \in MigratedStates(id) : StateAt(t).balance \in Nat
         /\ \A i \in DOMAIN chain : \A path \in DOMAIN chain[i].content :
              \A k \in DOMAIN chain[i].content[path].withdrawRoot :
                chain[i].content[path].withdrawRoot[k].pubkeyID = id
                  => <<i, path, k>> \in MigratedStates(id)
<1> DEFINE inRoot == [i \in DOMAIN chain |-> [path \in DOMAIN chain[i].content |->
                        {<<i, path, k>> : k \in DOMAIN chain[i].content[path].withdrawRoot}]]
           inBatch == [i \in DOMAIN chain |->
                         UNION {inRoot[i][path] : path \in DOMAIN chain[i].content}]
           all == UNION {inBatch[i] : i \in DOMAIN chain}
<1>1. ASSUME NEW i \in DOMAIN chain PROVE IsFiniteSet(inBatch[i])
  <2>1. PICK content : content = chain[i].content
    OBVIOUS
  <2>2. content \in Seq(MMCommitment)
    <3>1. chain[i] \in Link
      BY DEF ChainType
    <3> QED
      BY <2>1, <3>1, WithdrawalAssumption DEF Link
  <2>3. IsFiniteSet(DOMAIN content)
    <3>1. DOMAIN content = 1 .. Len(content) /\ Len(content) \in Nat
      BY <2>2
    <3> QED
      BY <3>1, FS_Interval
  <2>4. ASSUME NEW path \in DOMAIN content PROVE IsFiniteSet(inRoot[i][path])
    <3>1. PICK root : root = chain[i].content[path].withdrawRoot
      OBVIOUS
    <3>2. root \in Roots
      BY <2>1, <3>1, ContentType
    <3>3. IsFiniteSet(DOMAIN root)
      BY <3>2, RootType
    <3> DEFINE at == [k \in DOMAIN root |-> <<i, path, k>>]
    <3>4. inRoot[i][path] = {at[k] : k \in DOMAIN root}
      BY <2>1, <3>1
    <3> HIDE DEF at, inRoot
    <3> QED
      BY <3>3, <3>4, FiniteImage
  <2>5. inBatch[i] = UNION {inRoot[i][path] : path \in DOMAIN content}
    BY <2>1
  <2> DEFINE sets == {inRoot[i][path] : path \in DOMAIN content}
             of == inRoot[i]
  <2>6. sets = {of[path] : path \in DOMAIN content}
    OBVIOUS
  <2>7. \A set \in sets : IsFiniteSet(set)
    BY <2>4
  <2>8. inBatch[i] = UNION sets
    BY <2>5
  <2> HIDE DEF sets, of, inRoot, inBatch
  <2>9. IsFiniteSet(sets)
    BY <2>3, <2>6, FiniteImage
  <2> QED
    BY <2>7, <2>8, <2>9, FS_UNION
<1>2. IsFiniteSet(DOMAIN chain)
  <2>1. DOMAIN chain = 1 .. Len(chain) /\ Len(chain) \in Nat
    BY LinksOfChain
  <2> QED
    BY <2>1, FS_Interval
<1>3. IsFiniteSet(all)
  <2> DEFINE sets == {inBatch[i] : i \in DOMAIN chain}
  <2>1. \A set \in sets : IsFiniteSet(set)
    BY <1>1
  <2> HIDE DEF inBatch
  <2>2. IsFiniteSet(sets)
    BY <1>2, FiniteImage
  <2> HIDE DEF sets
  <2>3. IsFiniteSet(UNION sets)
    BY <2>1, <2>2, FS_UNION
  <2> QED
    BY <2>3 DEF sets
<1>4. ASSUME NEW t
      PROVE  t \in MigratedStates(id) <=>
               \E i \in DOMAIN chain : \E path \in DOMAIN chain[i].content :
                 \E k \in DOMAIN chain[i].content[path].withdrawRoot :
                   t = <<i, path, k>> /\ StateAt(t).pubkeyID = id
  BY DEF MigratedStates
<1>5. MigratedStates(id) \subseteq all
  BY <1>4
<1>6. IsFiniteSet(MigratedStates(id))
  <2> HIDE DEF all
  <2> QED
    BY <1>3, <1>5, FS_Subset
<1>7. ASSUME NEW t \in MigratedStates(id) PROVE StateAt(t).balance \in Nat
  <2>1. PICK i \in DOMAIN chain : \E path \in DOMAIN chain[i].content :
          \E k \in DOMAIN chain[i].content[path].withdrawRoot : t = <<i, path, k>>
    BY <1>4
  <2>2. PICK path \in DOMAIN chain[i].content :
          \E k \in DOMAIN chain[i].content[path].withdrawRoot : t = <<i, path, k>>
    BY <2>1
  <2>3. PICK root : root = chain[i].content[path].withdrawRoot
    OBVIOUS
  <2>4. PICK k \in DOMAIN root : t = <<i, path, k>>
    BY <2>2, <2>3
  <2>5. root \in Roots
    BY <2>3, ContentType
  <2>6. StateAt(t) = root[k]
    BY <2>3, <2>4 DEF StateAt
  <2> QED
    BY <2>5, <2>6, RootType
<1>8. ASSUME NEW i \in DOMAIN chain, NEW path \in DOMAIN chain[i].content,
             NEW k \in DOMAIN chain[i].content[path].withdrawRoot,
             chain[i].content[path].withdrawRoot[k].pubkeyID = id
      PROVE  <<i, path, k>> \in MigratedStates(id)
  <2>1. StateAt(<<i, path, k>>).pubkeyID = id
    BY <1>8 DEF StateAt
  <2> QED
    BY <1>4, <2>1
<1> QED
  BY <1>6, <1>7, <1>8

\* Each claim of a public key has a state of its own in a batch in place.
LEMMA ClaimsMigrated ==
  ASSUME IInv, MoneyInv, doomed = {}, NEW id \in PubkeyIDs
  PROVE  LargestStates(ClaimedBy(id))
           <= SumFunctionOnSet([t \in MigratedStates(id) |-> StateAt(t).balance],
                               MigratedStates(id))
<1> DEFINE T == ClaimedBy(id)
           g == [claim \in T |-> LargestState(claim)]
           S == MigratedStates(id)
           f == [t \in S |-> StateAt(t).balance]
           rootOf(t) == chain[t[1]].content[t[2]].withdrawRoot
           h == [claim \in T |->
                   CHOOSE t \in S : rootOf(t) = claim[1] /\ StateAt(t).balance = LargestState(claim)]
<1>1. IsFiniteSet(S) /\ \A t \in S : f[t] \in Nat
  BY MigratedType DEF IInv
<1>2. IsFiniteSet(T)
  BY ClaimsMade DEF MoneyInv
<1>3. ASSUME NEW claim \in T
      PROVE  /\ h[claim] \in S /\ rootOf(h[claim]) = claim[1]
             /\ g[claim] = f[h[claim]] /\ g[claim] \in Nat
             /\ claim = <<claim[1], claim[2]>> /\ claim[2] = id
  <2>1. claim \in Claims(processed) /\ claim[2] = id
    BY DEF ClaimedBy, MoneyInv, MoneyType
  <2>2. PICK root : root = claim[1]
    OBVIOUS
  <2>3. root \in processed /\ IsClaim(claim)
    BY <2>1, <2>2, ClaimsOfRoots DEF MoneyInv, MoneyType
  <2>4. claim = <<root, id>> /\ root \in Roots /\ id \in IDsIn(root) /\ LargestState(claim) \in Nat
    BY <2>1, <2>2, <2>3, ClaimType
  <2>5. PICK i \in bitmap : \E path \in DOMAIN chain[i].content :
          chain[i].content[path].withdrawRoot = root
    BY <2>3 DEF MoneyInv, ProcessedInPlace
  <2>6. i \in DOMAIN chain
    BY LinksOfChain DEF IInv, ApprovedIsSafe
  <2>7. PICK path \in DOMAIN chain[i].content : chain[i].content[path].withdrawRoot = root
    BY <2>5
  <2>8. PICK k \in DOMAIN root :
          root[k].pubkeyID = id /\ root[k].balance = LargestState(<<root, id>>)
    BY <2>4, LargestType
  <2>9. <<i, path, k>> \in S
    BY <2>6, <2>7, <2>8, MigratedType DEF IInv
  <2>10. rootOf(<<i, path, k>>) = root /\ StateAt(<<i, path, k>>).balance = LargestState(claim)
    BY <2>4, <2>7, <2>8 DEF StateAt
  <2>11. \E t \in S : rootOf(t) = claim[1] /\ StateAt(t).balance = LargestState(claim)
    BY <2>2, <2>9, <2>10
  <2>12. h[claim] \in S /\ rootOf(h[claim]) = claim[1]
         /\ StateAt(h[claim]).balance = LargestState(claim)
    BY <2>11
  <2>13. g[claim] = LargestState(claim)
    OBVIOUS
  <2>14. f[h[claim]] = StateAt(h[claim]).balance
    BY <2>12
  <2> HIDE DEF h, g, f, S, rootOf
  <2> QED
    BY <2>1, <2>2, <2>4, <2>12, <2>13, <2>14
<1>4. LargestStates(T) = SumFunctionOnSet(g, T)
  BY DEF LargestStates
<1> HIDE DEF T, g, S, f, h, rootOf
<1>5. \A claim \in T : h[claim] \in S /\ g[claim] <= f[h[claim]]
  BY <1>1, <1>3
<1>6. \A a, b \in T : h[a] = h[b] => a = b
  BY <1>3
<1>7. \A claim \in T : g[claim] \in Nat
  BY <1>3
<1>8. SumFunctionOnSet(g, T) <= SumFunctionOnSet(f, S)
  BY <1>1, <1>2, <1>5, <1>6, <1>7, SumInjection
<1> QED
  BY <1>4, <1>8 DEF T, S, f

\* Nobody is paid more than the batches in place took from its L2 balance, unless
\* a batch was approved that is being rolled back.
THEOREM PaidIsMigrated == Spec => []PaidAtMostMigrated
<1>1. ASSUME IInv, MoneyInv PROVE PaidAtMostMigrated
  <2> SUFFICES ASSUME doomed = {}, NEW id \in PubkeyIDs
               PROVE  paid[id] <=
                        l2Unit * SumFunctionOnSet([t \in MigratedStates(id) |-> StateAt(t).balance],
                                                  MigratedStates(id))
    BY DEF PaidAtMostMigrated
  <2> DEFINE f == [t \in MigratedStates(id) |-> StateAt(t).balance]
  <2>1. IsFiniteSet(MigratedStates(id)) /\ \A t \in MigratedStates(id) : f[t] \in Nat
    BY <1>1, MigratedType DEF IInv
  <2>2. PICK migrated, some :
          /\ migrated = SumFunctionOnSet([t \in MigratedStates(id) |-> StateAt(t).balance],
                                         MigratedStates(id))
          /\ some = LargestStates(ClaimedBy(id))
    OBVIOUS
  <2>3. migrated \in Nat
    <3>1. migrated = SumFunctionOnSet(f, MigratedStates(id))
      BY <2>2
    <3> HIDE DEF f
    <3> QED
      BY <2>1, <3>1, SumNat
  <2>4. some <= migrated
    BY <1>1, <2>2, ClaimsMigrated
  <2>5. \A claim \in ClaimedBy(id) : IsClaim(claim)
    BY <1>1, ClaimsMade DEF MoneyInv, ClaimedBy
  <2>6. some \in Nat
    BY <1>1, <2>2, <2>5, ClaimsMade, LargestStatesType DEF MoneyInv
  <2>7. l2Unit * some <= l2Unit * migrated /\ l2Unit * some \in Nat /\ l2Unit * migrated \in Nat
    BY <2>3, <2>4, <2>6, UnitType, Units
  <2>8. paid[id] <= l2Unit * some /\ paid[id] \in Nat
    BY <1>1, <2>2 DEF MoneyInv, MoneyType, PaidByClaims
  <2>9. paid[id] <= l2Unit * migrated
    BY <2>7, <2>8
  <2> QED
    BY <2>2, <2>9
<1> QED
  BY <1>1, InvariantHolds, MoneyHolds, PTL

(***************************************************************************)
(* What the withdraw manager holds.                                        *)
(***************************************************************************)
\* What is processed and not claimed.
Open == Claims(processed) \ claimed

LEMMA OpenType ==
  ASSUME MoneyType
  PROVE  /\ IsFiniteSet(Open) /\ \A claim \in Open : IsClaim(claim)
         /\ LargestStates(Open) \in Nat
<1>1. Open \in SUBSET Claims(processed)
  BY DEF Open
<1>2. IsFiniteSet(Open) /\ \A claim \in Open : IsClaim(claim)
  BY <1>1, ClaimsMade, FS_Subset
<1> QED
  BY <1>2, LargestStatesType

\* What is missing from each root, and from all of them.
LEMMA ShortfallType ==
  ASSUME MoneyType
  PROVE  /\ \A root \in processed : Missing(root) \in Nat
         /\ Shortfall \in Nat
<1>1. ASSUME NEW root \in processed PROVE Missing(root) \in Nat
  <2>1. Total(root) \in Nat /\ received[root] \in Nat
    BY TotalCovers DEF MoneyType
  <2> QED
    BY <2>1 DEF Missing
<1> DEFINE f == [root \in processed |-> Missing(root)]
<1>2. IsFiniteSet(processed) /\ \A root \in processed : f[root] \in Nat
  BY <1>1 DEF MoneyType
<1>3. Shortfall = SumFunctionOnSet(f, processed)
  BY DEF Shortfall
<1> HIDE DEF f
<1> QED
  BY <1>1, <1>2, <1>3, SumNat

\* Processing a root makes it miss no more than its total less what came with it
\* now, or than it did before less that; nothing else changes.
LEMMA ShortfallAfter ==
  ASSUME IInv, MoneyInv, NEW batchID \in DOMAIN chain,
         NEW path \in DOMAIN chain[batchID].content,
         processWithdrawCommitment(batchID, path)
  PROVE  LET root   == chain[batchID].content[path].withdrawRoot
             amount == chain[batchID].content[path].amount
         IN  /\ Shortfall' \in Nat
             /\ root \in processed => Shortfall <= Shortfall' + amount
             /\ root \notin processed => Shortfall + Total(root) <= Shortfall' + amount
<1>1. PICK root, amount : /\ root = chain[batchID].content[path].withdrawRoot
                          /\ amount = chain[batchID].content[path].amount
  OBVIOUS
<1>2. root \in Roots /\ amount \in Nat /\ Total(root) \in Nat
  BY <1>1, ContentType, TotalCovers DEF IInv
<1>3. MoneyType /\ MoneyType' /\ processed' = processed \cup {root}
  BY <1>1, ProcessStepOfMoney DEF MoneyInv, processWithdrawCommitment
<1>4. /\ received \in [processed -> Nat] /\ received' \in [processed' -> Nat]
      /\ \A r \in processed : r # root => received'[r] = received[r]
      /\ root \in processed => received'[root] = received[root] + amount
      /\ root \notin processed => received'[root] = amount
  BY <1>1, <1>2, <1>3, ReceivedAfter DEF MoneyType
<1> DEFINE f == [r \in processed |-> Missing(r)]
           g == [r \in processed' |-> Missing(r)']
<1>5. /\ \A r \in processed : f[r] \in Nat
      /\ IsFiniteSet(processed) /\ Shortfall \in Nat
  BY <1>3, ShortfallType DEF MoneyType
<1>6. \A r \in processed' : Missing(r)' =
        IF received'[r] < Total(r) THEN Total(r) - received'[r] ELSE 0
  BY DEF Missing
<1>7. ASSUME NEW r \in processed \ {root} PROVE g[r] = f[r]
  BY <1>3, <1>4, <1>6 DEF Missing
<1>8. g[root] = IF received'[root] < Total(root) THEN Total(root) - received'[root] ELSE 0
  BY <1>3, <1>6
<1>9. g[root] \in Nat /\ received'[root] \in Nat
  <2>1. received'[root] \in Nat
    BY <1>3, <1>4
  <2> QED
    BY <1>2, <1>8, <2>1
<1>10. root \in processed =>
         f[root] = IF received[root] < Total(root) THEN Total(root) - received[root] ELSE 0
  BY DEF Missing
<1>11. Shortfall = SumFunctionOnSet(f, processed)
  BY DEF Shortfall
<1>12. Shortfall' = SumFunctionOnSet(g, processed')
  BY DEF Shortfall
<1> HIDE DEF f, g
<1>13. SumFunctionOnSet(g, processed')
         = SumFunctionOnSet(f, processed)
             - (IF root \in processed THEN f[root] ELSE 0) + g[root]
  <2>1. Summable(f, processed)
    BY <1>5 DEF Summable
  <2>2. processed' \ {root} = processed \ {root} /\ root \in processed'
    BY <1>3
  <2>3. g[root] \in Int
    BY <1>9
  <2> QED
    BY <1>7, <2>1, <2>2, <2>3, SumReplace
<1>14. CASE root \in processed
  <2>1. PICK now, then, missing : /\ now = received'[root] /\ then = received[root]
                                  /\ missing = f[root]
    OBVIOUS
  <2>2. /\ then \in Nat /\ now = then + amount /\ missing \in Nat
        /\ missing = IF then < Total(root) THEN Total(root) - then ELSE 0
        /\ g[root] = IF now < Total(root) THEN Total(root) - now ELSE 0
    BY <1>4, <1>5, <1>8, <1>10, <1>14, <2>1
  <2>3. missing <= g[root] + amount
    BY <1>2, <2>2
  <2>4. Shortfall' = Shortfall - missing + g[root]
    BY <1>11, <1>12, <1>13, <1>14, <2>1
  <2>5. Shortfall - missing \in Nat
    <3>1. missing <= Shortfall
      BY <1>5, <1>11, <1>14, <2>1, SumNat
    <3> QED
      BY <1>5, <2>2, <3>1
  <2>6. PICK short, later, fresh : /\ short = Shortfall /\ later = Shortfall'
                                   /\ fresh = g[root]
    OBVIOUS
  <2>7. later \in Nat /\ short <= later + amount
    BY <1>2, <1>5, <1>9, <2>2, <2>3, <2>4, <2>5, <2>6
  <2> QED
    BY <1>1, <1>14, <2>6, <2>7
<1>15. CASE root \notin processed
  <2>1. received'[root] = amount
    BY <1>4, <1>15
  <2>2. Total(root) <= g[root] + amount
    BY <1>2, <1>8, <1>9, <2>1
  <2>3. Shortfall' = Shortfall + g[root]
    BY <1>5, <1>9, <1>11, <1>12, <1>13, <1>15
  <2> QED
    BY <1>1, <1>2, <1>5, <1>9, <1>15, <2>2, <2>3
<1> QED
  BY <1>14, <1>15

\* The tokens that come with a root, and what is missing of it, cover the claims
\* it opens.
LEMMA ProcessStepCovers ==
  ASSUME IInv, MoneyInv, ManagerCoversClaims,
         NEW batchID \in DOMAIN chain, NEW path \in DOMAIN chain[batchID].content,
         processWithdrawCommitment(batchID, path)
  PROVE  ManagerCoversClaims'
<1>1. PICK root, amount : /\ root = chain[batchID].content[path].withdrawRoot
                          /\ amount = chain[batchID].content[path].amount
  OBVIOUS
<1>2. root \in Roots /\ amount \in Nat
  BY <1>1, ContentType DEF IInv
<1>3. /\ processed' = processed \cup {root} /\ claimed' = claimed
      /\ tokens'.manager = tokens.manager + amount * l2Unit
  BY <1>1 DEF processWithdrawCommitment, l1Amount
<1>4. PICK o, t, c, held, before, after :
        /\ o = LargestStates(Open) /\ t = Total(root)
        /\ c = LargestStates(Claims({root})) /\ held = tokens.manager
        /\ before = Shortfall /\ after = Shortfall'
  OBVIOUS
<1>5. o \in Nat /\ t \in Nat /\ c \in Nat /\ held \in Nat /\ c <= t
  <2>1. IsFiniteSet({root}) /\ {root} \subseteq Roots
    BY <1>2, FS_Singleton
  <2>2. IsFiniteSet(Claims({root})) /\ \A claim \in Claims({root}) : IsClaim(claim)
    BY <2>1, ClaimsOfRoots
  <2>3. c \in Nat
    BY <1>4, <2>2, LargestStatesType
  <2>4. t \in Nat /\ c <= t
    BY <1>2, <1>4, TotalCovers
  <2>5. o \in Nat
    BY <1>4, OpenType DEF MoneyInv
  <2> QED
    BY <1>4, <2>3, <2>4, <2>5 DEF MoneyInv, MoneyType
<1>6. /\ before \in Nat /\ after \in Nat
      /\ root \in processed => before <= after + amount
      /\ root \notin processed => before + t <= after + amount
  BY <1>1, <1>4, ShortfallType, ShortfallAfter DEF MoneyInv
<1>7. held + l2Unit * before >= l2Unit * o
  BY <1>4 DEF ManagerCoversClaims, Open
<1>8. tokens'.manager + l2Unit * after = held + l2Unit * (after + amount)
  <2>1. /\ amount * l2Unit = l2Unit * amount
        /\ l2Unit * (after + amount) = l2Unit * after + l2Unit * amount
        /\ l2Unit * amount \in Nat /\ l2Unit * after \in Nat
    BY <1>2, <1>6, UnitType, Units
  <2> QED
    BY <1>3, <1>4, <1>5, <2>1
<1>9. CASE root \in processed
  <2>1. Open' = Open
    BY <1>3, <1>9 DEF Open
  <2>2. /\ l2Unit * before <= l2Unit * (after + amount)
        /\ l2Unit * before \in Nat /\ l2Unit * (after + amount) \in Nat
        /\ l2Unit * o \in Nat
    BY <1>2, <1>5, <1>6, <1>9, UnitType, Units
  <2>3. tokens'.manager + l2Unit * after >= l2Unit * o
    BY <1>5, <1>7, <1>8, <2>2
  <2> QED
    BY <1>4, <2>1, <2>3 DEF ManagerCoversClaims, Open
<1>10. CASE root \notin processed
  <2>1. Claims(processed \cup {root}) = Claims(processed) \cup Claims({root})
    BY DEF Claims
  <2>2. Claims(processed) \cap Claims({root}) = {}
    BY <1>10 DEF Claims
  <2>3. claimed \subseteq Claims(processed)
    BY DEF MoneyInv, MoneyType
  <2>4. Open' = Open \cup Claims({root}) /\ Open \cap Claims({root}) = {}
    BY <1>3, <2>1, <2>2, <2>3 DEF Open
  <2>5. IsFiniteSet({root}) /\ {root} \subseteq Roots
    BY <1>2, FS_Singleton
  <2>6. IsFiniteSet(Claims({root})) /\ \A claim \in Claims({root}) : IsClaim(claim)
    BY <2>5, ClaimsOfRoots
  <2>7. IsFiniteSet(Open) /\ \A claim \in Open : IsClaim(claim)
    BY OpenType DEF MoneyInv
  <2>8. LargestStates(Open \cup Claims({root})) = o + c
    BY <1>4, <2>4, <2>6, <2>7, MoreClaims
  <2>9. /\ l2Unit * (before + t) <= l2Unit * (after + amount)
        /\ l2Unit * (before + t) = l2Unit * before + l2Unit * t
        /\ l2Unit * (o + c) = l2Unit * o + l2Unit * c
        /\ l2Unit * c <= l2Unit * t
    BY <1>2, <1>5, <1>6, <1>10, UnitType, Units
  <2>10. /\ l2Unit * before \in Nat /\ l2Unit * (after + amount) \in Nat
         /\ l2Unit * o \in Nat /\ l2Unit * c \in Nat /\ l2Unit * t \in Nat
    BY <1>2, <1>5, <1>6, UnitType, Units
  <2>11. tokens'.manager + l2Unit * after >= l2Unit * (o + c)
    BY <1>5, <1>7, <1>8, <2>9, <2>10
  <2> QED
    BY <1>4, <2>4, <2>8, <2>11 DEF ManagerCoversClaims, Open
<1> QED
  BY <1>9, <1>10

\* A claim takes no more than the largest state it may be for.
LEMMA ClaimStepCovers ==
  ASSUME IInv, MoneyInv, ManagerCoversClaims,
         NEW root \in processed, NEW path \in DOMAIN root, claimTokens(root, path)
  PROVE  ManagerCoversClaims'
<1>1. PICK balance, claim :
        balance = root[path].balance /\ claim = <<root, root[path].pubkeyID>>
  OBVIOUS
<1>2. /\ claim \in Open /\ balance \in Nat
      /\ LargestState(claim) \in Nat /\ balance <= LargestState(claim)
      /\ claimed' = claimed \cup {claim}
  BY <1>1, ClaimIsOpen DEF Open
<1>3. /\ processed' = processed /\ received' = received
      /\ tokens' = [tokens EXCEPT !.manager = @ - balance * l2Unit]
  BY <1>1 DEF claimTokens
<1>4. PICK largest, rest, held, short : /\ largest = LargestState(claim)
                                        /\ rest = LargestStates(Open \ {claim})
                                        /\ held = tokens.manager
                                        /\ short = l2Unit * Shortfall
  OBVIOUS
<1>5. Open' = Open \ {claim}
  BY <1>2, <1>3 DEF Open
<1>6. LargestStates(Open) = largest + rest /\ largest \in Nat /\ rest \in Nat
  BY <1>2, <1>4, OpenType, OneClaimLess DEF MoneyInv
<1>7. held + short >= l2Unit * (largest + rest) /\ held \in Nat /\ short \in Nat
  <2>1. Shortfall \in Nat
    BY ShortfallType DEF MoneyInv
  <2> QED
    BY <1>4, <1>6, <2>1, UnitType, Units
    DEF ManagerCoversClaims, Open, MoneyInv, MoneyType
<1>8. PICK cost : cost = l2Unit * balance
  OBVIOUS
<1>9. /\ l2Unit * (largest + rest) = l2Unit * largest + l2Unit * rest
      /\ cost <= l2Unit * largest /\ cost \in Nat /\ balance * l2Unit = cost
      /\ l2Unit * largest \in Nat /\ l2Unit * rest \in Nat
  BY <1>2, <1>4, <1>6, <1>8, UnitType, Units
<1>10. tokens'.manager = held - cost
  BY <1>3, <1>4, <1>9 DEF MoneyInv, MoneyType
<1>11. tokens'.manager + short >= l2Unit * rest
  BY <1>7, <1>9, <1>10
<1>12. l2Unit * Shortfall' = short
  BY <1>3, <1>4 DEF Shortfall, Missing
<1> QED
  BY <1>4, <1>5, <1>11, <1>12 DEF ManagerCoversClaims, Open

LEMMA NextCovers ==
  IInv /\ MoneyInv /\ ManagerCoversClaims /\ [Next]_vars => ManagerCoversClaims'
<1> SUFFICES ASSUME IInv, MoneyInv, ManagerCoversClaims, [Next]_vars
             PROVE  ManagerCoversClaims'
  OBVIOUS
<1>1. ASSUME UNCHANGED claimVars, tokens'.manager = tokens.manager
      PROVE  ManagerCoversClaims'
  <2>1. Shortfall' = Shortfall
    BY <1>1 DEF claimVars, Shortfall, Missing
  <2> QED
    BY <1>1, <2>1 DEF ManagerCoversClaims, claimVars
<1>2. CASE RollupNext
  BY <1>1, <1>2 DEF RollupNext, spokeVars
<1>3. CASE \E spoke \in Spokes : registerSpoke(spoke)
  BY <1>1, <1>3 DEF registerSpoke, spokeVars
<1>4. CASE \E batchID \in DOMAIN chain : \E path \in DOMAIN chain[batchID].content :
             \/ \E spoke \in OtherSpokes : requestApproval(spoke, batchID, path)
             \/ processWithdrawCommitment(batchID, path)
  <2>1. ASSUME NEW batchID \in DOMAIN chain, NEW path \in DOMAIN chain[batchID].content,
               NEW spoke \in OtherSpokes, requestApproval(spoke, batchID, path)
        PROVE  ManagerCoversClaims'
    BY <1>1, <2>1 DEF requestApproval
  <2> QED
    BY <1>4, <2>1, ProcessStepCovers
<1>5. CASE \E spoke \in OtherSpokes : SpokeTakes(spoke)
  <2>1. PICK spoke \in OtherSpokes : SpokeTakes(spoke)
    BY <1>5
  <2>2. tokens'.manager = tokens.manager
    BY <2>1 DEF SpokeTakes, MoneyInv, MoneyType
  <2> QED
    BY <1>1, <2>1, <2>2 DEF SpokeTakes
<1>6. CASE \E withdrawRoot \in KnownRoots : \E path \in DOMAIN withdrawRoot :
             claimTokens(withdrawRoot, path)
  BY <1>6, ClaimStepCovers DEF KnownRoots
<1>7. CASE UNCHANGED vars
  BY <1>1, <1>7 DEF vars, spokeVars
<1> QED
  BY <1>2, <1>3, <1>4, <1>5, <1>6, <1>7 DEF Next

LEMMA InitCovers == Init => ManagerCoversClaims
<1> SUFFICES ASSUME Init PROVE ManagerCoversClaims
  OBVIOUS
<1>1. processed = {} /\ claimed = {} /\ tokens.manager = 0
  BY DEF Init
<1>2. Claims(processed) \ claimed = {}
  BY <1>1 DEF Claims
<1>3. LargestStates({}) = 0
  BY SumOfNone DEF LargestStates
<1>4. Shortfall = 0
  BY <1>1, SumOfNone DEF Shortfall
<1>5. l2Unit * 0 = 0
  BY UnitType
<1> QED
  BY <1>1, <1>2, <1>3, <1>4, <1>5 DEF ManagerCoversClaims

\* WithdrawManager: what the manager holds covers every claim that is still open,
\* but for what the commitments of a root claimed less than its total, whoever
\* processes which commitments in which order.  Nothing is assumed of the rollup:
\* neither that batches take time to become final nor that anybody disputes.
THEOREM ManagerCovers == Spec => []ManagerCoversClaims
BY InitCovers, NextCovers, InvariantHolds, MoneyHolds, PTL DEF Spec
=============================================================================
