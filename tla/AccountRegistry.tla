-------------------------- MODULE AccountRegistry --------------------------
(***************************************************************************)
(* The registry of public keys: the contract's account tree, which appends *)
(* to a left tree one key and to a right tree a batch of keys at a time    *)
(* (AccountTree.sol), and the client's copy of it, kept by the calls of    *)
(* AccountRegistry (accountTree.ts) alone.  Each call awaits the contract  *)
(* several times, other calls and other people's registrations in between. *)
(***************************************************************************)
EXTENDS Trees

CONSTANTS
  TreeDepth,   \* DEPTH, 31 in the contract
  BatchDepth,  \* BATCH_DEPTH
  Pubkeys,
  KeyBatches,  \* the arguments of registerBatch
  Callers,
  MaxRegistrations  \* bound: registrations sent

ASSUME AccountAssumption ==
  /\ TreeDepth \in Nat /\ TreeDepth < BitWidth
  /\ BatchDepth \in Nat /\ BatchDepth < TreeDepth
  /\ KeyBatches \subseteq Seq(Pubkeys)

SET_SIZE == Pow2[TreeDepth]
BATCH_SIZE == Pow2[BatchDepth]

VARIABLES
  left, right,        \* the contract: the keys of either tree, in order,
  filled,             \* filledSubtrees, by tree,
  chainRoot,          \* rootLeft and rootRight,
  mempool,            \* and the registrations that are not mined yet
  treeLeft, treeRight, leftIndex, rightIndex,  \* the client
  pending,            \* by caller: the call it is in the middle of
  sent,               \* bound: registrations sent
  returned            \* history: the IDs the calls returned, with their keys and
                      \* whether the client's tree then had the key there

chainVars == <<left, right, filled, chainRoot, mempool>>
clientVars == <<treeLeft, treeRight, leftIndex, rightIndex>>
accountVars == <<chainVars, clientVars, pending, sent, returned>>

ContractZeros == zeros(TreeDepth)
zeroAt(height) == ContractZeros[TreeDepth - height]
pubkeyToLeaf(pubkey) == toLeaf(pubkey)
NoRequest == [at |-> "none"]

AccountTypeOK ==
  /\ left \in Seq(Pubkeys) /\ Len(left) < SET_SIZE
  /\ right \in Seq(Pubkeys) /\ Len(right) <= SET_SIZE /\ Len(right) % BATCH_SIZE = 0
  /\ leftIndex \in 0 .. Len(left) /\ rightIndex \in 0 .. Len(right)
  /\ {treeLeft.depth, treeRight.depth} = {TreeDepth}
  /\ \A c \in Callers : pending[c].at \in {"none", "send", "check", "sync"}

AccountInit ==
  /\ left = << >> /\ right = << >>
  /\ filled = [left |-> [i \in 0 .. TreeDepth - 1 |-> zeroAt(i)],
               right |-> [i \in 0 .. TreeDepth - BatchDepth - 1 |-> zeroAt(i + BatchDepth)]]
  /\ chainRoot = [left |-> zeroAt(TreeDepth), right |-> zeroAt(TreeDepth)]
  /\ mempool = {}
  /\ treeLeft = NewTree(TreeDepth) /\ treeRight = NewTree(TreeDepth)
  /\ leftIndex = 0 /\ rightIndex = 0
  /\ pending = [c \in Callers |-> NoRequest]
  /\ sent = 0
  /\ returned = {}

\* Up from a node of the given height at `path`: beside what is to the left of
\* it, or beside zeros, remembering the first node that waits for its right one.
Appended(subtrees, path, node, height) ==
  LET Odd(i) == (path \div Pow2[i]) % 2 = 1
      up[i \in 0 .. TreeDepth - height] ==
        IF i = 0 THEN [node |-> node, subtrees |-> subtrees, set |-> FALSE]
        ELSE LET u == up[i - 1]
             IN  IF Odd(i - 1)
                 THEN [u EXCEPT !.node = Hash2(u.subtrees[i - 1], u.node)]
                 ELSE [node |-> Hash2(u.node, zeroAt(i - 1 + height)), set |-> TRUE,
                       subtrees |-> IF u.set THEN u.subtrees
                                    ELSE [u.subtrees EXCEPT ![i - 1] = u.node]]
  IN  up[TreeDepth - height]

\* _updateSingle: the last leaf of the left tree is never used.
updateLeft(pubkey) ==
  LET a == Appended(filled.left, Len(left), pubkeyToLeaf(pubkey), 0)
  IN  /\ Len(left) < SET_SIZE - 1
      /\ left' = Append(left, pubkey)
      /\ filled' = [filled EXCEPT !.left = a.subtrees]
      /\ chainRoot' = [chainRoot EXCEPT !.left = a.node]
      /\ UNCHANGED right

\* _updateBatch
updateRight(pubkeys) ==
  LET top == MerkleRoot(BatchDepth, [i \in 0 .. BATCH_SIZE - 1 |-> pubkeyToLeaf(pubkeys[i + 1])])
      a == Appended(filled.right, Len(right) \div BATCH_SIZE, top, BatchDepth)
  IN  /\ Len(right) < SET_SIZE - 1 - BATCH_SIZE
      /\ right' = right \o pubkeys
      /\ filled' = [filled EXCEPT !.right = a.subtrees]
      /\ chainRoot' = [chainRoot EXCEPT !.right = a.node]
      /\ UNCHANGED left

\* A registration is mined, in any order; one the tree has no room for reverts
\* and changes nothing, as if it stayed in the mempool.
Mine ==
  \E tx \in mempool :
    /\ mempool' = mempool \ {tx}
    /\ IF tx.side = "left" THEN updateLeft(tx.keys[1]) ELSE updateRight(tx.keys)
    /\ UNCHANGED <<clientVars, pending, sent, returned>>

\* The type of the contract's argument, which register of the client checks.
IsRequest(side, keys) == side = "left" \/ Len(keys) = BATCH_SIZE
Sends(side, keys, c) ==
  /\ sent < MaxRegistrations /\ sent' = sent + 1
  /\ mempool' = mempool \cup {[side |-> side, keys |-> keys, from |-> c, n |-> sent]}
  /\ UNCHANGED <<left, right, filled, chainRoot>>

\* Somebody else registers: the client's trees do not follow.
OthersRegister(side, keys) ==
  /\ IsRequest(side, keys)
  /\ Sends(side, keys, "other")
  /\ UNCHANGED <<clientVars, pending, returned>>

-----------------------------------------------------------------------------
\* syncLeftIndex, syncRightIndex
syncIndex(side) ==
  IF side = "left" THEN leftIndex' = Len(left) /\ UNCHANGED <<treeLeft, treeRight, rightIndex>>
                   ELSE rightIndex' = Len(right) /\ UNCHANGED <<treeLeft, treeRight, leftIndex>>

\* register, registerBatch: the index is read first,
register(c, side, keys) ==
  /\ pending[c] = NoRequest
  /\ IsRequest(side, keys)
  /\ sent < MaxRegistrations
  /\ syncIndex(side)
  /\ pending' = [pending EXCEPT ![c] =
       [at |-> "send", side |-> side, keys |-> keys,
        index |-> IF side = "left" THEN Len(left) ELSE Len(right)]]
  /\ UNCHANGED <<chainVars, sent, returned>>

\* the transaction is sent next, and the leaves written where the index was,
SendAndWrite(c) ==
  LET p == pending[c]
      leaves == [i \in DOMAIN p.keys |-> pubkeyToLeaf(p.keys[i])]
  IN  /\ p.at = "send"
      /\ Sends(p.side, p.keys, c)
      /\ IF p.side = "left"
         THEN treeLeft' = updateSingle(treeLeft, p.index, leaves[1]) /\ UNCHANGED treeRight
         ELSE treeRight' = updateBatch(treeRight, p.index, leaves) /\ UNCHANGED treeLeft
      /\ pending' = [pending EXCEPT ![c].at = "check"]
      /\ UNCHANGED <<leftIndex, rightIndex, returned>>

\* witness: the siblings in one tree and, last, the root of the other one.
pubkeyWitness(pubkeyID) ==
  IF pubkeyID < SET_SIZE
  THEN Append(witness(treeLeft, pubkeyID, TreeDepth).nodes, treeRoot(treeRight))
  ELSE Append(witness(treeRight, pubkeyID - SET_SIZE, TreeDepth).nodes, treeRoot(treeLeft))

\* exists, _checkInclusion of the contract
existsOnChain(pubkeyID, pubkey, nodes) ==
  computeRoot(pubkeyToLeaf(pubkey), pubkeyID % SET_SIZE, nodes) =
    IF pubkeyID < SET_SIZE THEN chainRoot.left ELSE chainRoot.right

\* Mutant: the contract is not asked.
Trusted(pubkeyID, pubkey) == TRUE

\* checkExistence leaves the last node of the witness out.
checkExistence(pubkeyID, pubkey) ==
  existsOnChain(pubkeyID, pubkey, SubSeq(pubkeyWitness(pubkeyID), 1, TreeDepth))

\* the contract is asked for the last key: RegistrationFail, or the index again.
Check(c) ==
  LET p == pending[c]
      first == IF p.side = "left" THEN p.index ELSE p.index + SET_SIZE
      lastKey == Len(p.keys)
      leaf(i) == getNode(IF p.side = "left" THEN treeLeft ELSE treeRight,
                         TreeDepth, p.index + i - 1)
  IN  /\ p.at = "check"
      /\ IF checkExistence(first + lastKey - 1, p.keys[lastKey])
         THEN /\ pending' = [pending EXCEPT ![c].at = "sync"]
              /\ returned' = returned \cup
                {[id |-> first + i - 1, pubkey |-> p.keys[i], last |-> i = lastKey,
                  held |-> leaf(i) = pubkeyToLeaf(p.keys[i])] : i \in DOMAIN p.keys}
         ELSE /\ pending' = [pending EXCEPT ![c] = NoRequest]
              /\ UNCHANGED returned
      /\ UNCHANGED <<chainVars, clientVars, sent>>

Return(c) ==
  /\ pending[c].at = "sync"
  /\ syncIndex(pending[c].side)
  /\ pending' = [pending EXCEPT ![c] = NoRequest]
  /\ UNCHANGED <<chainVars, sent, returned>>

AccountNext ==
  \/ Mine
  \/ \E pubkey \in Pubkeys : OthersRegister("left", <<pubkey>>)
  \/ \E keys \in KeyBatches : OthersRegister("right", keys)
  \/ \E c \in Callers :
       \/ \E pubkey \in Pubkeys : register(c, "left", <<pubkey>>)
       \/ \E keys \in KeyBatches : register(c, "right", keys)
       \/ SendAndWrite(c) \/ Check(c) \/ Return(c)

AccountSpec == AccountInit /\ [][AccountNext]_accountVars

-----------------------------------------------------------------------------
(* The roots the contract computes as it appends, from the subtrees it     *)
(* keeps, are those of trees of all the keys (AccountTree.sol:47-119).     *)
AppendedIsHashed ==
  /\ chainRoot.left =
       MerkleRoot(TreeDepth, [i \in 0 .. Len(left) - 1 |-> pubkeyToLeaf(left[i + 1])])
  /\ chainRoot.right =
       MerkleRoot(TreeDepth, [i \in 0 .. Len(right) - 1 |-> pubkeyToLeaf(right[i + 1])])

(* An ID that register or registerBatch returns is the key's on the chain, *)
(* however many calls read the same index before any of them is mined, and *)
(* whoever else registers.  The contract is asked for the last key of a    *)
(* batch alone, beside the nodes of the client's tree: it answers for the  *)
(* others as that tree has them, and not as the call wrote them when one   *)
(* that came later wrote at the same index (accountTree.ts:42-49, 57-69).  *)
OnChain(id, pubkey) ==
  IF id < SET_SIZE THEN id < Len(left) /\ left[id + 1] = pubkey
  ELSE id - SET_SIZE < Len(right) /\ right[id - SET_SIZE + 1] = pubkey
RegisteredIDsAreTrue ==
  \A r \in returned : r.last \/ r.held => OnChain(r.id, r.pubkey)
=============================================================================
