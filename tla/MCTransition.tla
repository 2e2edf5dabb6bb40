---------------------------- MODULE MCTransition ----------------------------
(***************************************************************************)
(* Small instances of Transition, with the client's StateTree on its       *)
(* states, and of Commitments: one of the two runs.                        *)
(***************************************************************************)
EXTENDS StateTree, Commitments

CONSTANTS alice, bob

MkTx(from, to, amount, fee) ==
  [from |-> from, to |-> to, toPubkeyID |-> bob, amount |-> amount, fee |-> fee]

\* Back and forth, to oneself, to the fee receiver, nothing, too much.
MCTransfers ==
  {MkTx(0, 1, 1, 1), MkTx(1, 0, 1, 0), MkTx(0, 0, 1, 1), MkTx(1, 2, 2, 0), MkTx(0, 1, 0, 1)}

\* To an empty leaf, to a used one, from a leaf that was just created.
MCCreate2Transfers ==
  {MkTx(0, 2, 2, 0), MkTx(1, 0, 1, 0), MkTx(2, 1, 1, 1)}

MCMassMigrations == {MkTx(0, 0, 1, 0), MkTx(1, 1, 1, 1)}

MCDepositStates ==
  {[pubkeyID |-> alice, tokenID |-> 1, balance |-> 3, nonce |-> 0],
   [pubkeyID |-> bob, tokenID |-> 2, balance |-> 2, nonce |-> 0]}

\* Numbers at the ends of the codec: exact with an exponent and without, the
\* largest, not representable; indices of one byte and of four, and too large.
Encoded(from, to, amount, fee) ==
  [from |-> from, to |-> to, toPubkeyID |-> 7, toPubkey |-> "key", amount |-> amount,
   fee |-> fee, nonce |-> 5, spokeID |-> 1]
MCTxs ==
  [k \in {"Transfer", "Create2Transfer", "MassMigration"} |->
     {Encoded(9, 4095, 15, 0), Encoded(100, 8, 15000, 100), Encoded(0, 1, 16, 1),
      Encoded(4096, 1, 1, 1)}]

MCNumbers == 0 .. 120 \cup {149, 150, 151, 1499, 1500, 10000, 14000, 15000, 15001, 20000, 100000}

VARIABLE part

MCInit ==
  \/ part = "transition" /\ Init /\ kind = "Transfer" /\ txs = <<>> /\ commitments = <<>>
  \/ part = "commitments" /\ CommitmentInit /\ Init

MCNext ==
  \/ part = "transition" /\ Next /\ UNCHANGED <<commitmentVars, part>>
  \/ part = "commitments" /\ CommitmentNext /\ UNCHANGED <<vars, part>>

MCSpec == MCInit /\ [][MCNext]_<<vars, commitmentVars, part>>
=============================================================================
