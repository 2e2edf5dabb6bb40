--------------------------- MODULE MCWithdrawals ---------------------------
(* Small instances of Withdrawals for TLC: the values of its constants. *)
EXTENDS Withdrawals

CONSTANTS alice, bob

Leaf(id, balance) == [pubkeyID |-> id, balance |-> balance]

Migration(spokeID, withdrawRoot, amount) ==
  [spokeID |-> spokeID, withdrawRoot |-> withdrawRoot, amount |-> amount]

\* Two users; one user twice; an amount that is less than the total of the root,
\* which is one that a right commitment has as well.
MCContents ==
  {<<Migration(1, <<Leaf(alice, 1), Leaf(bob, 1)>>, 2)>>,
   <<Migration(1, <<Leaf(alice, 1), Leaf(alice, 2)>>, 3),
     Migration(2, <<Leaf(bob, 1)>>, 1)>>,
   <<Migration(1, <<Leaf(alice, 1), Leaf(bob, 1)>>, 1)>>}
=============================================================================
