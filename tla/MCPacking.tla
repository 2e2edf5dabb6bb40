------------------------------ MODULE MCPacking ------------------------------
(* A small instance of Packing. *)
EXTENDS Packing

MkState(pubkeyID, tokenID, balance) ==
  [pubkeyID |-> pubkeyID, tokenID |-> tokenID, balance |-> balance, nonce |-> 0]

\* Two of each token; the node does not know the key of the last.
MCGenesisStates ==
  [id \in 0 .. 4 |->
     CASE id = 0 -> MkState(1, 1, 120) [] id = 1 -> MkState(2, 1, 40)
       [] id = 2 -> MkState(1, 2, 9)   [] id = 3 -> MkState(2, 2, 3)
       [] id = 4 -> MkState(9, 1, 9)]

MCFeeReceivers == [tokenID \in {1, 2} |-> IF tokenID = 1 THEN 0 ELSE 2]

Transfer(from, to, amount, fee, nonce) ==
  [from |-> from, to |-> to, amount |-> amount, fee |-> fee, nonce |-> nonce,
   own |-> TRUE, signature |-> "valid"]

\* Two in a row of one sender, the second with a higher fee, or with a nonce that
\* was counted up; one of the other; without a fee, of the other token; with
\* amounts that cannot be written; unsigned; from an unknown key; of all that a
\* sender has, so that the fee is missing until something comes in.
MCOffered ==
  {Transfer(0, 1, 10, 1, 0), Transfer(0, 1, 10, 2, 1), [Transfer(0, 1, 5, 1, 1) EXCEPT !.own = FALSE],
   Transfer(1, 0, 3, 1, 0), Transfer(2, 3, 1, 0, 0), Transfer(1, 0, 16, 2, 0),
   [Transfer(1, 0, 2, 1, 0) EXCEPT !.signature = "none"], Transfer(4, 0, 1, 1, 0), Transfer(1, 0, 40, 1, 0)}

MCUsers == <<[tokenID \in {1, 2} |-> IF tokenID = 1 THEN 0 ELSE 2],
             [tokenID \in {1, 2} |-> IF tokenID = 1 THEN 1 ELSE 3]>>
=============================================================================
