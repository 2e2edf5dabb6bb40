------------------------------- MODULE MCNode -------------------------------
(* A small instance of Node.  The accounts of the auction follow from its   *)
(* bids and decide nothing here, so states that differ in them alone are    *)
(* one.  Bids are followed for slots 3 to 5: slot 3 is the first that a     *)
(* node created in slot 0 bids for.                                         *)
EXTENDS Node

WithoutAccounts == <<block, auction, mode, delivered, bidder, handlers, packer, listening, history>>
SomeSlots       == DOMAIN auction \subseteq 3 .. 5
=============================================================================
