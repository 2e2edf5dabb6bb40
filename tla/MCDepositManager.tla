-------------------------- MODULE MCDepositManager --------------------------
(* A small instance of DepositManager for TLC. *)
EXTENDS DepositManager
=============================================================================
