--------------------------- MODULE MCBurnAuction ---------------------------
(* A small instance of BurnAuction for TLC. *)
EXTENDS BurnAuction
=============================================================================
