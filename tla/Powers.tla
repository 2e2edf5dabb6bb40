------------------------------- MODULE Powers -------------------------------
(***************************************************************************)
(* Powers of two and of ten, as functions that proofs can unfold.          *)
(***************************************************************************)
EXTENDS Integers

Pow2[n \in Nat]  == IF n = 0 THEN 1 ELSE 2 * Pow2[n - 1]
Pow10[n \in Nat] == IF n = 0 THEN 1 ELSE 10 * Pow10[n - 1]
=============================================================================
