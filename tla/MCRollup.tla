------------------------------ MODULE MCRollup ------------------------------
(* Small instances of Rollup for TLC: the values of its constants. *)
EXTENDS Rollup

CONSTANTS c1, s1, s2

Always(outcome) == [kind \in Usages |-> outcome]

Body(replay, signature, creates) ==
  [replay |-> replay, signature |-> signature, creates |-> creates]

\* Transactions that write to slot s1: as those of another kind they are bad.
Creating ==
  Body([Always("Bad") EXCEPT !["Create2Transfer"] = "Ok"], Always("Ok"), {s1})

\* Signatures that fail, and transactions that write to slot s1.
MCBodies == {Body(Always("Ok"), Always("Bad"), {}), Creating}

\* Good mass migrations, whose sender does not exist and whose signatures fail
\* when they are read as another kind, and transactions that write to slot s1.
MCBodiesThatRevert ==
  {Body([Always("Revert") EXCEPT !["MassMigration"] = "Ok"],
        [Always("Bad") EXCEPT !["MassMigration"] = "Ok"], {}),
   Creating}
=============================================================================
