------------------------------- MODULE MCClient -------------------------------
(* A small instance of Client.  Its properties say nothing more once one of *)
(* the flaws has occurred, so the search ends there.                        *)
EXTENDS Client

WithoutFlaws == flaws = {}
OnlyRepeated == flaws \subseteq {"repeated"}
=============================================================================
