----------------------------- MODULE BatchStorage -----------------------------
(***************************************************************************)
(* ts/client/storageEngine/batches: the batches a node knows, in order,    *)
(* the first with ID 0.  A batch has the commitments it was made of, which *)
(* stand for its commitment root too.                                      *)
(***************************************************************************)
EXTENDS Integers, SequencesExt

CurrentBatchID(stored) == Len(stored) - 1
\* Mutant: the ID of the last batch.
LastID(stored)         == CurrentBatchID(stored)
nextBatchID(stored)    == CurrentBatchID(stored) + 1
getByID(stored, id)    == stored[id + 1]
current(stored)        == getByID(stored, CurrentBatchID(stored))

\* add throws for a commitment root that it knows.
CanAdd(stored, batch) == ~Contains(stored, batch)
add(stored, batch)    == Append(stored, batch)
=============================================================================
