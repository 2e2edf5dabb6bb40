------------------------- MODULE TransactionStorage -------------------------
(***************************************************************************)
(* ts/client/storageEngine/transactions: the statuses a node keeps of the  *)
(* transactions it knows, by message.  Each operation returns the statuses *)
(* afterwards and the exception it ends with, or Ok.                       *)
(***************************************************************************)
EXTENDS Functions

NoBatch == -1

Kept(statuses, result)  == [result |-> result, statuses |-> statuses]
With(statuses, message, status, batchID) ==
  [result |-> "Ok",
   statuses |-> [m \in DOMAIN statuses \cup {message} |->
                   IF m = message THEN [status |-> status, batchID |-> batchID]
                                  ELSE statuses[m]]]

Known(statuses, message) == message \in DOMAIN statuses

validTransition(cur, next) ==
  \/ cur = "Pending" /\ next \in {"Submitted", "Failed"}
  \/ cur = "Submitted" /\ next \in {"Finalized", "Failed"}

pending(statuses, message) ==
  IF Known(statuses, message) THEN Kept(statuses, "TransactionAlreadyExists")
  ELSE With(statuses, message, "Pending", NoBatch)

\* A status that is known and may become next.
Transition(statuses, message, next, batchID) ==
  IF ~Known(statuses, message) THEN Kept(statuses, "TransactionDoesNotExist")
  ELSE IF ~validTransition(statuses[message].status, next)
    THEN Kept(statuses, "StatusTransitionInvalid")
  ELSE With(statuses, message, next, batchID)

submitted(statuses, message, batchID) == Transition(statuses, message, "Submitted", batchID)

\* transition() keeps what it does not set.
BatchOf(statuses, message) ==
  IF Known(statuses, message) THEN statuses[message].batchID ELSE NoBatch
failed(statuses, message) ==
  Transition(statuses, message, "Failed", BatchOf(statuses, message))

\* The node passes finalized = FALSE for a batch that may be rolled back.
sync(statuses, message, batchID, isFinal) ==
  IF Known(statuses, message) THEN Kept(statuses, "TransactionAlreadyExists")
  ELSE With(statuses, message, IF isFinal THEN "Finalized" ELSE "Submitted", batchID)
=============================================================================
