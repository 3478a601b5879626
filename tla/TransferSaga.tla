---------------------------- MODULE TransferSaga ----------------------------
(***************************************************************************)
(* The TransferSaga entity: the state column of one row of transfer_sagas  *)
(* and the marks that move it.  A mark that finds the row in another state *)
(* than the one it starts from throws; only markAsFailed asks nothing.     *)
(***************************************************************************)

(* "NONE" stands for a row that is not in the table. *)
TransferSagaState == {"PENDING", "DEBITED", "COMPLETED", "COMPENSATED", "FAILED"}

(* The state a new row is saved in. *)
InitialState == "PENDING"

(* The steps of a transfer, and the state each step's mark starts from. *)
Steps == {"debit", "credit", "compensate"}

MarkedFrom(step) == IF step = "debit" THEN "PENDING" ELSE "DEBITED"

(* A slip: a compensated saga is called COMPLETED. *)
MarkedAsCompleted(step) ==
  CASE step = "debit"      -> "DEBITED"
    [] step = "credit"     -> "COMPLETED"
    [] step = "compensate" -> "COMPLETED"

MarkedAs(step) ==
  CASE step = "debit"      -> "DEBITED"
    [] step = "credit"     -> "COMPLETED"
    [] step = "compensate" -> "COMPENSATED"

(* A slip: markAsCompleted does not look at the state. *)
MayMarkCompleted(step, state) == step = "credit" \/ state = MarkedFrom(step)

MayMark(step, state) == state = MarkedFrom(step)

(* markAsFailed overwrites whatever state the row has. *)
MarkAsFailed == "FAILED"

(* The states executeTransfer's error handler leaves alone. *)
TerminalStates == {"COMPLETED", "COMPENSATED", "FAILED"}
=============================================================================
