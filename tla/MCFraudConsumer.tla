-------------------------- MODULE MCFraudConsumer --------------------------
(***************************************************************************)
(* Small instances of FraudConsumer for TLC.                               *)
(***************************************************************************)
EXTENDS FraudConsumer, TLC

CONSTANTS e1, e2, e3, w1

Event(type, time, amount) ==
  [walletId |-> w1, eventType |-> type, timestamp |-> time, amount |-> amount]

(* Three withdrawals of one wallet: any two that follow each other are     *)
(* within a window of two, the last is above the threshold.                *)
Withdrawals ==
  (e1 :> Event("FUNDS_WITHDRAWN", 1, 1)) @@ (e2 :> Event("FUNDS_WITHDRAWN", 2, 1))
    @@ (e3 :> Event("FUNDS_WITHDRAWN", 3, 9))

(* A withdrawal, a transfer and a message that cannot be read. *)
Assorted ==
  (e1 :> Event("FUNDS_WITHDRAWN", 1, 9)) @@ (e2 :> Event("TRANSFER_COMPLETED", 1, 9))
    @@ (e3 :> Event("unparsable", 1, 9))

Scenarios == {Withdrawals, Assorted}
=============================================================================
