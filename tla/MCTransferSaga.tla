--------------------------- MODULE MCTransferSaga ---------------------------
(***************************************************************************)
(* Small instances of TransferSagaService for TLC.                         *)
(***************************************************************************)
EXTENDS TransferSagaInvariants, TLC

CONSTANTS alice, bob, r1

(* alice has money and bob is not there yet; both have money; alice holds  *)
(* euros, and a deposit would make bob a wallet in dollars.                *)
OpeningNewReceiver ==
  (alice :> [currency |-> "USD", deposit |-> 2]) @@ (bob :> [currency |-> "USD", deposit |-> 0])

OpeningBoth ==
  (alice :> [currency |-> "USD", deposit |-> 2]) @@ (bob :> [currency |-> "USD", deposit |-> 1])

OpeningEuro ==
  (alice :> [currency |-> "EUR", deposit |-> 2]) @@ (bob :> [currency |-> "USD", deposit |-> 0])

(* An operator sets a limit and removes it again. *)
SomeLimits == {NoLimit, 1}

Transfer(from, to, amount, rid) ==
  [from |-> from, to |-> to, amount |-> amount, rid |-> rid]

(* alice pays bob. *)
OneWay == {Transfer(alice, bob, 2, r1)}

(* alice pays bob while bob pays alice, and somebody pays himself. *)
BothWays == {Transfer(alice, bob, 2, NoRequestId), Transfer(bob, alice, 1, r1)}

Assorted == BothWays \cup {Transfer(alice, alice, 1, NoRequestId), Transfer(alice, bob, 2, r1)}
=============================================================================
