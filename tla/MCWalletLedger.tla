--------------------------- MODULE MCWalletLedger ---------------------------
(***************************************************************************)
(* A small instance of WalletLedger for TLC.                               *)
(***************************************************************************)
EXTENDS WalletLedger

(* UTC, and time zones behind and ahead of it. *)
Zones == {-5, 0, 2}

(* Null, 0.4 cents, which the column makes 0.00, one cent and two. *)
SomeLimits == {NoLimit, 4, 10, 20}
=============================================================================
