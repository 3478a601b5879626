-------------------------- MODULE MCWalletService --------------------------
(***************************************************************************)
(* Small instances of WalletService for TLC.                               *)
(***************************************************************************)
EXTENDS WalletService, TLC

CONSTANTS c1, c2, c3, g1, wa, wb, r1

Request(op, w, amount, rid) == [op |-> op, wallet |-> w, amount |-> amount, rid |-> rid]

(* Calls differ in nothing but their parameters. *)
Symmetry == Permutations(Calls)

(* wa exists, a deposit creates wb. *)
OpenOne == (wa :> 2) @@ (wb :> 0)

(* Retries of a deposit and of a withdrawal under one id, which is also    *)
(* used for another wallet, beside what operators and a client without     *)
(* request ids do.                                                         *)
Assorted ==
  {Request("deposit", wa, 1, r1), Request("withdraw", wa, 2, r1),
   Request("deposit", wb, 1, r1),
   Request("withdraw", wa, 1, NoRequestId), Request("withdraw", wa, 2, NoRequestId)} \cup
  {Request(op, wa, 0, NoRequestId) : op \in StatusChanges} \cup
  {Request("setLimit", wa, limit, NoRequestId) : limit \in {NoLimit, 1}}

(* One id used for two wallets, and a deposit without an id. *)
CrossDeposits ==
  {Request("deposit", wa, 1, r1), Request("deposit", wb, 1, r1),
   Request("deposit", wa, 1, NoRequestId)}

(* One withdrawal, sent twice with its id. *)
OneWithdrawal == {Request("withdraw", wa, 1, r1)}
=============================================================================
