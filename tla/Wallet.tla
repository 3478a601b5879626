------------------------------- MODULE Wallet -------------------------------
(***************************************************************************)
(* The Wallet entity: one row of the wallets table and the methods that    *)
(* change it.  A method that may throw is a pair of operators: MayX says   *)
(* when the method X runs to its end, X is the row it leaves behind.  When *)
(* MayX is false the method throws and its caller rolls back, so nothing   *)
(* of the row changes.                                                     *)
(*                                                                         *)
(* Money is counted in cents: the columns are decimal(20, 2).  A calendar  *)
(* date is a positive integer.                                             *)
(***************************************************************************)
EXTENDS Integers

(* status holds a WalletStatus; "ABSENT" stands for a row that is not in   *)
(* the table.                                                              *)
WalletStatus == {"ACTIVE", "FROZEN", "CLOSED"}

(* dailyWithdrawalLimit is null.  A limit of 0 is something else: it lets  *)
(* nothing pass.  setDailyWithdrawalLimit refuses it, but the column makes *)
(* one of a limit below half a cent.                                       *)
NoLimit == -1

(* lastWithdrawalDate is null. *)
NoDate == 0

(* The rows of the wallets table, over the currencies in use. *)
WalletRows(currencies) ==
  [currency : currencies, status : WalletStatus \cup {"ABSENT"},
   balance : Nat, dailyWithdrawalLimit : Nat \cup {NoLimit},
   dailyWithdrawalTotal : Nat, lastWithdrawalDate : Nat]

(* The row an insert with the column defaults leaves behind. *)
NewWallet(currency) ==
  [currency |-> currency, status |-> "ACTIVE", balance |-> 0,
   dailyWithdrawalLimit |-> NoLimit, dailyWithdrawalTotal |-> 0,
   lastWithdrawalDate |-> NoDate]

AbsentWallet(currency) == [NewWallet(currency) EXCEPT !.status = "ABSENT"]

Exists(w) == w.status # "ABSENT"

IsActive(w) == w.status = "ACTIVE"

-----------------------------------------------------------------------------
MayDeposit(w, amount) == amount > 0 /\ IsActive(w)

Deposit(w, amount) == [w EXCEPT !.balance = @ + amount]

(* A slip: a payout asks for no ACTIVE wallet. *)
MayCreditAny(w, amount) == amount > 0

(* credit is deposit under another name: transfers use it, for the         *)
(* receiver and for the refund of the sender.                              *)
MayCredit(w, amount) == amount > 0 /\ IsActive(w)

Credit(w, amount) == [w EXCEPT !.balance = @ + amount]

(* What was withdrawn on the date today, as resetDailyLimitIfNewDay leaves *)
(* it: the stored total counts only when the stored date is today's.       *)
WithdrawnOn(w, today) ==
  IF w.lastWithdrawalDate = today THEN w.dailyWithdrawalTotal ELSE 0

(* A slip: the limit is one for each withdrawal, as canDebit has it. *)
WithinLimitAlone(w, amount, today) ==
  w.dailyWithdrawalLimit # NoLimit => amount <= w.dailyWithdrawalLimit

(* validateDailyLimit, after resetDailyLimitIfNewDay. *)
WithinDailyLimit(w, amount, today) ==
  w.dailyWithdrawalLimit # NoLimit =>
    WithdrawnOn(w, today) + amount <= w.dailyWithdrawalLimit

(* A slip: limit and balance are not looked at. *)
MayOverdraw(w, amount, today) == amount > 0 /\ IsActive(w)

MayWithdraw(w, amount, today) ==
  /\ amount > 0
  /\ IsActive(w)
  /\ WithinDailyLimit(w, amount, today)
  /\ w.balance >= amount

(* The method compares with the date in UTC, today, and assigns a Date     *)
(* that the date column stores as the calendar date stored.                *)
Withdraw(w, amount, today, stored) ==
  [w EXCEPT !.balance = @ - amount,
            !.dailyWithdrawalTotal = WithdrawnOn(w, today) + amount,
            !.lastWithdrawalDate = stored]

-----------------------------------------------------------------------------
MayFreeze(w) == w.status # "CLOSED"

Freeze(w) == [w EXCEPT !.status = "FROZEN"]

(* A slip: unfreeze does not look at the status. *)
UnfreezeAny(w) == [w EXCEPT !.status = "ACTIVE"]

(* unfreeze never throws: on a wallet that is not frozen it does nothing. *)
Unfreeze(w) ==
  IF w.status = "FROZEN" THEN [w EXCEPT !.status = "ACTIVE"] ELSE w

(* close asks only for a zero balance: a frozen wallet can be closed. *)
MayClose(w) == w.balance = 0

Close(w) == [w EXCEPT !.status = "CLOSED"]

MaySetDailyWithdrawalLimit(limit) == limit = NoLimit \/ limit > 0

SetDailyWithdrawalLimit(w, limit) == [w EXCEPT !.dailyWithdrawalLimit = limit]
=============================================================================
