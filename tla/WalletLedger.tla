---------------------------- MODULE WalletLedger ----------------------------
(***************************************************************************)
(* One wallet over days: what its row holds after it has been saved and    *)
(* loaded again, beside the events recorded for it.  The calls run one     *)
(* after the other: withdrawals and credits lock the row.                  *)
(*                                                                         *)
(* Money is counted in tenths of a cent, because the DTOs ask for a        *)
(* positive number and not for whole cents; the columns are decimal(20, 2) *)
(* and round half away from zero.  The entity adds and subtracts           *)
(* IEEE-754 doubles: the sum of what a column held and an amount may come  *)
(* out a little off, which shows in the column only when it is half a      *)
(* cent: 1.2 + 0.005 is 1.2049999999999998 and is stored as 1.20.  Such a  *)
(* sum may therefore round up or down.  The numbers of a request are no    *)
(* sums and round as they are written.  A sum that is exactly the limit    *)
(* may also come out above it (0.1 + 0.2 > 0.3); the withdrawal is then    *)
(* refused, which is a step that changes nothing.  All this is so while    *)
(* the error of a double is far below a tenth of a cent, for amounts of    *)
(* less than a billion.                                                    *)
(*                                                                         *)
(* Time is counted in hours of UTC.  The entity compares dates in UTC; the *)
(* date column stores a Date as the calendar date of the process's time    *)
(* zone, offset hours ahead.                                               *)
(***************************************************************************)
EXTENDS Wallet

CONSTANTS
  Amounts,   \* amounts of requests
  Limits,    \* daily limits an operator may ask for, NoLimit to remove it
  Instants,  \* hours at which something may happen
  Offsets,   \* time zones a deployment may run in
  MaxCalls   \* bound on the calls of a behaviour

Cent == 10

ASSUME LedgerAssumption ==
  /\ Amounts \subseteq Nat
  /\ Limits \subseteq Nat \cup {NoLimit}
  /\ \A t \in Instants : t \in Nat /\ t >= 48
  /\ Offsets \subseteq -12 .. 14
  /\ MaxCalls \in Nat

VARIABLES
  row,        \* the row of the wallet
  now,        \* the time
  offset,     \* the time zone of the processes
  spent,      \* what withdrawals of this UTC day have taken from the balance
  slips,      \* how many of them were of an amount with half a cent
  replay,     \* the balance that the recorded events add up to
  halvesIn,   \* amounts with half a cent paid in so far
  halvesOut,  \* amounts with half a cent withdrawn so far
  calls       \* calls so far

vars == <<row, now, offset, spent, slips, replay, halvesIn, halvesOut, calls>>

(* The calendar date in UTC, and in the time zone of the processes. *)
Today(t) == t \div 24

LocalDate(t) == (t + offset) \div 24

(* What a decimal(20, 2) column keeps of a number that is not negative. *)
ToColumn(x) == Cent * ((x + 5) \div Cent)

(* A slip: sub-cents are cut off. *)
SumCutOff(x) == {Cent * (x \div Cent)}

(* What the column may keep of a sum of doubles whose exact value is x: at *)
(* half a cent both neighbours, elsewhere just the nearest.                *)
SumToColumn(x) == {ToColumn(x), ToColumn(x - 1)}

(* A limit is stored as it was asked for: one below half a cent as 0.00. *)
LimitToColumn(l) == IF l = NoLimit THEN NoLimit ELSE ToColumn(l)

(* A slip: columns without a scale. *)
SaveAsIs(w) == row' = w

(* The entity w is saved. *)
Save(w) ==
  \E b \in SumToColumn(w.balance), t \in SumToColumn(w.dailyWithdrawalTotal) :
    row' = [w EXCEPT !.balance = b, !.dailyWithdrawalTotal = t,
                     !.dailyWithdrawalLimit = LimitToColumn(@)]

(* 1 for an amount with half a cent, else 0. *)
HalfCent(amount) == IF amount % Cent = 5 THEN 1 ELSE 0

Init ==
  /\ row = NewWallet("USD")
  /\ now \in Instants
  /\ offset \in Offsets
  /\ spent = 0
  /\ slips = 0
  /\ replay = 0
  /\ halvesIn = 0
  /\ halvesOut = 0
  /\ calls = 0

-----------------------------------------------------------------------------
Call == calls < MaxCalls /\ calls' = calls + 1

(* A deposit; the event keeps the amount in a column of its own. *)
DepositFunds(amount) ==
  /\ Call
  /\ MayDeposit(row, amount)
  /\ Save(Deposit(row, amount))
  /\ replay' = replay + ToColumn(amount)
  /\ halvesIn' = halvesIn + HalfCent(amount)
  /\ UNCHANGED <<now, offset, spent, slips, halvesOut>>

(* A slip: a refund gives the day's allowance back. *)
RefundedAllowance(w, amount) ==
  [Credit(w, amount) EXCEPT !.dailyWithdrawalTotal = IF @ > amount THEN @ - amount ELSE 0]

Credited(w, amount) == Credit(w, amount)

(* A transfer credits the receiver, or the sender again when it is         *)
(* compensated, with the amount of the request or, after a reload, with    *)
(* what the saga's column has kept of it.                                  *)
CreditFunds(amount) ==
  /\ Call
  /\ \E kept \in {amount, ToColumn(amount)} :
       /\ MayCredit(row, kept)
       /\ Save(Credited(row, kept))
       /\ replay' = replay + ToColumn(kept)
       /\ halvesIn' = halvesIn + HalfCent(kept)
  /\ UNCHANGED <<now, offset, spent, slips, halvesOut>>

(* The hour in which the stored date is the date it is compared with. *)
DatesAgree(t) == LocalDate(t) = Today(t)

(* A withdrawal, or the debit of a transfer.  The entity asks for the time *)
(* twice, for the comparison and for the stored date, and the clock may    *)
(* pass midnight in between.                                               *)
WithdrawFunds(amount, later) ==
  /\ Call
  /\ later >= now
  /\ MayWithdraw(row, amount, Today(now))
  /\ Save(Withdraw(row, amount, Today(now), LocalDate(later)))
  /\ now' = later
  /\ IF Today(later) # Today(now) THEN spent' = 0 /\ slips' = 0
     ELSE IF DatesAgree(now)
     THEN /\ spent' = spent + (row.balance - row'.balance)
          /\ slips' = slips + HalfCent(amount)
     ELSE UNCHANGED <<spent, slips>>
  /\ replay' = replay - ToColumn(amount)
  /\ halvesOut' = halvesOut + HalfCent(amount)
  /\ UNCHANGED <<offset, halvesIn>>

SetLimit(limit) ==
  /\ Call
  /\ MaySetDailyWithdrawalLimit(limit)
  /\ Save(SetDailyWithdrawalLimit(row, limit))
  /\ UNCHANGED <<now, offset, spent, slips, replay, halvesIn, halvesOut>>

(* Time passes. *)
Pass(later) ==
  /\ later > now
  /\ now' = later
  /\ IF Today(later) # Today(now) THEN spent' = 0 /\ slips' = 0
     ELSE UNCHANGED <<spent, slips>>
  /\ UNCHANGED <<row, offset, replay, halvesIn, halvesOut, calls>>

Next ==
  \/ \E amount \in Amounts : DepositFunds(amount) \/ CreditFunds(amount)
  \/ \E amount \in Amounts, later \in Instants : WithdrawFunds(amount, later)
  \/ \E limit \in Limits : SetLimit(limit)
  \/ \E later \in Instants : Pass(later)

Spec == Init /\ [][Next]_vars

-----------------------------------------------------------------------------
(* Every variable has its type; the columns hold whole cents. *)
LedgerTypeOK ==
  /\ row \in WalletRows({"USD"})
  /\ row.balance % Cent = 0 /\ row.dailyWithdrawalTotal % Cent = 0
  /\ row.dailyWithdrawalLimit # NoLimit => row.dailyWithdrawalLimit % Cent = 0
  /\ now \in Instants
  /\ offset \in Offsets
  /\ spent \in Nat /\ slips \in Nat
  /\ replay \in Int
  /\ halvesIn \in Nat /\ halvesOut \in Nat
  /\ calls \in 0 .. MaxCalls

(* The withdrawals of one UTC day take no more from the balance than the   *)
(* limit in force, and a cent for each earlier withdrawal of the day with  *)
(* half a cent, which the total may have rounded away: also over limits    *)
(* set in between and a withdrawal that passes midnight.  It counts the    *)
(* hours in which the process's date is the UTC date, all hours if it runs *)
(* in UTC.                                                                 *)
LimitPerDay ==
  [][/\ row'.balance < row.balance
     /\ row.dailyWithdrawalLimit # NoLimit
     /\ DatesAgree(now)
     => spent + (row.balance - row'.balance) <= row.dailyWithdrawalLimit + Cent * slips]_vars

(* What was counted against the day's limit stays counted until midnight:  *)
(* no deposit, limit or refund of a transfer gives any of it back.         *)
CountedStays ==
  [][/\ Today(now') = Today(now) /\ DatesAgree(now')
     => WithdrawnOn(row', Today(now)) >= WithdrawnOn(row, Today(now))]_vars

(* The recorded events add up to the balance, but for half cents: each one *)
(* paid in may leave the events a cent above the balance, each one         *)
(* withdrawn a cent below it.                                              *)
EventsAddUp ==
  /\ replay <= row.balance + Cent * halvesIn
  /\ replay >= row.balance - Cent * halvesOut

-----------------------------------------------------------------------------
(* The inductive invariant behind LimitPerDay: what the day has taken is   *)
(* in the stored total, a cent for each slip apart, and the stored date is *)
(* today's, unless the local date is ahead for the rest of the day.        *)
SpentIsCounted ==
  spent > 0 =>
    IF DatesAgree(now) THEN spent <= WithdrawnOn(row, Today(now)) + Cent * slips
    ELSE offset > 0
=============================================================================
