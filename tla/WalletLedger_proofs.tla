------------------------- MODULE WalletLedger_proofs -------------------------
(***************************************************************************)
(* Proofs about WalletLedger, for all amounts, limits, instants and time   *)
(* zones.                                                                  *)
(***************************************************************************)
EXTENDS WalletLedger, TLAPS

(* A column holds whole cents. *)
LEMMA ColumnRounds ==
  ASSUME NEW x \in Nat
  PROVE  /\ ToColumn(x) \in Nat
         /\ ToColumn(x) % 10 = 0
  BY DEF ToColumn, Cent

(* Whole cents are kept as they are. *)
LEMMA ColumnKeeps ==
  ASSUME NEW x \in Nat, x % 10 = 0
  PROVE  ToColumn(x) = x
  BY DEF ToColumn, Cent

(* The column of a sum holds whole cents: what is added to whole cents is  *)
(* rounded on its own, but for half a cent, which may get lost.            *)
LEMMA ColumnAdds ==
  ASSUME NEW x \in Nat, NEW a \in Nat, x % 10 = 0, NEW s \in SumToColumn(x + a)
  PROVE  /\ s \in Nat /\ s % 10 = 0
         /\ x <= s /\ s <= x + ToColumn(a)
         /\ s >= x + ToColumn(a) - 10 * HalfCent(a)
  <1>1. s = 10 * ((x + a + 5) \div 10) \/ s = 10 * ((x + a - 1 + 5) \div 10)
    BY DEF SumToColumn, ToColumn, Cent
  <1>2. CASE a % 10 = 5
    BY <1>1, <1>2 DEF ToColumn, HalfCent, Cent
  <1>3. CASE a % 10 # 5
    BY <1>1, <1>3 DEF ToColumn, HalfCent, Cent
  <1> QED
    BY <1>2, <1>3

(* What is taken from whole cents is rounded on its own too, but for half  *)
(* a cent, which may stay.                                                 *)
LEMMA ColumnTakes ==
  ASSUME NEW x \in Nat, NEW a \in Nat, x % 10 = 0, a <= x, NEW s \in SumToColumn(x - a)
  PROVE  /\ s \in Nat /\ s % 10 = 0
         /\ s <= x /\ s >= x - ToColumn(a)
         /\ s <= x - ToColumn(a) + 10 * HalfCent(a)
  <1>1. s = 10 * ((x - a + 5) \div 10) \/ s = 10 * ((x - a - 1 + 5) \div 10)
    BY DEF SumToColumn, ToColumn, Cent
  <1>2. CASE a % 10 = 5
    BY <1>1, <1>2 DEF ToColumn, HalfCent, Cent
  <1>3. CASE a % 10 # 5
    BY <1>1, <1>3 DEF ToColumn, HalfCent, Cent
  <1> QED
    BY <1>2, <1>3

(* Whole cents that nothing was added to are kept as they are. *)
LEMMA ColumnKeepsSum ==
  ASSUME NEW x \in Nat, x % 10 = 0, NEW s \in SumToColumn(x)
  PROVE  s = x
  <1>1. s = 10 * ((x + 5) \div 10) \/ s = 10 * ((x - 1 + 5) \div 10)
    BY DEF SumToColumn, ToColumn, Cent
  <1> QED
    BY <1>1

(* Rounding keeps the order. *)
LEMMA ColumnMonotone ==
  ASSUME NEW x \in Nat, NEW y \in Nat, x <= y
  PROVE  ToColumn(x) <= ToColumn(y)
  BY DEF ToColumn, Cent

(* A stored limit is stored again as it is. *)
LEMMA LimitKeeps ==
  ASSUME NEW l \in Nat \cup {NoLimit}, l # NoLimit => l % 10 = 0
  PROVE  LimitToColumn(l) = l
  BY ColumnKeeps DEF LimitToColumn

(* Half cents are counted one by one. *)
LEMMA HalfCentType ==
  ASSUME NEW a \in Nat
  PROVE  HalfCent(a) \in {0, 1}
  BY DEF HalfCent
-----------------------------------------------------------------------------
(* The types, with the constant Cent spelled out. *)
LEMMA TypeFields ==
  ASSUME LedgerTypeOK
  PROVE  /\ row.balance \in Nat /\ row.balance % 10 = 0
         /\ row.dailyWithdrawalTotal \in Nat /\ row.dailyWithdrawalTotal % 10 = 0
         /\ row.dailyWithdrawalLimit \in Nat \cup {NoLimit}
         /\ row.dailyWithdrawalLimit # NoLimit => row.dailyWithdrawalLimit % 10 = 0
         /\ row.lastWithdrawalDate \in Nat
         /\ now \in Nat /\ now >= 48 /\ offset \in -12 .. 14
         /\ spent \in Nat /\ slips \in Nat
         /\ replay \in Int /\ halvesIn \in Nat /\ halvesOut \in Nat
  BY LedgerAssumption DEF LedgerTypeOK, WalletRows, Cent

(* What a paid in amount does to the columns. *)
LEMMA PayInRow ==
  ASSUME LedgerTypeOK, NEW a \in Nat,
         Save(Deposit(row, a)) \/ Save(Credited(row, a))
  PROVE  /\ row' \in WalletRows({"USD"})
         /\ row'.balance % 10 = 0
         /\ row.balance <= row'.balance /\ row'.balance <= row.balance + ToColumn(a)
         /\ row'.balance >= row.balance + ToColumn(a) - 10 * HalfCent(a)
         /\ row'.dailyWithdrawalTotal = row.dailyWithdrawalTotal
         /\ row'.dailyWithdrawalLimit = row.dailyWithdrawalLimit
         /\ row'.lastWithdrawalDate = row.lastWithdrawalDate
  <1> DEFINE w == [row EXCEPT !.balance = row.balance + a]
  <1>1. Save(w)
    BY DEF Deposit, Credited, Credit
  <1>2. /\ w \in WalletRows({"USD"}) /\ w.balance = row.balance + a
        /\ w.dailyWithdrawalTotal = row.dailyWithdrawalTotal
        /\ w.dailyWithdrawalLimit = row.dailyWithdrawalLimit
        /\ w.lastWithdrawalDate = row.lastWithdrawalDate
    BY TypeFields DEF LedgerTypeOK, WalletRows
  <1> HIDE DEF w
  <1>3. PICK b \in SumToColumn(w.balance), t \in SumToColumn(w.dailyWithdrawalTotal) :
          row' = [w EXCEPT !.balance = b, !.dailyWithdrawalTotal = t,
                           !.dailyWithdrawalLimit = LimitToColumn(w.dailyWithdrawalLimit)]
    BY <1>1 DEF Save
  <1>4. /\ b \in Nat /\ b % 10 = 0
        /\ row.balance <= b /\ b <= row.balance + ToColumn(a)
        /\ b >= row.balance + ToColumn(a) - 10 * HalfCent(a)
    BY <1>2, TypeFields, ColumnAdds
  <1>5. t = row.dailyWithdrawalTotal
    BY <1>2, TypeFields, ColumnKeepsSum
  <1>6. LimitToColumn(w.dailyWithdrawalLimit) = row.dailyWithdrawalLimit
    BY <1>2, TypeFields, LimitKeeps
  <1>7. /\ row' \in WalletRows({"USD"}) /\ row'.balance = b
        /\ row'.dailyWithdrawalTotal = t
        /\ row'.dailyWithdrawalLimit = row.dailyWithdrawalLimit
        /\ row'.lastWithdrawalDate = row.lastWithdrawalDate
    BY <1>2, <1>3, <1>4, <1>5, <1>6, TypeFields DEF WalletRows
  <1> QED
    BY <1>4, <1>5, <1>7

(* What a withdrawal does to the columns. *)
LEMMA WithdrawRow ==
  ASSUME LedgerTypeOK, NEW a \in Nat, NEW later \in Instants, later >= now,
         MayWithdraw(row, a, Today(now)),
         Save(Withdraw(row, a, Today(now), LocalDate(later)))
  PROVE  /\ row' \in WalletRows({"USD"})
         /\ row.balance >= a /\ row'.balance % 10 = 0
         /\ row'.balance <= row.balance /\ row'.balance >= row.balance - ToColumn(a)
         /\ row'.balance <= row.balance - ToColumn(a) + 10 * HalfCent(a)
         /\ WithdrawnOn(row, Today(now)) \in Nat /\ WithdrawnOn(row, Today(now)) % 10 = 0
         /\ row'.dailyWithdrawalTotal % 10 = 0
         /\ row'.dailyWithdrawalTotal >= WithdrawnOn(row, Today(now))
         /\ row'.dailyWithdrawalTotal
               >= WithdrawnOn(row, Today(now)) + ToColumn(a) - 10 * HalfCent(a)
         /\ row'.dailyWithdrawalLimit = row.dailyWithdrawalLimit
         /\ row'.lastWithdrawalDate = LocalDate(later)
  <1> DEFINE counted == WithdrawnOn(row, Today(now))
             w == Withdraw(row, a, Today(now), LocalDate(later))
  <1>1. counted \in Nat /\ counted % 10 = 0
    BY TypeFields DEF WithdrawnOn
  <1>2. row.balance >= a
    BY DEF MayWithdraw
  <1>3. LocalDate(later) \in Nat
    BY TypeFields, LedgerAssumption DEF LocalDate
  <1>4. w = [row EXCEPT !.balance = row.balance - a, !.dailyWithdrawalTotal = counted + a,
                        !.lastWithdrawalDate = LocalDate(later)]
    BY DEF LedgerTypeOK, WalletRows, Withdraw
  <1>5. Save(w)
    OBVIOUS
  <1> HIDE DEF counted, w
  <1>6. /\ w \in WalletRows({"USD"}) /\ w.balance = row.balance - a
        /\ w.dailyWithdrawalTotal = counted + a
        /\ w.dailyWithdrawalLimit = row.dailyWithdrawalLimit
        /\ w.lastWithdrawalDate = LocalDate(later)
    <2>1. row \in WalletRows({"USD"}) /\ row.balance - a \in Nat /\ counted + a \in Nat
      BY <1>1, <1>2, TypeFields DEF LedgerTypeOK
    <2> QED
      BY <1>3, <1>4, <2>1 DEF WalletRows
  <1>7. PICK b \in SumToColumn(row.balance - a), t \in SumToColumn(counted + a) :
          row' = [w EXCEPT !.balance = b, !.dailyWithdrawalTotal = t,
                           !.dailyWithdrawalLimit = LimitToColumn(row.dailyWithdrawalLimit)]
    BY <1>5, <1>6 DEF Save
  <1>8. /\ b \in Nat /\ b % 10 = 0 /\ b <= row.balance /\ b >= row.balance - ToColumn(a)
        /\ b <= row.balance - ToColumn(a) + 10 * HalfCent(a)
    BY <1>2, TypeFields, ColumnTakes
  <1>9. /\ t \in Nat /\ t % 10 = 0 /\ t >= counted
        /\ t >= counted + ToColumn(a) - 10 * HalfCent(a)
    BY <1>1, ColumnAdds
  <1>10. LimitToColumn(row.dailyWithdrawalLimit) = row.dailyWithdrawalLimit
    BY TypeFields, LimitKeeps
  <1>11. /\ row' \in WalletRows({"USD"}) /\ row'.balance = b
         /\ row'.dailyWithdrawalTotal = t
         /\ row'.dailyWithdrawalLimit = row.dailyWithdrawalLimit
         /\ row'.lastWithdrawalDate = LocalDate(later)
    BY <1>6, <1>7, <1>8, <1>9, <1>10, TypeFields DEF WalletRows
  <1> QED
    BY <1>1, <1>2, <1>8, <1>9, <1>11 DEF counted

(* What a new limit does to the columns. *)
LEMMA LimitRow ==
  ASSUME LedgerTypeOK, NEW limit \in Limits,
         Save(SetDailyWithdrawalLimit(row, limit))
  PROVE  /\ row' \in WalletRows({"USD"})
         /\ row'.balance = row.balance
         /\ row'.dailyWithdrawalTotal = row.dailyWithdrawalTotal
         /\ row'.dailyWithdrawalLimit # NoLimit => row'.dailyWithdrawalLimit % 10 = 0
         /\ row'.lastWithdrawalDate = row.lastWithdrawalDate
  <1> DEFINE w == SetDailyWithdrawalLimit(row, limit)
  <1>1. /\ w \in WalletRows({"USD"}) /\ w.balance = row.balance
        /\ w.dailyWithdrawalTotal = row.dailyWithdrawalTotal
        /\ w.dailyWithdrawalLimit = limit
        /\ w.lastWithdrawalDate = row.lastWithdrawalDate
    BY TypeFields, LedgerAssumption DEF LedgerTypeOK, WalletRows, SetDailyWithdrawalLimit
  <1>2. Save(w)
    OBVIOUS
  <1> HIDE DEF w
  <1>3. PICK b \in SumToColumn(row.balance), t \in SumToColumn(row.dailyWithdrawalTotal) :
          row' = [w EXCEPT !.balance = b, !.dailyWithdrawalTotal = t,
                           !.dailyWithdrawalLimit = LimitToColumn(limit)]
    BY <1>1, <1>2 DEF Save
  <1>4. b = row.balance /\ t = row.dailyWithdrawalTotal
    BY TypeFields, ColumnKeepsSum
  <1>5. /\ LimitToColumn(limit) \in Nat \cup {NoLimit}
        /\ LimitToColumn(limit) # NoLimit => LimitToColumn(limit) % 10 = 0
    BY LedgerAssumption, ColumnRounds DEF LimitToColumn
  <1>6. /\ row' \in WalletRows({"USD"}) /\ row'.balance = b
        /\ row'.dailyWithdrawalTotal = t
        /\ row'.dailyWithdrawalLimit = LimitToColumn(limit)
        /\ row'.lastWithdrawalDate = row.lastWithdrawalDate
    BY <1>1, <1>3, <1>4, <1>5, TypeFields DEF WalletRows
  <1> QED
    BY <1>4, <1>5, <1>6
-----------------------------------------------------------------------------
(* Every step keeps the types. *)
LEMMA TypeStep ==
  ASSUME LedgerTypeOK, [Next]_vars
  PROVE  LedgerTypeOK'
  <1>0. Call => calls' \in 0 .. MaxCalls
    BY LedgerAssumption DEF LedgerTypeOK, Call
  <1>1. ASSUME NEW a \in Amounts, DepositFunds(a) PROVE LedgerTypeOK'
    <2>1. a \in Nat /\ ToColumn(a) \in Nat /\ HalfCent(a) \in {0, 1}
      BY LedgerAssumption, ColumnRounds, HalfCentType
    <2> QED
      BY <1>0, <1>1, <2>1, PayInRow DEF DepositFunds, LedgerTypeOK, Cent
  <1>2. ASSUME NEW a \in Amounts, CreditFunds(a) PROVE LedgerTypeOK'
    <2>1. PICK kept \in {a, ToColumn(a)} :
            /\ Save(Credited(row, kept)) /\ replay' = replay + ToColumn(kept)
            /\ halvesIn' = halvesIn + HalfCent(kept)
      BY <1>2 DEF CreditFunds
    <2>2. kept \in Nat /\ ToColumn(kept) \in Nat /\ HalfCent(kept) \in {0, 1}
      BY ColumnRounds, LedgerAssumption, HalfCentType
    <2> QED
      BY <1>0, <1>2, <2>1, <2>2, PayInRow DEF CreditFunds, LedgerTypeOK, Cent
  <1>3. ASSUME NEW a \in Amounts, NEW later \in Instants, WithdrawFunds(a, later)
        PROVE  LedgerTypeOK'
    <2>1. a \in Nat /\ ToColumn(a) \in Nat /\ HalfCent(a) \in {0, 1}
      BY LedgerAssumption, ColumnRounds, HalfCentType
    <2>2. /\ row' \in WalletRows({"USD"}) /\ row'.balance % 10 = 0
          /\ row'.balance <= row.balance /\ row'.dailyWithdrawalTotal % 10 = 0
          /\ row'.dailyWithdrawalLimit = row.dailyWithdrawalLimit
      BY <1>3, <2>1, WithdrawRow DEF WithdrawFunds
    <2>3. row'.balance \in Nat /\ row.balance \in Nat
      BY <2>2, TypeFields DEF WalletRows
    <2>4. spent' \in Nat /\ slips' \in Nat
      BY <1>3, <2>1, <2>2, <2>3, TypeFields DEF WithdrawFunds
    <2> QED
      BY <1>0, <1>3, <2>1, <2>2, <2>4 DEF WithdrawFunds, LedgerTypeOK, Cent
  <1>4. ASSUME NEW limit \in Limits, SetLimit(limit) PROVE LedgerTypeOK'
    BY <1>0, <1>4, LimitRow DEF SetLimit, LedgerTypeOK, Cent
  <1>5. ASSUME NEW later \in Instants, Pass(later) PROVE LedgerTypeOK'
    BY <1>5 DEF Pass, LedgerTypeOK
  <1>6. CASE UNCHANGED vars
    BY <1>6 DEF vars, LedgerTypeOK
  <1> QED
    BY <1>1, <1>2, <1>3, <1>4, <1>5, <1>6 DEF Next

(* The row of the wallet keeps its types: no balance is negative and no    *)
(* column holds a fraction of a cent.                                      *)
THEOREM LedgerTypeCorrect == Spec => []LedgerTypeOK
  <1>1. ASSUME Init PROVE LedgerTypeOK
    <2>1. row \in WalletRows({"USD"})
      BY <1>1 DEF Init, NewWallet, WalletRows, WalletStatus, NoLimit, NoDate
    <2>2. /\ row.balance = 0 /\ row.dailyWithdrawalTotal = 0
          /\ row.dailyWithdrawalLimit = NoLimit
      BY <1>1 DEF Init, NewWallet
    <2>3. /\ spent = 0 /\ slips = 0 /\ replay = 0 /\ halvesIn = 0 /\ halvesOut = 0
          /\ calls = 0 /\ now \in Instants /\ offset \in Offsets
      BY <1>1 DEF Init
    <2> QED
      BY <2>1, <2>2, <2>3, LedgerAssumption DEF LedgerTypeOK, Cent
  <1> QED
    BY <1>1, TypeStep, PTL DEF Spec
-----------------------------------------------------------------------------
(* Every step keeps the events and the balance together. *)
LEMMA AddUpStep ==
  ASSUME LedgerTypeOK, EventsAddUp, [Next]_vars
  PROVE  EventsAddUp'
  <1>0. /\ row.balance \in Nat /\ replay \in Int /\ halvesIn \in Nat /\ halvesOut \in Nat
        /\ replay <= row.balance + 10 * halvesIn /\ replay >= row.balance - 10 * halvesOut
    BY TypeFields DEF EventsAddUp, Cent
  <1>1. ASSUME NEW a \in Nat,
               Save(Deposit(row, a)) \/ Save(Credited(row, a)),
               replay' = replay + ToColumn(a), halvesIn' = halvesIn + HalfCent(a),
               halvesOut' = halvesOut
        PROVE  EventsAddUp'
    <2>1. ToColumn(a) \in Nat /\ HalfCent(a) \in {0, 1}
      BY ColumnRounds, HalfCentType
    <2>2. /\ row'.balance \in Nat /\ row'.balance <= row.balance + ToColumn(a)
          /\ row'.balance >= row.balance + ToColumn(a) - 10 * HalfCent(a)
      BY <1>1, PayInRow DEF WalletRows
    <2> QED
      BY <1>0, <1>1, <2>1, <2>2 DEF EventsAddUp, Cent
  <1>2. ASSUME NEW a \in Amounts, DepositFunds(a) \/ CreditFunds(a) PROVE EventsAddUp'
    <2>1. a \in Nat /\ ToColumn(a) \in Nat
      BY ColumnRounds, LedgerAssumption
    <2>2. CASE DepositFunds(a)
      BY <1>1, <2>1, <2>2 DEF DepositFunds
    <2>3. CASE CreditFunds(a)
      <3>1. PICK kept \in {a, ToColumn(a)} :
              /\ Save(Credited(row, kept)) /\ replay' = replay + ToColumn(kept)
              /\ halvesIn' = halvesIn + HalfCent(kept) /\ halvesOut' = halvesOut
        BY <2>3 DEF CreditFunds
      <3> QED
        BY <1>1, <2>1, <3>1
    <2> QED
      BY <1>2, <2>2, <2>3
  <1>3. ASSUME NEW a \in Amounts, NEW later \in Instants, WithdrawFunds(a, later)
        PROVE  EventsAddUp'
    <2>1. a \in Nat /\ ToColumn(a) \in Nat /\ HalfCent(a) \in {0, 1}
      BY LedgerAssumption, ColumnRounds, HalfCentType
    <2>2. /\ row'.balance \in Nat /\ row'.balance >= row.balance - ToColumn(a)
          /\ row'.balance <= row.balance - ToColumn(a) + 10 * HalfCent(a)
      BY <1>3, <2>1, WithdrawRow DEF WithdrawFunds, WalletRows
    <2>3. /\ replay' = replay - ToColumn(a) /\ halvesIn' = halvesIn
          /\ halvesOut' = halvesOut + HalfCent(a)
      BY <1>3 DEF WithdrawFunds
    <2> QED
      BY <1>0, <2>1, <2>2, <2>3 DEF EventsAddUp, Cent
  <1>4. ASSUME NEW limit \in Limits, SetLimit(limit) PROVE EventsAddUp'
    BY <1>4, LimitRow DEF SetLimit, EventsAddUp
  <1>5. CASE UNCHANGED <<row, replay, halvesIn, halvesOut>>
    BY <1>5 DEF EventsAddUp
  <1> QED
    BY <1>2, <1>3, <1>4, <1>5 DEF Next, Pass, vars

(* The recorded events add up to the balance, a cent for each half cent    *)
(* that was ever paid in or withdrawn apart.                               *)
THEOREM EventsAddUpAlways == Spec => []EventsAddUp
  <1>1. Init => EventsAddUp
    BY DEF Init, EventsAddUp, NewWallet, Cent
  <1>2. LedgerTypeOK /\ EventsAddUp /\ [Next]_vars => EventsAddUp'
    BY AddUpStep
  <1> QED
    BY <1>1, <1>2, LedgerTypeCorrect, PTL DEF Spec
-----------------------------------------------------------------------------
(* Within a UTC day the hours in which the dates agree are contiguous: the *)
(* local date is ahead at the end of the day or behind at its beginning.   *)
LEMMA AgreeingHours ==
  ASSUME NEW t \in Nat, NEW u \in Nat, t <= u, Today(u) = Today(t), offset \in -12 .. 14
  PROVE  /\ ~DatesAgree(t) /\ offset > 0 => ~DatesAgree(u)
         /\ DatesAgree(t) => DatesAgree(u) \/ offset > 0
  BY DEF DatesAgree, LocalDate, Today

(* Every step keeps what the day has taken in the stored total. *)
LEMMA CountedStep ==
  ASSUME LedgerTypeOK, SpentIsCounted, [Next]_vars
  PROVE  SpentIsCounted'
  <1>0. /\ now \in Nat /\ offset \in -12 .. 14 /\ spent \in Nat /\ slips \in Nat
        /\ row.balance \in Nat
    BY TypeFields
  <1>1. ASSUME row'.dailyWithdrawalTotal = row.dailyWithdrawalTotal,
               row'.lastWithdrawalDate = row.lastWithdrawalDate,
               UNCHANGED <<now, offset, spent, slips>>
        PROVE  SpentIsCounted'
    BY <1>1 DEF SpentIsCounted, WithdrawnOn, DatesAgree, LocalDate, Today
  <1>2. ASSUME NEW a \in Amounts, DepositFunds(a) PROVE SpentIsCounted'
    BY <1>1, <1>2, PayInRow, LedgerAssumption DEF DepositFunds
  <1>3. ASSUME NEW a \in Amounts, CreditFunds(a) PROVE SpentIsCounted'
    <2>1. PICK kept \in {a, ToColumn(a)} : Save(Credited(row, kept))
      BY <1>3 DEF CreditFunds
    <2>2. kept \in Nat
      BY ColumnRounds, LedgerAssumption
    <2> QED
      BY <1>1, <1>3, <2>1, <2>2, PayInRow DEF CreditFunds
  <1>4. ASSUME NEW limit \in Limits, SetLimit(limit) PROVE SpentIsCounted'
    BY <1>1, <1>4, LimitRow DEF SetLimit
  <1>5. ASSUME NEW later \in Instants, Pass(later) PROVE SpentIsCounted'
    <2>1. CASE Today(later) # Today(now)
      BY <1>5, <2>1 DEF Pass, SpentIsCounted
    <2>2. CASE Today(later) = Today(now)
      <3>1. later \in Nat /\ now <= later
        BY <1>0, <1>5, LedgerAssumption DEF Pass
      <3>2. /\ ~DatesAgree(now) /\ offset > 0 => ~DatesAgree(later)
            /\ DatesAgree(now) => DatesAgree(later) \/ offset > 0
        BY <1>0, <2>2, <3>1, AgreeingHours
      <3>3. UNCHANGED <<row, offset, spent, slips>> /\ now' = later
        BY <1>5, <2>2 DEF Pass
      <3>4. DatesAgree(later) <=> DatesAgree(now)'
        BY <3>3 DEF DatesAgree, LocalDate, Today
      <3>5. Today(now)' = Today(now)
        BY <2>2, <3>3 DEF Today
      <3> QED
        BY <3>2, <3>3, <3>4, <3>5 DEF SpentIsCounted, WithdrawnOn
    <2> QED
      BY <2>1, <2>2
  <1>6. ASSUME NEW a \in Amounts, NEW later \in Instants, WithdrawFunds(a, later)
        PROVE  SpentIsCounted'
    <2>1. CASE Today(later) # Today(now)
      BY <1>6, <2>1 DEF WithdrawFunds, SpentIsCounted
    <2>2. CASE Today(later) = Today(now)
      <3> DEFINE counted == WithdrawnOn(row, Today(now))
      <3>1. /\ a \in Nat /\ later \in Nat /\ now <= later
            /\ now' = later /\ offset' = offset
        BY <1>0, <1>6, LedgerAssumption DEF WithdrawFunds
      <3>2. /\ ~DatesAgree(now) /\ offset > 0 => ~DatesAgree(later)
            /\ DatesAgree(now) => DatesAgree(later) \/ offset > 0
        BY <1>0, <2>2, <3>1, AgreeingHours
      <3> DEFINE total == row'.dailyWithdrawalTotal
                 taken == row.balance - row'.balance
      <3>3. /\ row' \in WalletRows({"USD"}) /\ counted \in Nat
            /\ total >= counted /\ total >= counted + ToColumn(a) - 10 * HalfCent(a)
            /\ row'.balance <= row.balance /\ row'.balance >= row.balance - ToColumn(a)
            /\ row'.lastWithdrawalDate = LocalDate(later)
        BY <1>6, <3>1, WithdrawRow DEF WithdrawFunds
      <3>4. ToColumn(a) \in Nat /\ HalfCent(a) \in {0, 1}
        BY <3>1, ColumnRounds, HalfCentType
      <3>5. taken \in Nat /\ taken <= ToColumn(a) /\ total \in Nat
        BY <1>0, <3>3, <3>4 DEF WalletRows
      <3>6. IF DatesAgree(now) THEN spent' = spent + taken /\ slips' = slips + HalfCent(a)
            ELSE UNCHANGED <<spent, slips>>
        BY <1>6, <2>2 DEF WithdrawFunds
      <3>7. (DatesAgree(now)' <=> DatesAgree(later)) /\ Today(now)' = Today(later)
        BY <3>1 DEF DatesAgree, LocalDate, Today
      <3>8. DatesAgree(later) => WithdrawnOn(row, Today(now))' = total
        BY <3>3, <3>7 DEF WithdrawnOn, DatesAgree
      <3> HIDE DEF counted, total, taken
      <3>9. spent > 0 => IF DatesAgree(now) THEN spent <= counted + 10 * slips ELSE offset > 0
        BY DEF SpentIsCounted, counted, Cent
      <3>10. CASE DatesAgree(now)
        <4>1. spent + taken <= total + 10 * (slips + HalfCent(a))
          BY <1>0, <3>3, <3>4, <3>5, <3>9, <3>10 DEF total
        <4>2. CASE DatesAgree(later)
          BY <3>6, <3>7, <3>8, <3>10, <4>1, <4>2 DEF SpentIsCounted, Cent
        <4>3. CASE ~DatesAgree(later)
          BY <3>1, <3>2, <3>7, <3>10, <4>3 DEF SpentIsCounted
        <4> QED
          BY <4>2, <4>3
      <3>11. CASE ~DatesAgree(now)
        BY <3>1, <3>2, <3>6, <3>7, <3>9, <3>11 DEF SpentIsCounted
      <3> QED
        BY <3>10, <3>11
    <2> QED
      BY <2>1, <2>2
  <1>7. CASE UNCHANGED vars
    BY <1>1, <1>7 DEF vars
  <1> QED
    BY <1>2, <1>3, <1>4, <1>5, <1>6, <1>7 DEF Next

(* What the withdrawals of a day have taken is counted. *)
THEOREM SpentInvariant == Spec => []SpentIsCounted
  <1>1. Init => SpentIsCounted
    BY DEF Init, SpentIsCounted
  <1>2. LedgerTypeOK /\ SpentIsCounted /\ [Next]_vars => SpentIsCounted'
    BY CountedStep
  <1> QED
    BY <1>1, <1>2, LedgerTypeCorrect, PTL DEF Spec
-----------------------------------------------------------------------------
(* A withdrawal within the limit leaves a total within the limit. *)
LEMMA CountedWithinLimit ==
  ASSUME LedgerTypeOK, NEW a \in Nat, MayWithdraw(row, a, Today(now)),
         row.dailyWithdrawalLimit # NoLimit
  PROVE  WithdrawnOn(row, Today(now)) + ToColumn(a) <= row.dailyWithdrawalLimit
  <1> DEFINE counted == WithdrawnOn(row, Today(now))
             limit == row.dailyWithdrawalLimit
  <1>1. counted \in Nat /\ counted % 10 = 0 /\ limit \in Nat /\ limit % 10 = 0
    BY TypeFields DEF WithdrawnOn
  <1>2. counted + a <= limit
    BY DEF MayWithdraw, WithinDailyLimit
  <1> HIDE DEF counted, limit
  <1>3. counted + a \in Nat
    BY <1>1
  <1>4. counted + ToColumn(a) = ToColumn(counted + a) /\ ToColumn(limit) = limit
    BY <1>1, ColumnKeeps DEF ToColumn, Cent
  <1>5. ToColumn(counted + a) <= ToColumn(limit)
    BY <1>1, <1>2, <1>3, ColumnMonotone
  <1>6. counted + ToColumn(a) <= limit
    BY <1>4, <1>5
  <1> QED
    BY <1>6 DEF counted, limit

(* The balance goes down by withdrawals only. *)
LEMMA OnlyWithdrawalsTake ==
  ASSUME LedgerTypeOK, [Next]_vars, row'.balance < row.balance
  PROVE  \E a \in Amounts, later \in Instants : WithdrawFunds(a, later)
  <1>0. row.balance \in Nat
    BY TypeFields
  <1>1. ASSUME NEW a \in Amounts, DepositFunds(a) \/ CreditFunds(a) PROVE FALSE
    <2>1. PICK kept \in {a, ToColumn(a)} :
            Save(Deposit(row, kept)) \/ Save(Credited(row, kept))
      BY <1>1 DEF DepositFunds, CreditFunds
    <2>2. kept \in Nat
      BY ColumnRounds, LedgerAssumption
    <2>3. row.balance <= row'.balance /\ row'.balance \in Nat
      BY <2>1, <2>2, PayInRow DEF WalletRows
    <2> QED
      BY <1>0, <2>3
  <1>2. ASSUME NEW limit \in Limits, SetLimit(limit) PROVE FALSE
    BY <1>0, <1>2, LimitRow DEF SetLimit
  <1>3. CASE UNCHANGED row
    BY <1>0, <1>3
  <1> QED
    BY <1>1, <1>2, <1>3 DEF Next, Pass, vars

(* The daily limit holds for what really leaves the balance in the hours   *)
(* in which the dates agree, in every time zone and for every amount, a    *)
(* cent for each earlier half cent of the day apart.                       *)
THEOREM DailyLimit == Spec => LimitPerDay
  <1> DEFINE A ==
        /\ row'.balance < row.balance
        /\ row.dailyWithdrawalLimit # NoLimit
        /\ DatesAgree(now)
        => spent + (row.balance - row'.balance) <= row.dailyWithdrawalLimit + Cent * slips
  <1>1. ASSUME LedgerTypeOK, SpentIsCounted, [Next]_vars PROVE [A]_vars
    <2> SUFFICES ASSUME row'.balance < row.balance, row.dailyWithdrawalLimit # NoLimit,
                        DatesAgree(now)
                 PROVE  spent + (row.balance - row'.balance)
                          <= row.dailyWithdrawalLimit + Cent * slips
      OBVIOUS
    <2>1. PICK a \in Amounts, later \in Instants : WithdrawFunds(a, later)
      BY <1>1, OnlyWithdrawalsTake
    <2>2. a \in Nat /\ MayWithdraw(row, a, Today(now)) /\ ToColumn(a) \in Nat
      BY <2>1, LedgerAssumption, ColumnRounds DEF WithdrawFunds
    <2>3. /\ row'.balance >= row.balance - ToColumn(a) /\ row'.balance \in Nat
          /\ WithdrawnOn(row, Today(now)) \in Nat
      BY <1>1, <2>1, <2>2, WithdrawRow DEF WithdrawFunds, WalletRows
    <2>4. WithdrawnOn(row, Today(now)) + ToColumn(a) <= row.dailyWithdrawalLimit
      BY <1>1, <2>2, CountedWithinLimit
    <2>5. spent <= WithdrawnOn(row, Today(now)) + 10 * slips
      BY <1>1, <2>3, TypeFields DEF SpentIsCounted, Cent
    <2>6. /\ row.dailyWithdrawalLimit \in Nat /\ row.balance \in Nat
          /\ spent \in Nat /\ slips \in Nat
      BY <1>1, TypeFields
    <2> QED
      BY <2>2, <2>3, <2>4, <2>5, <2>6 DEF Cent
  <1> QED
    BY <1>1, LedgerTypeCorrect, SpentInvariant, PTL DEF Spec, LimitPerDay

(* Nothing that was counted against a day's limit is given back before     *)
(* midnight.                                                               *)
THEOREM AllowanceIsNotGivenBack == Spec => CountedStays
  <1> DEFINE B == Today(now') = Today(now) /\ DatesAgree(now')
                  => WithdrawnOn(row', Today(now)) >= WithdrawnOn(row, Today(now))
  <1>1. ASSUME LedgerTypeOK, [Next]_vars PROVE [B]_vars
    <2> SUFFICES ASSUME Today(now') = Today(now), DatesAgree(now')
                 PROVE  WithdrawnOn(row', Today(now)) >= WithdrawnOn(row, Today(now))
      OBVIOUS
    <2>0. WithdrawnOn(row, Today(now)) \in Nat
      BY <1>1, TypeFields DEF WithdrawnOn
    <2>1. ASSUME row'.dailyWithdrawalTotal = row.dailyWithdrawalTotal,
                 row'.lastWithdrawalDate = row.lastWithdrawalDate
          PROVE  WithdrawnOn(row', Today(now)) >= WithdrawnOn(row, Today(now))
      BY <2>0, <2>1 DEF WithdrawnOn
    <2>2. ASSUME NEW a \in Amounts, DepositFunds(a) \/ CreditFunds(a)
          PROVE  WithdrawnOn(row', Today(now)) >= WithdrawnOn(row, Today(now))
      <3>1. PICK kept \in {a, ToColumn(a)} :
              Save(Deposit(row, kept)) \/ Save(Credited(row, kept))
        BY <2>2 DEF DepositFunds, CreditFunds
      <3>2. kept \in Nat
        BY ColumnRounds, LedgerAssumption
      <3> QED
        BY <1>1, <2>1, <3>1, <3>2, PayInRow
    <2>3. ASSUME NEW a \in Amounts, NEW later \in Instants, WithdrawFunds(a, later)
          PROVE  WithdrawnOn(row', Today(now)) >= WithdrawnOn(row, Today(now))
      <3>1. a \in Nat /\ now' = later /\ offset' = offset
        BY <2>3, LedgerAssumption DEF WithdrawFunds
      <3>2. /\ row'.dailyWithdrawalTotal >= WithdrawnOn(row, Today(now))
            /\ row'.lastWithdrawalDate = LocalDate(later)
        BY <1>1, <2>3, <3>1, WithdrawRow DEF WithdrawFunds
      <3>3. LocalDate(later) = Today(now)
        BY <3>1 DEF DatesAgree
      <3> QED
        BY <3>2, <3>3 DEF WithdrawnOn
    <2>4. ASSUME NEW limit \in Limits, SetLimit(limit)
          PROVE  WithdrawnOn(row', Today(now)) >= WithdrawnOn(row, Today(now))
      BY <1>1, <2>1, <2>4, LimitRow DEF SetLimit
    <2>5. CASE UNCHANGED row
      BY <2>1, <2>5
    <2> QED
      BY <1>1, <2>2, <2>3, <2>4, <2>5 DEF Next, Pass, vars
  <1> QED
    BY <1>1, LedgerTypeCorrect, PTL DEF Spec, CountedStays
=============================================================================
