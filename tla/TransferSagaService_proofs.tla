--------------------- MODULE TransferSagaService_proofs ---------------------
(***************************************************************************)
(* Proofs about TransferSagaService, for every value of its constants.     *)
(***************************************************************************)
EXTENDS TransferSagaService, Wallet_proofs, TLAPS

-----------------------------------------------------------------------------
(* Adding a row to a table of events. *)

(* A row more makes a bag of a bag. *)
LEMMA BagAddIsABag ==
  ASSUME NEW B, IsABag(B), NEW x
  PROVE  IsABag(BagAdd(B, x))
  BY DEF IsABag, BagAdd

(* Counting the rows equal to y after one more row x was stored. *)
LEMMA CopiesBagAdd ==
  ASSUME NEW B, IsABag(B), NEW x, NEW y
  PROVE  Copies(y, BagAdd(B, x)) = IF y = x THEN Copies(y, B) + 1 ELSE Copies(y, B)
  BY DEF IsABag, BagAdd, Copies, BagToSet

(* A count is a natural number. *)
LEMMA CopiesNat ==
  ASSUME NEW B, IsABag(B), NEW x
  PROVE  Copies(x, B) \in Nat
  BY DEF IsABag, Copies, BagToSet
-----------------------------------------------------------------------------
(* The wallet operations keep rows in their type. *)
LEMMA RowTypes ==
  ASSUME NEW w \in Rows, NEW a \in Nat \ {0}, NEW l \in Nat \cup {NoLimit}
  PROVE  /\ Deposit(w, a) \in Rows
         /\ Credit(w, a) \in Rows
         /\ MayWithdraw(w, a, Today) => Withdraw(w, a, Today, Today) \in Rows
         /\ Freeze(w) \in Rows
         /\ Unfreeze(w) \in Rows
         /\ Close(w) \in Rows
         /\ SetDailyWithdrawalLimit(w, l) \in Rows
  BY WalletOperationTypes DEF Rows, Today

(* A new row is a row. *)
LEMMA NewWalletType ==
  ASSUME NEW currency \in Currencies
  PROVE  NewWallet(currency) \in Rows /\ AbsentWallet(currency) \in Rows
  BY InsertedRowType DEF Rows

(* The wallet operation of a step keeps a row in its type. *)
LEMMA OperationType ==
  ASSUME NEW s \in Steps, NEW w \in Rows, NEW a \in Nat \ {0}, MayOperate(s, w, a)
  PROVE  Operation(s, w, a) \in Rows
  BY RowTypes DEF MayOperate, Operation

(* The parameters of a call. *)
LEMMA RequestType ==
  ASSUME TypeOK, NEW c \in Calls
  PROVE  /\ req[c].from \in Wallets
         /\ req[c].to \in Wallets
         /\ req[c].amount \in Nat \ {0}
         /\ req[c].rid \in RequestIds \cup {NoRequestId}
         /\ \A s \in Steps : WalletOf(s, c) \in Wallets
  <1>1. req[c] \in Requests
    BY DEF TypeOK
  <1> QED
    BY <1>1, RequestsAssumption DEF WalletOf

(* A driver at work on a saga has one. *)
LEMMA JobType ==
  ASSUME TypeOK, NEW d \in Drivers,
         pc[d] \in InTransaction \cup {"committed"}
  PROVE  job[d] \in Calls /\ step[d] \in Steps
  BY DEF TypeOK, DriversOK, Drivers, InTransaction

-----------------------------------------------------------------------------
(* Leaving a step and starting one keep the drivers' types. *)
LEMMA StartStepType ==
  ASSUME DriversOK, NEW d \in Drivers, NEW s \in Steps,
         d \in Instances => s # "debit" /\ job'[d] \in Calls,
         StartStep(d, s),
         job' \in [Drivers -> Calls \cup {NoSaga}],
         \A e \in Drivers : e # d => job'[e] = job[e],
         d \in Calls => job'[d] = job[d],
         work' \in [Drivers -> Rows], queue' \in [Instances -> SUBSET Calls]
  PROVE  DriversOK'
  BY ConfigAssumption, DriversAssumption
     DEF DriversOK, StartStep, Drivers, Labels, Ended, InTransaction

(* A driver that leaves its transactional steps keeps its type. *)
LEMMA LeaveType ==
  ASSUME DriversOK, NEW d \in Drivers, NEW label \in Labels,
         d \in Calls => label \notin {"idle", "loop"},
         d \in Instances => label \in {"idle", "loop"},
         Leave(d, label),
         job' \in [Drivers -> Calls \cup {NoSaga}],
         \A e \in Drivers : e # d => job'[e] = job[e],
         d \in Calls => job'[d] = job[d],
         work' \in [Drivers -> Rows], queue' \in [Instances -> SUBSET Calls]
  PROVE  DriversOK'
  BY ConfigAssumption, DriversAssumption
     DEF DriversOK, Leave, Drivers, Labels, Ended, InTransaction, Steps

(* So does an error that escapes a step. *)
LEMMA ThrowType ==
  ASSUME DriversOK, NEW d \in Drivers, Throw(d),
         pc[d] \in InTransaction \cup {"committed"},
         UNCHANGED <<job, queue>>,
         work' \in [Drivers -> Rows]
  PROVE  DriversOK'
  <1>1. CASE d \in Calls
    <2>1. Leave(d, "catch") \/ Leave(d, "error")
      BY <1>1, DriversAssumption DEF Throw
    <2> QED
      BY <1>1, <2>1, LeaveType, DriversAssumption DEF DriversOK, Labels, Ended
  <1>2. CASE d \in Instances
    <2>1. StartStep(d, "compensate") \/ Leave(d, "loop")
      BY <1>2, DriversAssumption DEF Throw
    <2>2. job[d] \in Calls
      BY <1>2 DEF DriversOK, InTransaction
    <2> QED
      BY <1>2, <2>1, <2>2, StartStepType, LeaveType, DriversAssumption
         DEF DriversOK, Labels, Ended, Steps
  <1> QED
    BY <1>1, <1>2 DEF Drivers

(* A request that moves on to another label. *)
LEMMA GotoType ==
  ASSUME DriversOK, NEW c \in Calls, NEW label \in Labels \ {"idle", "loop"},
         Goto(c, label), UNCHANGED <<step, job, attempt, work, queue>>
  PROVE  DriversOK'
  BY DriversAssumption DEF DriversOK, Goto, Drivers

(* A driver that moves on inside its step. *)
LEMMA GotoInStepType ==
  ASSUME DriversOK, NEW d \in Drivers, pc[d] \in InTransaction,
         NEW label \in InTransaction \cup {"committed"},
         Goto(d, label), UNCHANGED <<step, job, queue>>,
         attempt' \in [Drivers -> 0 .. MaxRetries - 1], work' \in [Drivers -> Rows]
  PROVE  DriversOK'
  BY DriversAssumption DEF DriversOK, Goto, Drivers, Labels, InTransaction

(* The end of a transaction leaves no lock behind. *)
LEMMA ReleaseType ==
  ASSUME TypeOK, NEW d \in Drivers, Release(d)
  PROVE  LocksOK' /\ work' \in [Drivers -> Rows]
  BY NewWalletType, RequestsAssumption
     DEF TypeOK, LocksOK, DriversOK, Release, NoWork

(* The fault counter stays within its bound. *)
LEMMA FaultType ==
  ASSUME TypeOK, Fault \/ NoFault
  PROVE  faults' \in 0 .. MaxFaults
  BY ConfigAssumption DEF TypeOK, Fault, NoFault
-----------------------------------------------------------------------------
(* The first conjunct of an action's frame: the database is left alone. *)
LEMMA TablesFrame ==
  ASSUME TypeOK, UNCHANGED <<db, published, replica>>
  PROVE  TablesOK'
  BY DEF TypeOK, TablesOK, db

(* The locks are left alone. *)
LEMMA LocksFrame ==
  ASSUME TypeOK, UNCHANGED locks
  PROVE  LocksOK'
  BY DEF TypeOK, LocksOK, locks

(* The memory of the drivers is left alone. *)
LEMMA DriversFrame ==
  ASSUME TypeOK, UNCHANGED memory
  PROVE  DriversOK'
  BY DEF TypeOK, DriversOK, memory

(* The initial state has its types. *)
LEMMA TypeInit == Init => TypeOK
  <1> SUFFICES ASSUME Init PROVE TypeOK
    OBVIOUS
  <1>1. wallets \in [Wallets -> Rows]
    <2>1. \A w \in Wallets : OpeningRow(w) \in Rows
      <3> TAKE w \in Wallets
      <3>1. Opening[w].currency \in Currencies /\ Opening[w].deposit \in Nat
        BY RequestsAssumption
      <3> QED
        BY <3>1, NewWalletType, RowTypes DEF OpeningRow
    <2> QED
      BY <2>1 DEF Init
  <1>2. sagas \in SagaRows /\ idem \in Keys
    BY DEF Init, SagaRows, Keys
  <1>3. IsABag(events) /\ IsABag(outbox)
    BY DEF Init, IsABag, SetToBag, EmptyBag
  <1>4. TablesOK
    BY <1>1, <1>2, <1>3 DEF Init, TablesOK
  <1>5. LocksOK
    BY DEF Init, LocksOK
  <1>6. DriversOK
    BY NewWalletType, RequestsAssumption, ConfigAssumption, DriversAssumption
       DEF Init, DriversOK, Drivers, NoWork, Labels, Steps, Ended, InTransaction
  <1> QED
    BY <1>4, <1>5, <1>6, ConfigAssumption DEF Init, TypeOK

(* The transactions of WalletService keep the types. *)
LEMMA WalletTransactionType ==
  ASSUME TypeOK, NEW w \in Wallets, NEW row \in Rows, NEW created, NEW type, NEW a,
         WalletTransaction(w, row, created, type, a)
  PROVE  TypeOK'
  <1>1. wallets' \in [Wallets -> Rows]
    BY DEF TypeOK, TablesOK, WalletTransaction
  <1>2. IsABag(events') /\ IsABag(outbox')
    BY BagAddIsABag DEF TypeOK, TablesOK, WalletTransaction
  <1>3. TablesOK'
    BY <1>1, <1>2 DEF TypeOK, TablesOK, WalletTransaction
  <1>4. LocksOK' /\ DriversOK'
    BY LocksFrame, DriversFrame DEF WalletTransaction
  <1> QED
    BY <1>3, <1>4, ConfigAssumption DEF TypeOK, WalletTransaction

(* Deposits, withdrawals and operator actions keep the types. *)
LEMMA WalletStepType ==
  ASSUME TypeOK, WalletStep
  PROVE  TypeOK'
  <1>1. PICK w \in Wallets :
          \/ \E a \in Amounts : DepositFunds(w, a)
          \/ \E a \in Amounts : WithdrawFunds(w, a)
          \/ FreezeWallet(w)
          \/ UnfreezeWallet(w)
          \/ CloseWallet(w)
          \/ \E l \in Limits : SetLimit(w, l)
    BY DEF WalletStep
  <1>2. wallets[w] \in Rows
    BY DEF TypeOK, TablesOK
  <1>3. ASSUME NEW a \in Amounts, DepositFunds(w, a) PROVE TypeOK'
    <2> DEFINE row == IF Exists(wallets[w]) THEN wallets[w] ELSE NewWallet(DefaultCurrency)
    <2>1. row \in Rows /\ a \in Nat \ {0}
      BY <1>2, NewWalletType, RequestsAssumption
    <2>2. Deposit(row, a) \in Rows
      BY <2>1, RowTypes
    <2>3. WalletTransaction(w, Deposit(row, a), AnnouncesWallet(w), "FUNDS_DEPOSITED", a)
      BY <1>3 DEF DepositFunds
    <2> HIDE DEF row
    <2> QED
      BY <2>2, <2>3, WalletTransactionType
  <1>4. ASSUME NEW a \in Amounts, WithdrawFunds(w, a) PROVE TypeOK'
    <2>1. a \in Nat \ {0}
      BY RequestsAssumption
    <2>2. Withdraw(wallets[w], a, Today, Today) \in Rows
      BY <1>2, <1>4, <2>1, RowTypes DEF WithdrawFunds
    <2> QED
      BY <1>4, <2>2, WalletTransactionType DEF WithdrawFunds
  <1>5. CASE FreezeWallet(w) \/ UnfreezeWallet(w) \/ CloseWallet(w)
    <2>1. /\ Freeze(wallets[w]) \in Rows
          /\ Unfreeze(wallets[w]) \in Rows
          /\ Close(wallets[w]) \in Rows
      BY <1>2, RowTypes
    <2> QED
      BY <1>5, <2>1, WalletTransactionType DEF FreezeWallet, UnfreezeWallet, CloseWallet
  <1>6. ASSUME NEW l \in Limits, SetLimit(w, l) PROVE TypeOK'
    <2>1. SetDailyWithdrawalLimit(wallets[w], l) \in Rows
      BY <1>2, RowTypes, RequestsAssumption
    <2> QED
      BY <1>6, <2>1, WalletTransactionType DEF SetLimit
  <1> QED
    BY <1>1, <1>3, <1>4, <1>5, <1>6
-----------------------------------------------------------------------------
(* Every step of a request outside its transactions keeps the types. *)
LEMMA CallType ==
  ASSUME TypeOK, NEW c \in Calls, CallStep(c) \/ CallError(c)
  PROVE  TypeOK'
  <1> c \in Drivers
    BY DEF Drivers
  <1>d. DriversOK
    BY DEF TypeOK
  <1>r. /\ req[c].from \in Wallets /\ req[c].to \in Wallets
        /\ req[c].rid \in RequestIds \cup {NoRequestId}
    BY RequestType
  <1>1. CASE CheckIdempotency(c) \/ FindSender(c)
    <2>1. PICK label \in {"replay", "error", "findSender", "getOrCreate"} : Goto(c, label)
      BY <1>1 DEF CheckIdempotency, FindSender
    <2>2. DriversOK'
      BY <1>1, <1>d, <2>1, GotoType DEF CheckIdempotency, FindSender, Labels, Ended
    <2> QED
      BY <1>1, <2>2, TablesFrame, LocksFrame DEF CheckIdempotency, FindSender, TypeOK
  <1>2. ASSUME NEW acked, GetOrCreateReceiver(c, acked) PROVE TypeOK'
    <2>1. wallets' \in [Wallets -> Rows]
      <3>1. wallets[req[c].from].currency \in Currencies
        BY <1>r DEF TypeOK, TablesOK, Rows, WalletRows
      <3> QED
        BY <1>2, <1>r, <3>1, NewWalletType DEF GetOrCreateReceiver, TypeOK, TablesOK
    <2>2. IsABag(events')
      BY <1>2, BagAddIsABag DEF GetOrCreateReceiver, TypeOK, TablesOK
    <2>3. TablesOK'
      BY <1>2, <2>1, <2>2 DEF GetOrCreateReceiver, TypeOK, TablesOK
    <2>4. PICK label \in {"createSaga", "error"} : Goto(c, label)
      BY <1>2 DEF GetOrCreateReceiver, Outcome
    <2>5. DriversOK'
      BY <1>2, <1>d, <2>4, GotoType DEF GetOrCreateReceiver, Labels, Ended
    <2>6. faults' \in 0 .. MaxFaults
      BY <1>2, FaultType DEF GetOrCreateReceiver, Outcome
    <2> QED
      BY <1>2, <2>3, <2>5, <2>6, LocksFrame DEF GetOrCreateReceiver, TypeOK
  <1>3. ASSUME NEW acked, CreateSaga(c, acked) PROVE TypeOK'
    <2>1. TablesOK'
      BY <1>3, BagAddIsABag
         DEF CreateSaga, TypeOK, TablesOK, SagaRows, InitialState, TransferSagaState
    <2>2. PICK label \in {"begin", "error"} : Goto(c, label)
      BY <1>3 DEF CreateSaga, Outcome
    <2>3. DriversOK'
      BY <1>3, <1>d, <2>2, GotoType DEF CreateSaga, Labels, Ended
    <2>4. faults' \in 0 .. MaxFaults
      BY <1>3, FaultType DEF CreateSaga, Outcome
    <2> QED
      BY <1>3, <2>1, <2>3, <2>4, LocksFrame DEF CreateSaga, TypeOK
  <1>4. ASSUME NEW saved, NEW acked, SaveKey(c, saved, acked) PROVE TypeOK'
    <2>1. TablesOK'
      BY <1>4, <1>r DEF SaveKey, TypeOK, TablesOK, Keys
    <2>2. PICK label \in {"ok", "catch"} : Goto(c, label)
      BY <1>4 DEF SaveKey, Outcome
    <2>3. DriversOK'
      BY <1>4, <1>d, <2>2, GotoType DEF SaveKey, Labels, Ended
    <2>4. faults' \in 0 .. MaxFaults
      BY <1>4, FaultType DEF SaveKey, Outcome
    <2> QED
      BY <1>4, <2>1, <2>3, <2>4, LocksFrame DEF SaveKey, TypeOK
  <1>5. CASE ReloadSaga(c)
    <2>1. StartStep(c, "compensate") \/ Leave(c, "fail") \/ Leave(c, "error")
      BY <1>5 DEF ReloadSaga
    <2>2. DriversOK'
      <3>1. UNCHANGED <<job, work, queue>>
        BY <1>5 DEF ReloadSaga
      <3>2. c \notin Instances
        BY DriversAssumption
      <3>3. /\ job' \in [Drivers -> Calls \cup {NoSaga}]
            /\ work' \in [Drivers -> Rows] /\ queue' \in [Instances -> SUBSET Calls]
        BY <1>d, <3>1 DEF DriversOK
      <3>4. CASE StartStep(c, "compensate")
        BY <1>d, <3>1, <3>2, <3>3, <3>4, StartStepType DEF Steps
      <3>5. CASE Leave(c, "fail") \/ Leave(c, "error")
        BY <1>d, <3>1, <3>2, <3>3, <3>5, LeaveType DEF Labels, Ended
      <3> QED
        BY <2>1, <3>4, <3>5
    <2> QED
      BY <1>5, <2>2, TablesFrame, LocksFrame DEF ReloadSaga, TypeOK
  <1>6. CASE MarkFailed(c)
    <2>1. TablesOK'
      BY <1>6 DEF MarkFailed, TypeOK, TablesOK, SagaRows, MarkAsFailed, TransferSagaState
    <2>2. DriversOK'
      BY <1>6, <1>d, GotoType DEF MarkFailed, Labels, Ended
    <2> QED
      BY <1>6, <2>1, <2>2, LocksFrame DEF MarkFailed, TypeOK
  <1>7. CASE FailEarly(c) \/ FailHandler(c)
    <2>1. Goto(c, "error") /\ Fault
      BY <1>7 DEF FailEarly, FailHandler, Outcome
    <2>2. DriversOK'
      BY <1>7, <1>d, <2>1, GotoType DEF FailEarly, FailHandler, Labels, Ended
    <2>3. faults' \in 0 .. MaxFaults
      BY <2>1, FaultType
    <2> QED
      BY <1>7, <2>2, <2>3, TablesFrame, LocksFrame DEF FailEarly, FailHandler, TypeOK
  <1> QED
    BY <1>1, <1>2, <1>3, <1>4, <1>5, <1>6, <1>7 DEF CallStep, CallError
-----------------------------------------------------------------------------
(* Every step of a driver in and around its transactions keeps the types.  *)
LEMMA SagaType ==
  ASSUME TypeOK, NEW d \in Drivers, SagaStep(d) \/ SagaError(d)
  PROVE  TypeOK'
  <1>d. DriversOK
    BY DEF TypeOK
  <1>1. CASE LockWallet(d)
    <2>1. /\ pc[d] \in InTransaction
          /\ UNCHANGED <<job, queue>>
      BY <1>1 DEF LockWallet, InTransaction
    <2>2. job[d] \in Calls /\ step[d] \in Steps
      BY <2>1, JobType
    <2> DEFINE c == job[d]
               w == WalletOf(step[d], c)
    <2>3. w \in Wallets /\ wallets[w] \in Rows /\ req[c].amount \in Nat \ {0}
      BY <2>2, RequestType DEF TypeOK, TablesOK
    <2>4. CASE MayOperate(step[d], wallets[w], req[c].amount)
      <3>1. /\ walletLock' = [walletLock EXCEPT ![w] = d]
            /\ work' = [work EXCEPT ![d] = Operation(step[d], wallets[w], req[c].amount)]
            /\ Goto(d, "locked") /\ UNCHANGED <<step, attempt, sagaLock>>
        BY <1>1, <2>4 DEF LockWallet
      <3>2. Operation(step[d], wallets[w], req[c].amount) \in Rows
        BY <2>2, <2>3, <2>4, OperationType
      <3>3. work' \in [Drivers -> Rows]
        BY <1>d, <3>1, <3>2 DEF DriversOK
      <3>4. DriversOK'
        BY <1>d, <2>1, <3>1, <3>3, GotoInStepType DEF DriversOK, InTransaction
      <3>5. LocksOK'
        BY <2>3, <3>1 DEF TypeOK, LocksOK
      <3> QED
        BY <1>1, <3>4, <3>5, TablesFrame DEF LockWallet, TypeOK
    <2>5. CASE ~MayOperate(step[d], wallets[w], req[c].amount)
      <3>1. Throw(d) /\ UNCHANGED <<walletLock, sagaLock, work>>
        BY <1>1, <2>5 DEF LockWallet
      <3>2. DriversOK'
        BY <1>d, <2>1, <3>1, ThrowType DEF DriversOK
      <3> QED
        BY <1>1, <3>1, <3>2, TablesFrame, LocksFrame DEF LockWallet, TypeOK, locks
    <2> QED
      BY <2>4, <2>5
  <1>2. CASE ReadSaga(d)
    <2>1. pc[d] \in InTransaction /\ UNCHANGED <<job, queue>>
      BY <1>2 DEF ReadSaga, InTransaction
    <2>2. CASE Goto(d, "marked") /\ UNCHANGED <<step, attempt, locks, work>>
      <3>1. DriversOK'
        BY <1>d, <2>1, <2>2, GotoInStepType DEF DriversOK, InTransaction
      <3> QED
        BY <1>2, <2>2, <3>1, TablesFrame, LocksFrame DEF ReadSaga, TypeOK
    <2>3. CASE Throw(d) /\ Release(d)
      <3>1. LocksOK' /\ work' \in [Drivers -> Rows]
        BY <2>3, ReleaseType
      <3>2. DriversOK'
        BY <1>d, <2>1, <2>3, <3>1, ThrowType
      <3> QED
        BY <1>2, <3>1, <3>2, TablesFrame DEF ReadSaga, TypeOK
    <2> QED
      BY <1>2, <2>2, <2>3 DEF ReadSaga
  <1>3. CASE WriteSaga(d)
    <2>1. pc[d] \in InTransaction
      BY <1>3 DEF WriteSaga, InTransaction
    <2>2. DriversOK'
      BY <1>3, <1>d, <2>1, GotoInStepType DEF WriteSaga, DriversOK, InTransaction
    <2>3. LocksOK'
      BY <1>3, <2>1, JobType DEF WriteSaga, TypeOK, LocksOK
    <2> QED
      BY <1>3, <2>2, <2>3, TablesFrame DEF WriteSaga, TypeOK
  <1>4. ASSUME NEW acked, Commit(d, acked) PROVE TypeOK'
    <2>1. pc[d] \in InTransaction /\ UNCHANGED <<job, queue>>
      BY <1>4 DEF Commit, InTransaction
    <2>2. job[d] \in Calls /\ step[d] \in Steps
      BY <2>1, JobType
    <2>3. WalletOf(step[d], job[d]) \in Wallets
      BY <2>2, RequestType
    <2>4. wallets' \in [Wallets -> Rows]
      BY <1>4, <1>d, <2>3 DEF Commit, TypeOK, TablesOK, DriversOK
    <2>5. sagas' \in SagaRows
      <3>1. MarkedAs(step[d]) \in TransferSagaState
        BY <2>2 DEF MarkedAs, Steps, TransferSagaState
      <3> QED
        BY <1>4, <2>2, <3>1 DEF Commit, TypeOK, TablesOK, SagaRows
    <2>6. IsABag(events') /\ IsABag(outbox')
      BY <1>4, BagAddIsABag DEF Commit, OutboxAfter, TypeOK, TablesOK
    <2>7. TablesOK'
      BY <1>4, <2>4, <2>5, <2>6 DEF Commit, TypeOK, TablesOK
    <2>8. LocksOK' /\ work' \in [Drivers -> Rows]
      BY <1>4, ReleaseType DEF Commit
    <2>9. DriversOK'
      <3>1. CASE Goto(d, "committed") /\ UNCHANGED <<step, attempt>>
        BY <1>d, <2>1, <2>8, <3>1, GotoInStepType DEF DriversOK
      <3>2. CASE Throw(d)
        BY <1>d, <2>1, <2>8, <3>2, ThrowType
      <3> QED
        BY <1>4, <3>1, <3>2 DEF Commit
    <2>10. faults' \in 0 .. MaxFaults
      BY <1>4, FaultType DEF Commit
    <2> QED
      BY <1>4, <2>7, <2>8, <2>9, <2>10 DEF Commit, TypeOK
  <1>5. ASSUME NEW ok, InvalidateCache(d, ok) PROVE TypeOK'
    <2>1. /\ pc[d] \in InTransaction \cup {"committed"}
          /\ UNCHANGED <<job, queue, work>>
      BY <1>5 DEF InvalidateCache
    <2>2. job[d] \in Calls /\ work' \in [Drivers -> Rows]
      BY <1>d, <2>1, JobType DEF DriversOK
    <2>3. DriversOK'
      <3>1. CASE StartStep(d, "credit")
        BY <1>d, <2>1, <2>2, <3>1, StartStepType DEF DriversOK, Steps
      <3>2. CASE Leave(d, IF d \in Calls THEN "saveKey" ELSE "loop")
        BY <1>d, <2>1, <2>2, <3>2, LeaveType, DriversAssumption
           DEF DriversOK, Drivers, Labels
      <3>3. CASE Throw(d)
        BY <1>d, <2>1, <2>2, <3>3, ThrowType
      <3> QED
        BY <1>5, <3>1, <3>2, <3>3 DEF InvalidateCache
    <2>4. faults' \in 0 .. MaxFaults
      BY <1>5, FaultType DEF InvalidateCache
    <2> QED
      BY <1>5, <2>3, <2>4, TablesFrame, LocksFrame DEF InvalidateCache, TypeOK
  <1>6. ASSUME NEW ok, PublishFailed(d, ok) PROVE TypeOK'
    <2>1. /\ pc[d] \in InTransaction \cup {"committed"}
          /\ UNCHANGED <<job, queue, work>>
          /\ Leave(d, IF d \in Calls THEN "error" ELSE "loop")
      BY <1>6 DEF PublishFailed
    <2>2. job[d] \in Calls /\ work' \in [Drivers -> Rows]
      BY <1>d, <2>1, JobType DEF DriversOK
    <2>3. DriversOK'
      BY <1>d, <2>1, <2>2, LeaveType, DriversAssumption
         DEF DriversOK, Drivers, Labels, Ended
    <2>4. faults' \in 0 .. MaxFaults
      BY <1>6, FaultType DEF PublishFailed
    <2>5. TablesOK'
      BY <1>6, <2>2 DEF PublishFailed, TypeOK, TablesOK, db
    <2> QED
      BY <1>6, <2>3, <2>4, <2>5, LocksFrame DEF PublishFailed, TypeOK
  <1>7. ASSUME NEW retryable, Abort(d, retryable) PROVE TypeOK'
    <2>1. pc[d] \in InTransaction /\ UNCHANGED <<job, queue>>
      BY <1>7 DEF Abort
    <2>2. LocksOK' /\ work' \in [Drivers -> Rows]
      BY <1>7, ReleaseType DEF Abort
    <2>3. DriversOK'
      <3>1. CASE Throw(d)
        BY <1>d, <2>1, <2>2, <3>1, ThrowType
      <3>2. CASE /\ attempt[d] + 1 < MaxRetries
                 /\ Goto(d, "begin")
                 /\ attempt' = [attempt EXCEPT ![d] = @ + 1]
                 /\ UNCHANGED step
        <4>1. attempt' \in [Drivers -> 0 .. MaxRetries - 1]
          BY <1>d, <3>2, ConfigAssumption DEF DriversOK
        <4> QED
          BY <1>d, <2>1, <2>2, <3>2, <4>1, GotoInStepType DEF InTransaction
      <3> QED
        BY <1>7, <3>1, <3>2 DEF Abort
    <2>4. faults' \in 0 .. MaxFaults
      BY <1>7, FaultType DEF Abort
    <2> QED
      BY <1>7, <2>2, <2>3, <2>4, TablesFrame DEF Abort, TypeOK
  <1>8. CASE Crash(d)
    <2>1. LocksOK' /\ work' \in [Drivers -> Rows]
      BY <1>8, ReleaseType DEF Crash
    <2>2. /\ job' \in [Drivers -> Calls \cup {NoSaga}]
          /\ \A e \in Drivers : e # d => job'[e] = job[e]
          /\ d \in Calls => job'[d] = job[d]
          /\ queue' \in [Instances -> SUBSET Calls]
      BY <1>8, <1>d DEF Crash, DriversOK
    <2>3. DriversOK'
      BY <1>8, <1>d, <2>1, <2>2, LeaveType, DriversAssumption
         DEF Crash, Drivers, Labels, Ended
    <2>4. faults' \in 0 .. MaxFaults
      BY <1>8, FaultType DEF Crash
    <2> QED
      BY <1>8, <2>1, <2>3, <2>4, TablesFrame DEF Crash, TypeOK
  <1> QED
    BY <1>1, <1>2, <1>3, <1>4, <1>5, <1>6, <1>7, <1>8 DEF SagaStep, SagaError

(* Every step of a recoverer between its sagas keeps the types. *)
LEMMA RecoveryType ==
  ASSUME TypeOK, NEW i \in Instances, RecoveryStep(i) \/ RecoveryError(i)
  PROVE  TypeOK'
  <1> i \in Drivers /\ i \notin Calls
    BY DriversAssumption DEF Drivers
  <1>d. DriversOK
    BY DEF TypeOK
  <1>1. CASE FindStuck(i)
    <2>1. DriversOK'
      BY <1>1, <1>d, DriversAssumption
         DEF FindStuck, Stuck, DriversOK, Goto, Drivers, Labels, TypeOK
    <2> QED
      BY <1>1, <2>1, TablesFrame, LocksFrame DEF FindStuck, TypeOK
  <1>2. ASSUME NEW c \in Calls, NEW ok, RecoverSaga(i, c, ok) PROVE TypeOK'
    <2>1. queue' \in [Instances -> SUBSET Calls] /\ work' \in [Drivers -> Rows]
      BY <1>2, <1>d DEF RecoverSaga, DriversOK
    <2>2. DriversOK'
      <3>1. CASE StartStep(i, "credit") /\ job' = [job EXCEPT ![i] = c]
        <4>1. /\ job' \in [Drivers -> Calls \cup {NoSaga}] /\ job'[i] = c
              /\ \A e \in Drivers : e # i => job'[e] = job[e]
          BY <1>d, <3>1 DEF DriversOK
        <4> QED
          BY <1>d, <2>1, <3>1, <4>1, StartStepType DEF Steps
      <3>2. CASE UNCHANGED <<pc, step, attempt, job>>
        BY <1>2, <1>d, <2>1, <3>2 DEF RecoverSaga, DriversOK
      <3> QED
        BY <1>2, <3>1, <3>2 DEF RecoverSaga
    <2>3. faults' \in 0 .. MaxFaults
      BY <1>2, FaultType DEF RecoverSaga
    <2> QED
      BY <1>2, <2>2, <2>3, TablesFrame, LocksFrame DEF RecoverSaga, TypeOK
  <1>3. CASE FinishRound(i)
    <2>1. DriversOK'
      BY <1>3, <1>d, DriversAssumption DEF FinishRound, DriversOK, Goto, Drivers, Labels
    <2> QED
      BY <1>3, <2>1, TablesFrame, LocksFrame DEF FinishRound, TypeOK
  <1> QED
    BY <1>1, <1>2, <1>3 DEF RecoveryStep, RecoveryError

-----------------------------------------------------------------------------
(* Every step keeps the types. *)
LEMMA TypeStep ==
  ASSUME TypeOK, [Next]_vars
  PROVE  TypeOK'
  <1>1. ASSUME NEW c \in Calls, Age(c) PROVE TypeOK'
    BY <1>1, TablesFrame, LocksFrame, DriversFrame DEF Age, TypeOK
  <1>2. CASE Replicate
    <2>1. TablesOK'
      BY <1>2 DEF Replicate, Tables, TypeOK, TablesOK, db
    <2> QED
      BY <1>2, <2>1, LocksFrame, DriversFrame DEF Replicate, TypeOK
  <1>3. CASE UNCHANGED vars
    <2>1. /\ UNCHANGED <<db, published, replica>> /\ UNCHANGED locks /\ UNCHANGED memory
          /\ UNCHANGED <<req, old, faults, ops>>
      BY <1>3 DEF vars
    <2> QED
      BY <2>1, TablesFrame, LocksFrame, DriversFrame DEF TypeOK
  <1> QED
    BY <1>1, <1>2, <1>3, CallType, SagaType, RecoveryType, WalletStepType DEF Next

(* Type correctness: every variable keeps its type in every execution, so  *)
(* no wallet balance ever goes negative, whatever transfers, refunds,      *)
(* deposits and withdrawals are interleaved.                               *)
THEOREM TypeCorrect == Spec => []TypeOK
  <1>1. Init => TypeOK
    BY TypeInit
  <1>2. TypeOK /\ [Next]_vars => TypeOK'
    BY TypeStep
  <1> QED
    BY <1>1, <1>2, PTL DEF Spec
=============================================================================
