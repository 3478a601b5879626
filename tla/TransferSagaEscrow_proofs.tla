---------------------- MODULE TransferSagaEscrow_proofs ----------------------
(***************************************************************************)
(* What transfers do to the wallets: no update is lost, a closed wallet    *)
(* stays closed and empty, and a saga joins wallets of one currency, with  *)
(* any number of requests and recoverers.  Then, for sagas with one driver *)
(* at a time, that the state column tells the ledger and that sagas        *)
(* implement the escrow.                                                   *)
(***************************************************************************)
EXTENDS TransferSagaSafety_proofs

-----------------------------------------------------------------------------
(* Who moves: an action of a driver leaves the other drivers alone. *)
Others(d) ==
  \A e \in Drivers \ {d} :
    pc'[e] = pc[e] /\ step'[e] = step[e] /\ job'[e] = job[e] /\ work'[e] = work[e]

(* An error moves the driver out of its transaction. *)
LEMMA ThrowOthers ==
  ASSUME TypeOK, NEW d \in Drivers, Throw(d), UNCHANGED job, Release(d) \/ UNCHANGED work
  PROVE  /\ Others(d)
         /\ pc'[d] \in {"catch", "error", "begin", "loop"}
         /\ pc'[d] = "begin" => d \in Instances
  <1>1. \/ d \in Instances /\ StartStep(d, "compensate")
        \/ \E label \in {"catch", "error", "loop"} : Leave(d, label)
    BY DEF Throw, Drivers
  <1>2. \A e \in Drivers \ {d} : work'[e] = work[e]
    BY DEF Release, TypeOK, DriversOK
  <1> QED
    BY <1>1, <1>2 DEF StartStep, Leave, TypeOK, DriversOK, Others

(* A request outside its transactions. *)
CallMove(c) ==
  /\ Others(c)
  /\ UNCHANGED <<job, work, req, replica, walletLock, sagaLock, queue, old>>
  /\ pc[c] \in BeforeSaga \cup {"saveKey", "catch", "fail"}
  /\ pc'[c] \notin {"locked", "marked", "written", "committed", "saveKey"}

(* Its steps and its errors are such moves. *)
LEMMA CallMoves ==
  ASSUME TypeOK, NEW c \in Calls, CallStep(c) \/ CallError(c)
  PROVE  CallMove(c)
  <1> c \in Drivers
    BY DEF Drivers
  <1>1. ASSUME NEW label, Goto(c, label), UNCHANGED <<step, job, work>>
        PROVE  Others(c) /\ pc'[c] = label
    BY <1>1 DEF Goto, TypeOK, DriversOK, Others, CallMove
  <1>2. CASE CheckIdempotency(c) \/ FindSender(c) \/ FailEarly(c) \/ FailHandler(c)
    <2>1. PICK label \in {"replay", "error", "findSender", "getOrCreate"} : Goto(c, label)
      BY <1>2 DEF CheckIdempotency, FindSender, FailEarly, FailHandler, Outcome
    <2> QED
      BY <1>1, <1>2, <2>1
         DEF CheckIdempotency, FindSender, FailEarly, FailHandler, BeforeSaga, CallMove, locks
  <1>3. ASSUME NEW acked, GetOrCreateReceiver(c, acked) \/ CreateSaga(c, acked)
        PROVE  CallMove(c)
    <2>1. PICK label \in {"createSaga", "error", "begin"} : Goto(c, label)
      BY <1>3 DEF GetOrCreateReceiver, CreateSaga, Outcome
    <2> QED
      BY <1>1, <1>3, <2>1 DEF GetOrCreateReceiver, CreateSaga, BeforeSaga, CallMove, locks
  <1>4. ASSUME NEW saved, NEW acked, SaveKey(c, saved, acked) \/ MarkFailed(c)
        PROVE  CallMove(c)
    <2>1. PICK label \in {"ok", "catch", "error"} : Goto(c, label)
      BY <1>4 DEF SaveKey, MarkFailed, Outcome
    <2> QED
      BY <1>1, <1>4, <2>1 DEF SaveKey, MarkFailed, CallMove, locks
  <1>5. CASE ReloadSaga(c)
    BY <1>5 DEF ReloadSaga, StartStep, Leave, TypeOK, DriversOK, Others, CallMove, locks
  <1> QED
    BY <1>2, <1>3, <1>4, <1>5 DEF CallStep, CallError

(* A recoverer between its sagas. *)
RecoveryMove(i) ==
  /\ Others(i)
  /\ UNCHANGED <<wallets, sagas, events, req, replica, walletLock, sagaLock, old>>
  /\ pc[i] \in {"idle", "loop"}
  /\ pc'[i] \in {"idle", "loop", "begin"}

(* Its steps and its errors are such moves. *)
LEMMA RecoveryMoves ==
  ASSUME TypeOK, NEW i \in Instances, RecoveryStep(i) \/ RecoveryError(i)
  PROVE  RecoveryMove(i)
  <1> i \in Drivers
    BY DEF Drivers
  <1>1. CASE FindStuck(i)
    BY <1>1 DEF FindStuck, Goto, db, locks, TypeOK, DriversOK, Others, RecoveryMove
  <1>2. ASSUME NEW c \in Calls, NEW ok, RecoverSaga(i, c, ok)
        PROVE  RecoveryMove(i)
    BY <1>2 DEF RecoverSaga, StartStep, db, locks, TypeOK, DriversOK, Others, RecoveryMove
  <1>3. CASE FinishRound(i)
    BY <1>3 DEF FinishRound, Goto, db, locks, TypeOK, DriversOK, Others, RecoveryMove
  <1> QED
    BY <1>1, <1>2, <1>3 DEF RecoveryStep, RecoveryError

(* A driver that ends its transaction without a commit, or is past it. *)
LeaveMove(d) ==
  /\ Others(d)
  /\ UNCHANGED <<db, req, replica, old>>
  /\ pc[d] \notin Ended
  /\ pc'[d] \notin {"locked", "marked", "written", "committed"}
  /\ pc'[d] \in AfterSaga => pc[d] \in AfterSaga /\ job'[d] = job[d]
  /\ pc'[d] \notin BeforeSaga
  /\ \A i \in Instances : queue'[i] \subseteq queue[i]

(* A rollback, a crash and what follows a commit are such moves. *)
LEMMA SagaLeaves ==
  ASSUME TypeOK, NEW d \in Drivers,
         \/ \E ok \in BOOLEAN : InvalidateCache(d, ok) \/ PublishFailed(d, ok)
         \/ \E retryable \in BOOLEAN : Abort(d, retryable)
         \/ Crash(d)
  PROVE  LeaveMove(d)
  <1>r. Release(d) => \A e \in Drivers \ {d} : work'[e] = work[e]
    BY DEF Release, TypeOK, DriversOK
  <1>1. ASSUME NEW ok \in BOOLEAN, InvalidateCache(d, ok)
        PROVE  LeaveMove(d)
    <2>1. UNCHANGED <<db, req, replica, old, job, work, queue>> /\ pc[d] = "committed"
      BY <1>1 DEF InvalidateCache
    <2>2. CASE Throw(d)
      BY <2>1, <2>2, ThrowOthers DEF Ended, AfterSaga, LeaveMove, BeforeSaga
    <2>3. CASE StartStep(d, "credit")
      BY <2>1, <2>3
         DEF StartStep, Ended, AfterSaga, TypeOK, DriversOK, Others, LeaveMove, BeforeSaga
    <2>4. CASE Leave(d, IF d \in Calls THEN "saveKey" ELSE "loop")
      BY <2>1, <2>4
         DEF Leave, Ended, AfterSaga, TypeOK, DriversOK, Others, LeaveMove, BeforeSaga
    <2> QED
      BY <1>1, <2>2, <2>3, <2>4 DEF InvalidateCache
  <1>2. ASSUME NEW ok \in BOOLEAN, PublishFailed(d, ok)
        PROVE  LeaveMove(d)
    BY <1>2
       DEF PublishFailed, Leave, Ended, AfterSaga, TypeOK, DriversOK, Others, LeaveMove,
           BeforeSaga
  <1>3. ASSUME NEW retryable \in BOOLEAN, Abort(d, retryable)
        PROVE  LeaveMove(d)
    <2>1. /\ UNCHANGED <<db, req, replica, old, job, queue>> /\ Release(d)
          /\ pc[d] \in AfterSaga /\ pc[d] \notin Ended
      BY <1>3 DEF Abort, InTransaction, AfterSaga, Ended
    <2>2. CASE Throw(d)
      BY <2>1, <2>2, ThrowOthers DEF LeaveMove, BeforeSaga
    <2>3. CASE Goto(d, "begin") /\ UNCHANGED step
      BY <1>r, <2>1, <2>3 DEF Goto, TypeOK, DriversOK, Others, LeaveMove, BeforeSaga
    <2> QED
      BY <1>3, <2>2, <2>3 DEF Abort
  <1>4. CASE Crash(d)
    <2>1. UNCHANGED <<db, req, replica, old>> /\ Release(d) /\ pc[d] \notin Ended
      BY <1>4 DEF Crash
    <2>2. /\ pc'[d] \in {"dead", "idle"}
          /\ \A e \in Drivers \ {d} : pc'[e] = pc[e] /\ step'[e] = step[e] /\ job'[e] = job[e]
      BY <1>4 DEF Crash, Leave, TypeOK, DriversOK
    <2>3. \A i \in Instances : queue'[i] \subseteq queue[i]
      BY <1>4 DEF Crash
    <2> QED
      BY <1>r, <2>1, <2>2, <2>3 DEF Others, AfterSaga, InTransaction, LeaveMove, BeforeSaga
  <1> QED
    BY <1>1, <1>2, <1>3, <1>4
-----------------------------------------------------------------------------
(* The rows of wallets that transactions hold. *)

(* A transaction goes on with the entity it has, and nobody has changed    *)
(* the row under it.                                                       *)
RowStays(d) ==
  /\ pc[d] \in Holding
  /\ step'[d] = step[d] /\ job'[d] = job[d] /\ work'[d] = work[d]
  /\ wallets'[WalletOf(step[d], job[d])] = wallets[WalletOf(step[d], job[d])]

(* A transaction has just loaded the row and run its operation. *)
RowTaken(d) ==
  LET row == wallets[WalletOf(step[d], job[d])]
  IN  /\ MayOperate(step[d], row, req[job[d]].amount)
      /\ work'[d] = Operation(step[d], row, req[job[d]].amount)
      /\ UNCHANGED <<wallets, step, job>>

(* What every step does to rows and to those who hold them. *)
RowStep ==
  /\ UNCHANGED req
  /\ \A w \in Wallets : LawfulRow(wallets[w], wallets'[w])
  /\ \A d \in Drivers : pc'[d] \in Holding => RowStays(d) \/ RowTaken(d)

(* The invariant of the rows needs nothing else of a step. *)
LEMMA RowInvStep ==
  ASSUME RowInv, RowStep
  PROVE  RowInv'
  <1>1. ASSUME NEW d \in Drivers, pc'[d] \in Holding
        PROVE  /\ work'[d] = Operation(step'[d], wallets'[WalletOf(step[d], job[d])'],
                                       req'[job'[d]].amount)
               /\ MayOperate(step'[d], wallets'[WalletOf(step[d], job[d])'], req'[job'[d]].amount)
    <2>1. CASE RowStays(d)
      <3>1. WalletOf(step[d], job[d])' = WalletOf(step[d], job[d])
        BY <2>1 DEF RowStays, RowStep, WalletOf
      <3>2. /\ work[d] = Operation(step[d], wallets[WalletOf(step[d], job[d])], req[job[d]].amount)
            /\ MayOperate(step[d], wallets[WalletOf(step[d], job[d])], req[job[d]].amount)
        BY <2>1 DEF RowStays, RowInv, NoLostUpdate, MayStillOperate, Holding
      <3> QED
        BY <2>1, <3>1, <3>2 DEF RowStays, RowStep
    <2>2. CASE RowTaken(d)
      <3>1. WalletOf(step[d], job[d])' = WalletOf(step[d], job[d])
        BY <2>2 DEF RowTaken, RowStep, WalletOf
      <3> QED
        BY <2>2, <3>1 DEF RowTaken, RowStep
    <2> QED
      BY <1>1, <2>1, <2>2 DEF RowStep
  <1>2. ClosedIsEmpty'
    BY DEF RowInv, RowStep, ClosedIsEmpty, LawfulRow
  <1>3. NoLostUpdate' /\ MayStillOperate'
    BY <1>1 DEF NoLostUpdate, MayStillOperate, Holding, MayOperate, Operation, WalletOf
  <1>4. AbsentIsEmpty'
    BY DEF RowInv, RowStep, AbsentIsEmpty, LawfulRow
  <1> QED
    BY <1>2, <1>3, <1>4 DEF RowInv

(* No row is touched and no transaction begun. *)
LEMMA RowsKept ==
  ASSUME TypeOK, NEW d \in Drivers, Others(d), UNCHANGED <<wallets, req>>,
         pc'[d] \notin Holding
  PROVE  RowStep
  <1>1. \A w \in Wallets : LawfulRow(wallets[w], wallets'[w])
    BY DEF LawfulRow
  <1>2. ASSUME NEW e \in Drivers, pc'[e] \in Holding
        PROVE  RowStays(e)
    BY <1>2 DEF RowStays, Others
  <1> QED
    BY <1>1, <1>2 DEF RowStep

(* A row that nobody holds is written. *)
LEMMA FreeRowWritten ==
  ASSUME TypeOK, SagaInv, UNCHANGED req, NEW w \in Wallets, NEW row, RowFree(w),
         wallets' = [wallets EXCEPT ![w] = row], LawfulRow(wallets[w], row),
         \A d \in Drivers : pc'[d] \in Holding =>
           pc[d] \in Holding /\ step'[d] = step[d] /\ job'[d] = job[d] /\ work'[d] = work[d]
  PROVE  RowStep
  <1>1. \A v \in Wallets : LawfulRow(wallets[v], wallets'[v])
    BY DEF LawfulRow, TypeOK, TablesOK
  <1>2. ASSUME NEW d \in Drivers, pc'[d] \in Holding
        PROVE  RowStays(d)
    <2>1. walletLock[WalletOf(step[d], job[d])] = d
      BY <1>2 DEF SagaInv, HoldsWallet
    <2>2. WalletOf(step[d], job[d]) # w
      BY <2>1, DriversAssumption DEF RowFree
    <2> QED
      BY <1>2, <2>2 DEF RowStays, TypeOK, TablesOK
  <1> QED
    BY <1>1, <1>2 DEF RowStep

(* The wallet operation of a step is lawful. *)
LEMMA OperationLawful ==
  ASSUME NEW s \in Steps, NEW row \in Rows, NEW a \in Nat \ {0}, MayOperate(s, row, a)
  PROVE  LawfulRow(row, Operation(s, row, a))
  BY LawfulOperations DEF MayOperate, Operation, Rows, Today

(* A commit writes the row its own transaction holds, so the row is still  *)
(* the one its operation was run on.                                       *)
LEMMA CommitRows ==
  ASSUME TypeOK, SagaInv, RowInv, NEW d \in Drivers, NEW acked, Commit(d, acked)
  PROVE  RowStep /\ Others(d) /\ pc'[d] \notin Holding
  <1> DEFINE w == WalletOf(step[d], job[d])
             a == req[job[d]].amount
  <1>1. pc[d] = "written" /\ job[d] \in Calls /\ step[d] \in Steps
    BY JobType DEF Commit, InTransaction
  <1>2. w \in Wallets /\ a \in Nat \ {0} /\ wallets[w] \in Rows
    BY <1>1, RequestType DEF TypeOK, TablesOK
  <1>3. work[d] = Operation(step[d], wallets[w], a) /\ MayOperate(step[d], wallets[w], a)
    BY <1>1 DEF RowInv, NoLostUpdate, MayStillOperate, Holding
  <1>4. wallets' = [wallets EXCEPT ![w] = work[d]] /\ UNCHANGED <<req, job>> /\ Release(d)
    BY DEF Commit
  <1>5. Others(d) /\ pc'[d] \notin Holding
    <2>1. CASE Throw(d)
      BY <1>4, <2>1, ThrowOthers DEF Holding
    <2>2. CASE Goto(d, "committed") /\ UNCHANGED <<step, attempt>>
      BY <1>4, <2>2 DEF Goto, Release, Others, Holding, TypeOK, DriversOK
    <2> QED
      BY <2>1, <2>2 DEF Commit
  <1>6. LawfulRow(wallets[w], work[d])
    BY <1>1, <1>2, <1>3, OperationLawful
  <1>7. \A v \in Wallets : LawfulRow(wallets[v], wallets'[v])
    BY <1>2, <1>4, <1>6 DEF LawfulRow, TypeOK, TablesOK
  <1>8. ASSUME NEW e \in Drivers, pc'[e] \in Holding
        PROVE  RowStays(e)
    <2>1. e # d /\ pc[e] \in Holding
      BY <1>5, <1>8 DEF Others
    <2>2. /\ walletLock[WalletOf(step[e], job[e])] = e
          /\ walletLock[w] = d
      BY <1>1, <2>1 DEF SagaInv, HoldsWallet, Holding
    <2>3. WalletOf(step[e], job[e]) # w
      BY <2>1, <2>2
    <2> QED
      BY <1>4, <1>5, <2>1, <2>3 DEF RowStays, Others, TypeOK, TablesOK
  <1> QED
    BY <1>4, <1>5, <1>7, <1>8 DEF RowStep

(* A row that nobody holds is written, and only the tables change. *)
PlainWrite ==
  \E w \in Wallets : \E row \in Rows :
    /\ LawfulRow(wallets[w], row)
    /\ RowFree(w)
    /\ wallets' = [wallets EXCEPT ![w] = row]
    /\ UNCHANGED <<sagas, req, replica, pc, step, job, work, queue, old>>

(* So do the transactions of WalletService, with what the entity gives     *)
(* them to write.                                                          *)
LEMMA WalletStepWrites ==
  ASSUME TypeOK, WalletStep
  PROVE  PlainWrite
  <1>1. PICK w \in Wallets :
          \/ \E a \in Amounts : DepositFunds(w, a)
          \/ \E a \in Amounts : WithdrawFunds(w, a)
          \/ FreezeWallet(w)
          \/ UnfreezeWallet(w)
          \/ CloseWallet(w)
          \/ \E l \in Limits : SetLimit(w, l)
    BY DEF WalletStep
  <1>2. wallets[w] \in Rows /\ wallets[w] \in WalletRows(Currencies)
    BY DEF TypeOK, TablesOK, Rows
  <1>t. ASSUME NEW row \in Rows, NEW created, NEW type, NEW a, LawfulRow(wallets[w], row),
               WalletTransaction(w, row, created, type, a)
        PROVE  PlainWrite
    BY <1>t DEF WalletTransaction, memory, PlainWrite
  <1>3. ASSUME NEW a \in Amounts, DepositFunds(w, a) PROVE PlainWrite
    <2> DEFINE row == IF Exists(wallets[w]) THEN wallets[w] ELSE NewWallet(DefaultCurrency)
    <2>1. row \in Rows /\ a \in Nat \ {0}
      BY <1>2, NewWalletType, RequestsAssumption
    <2>2. MayDeposit(row, a)
      BY <1>3 DEF DepositFunds
    <2>3. Deposit(row, a) \in Rows
      BY <2>1, RowTypes
    <2>4. LawfulRow(wallets[w], Deposit(row, a))
      BY <1>2, <2>1, <2>2, LawfulOperations, LawfulInsert
    <2> QED
      BY <1>3, <1>t, <2>3, <2>4 DEF DepositFunds
  <1>4. ASSUME NEW a \in Amounts, WithdrawFunds(w, a) PROVE PlainWrite
    <2>1. a \in Nat \ {0} /\ Today \in Nat
      BY RequestsAssumption DEF Today
    <2>2. Withdraw(wallets[w], a, Today, Today) \in Rows
      BY <1>2, <1>4, <2>1, RowTypes DEF WithdrawFunds
    <2>3. LawfulRow(wallets[w], Withdraw(wallets[w], a, Today, Today))
      BY <1>2, <1>4, <2>1, LawfulOperations DEF WithdrawFunds
    <2> QED
      BY <1>4, <1>t, <2>2, <2>3 DEF WithdrawFunds
  <1>o. 1 \in Nat \ {0}
    OBVIOUS
  <1>5. CASE FreezeWallet(w) \/ UnfreezeWallet(w) \/ CloseWallet(w)
    <2>1. Freeze(wallets[w]) \in Rows /\ Unfreeze(wallets[w]) \in Rows /\ Close(wallets[w]) \in Rows
      BY <1>2, <1>o, RowTypes
    <2>2. /\ MayFreeze(wallets[w]) => LawfulRow(wallets[w], Freeze(wallets[w]))
          /\ LawfulRow(wallets[w], Unfreeze(wallets[w]))
          /\ MayClose(wallets[w]) => LawfulRow(wallets[w], Close(wallets[w]))
      BY <1>2, <1>o, LawfulOperations
    <2> QED
      BY <1>5, <1>t, <2>1, <2>2 DEF FreezeWallet, UnfreezeWallet, CloseWallet
  <1>6. ASSUME NEW l \in Limits, SetLimit(w, l) PROVE PlainWrite
    <2>1. l \in Nat \cup {NoLimit}
      BY RequestsAssumption
    <2>2. SetDailyWithdrawalLimit(wallets[w], l) \in Rows
      BY <1>2, <1>o, <2>1, RowTypes
    <2>3. LawfulRow(wallets[w], SetDailyWithdrawalLimit(wallets[w], l))
      BY <1>2, <1>o, <2>1, LawfulOperations
    <2> QED
      BY <1>6, <1>t, <2>2, <2>3 DEF SetLimit
  <1> QED
    BY <1>1, <1>3, <1>4, <1>5, <1>6

(* A transaction takes the row of its wallet. *)
LEMMA LockRows ==
  ASSUME TypeOK, NEW d \in Drivers, LockWallet(d)
  PROVE  /\ RowStep /\ Others(d)
         /\ pc[d] = "begin" /\ pc'[d] \in {"locked", "catch", "error", "begin", "loop"}
         /\ UNCHANGED <<db, req, replica, job, queue, old>>
  <1>0. pc[d] = "begin" /\ UNCHANGED <<db, req, replica, job, queue, old>>
    BY DEF LockWallet
  <1>1. CASE Throw(d) /\ UNCHANGED work
    BY <1>0, <1>1, ThrowOthers, RowsKept DEF Holding, db
  <1>2. CASE /\ MayOperate(step[d], wallets[WalletOf(step[d], job[d])], req[job[d]].amount)
             /\ work' = [work EXCEPT ![d] = Operation(step[d], wallets[WalletOf(step[d], job[d])],
                                                      req[job[d]].amount)]
             /\ Goto(d, "locked")
             /\ UNCHANGED <<step, attempt>>
    <2>1. Others(d) /\ pc'[d] = "locked"
      BY <1>0, <1>2 DEF Others, Goto, TypeOK, DriversOK
    <2>2. RowTaken(d)
      BY <1>0, <1>2 DEF RowTaken, db, TypeOK, DriversOK
    <2>3. ASSUME NEW e \in Drivers \ {d}, pc'[e] \in Holding
          PROVE  RowStays(e)
      BY <1>0, <2>1, <2>3 DEF RowStays, Others, db
    <2>4. \A w \in Wallets : LawfulRow(wallets[w], wallets'[w])
      BY <1>0 DEF LawfulRow, db
    <2>5. RowStep
      BY <1>0, <2>2, <2>3, <2>4 DEF RowStep
    <2> QED
      BY <1>0, <2>1, <2>5
  <1> QED
    BY <1>1, <1>2 DEF LockWallet

(* A transaction reads and writes its saga; its wallet row stays. *)
LEMMA MarkRows ==
  ASSUME TypeOK, NEW d \in Drivers, ReadSaga(d) \/ WriteSaga(d)
  PROVE  /\ RowStep /\ Others(d)
         /\ pc[d] \in Holding
         /\ pc'[d] \in Holding => UNCHANGED <<step, work>>
         /\ pc'[d] \in {"marked", "written", "catch", "error", "begin", "loop"}
         /\ UNCHANGED <<db, req, replica, job, queue, old>>
  <1>0. /\ pc[d] \in Holding /\ UNCHANGED <<db, req, replica, job, queue, old>>
    BY DEF ReadSaga, WriteSaga, Holding
  <1>1. ASSUME Throw(d), Release(d)
        PROVE  RowStep
    BY <1>0, <1>1, ThrowOthers, RowsKept DEF Holding, db
  <1>2. ASSUME NEW label \in PastGuard, Goto(d, label), UNCHANGED <<step, work>>
        PROVE  RowStep /\ Others(d) /\ pc'[d] = label
    <2>1. Others(d) /\ pc'[d] = label
      BY <1>0, <1>2 DEF Others, Goto, TypeOK, DriversOK
    <2>2. ASSUME NEW e \in Drivers, pc'[e] \in Holding
          PROVE  RowStays(e)
      BY <1>0, <1>2, <2>1, <2>2 DEF RowStays, Others, db
    <2>3. \A w \in Wallets : LawfulRow(wallets[w], wallets'[w])
      BY <1>0 DEF LawfulRow, db
    <2>4. RowStep
      BY <1>0, <2>2, <2>3 DEF RowStep
    <2> QED
      BY <2>1, <2>4
  <1>3. CASE \E label \in PastGuard : Goto(d, label) /\ UNCHANGED <<step, work>>
    BY <1>0, <1>2, <1>3 DEF PastGuard
  <1>4. CASE Throw(d) /\ Release(d)
    BY <1>0, <1>1, <1>4, ThrowOthers DEF Holding
  <1> QED
    BY <1>3, <1>4 DEF ReadSaga, WriteSaga, PastGuard

(* getOrCreate writes a row only where there is none. *)
LEMMA ReceiverRows ==
  ASSUME TypeOK, SagaInv, NEW c \in Calls, NEW acked \in BOOLEAN, GetOrCreateReceiver(c, acked)
  PROVE  RowStep
  <1> DEFINE to == req[c].to
             new == NewWallet(wallets[req[c].from].currency)
  <1>1. CallMove(c) /\ c \in Drivers
    <2>1. CallStep(c) \/ CallError(c)
      BY DEF CallStep, CallError
    <2> QED
      BY <2>1, CallMoves DEF Drivers
  <1>2. to \in Wallets /\ req[c].from \in Wallets
    BY RequestType
  <1>3. wallets[to] \in Rows /\ wallets[to] \in WalletRows(Currencies)
    BY <1>2 DEF TypeOK, TablesOK, Rows
  <1>4. UNCHANGED req /\ RowFree(to) /\ pc'[c] \notin Holding
    BY <1>1 DEF GetOrCreateReceiver, CallMove, Holding
  <1>5. CASE Exists(wallets[to])
    <2>1. UNCHANGED wallets
      BY <1>5 DEF GetOrCreateReceiver
    <2> QED
      BY <1>1, <1>4, <2>1, RowsKept DEF CallMove
  <1>6. CASE ~Exists(wallets[to])
    <2>1. wallets' = [wallets EXCEPT ![to] = new]
      BY <1>6 DEF GetOrCreateReceiver
    <2>2. LawfulRow(wallets[to], new)
      BY <1>3, <1>6, LawfulInsert
    <2>3. \A d \in Drivers : pc'[d] \in Holding =>
            pc[d] \in Holding /\ step'[d] = step[d] /\ job'[d] = job[d] /\ work'[d] = work[d]
      BY <1>1, <1>4 DEF CallMove, Others
    <2> HIDE DEF to, new
    <2> QED
      BY <1>2, <1>4, <2>1, <2>2, <2>3, FreeRowWritten
  <1> QED
    BY <1>5, <1>6

(* Every step treats rows like that. *)
LEMMA NextIsRowStep ==
  ASSUME TypeOK, SagaInv, RowInv, [Next]_vars
  PROVE  RowStep
  <1>q. ASSUME UNCHANGED <<wallets, req, pc, step, job, work>>
        PROVE  RowStep
    <2>1. \A w \in Wallets : LawfulRow(wallets[w], wallets'[w])
      BY <1>q DEF LawfulRow
    <2>2. \A d \in Drivers : pc'[d] \in Holding => RowStays(d)
      BY <1>q DEF RowStays
    <2> QED
      BY <1>q, <2>1, <2>2 DEF RowStep
  <1>1. ASSUME NEW c \in Calls, CallStep(c) \/ CallError(c)
        PROVE  RowStep
    <2>1. CallMove(c) /\ c \in Drivers
      BY <1>1, CallMoves DEF Drivers
    <2>2. CASE UNCHANGED wallets
      BY <2>1, <2>2, RowsKept DEF CallMove, Holding
    <2>3. CASE GetOrCreateReceiver(c, TRUE) \/ GetOrCreateReceiver(c, FALSE)
      BY <2>3, ReceiverRows
    <2>4. UNCHANGED wallets \/ GetOrCreateReceiver(c, TRUE) \/ GetOrCreateReceiver(c, FALSE)
      BY <1>1 DEF CallStep, CallError, CheckIdempotency, FindSender, FailEarly, FailHandler,
                  CreateSaga, SaveKey, ReloadSaga, MarkFailed, db
    <2> QED
      BY <2>2, <2>3, <2>4
  <1>2. ASSUME NEW i \in Instances, RecoveryStep(i) \/ RecoveryError(i)
        PROVE  RowStep
    <2>1. RecoveryMove(i) /\ i \in Drivers
      BY <1>2, RecoveryMoves DEF Drivers
    <2> QED
      BY <2>1, RowsKept DEF RecoveryMove, Holding
  <1>3. ASSUME NEW d \in Drivers, SagaStep(d) \/ SagaError(d)
        PROVE  RowStep
    <2>1. CASE LockWallet(d) \/ ReadSaga(d) \/ WriteSaga(d)
      BY <2>1, LockRows, MarkRows
    <2>2. CASE Commit(d, TRUE) \/ Commit(d, FALSE)
      BY <2>2, CommitRows
    <2>3. CASE LeaveMove(d)
      BY <2>3, RowsKept DEF LeaveMove, Holding, db
    <2> QED
      BY <1>3, <2>1, <2>2, <2>3, SagaLeaves DEF SagaStep, SagaError
  <1>4. CASE WalletStep
    <2>1. PICK w \in Wallets, row \in Rows :
            /\ LawfulRow(wallets[w], row)
            /\ RowFree(w)
            /\ wallets' = [wallets EXCEPT ![w] = row]
            /\ UNCHANGED <<req, pc, step, job, work>>
      BY <1>4, WalletStepWrites DEF PlainWrite
    <2> QED
      BY <2>1, FreeRowWritten
  <1>5. ASSUME NEW c \in Calls, Age(c)
        PROVE  RowStep
    BY <1>5, <1>q DEF Age, db, memory
  <1>6. CASE Replicate
    BY <1>6, <1>q DEF Replicate, db, memory
  <1>7. CASE UNCHANGED vars
    BY <1>7, <1>q DEF vars, db, memory
  <1> QED
    BY <1>1, <1>2, <1>3, <1>4, <1>5, <1>6, <1>7 DEF Next

(* At first nobody holds a row, no wallet is closed, and those that are    *)
(* not there are empty.                                                    *)
LEMMA RowInvInit ==
  ASSUME Init
  PROVE  RowInv
  <1>1. \A d \in Drivers : pc[d] \in {"start", "idle"}
    BY DEF Init
  <1>2. NoLostUpdate /\ MayStillOperate
    BY <1>1 DEF NoLostUpdate, MayStillOperate, Holding
  <1>3. ASSUME NEW w \in Wallets
        PROVE  wallets[w].status # "CLOSED" /\ (~Exists(wallets[w]) => wallets[w].balance = 0)
    <2>1. wallets[w] = OpeningRow(w)
      BY DEF Init
    <2>2. CASE Opening[w].deposit = 0
      BY <2>1, <2>2 DEF OpeningRow, AbsentWallet, NewWallet, Exists
    <2>3. CASE Opening[w].deposit # 0
      BY <2>1, <2>3 DEF OpeningRow, NewWallet, Deposit, Exists
    <2> QED
      BY <2>2, <2>3
  <1> QED
    BY <1>2, <1>3 DEF RowInv, ClosedIsEmpty, AbsentIsEmpty

(* The rows' invariant holds throughout. *)
THEOREM RowInvariant == Spec => []RowInv
  <1>1. Init => RowInv
    BY RowInvInit
  <1>2. TypeOK /\ SagaInv /\ RowInv /\ [Next]_vars => RowInv'
    BY NextIsRowStep, RowInvStep
  <1> QED
    BY <1>1, <1>2, TypeCorrect, SagaInvariant, PTL DEF Spec

(* What a transfer's transaction is about to write still is its operation  *)
(* on the stored row, whatever deposits, withdrawals, operators and other  *)
(* transfers do meanwhile.                                                 *)
THEOREM UpdatesAreNotLost == Spec => []NoLostUpdate
  <1>1. RowInv => NoLostUpdate
    BY DEF RowInv
  <1> QED
    BY <1>1, RowInvariant, PTL

(* A closed wallet holds no money. *)
THEOREM ClosedWalletsAreEmpty == Spec => []ClosedIsEmpty
  <1>1. RowInv => ClosedIsEmpty
    BY DEF RowInv
  <1> QED
    BY <1>1, RowInvariant, PTL

(* A closed wallet stays closed. *)
THEOREM ClosedWalletsStayClosed == Spec => ClosedForever
  <1>1. TypeOK /\ SagaInv /\ RowInv /\ [Next]_vars =>
          [\A w \in Wallets : wallets[w].status = "CLOSED" => wallets'[w].status = "CLOSED"]_vars
    BY NextIsRowStep DEF RowStep, LawfulRow
  <1> QED
    BY <1>1, TypeCorrect, SagaInvariant, RowInvariant, PTL DEF Spec, ClosedForever

-----------------------------------------------------------------------------
(* Currencies. *)

(* Transfers that are matched stay so. *)
LEMMA MatchedStays ==
  ASSUME TypeOK, RowStep, NEW c \in Calls
  PROVE  /\ Exists(wallets[req[c].from]) => Exists(wallets'[req'[c].from])
         /\ Matched(c) => Matched(c)'
  <1>1. req[c].from \in Wallets /\ req[c].to \in Wallets /\ req'[c] = req[c]
    BY RequestType DEF RowStep
  <1>2. /\ LawfulRow(wallets[req[c].from], wallets'[req[c].from])
        /\ LawfulRow(wallets[req[c].to], wallets'[req[c].to])
    BY <1>1 DEF RowStep
  <1> QED
    BY <1>1, <1>2 DEF LawfulRow, Matched

(* What a step must see to beside that: a request that goes on to a label  *)
(* or a saga that comes to be has what the invariant promises.             *)
LEMMA CurrencyKept ==
  ASSUME TypeOK, RowStep, CurrencyInv, replica' \in {replica, Tables},
         \A c \in Calls :
           /\ pc'[c] = "getOrCreate" => \/ pc[c] = "getOrCreate"
                                        \/ Exists(wallets[req[c].from])
           /\ pc'[c] = "createSaga" => pc[c] = "createSaga" \/ Matched(c)'
           /\ sagas'[c] # "NONE" => sagas[c] # "NONE" \/ pc[c] = "createSaga"
           /\ pc'[c] \in AfterSaga => pc[c] \in AfterSaga \/ sagas'[c] # "NONE"
           /\ sagas[c] # "NONE" => sagas'[c] # "NONE"
  PROVE  CurrencyInv'
  <1>1. ASSUME NEW w \in Wallets, Exists(replica'.wallets[w])
        PROVE  Exists(wallets'[w])
    <2>1. Exists(wallets[w])
      BY <1>1 DEF CurrencyInv, Tables
    <2> QED
      BY <2>1 DEF RowStep, LawfulRow
  <1>2. ASSUME NEW c \in Calls
        PROVE  /\ pc'[c] = "getOrCreate" => Exists(wallets'[req'[c].from])
               /\ pc'[c] = "createSaga" \/ sagas'[c] # "NONE" => Matched(c)'
               /\ pc'[c] \in AfterSaga => sagas'[c] # "NONE"
    <2>1. /\ pc[c] = "getOrCreate" => Exists(wallets[req[c].from])
          /\ pc[c] = "createSaga" \/ sagas[c] # "NONE" => Matched(c)
          /\ pc[c] \in AfterSaga => sagas[c] # "NONE"
      BY DEF CurrencyInv
    <2> QED
      BY <2>1, MatchedStays
  <1> QED
    BY <1>1, <1>2 DEF CurrencyInv

(* The steps of a request before and after its saga. *)
LEMMA CurrencyCalls ==
  ASSUME TypeOK, TypeOK', SagaInv, RowStep, CurrencyInv, NEW c \in Calls,
         CallStep(c) \/ CallError(c)
  PROVE  CurrencyInv'
  <1>1. CallMove(c) /\ c \in Drivers
    BY CallMoves DEF Drivers
  <1>2. \A e \in Calls \ {c} : pc'[e] = pc[e]
    BY <1>1 DEF CallMove, Others, Drivers
  <1>3. ASSUME UNCHANGED sagas,
               pc'[c] = "getOrCreate" => Exists(wallets[req[c].from]),
               pc'[c] = "createSaga" => Matched(c)',
               pc'[c] \in AfterSaga => pc[c] \in AfterSaga
        PROVE  CurrencyInv'
    BY <1>1, <1>2, <1>3, CurrencyKept DEF CallMove
  <1>4. CASE CheckIdempotency(c) \/ FailEarly(c) \/ FailHandler(c)
    <2>1. UNCHANGED sagas /\ \E label \in {"replay", "error", "findSender"} : Goto(c, label)
      BY <1>4 DEF CheckIdempotency, FailEarly, FailHandler, Outcome, db
    <2>2. pc'[c] \in {"replay", "error", "findSender"}
      BY <1>1, <2>1 DEF Goto, TypeOK, DriversOK
    <2> QED
      BY <1>3, <2>1, <2>2 DEF AfterSaga, InTransaction
  <1>5. CASE FindSender(c)
    <2>1. /\ UNCHANGED sagas
          /\ pc'[c] = IF Exists(View.wallets[req[c].from]) THEN "getOrCreate" ELSE "error"
      BY <1>1, <1>5 DEF FindSender, Goto, db, TypeOK, DriversOK
    <2>2. Exists(View.wallets[req[c].from]) => Exists(wallets[req[c].from])
      BY RequestType DEF View, Tables, CurrencyInv
    <2> QED
      BY <1>3, <2>1, <2>2 DEF AfterSaga, InTransaction
  <1>6. ASSUME NEW acked, GetOrCreateReceiver(c, acked)
        PROVE  CurrencyInv'
    <2>1. /\ UNCHANGED <<sagas, req>> /\ pc[c] = "getOrCreate"
          /\ pc'[c] \in {"createSaga", "error"}
          /\ pc'[c] = "createSaga" => SameCurrency(wallets[req[c].from], wallets'[req[c].to])
      BY <1>1, <1>6 DEF GetOrCreateReceiver, Outcome, Goto, TypeOK, DriversOK
    <2>2. req[c].from \in Wallets /\ req[c].to \in Wallets
      BY RequestType
    <2>3. Exists(wallets[req[c].from])
      BY <2>1 DEF CurrencyInv
    <2>4. Exists(wallets'[req[c].to])
      BY <1>6, <2>2 DEF GetOrCreateReceiver, NewWallet, Exists, TypeOK, TablesOK
    <2>5. /\ Exists(wallets'[req[c].from])
          /\ wallets'[req[c].from].currency = wallets[req[c].from].currency
      BY <2>2, <2>3 DEF RowStep, LawfulRow
    <2>6. pc'[c] = "createSaga" => Matched(c)'
      BY <2>1, <2>4, <2>5 DEF Matched, SameCurrency
    <2> QED
      BY <1>3, <2>1, <2>6 DEF AfterSaga, InTransaction
  <1>7. ASSUME NEW acked, CreateSaga(c, acked)
        PROVE  CurrencyInv'
    <2>1. /\ pc[c] = "createSaga" /\ pc'[c] \in {"begin", "error"}
          /\ sagas'[c] = "PENDING" /\ \A e \in Calls \ {c} : sagas'[e] = sagas[e]
      BY <1>1, <1>7 DEF CreateSaga, Outcome, Goto, InitialState, TypeOK, DriversOK, TablesOK, SagaRows
    <2> QED
      BY <1>1, <1>2, <2>1, CurrencyKept DEF CallMove
  <1>8. ASSUME NEW saved, NEW acked, SaveKey(c, saved, acked)
        PROVE  CurrencyInv'
    <2>1. UNCHANGED sagas /\ pc'[c] \in {"ok", "catch"} /\ pc[c] = "saveKey"
      BY <1>1, <1>8 DEF SaveKey, Outcome, Goto, TypeOK, DriversOK
    <2> QED
      BY <1>3, <2>1 DEF AfterSaga, InTransaction
  <1>9. CASE ReloadSaga(c)
    <2>1. UNCHANGED sagas /\ pc[c] = "catch" /\ pc'[c] \in {"begin", "fail", "error"}
      BY <1>1, <1>9 DEF ReloadSaga, StartStep, Leave, db, TypeOK, DriversOK
    <2> QED
      BY <1>3, <2>1 DEF AfterSaga
  <1>10. CASE MarkFailed(c)
    <2>1. /\ pc[c] = "fail" /\ pc'[c] = "error"
          /\ sagas'[c] = "FAILED" /\ \A e \in Calls \ {c} : sagas'[e] = sagas[e]
      BY <1>1, <1>10 DEF MarkFailed, MarkAsFailed, Goto, TypeOK, DriversOK, TablesOK, SagaRows
    <2>2. sagas[c] # "NONE"
      BY <2>1 DEF CurrencyInv, AfterSaga
    <2> QED
      BY <1>1, <1>2, <2>1, <2>2, CurrencyKept DEF CallMove, AfterSaga, InTransaction
  <1> QED
    BY <1>4, <1>5, <1>6, <1>7, <1>8, <1>9, <1>10 DEF CallStep, CallError

(* The transactional steps: only a saga that is there is marked. *)
LEMMA CurrencySagas ==
  ASSUME TypeOK, SagaInv, RowInv, RowStep, CurrencyInv, NEW d \in Drivers,
         SagaStep(d) \/ SagaError(d)
  PROVE  CurrencyInv'
  <1>1. ASSUME Others(d), UNCHANGED <<sagas, replica>>,
               pc'[d] \notin {"getOrCreate", "createSaga"},
               d \in Calls /\ pc'[d] \in AfterSaga => pc[d] \in AfterSaga
        PROVE  CurrencyInv'
    BY <1>1, CurrencyKept DEF Others, Drivers
  <1>2. CASE LockWallet(d) \/ ReadSaga(d) \/ WriteSaga(d)
    <2>1. /\ Others(d) /\ UNCHANGED <<db, replica>>
          /\ pc[d] \in AfterSaga /\ pc'[d] \notin {"getOrCreate", "createSaga"}
      BY <1>2, LockRows, MarkRows DEF Holding, AfterSaga, InTransaction
    <2> QED
      BY <1>1, <2>1 DEF db
  <1>3. ASSUME NEW acked \in BOOLEAN, Commit(d, acked)
        PROVE  CurrencyInv'
    <2>1. /\ job[d] \in Calls /\ step[d] \in Steps /\ pc[d] = "written" /\ Others(d)
          /\ UNCHANGED <<replica>>
      BY <1>3, JobType, CommitRows DEF Commit, InTransaction
    <2>2. pc'[d] \in {"committed", "catch", "error", "begin", "loop"}
      BY <1>3, ThrowMoves DEF Commit, Goto, TypeOK, DriversOK
    <2>3. sagas[job[d]] # "NONE"
      BY <2>1 DEF SagaInv, GuardHolds, PastGuard
    <2>4. /\ sagas'[job[d]] # "NONE"
          /\ \A e \in Calls \ {job[d]} : sagas'[e] = sagas[e]
      BY <1>3, <2>1 DEF Commit, MarkedAs, Steps, TypeOK, TablesOK, SagaRows
    <2> QED
      BY <2>1, <2>2, <2>3, <2>4, CurrencyKept DEF Others, Drivers, AfterSaga, InTransaction
  <1>4. CASE LeaveMove(d)
    BY <1>1, <1>4 DEF LeaveMove, BeforeSaga, db
  <1> QED
    BY <1>2, <1>3, <1>4, SagaLeaves DEF SagaStep, SagaError

(* Every step keeps the invariant. *)
LEMMA CurrencyInvStep ==
  ASSUME TypeOK, TypeOK', SagaInv, RowInv, CurrencyInv, [Next]_vars
  PROVE  CurrencyInv'
  <1>r. RowStep
    BY NextIsRowStep
  <1>q. ASSUME UNCHANGED <<sagas, pc>>, replica' \in {replica, Tables}
        PROVE  CurrencyInv'
    BY <1>q, <1>r, CurrencyKept
  <1>1. ASSUME NEW i \in Instances, RecoveryStep(i) \/ RecoveryError(i)
        PROVE  CurrencyInv'
    <2>1. RecoveryMove(i) /\ i \in Drivers /\ i \notin Calls
      BY <1>1, RecoveryMoves, DriversAssumption DEF Drivers
    <2> QED
      BY <1>r, <2>1, CurrencyKept DEF RecoveryMove, Others, Drivers
  <1>2. CASE WalletStep
    BY <1>2, <1>q, WalletStepWrites DEF PlainWrite
  <1>3. ASSUME NEW c \in Calls, Age(c)
        PROVE  CurrencyInv'
    BY <1>3, <1>q DEF Age, db, memory
  <1>4. CASE Replicate
    BY <1>4, <1>q DEF Replicate, db, memory
  <1>5. CASE UNCHANGED vars
    BY <1>5, <1>q DEF vars, db, memory
  <1> QED
    BY <1>r, <1>1, <1>2, <1>3, <1>4, <1>5, CurrencyCalls, CurrencySagas DEF Next

(* At first there are no sagas, and the replica shows what is there. *)
LEMMA CurrencyInvInit ==
  ASSUME Init
  PROVE  CurrencyInv
  BY DriversAssumption DEF Init, CurrencyInv, AfterSaga, InTransaction, Drivers

(* The currencies' invariant holds throughout. *)
THEOREM CurrencyInvariant == Spec => []CurrencyInv
  <1>1. Init => CurrencyInv
    BY CurrencyInvInit
  <1>2. TypeOK /\ TypeOK' /\ SagaInv /\ RowInv /\ CurrencyInv /\ [Next]_vars => CurrencyInv'
    BY CurrencyInvStep
  <1> QED
    BY <1>1, <1>2, TypeCorrect, SagaInvariant, RowInvariant, PTL DEF Spec

(* A saga joins wallets of one currency, also when the sender was read     *)
(* from a stale replica and the receiver is created meanwhile.             *)
THEOREM SagasJoinOneCurrency == Spec => []OneCurrency
  <1>1. CurrencyInv => OneCurrency
    BY DEF CurrencyInv, OneCurrency, Matched
  <1> QED
    BY <1>1, CurrencyInvariant, PTL

-----------------------------------------------------------------------------
(* One driver at a time. *)

(* Who has ended does nothing any more. *)
LEMMA EndedStays ==
  ASSUME TypeOK, SagaInv, RowInv, [Next]_vars, NEW c \in Calls, pc[c] \in Ended
  PROVE  pc'[c] \in Ended
  <1> c \in Drivers
    BY DEF Drivers
  <1>1. ASSUME NEW e \in Calls, CallStep(e) \/ CallError(e)
        PROVE  pc'[c] = pc[c]
    <2>1. CallMove(e)
      BY <1>1, CallMoves
    <2> QED
      BY <2>1 DEF CallMove, Others, Ended, BeforeSaga
  <1>2. ASSUME NEW i \in Instances, RecoveryStep(i) \/ RecoveryError(i)
        PROVE  pc'[c] = pc[c]
    BY <1>2, RecoveryMoves, DriversAssumption DEF RecoveryMove, Others
  <1>3. ASSUME NEW d \in Drivers, SagaStep(d) \/ SagaError(d)
        PROVE  pc'[c] = pc[c]
    <2>1. CASE LockWallet(d) \/ ReadSaga(d) \/ WriteSaga(d)
      BY <2>1, LockRows, MarkRows DEF Others, Ended, Holding
    <2>2. CASE Commit(d, TRUE) \/ Commit(d, FALSE)
      <3>1. pc[d] = "written" /\ Others(d)
        BY <2>2, CommitRows DEF Commit
      <3> QED
        BY <3>1 DEF Others, Ended
    <2>3. CASE LeaveMove(d)
      BY <2>3 DEF LeaveMove, Others
    <2> QED
      BY <1>3, <2>1, <2>2, <2>3, SagaLeaves DEF SagaStep, SagaError
  <1>4. CASE WalletStep
    BY <1>4, WalletTimes
  <1>5. ASSUME NEW e \in Calls, Age(e)
        PROVE  pc'[c] = pc[c]
    BY <1>5 DEF Age, memory
  <1>6. CASE Replicate \/ UNCHANGED vars
    BY <1>6 DEF Replicate, vars, memory
  <1> QED
    BY <1>1, <1>2, <1>3, <1>4, <1>5, <1>6 DEF Next

(* What a step must see to beside that: a recoverer takes on only what was *)
(* old, and a saga grows old only after its request.                       *)
LEMMA OverKept ==
  ASSUME TypeOK, RequestIsOver,
         \A c \in Calls : pc[c] \in Ended => pc'[c] \in Ended,
         \A c \in old' : c \in old \/ pc[c] \in Ended,
         old' \subseteq Calls,
         \A i \in Instances :
           /\ \A c \in queue'[i] : c \in queue[i] \cup old
           /\ pc'[i] \in InTransaction \cup {"committed"} =>
                \/ pc[i] \in InTransaction \cup {"committed"} /\ job'[i] = job[i]
                \/ job'[i] \in queue[i]
  PROVE  RequestIsOver'
  <1>1. old \subseteq Calls /\ \A i \in Instances : queue[i] \subseteq Calls
    BY DEF TypeOK, DriversOK
  <1>2. ASSUME NEW i \in Instances, pc[i] \in InTransaction \cup {"committed"}
        PROVE  job[i] \in Calls
    BY <1>2, JobType DEF Drivers
  <1>3. \A c \in old' : pc'[c] \in Ended
    BY DEF RequestIsOver
  <1>4. ASSUME NEW i \in Instances, NEW c \in queue'[i]
        PROVE  pc'[c] \in Ended
    BY <1>1 DEF RequestIsOver
  <1>5. ASSUME NEW i \in Instances, pc'[i] \in InTransaction \cup {"committed"}
        PROVE  pc'[job'[i]] \in Ended
    BY <1>1, <1>2, <1>5 DEF RequestIsOver
  <1> QED
    BY <1>3, <1>4, <1>5 DEF RequestIsOver

(* Every step keeps recoverers away from requests that are at work. *)
LEMMA OverStep ==
  ASSUME SoleDriver, TypeOK, TypeOK', SagaInv, RowInv, RequestIsOver, [Next]_vars
  PROVE  RequestIsOver'
  <1>e. \A c \in Calls : pc[c] \in Ended => pc'[c] \in Ended
    BY EndedStays
  <1>t. old' \subseteq Calls /\ \A i \in Instances : i \in Drivers /\ i \notin Calls
    BY DriversAssumption DEF TypeOK, Drivers
  <1>q. ASSUME UNCHANGED <<old, queue>>,
               \A i \in Instances : pc'[i] = pc[i] /\ job'[i] = job[i]
        PROVE  RequestIsOver'
    BY <1>e, <1>t, <1>q, OverKept
  <1>1. ASSUME NEW c \in Calls, CallStep(c) \/ CallError(c)
        PROVE  RequestIsOver'
    <2>1. CallMove(c)
      BY <1>1, CallMoves
    <2> QED
      BY <1>q, <1>t, <2>1 DEF CallMove, Others
  <1>2. ASSUME NEW i \in Instances, RecoveryStep(i) \/ RecoveryError(i)
        PROVE  RequestIsOver'
    <2>1. RecoveryMove(i)
      BY <1>2, RecoveryMoves
    <2>2. /\ \A j \in Instances \ {i} : queue'[j] = queue[j]
          /\ queue'[i] \subseteq queue[i] \cup old
          /\ pc'[i] = "begin" => job'[i] \in queue[i]
      <3>1. CASE FindStuck(i)
        <4>1. PICK found \in SUBSET Stuck :
                /\ queue' = [queue EXCEPT ![i] = found]
                /\ pc' = [pc EXCEPT ![i] = IF found = {} THEN "idle" ELSE "loop"]
          BY <3>1 DEF FindStuck, Goto
        <4>2. found \subseteq old
          BY DEF Stuck
        <4> QED
          BY <1>t, <4>1, <4>2 DEF TypeOK, DriversOK
      <3>2. ASSUME NEW c \in Calls, NEW ok, RecoverSaga(i, c, ok)
            PROVE  <2>2!:
        BY <1>t, <2>1, <3>2 DEF RecoverSaga, RecoveryMove, StartStep, TypeOK, DriversOK
      <3>3. CASE FinishRound(i)
        BY <1>t, <3>3 DEF FinishRound, Goto, TypeOK, DriversOK
      <3> QED
        BY <1>2, <3>1, <3>2, <3>3 DEF RecoveryStep, RecoveryError
    <2>3. \A j \in Instances :
            /\ \A c \in queue'[j] : c \in queue[j] \cup old
            /\ pc'[j] \in InTransaction \cup {"committed"} =>
                 \/ pc[j] \in InTransaction \cup {"committed"} /\ job'[j] = job[j]
                 \/ job'[j] \in queue[j]
      BY <1>t, <2>1, <2>2 DEF RecoveryMove, Others, InTransaction
    <2> QED
      BY <1>e, <1>t, <2>1, <2>3, OverKept DEF RecoveryMove
  <1>3. ASSUME NEW d \in Drivers, SagaStep(d) \/ SagaError(d)
        PROVE  RequestIsOver'
    <2>1. CASE /\ Others(d) /\ UNCHANGED old
               /\ \A i \in Instances : queue'[i] \subseteq queue[i]
               /\ pc'[d] \in InTransaction \cup {"committed"} =>
                    pc[d] \in InTransaction \cup {"committed"} /\ job'[d] = job[d]
      <3>1. \A j \in Instances :
              /\ \A c \in queue'[j] : c \in queue[j] \cup old
              /\ pc'[j] \in InTransaction \cup {"committed"} =>
                   pc[j] \in InTransaction \cup {"committed"} /\ job'[j] = job[j]
        BY <1>t, <2>1 DEF Others
      <3> QED
        BY <1>e, <1>t, <2>1, <3>1, OverKept
    <2>2. CASE LockWallet(d) \/ ReadSaga(d) \/ WriteSaga(d)
      <3>1. Others(d) /\ UNCHANGED <<old, queue, job>> /\ pc[d] \in InTransaction
        BY <2>2, LockRows, MarkRows DEF Holding, InTransaction
      <3> QED
        BY <2>1, <3>1
    <2>3. CASE Commit(d, TRUE) \/ Commit(d, FALSE)
      <3>1. Others(d) /\ UNCHANGED <<old, queue, job>> /\ pc[d] \in InTransaction
        BY <2>3, CommitRows DEF Commit, InTransaction
      <3> QED
        BY <2>1, <3>1
    <2>4. CASE LeaveMove(d)
      <3>1. CASE d \in Calls
        BY <1>e, <1>t, <2>4, <3>1, OverKept DEF LeaveMove, Others
      <3>2. CASE d \in Instances
        <4>1. pc[d] \in AfterSaga => pc[d] \in InTransaction \cup {"committed"}
          BY <3>2 DEF TypeOK, DriversOK, AfterSaga
        <4> QED
          BY <2>1, <2>4, <4>1 DEF LeaveMove, AfterSaga
      <3> QED
        BY <3>1, <3>2 DEF Drivers
    <2> QED
      BY <1>3, <2>2, <2>3, <2>4, SagaLeaves DEF SagaStep, SagaError
  <1>4. CASE WalletStep
    BY <1>4, <1>q, WalletStepWrites DEF PlainWrite
  <1>5. ASSUME NEW c \in Calls, Age(c)
        PROVE  RequestIsOver'
    <2>1. old' = old \cup {c} /\ pc[c] \in Ended /\ UNCHANGED <<pc, job, queue>>
      BY <1>5 DEF Age, memory, SoleDriver
    <2> QED
      BY <1>e, <1>t, <2>1, OverKept
  <1>6. CASE Replicate \/ UNCHANGED vars
    BY <1>6, <1>q DEF Replicate, vars, memory
  <1> QED
    BY <1>1, <1>2, <1>3, <1>4, <1>5, <1>6 DEF Next

(* Two drivers in a transaction for one saga are one. *)
LEMMA OneDriver ==
  ASSUME SoleDriver, TypeOK, RequestIsOver, NEW d \in Drivers, NEW e \in Drivers,
         pc[d] \in InTransaction, pc[e] \in InTransaction, job[d] = job[e]
  PROVE  d = e
  <1>1. InTransaction \cap Ended = {}
    BY DEF InTransaction, Ended
  <1>2. \A c \in Calls : job[c] = c
    BY DEF TypeOK, DriversOK
  <1>3. \A i \in Instances : pc[i] \in InTransaction => pc[job[i]] \in Ended
    BY DEF RequestIsOver
  <1> QED
    BY <1>1, <1>2, <1>3 DEF Drivers, SoleDriver

(* Neither sagas nor their events change, and whoever passes a guard has   *)
(* just seen the state he needs.                                           *)
LEMMA FreshKept ==
  ASSUME TypeOK, GuardIsFresh, SagaTellsLedger, UNCHANGED sagas,
         \A s \in Steps, c \in Calls : Times(s, c)' = Times(s, c),
         \A e \in Drivers : pc'[e] \in PastGuard =>
           \/ pc[e] \in PastGuard /\ step'[e] = step[e] /\ job'[e] = job[e]
           \/ sagas[job'[e]] = MarkedFrom(step'[e])
  PROVE  GuardIsFresh' /\ SagaTellsLedger'
  <1>1. GuardIsFresh'
    BY DEF GuardIsFresh, MarkedFrom
  <1>2. {"debit", "credit", "compensate"} \subseteq Steps
    BY DEF Steps
  <1>3. SagaTellsLedger'
    BY <1>2 DEF SagaTellsLedger
  <1> QED
    BY <1>1, <1>3

(* A saga's state changes together with its events, and no driver is past  *)
(* a guard of this saga afterwards.                                        *)
LEMMA FreshChanged ==
  ASSUME TypeOK, GuardIsFresh, SagaTellsLedger, NEW c \in Calls,
         \A e \in Calls \ {c} : /\ sagas'[e] = sagas[e]
                                /\ \A s \in Steps : Times(s, e)' = Times(s, e),
         \A e \in Drivers : pc'[e] \in PastGuard =>
           /\ pc[e] \in PastGuard /\ step'[e] = step[e] /\ job'[e] = job[e]
           /\ job[e] # c,
         /\ Times("debit", c)' = IF sagas'[c] \in {"DEBITED", "COMPLETED", "COMPENSATED"}
                                 THEN 1 ELSE 0
         /\ Times("credit", c)' = IF sagas'[c] = "COMPLETED" THEN 1 ELSE 0
         /\ Times("compensate", c)' = IF sagas'[c] = "COMPENSATED" THEN 1 ELSE 0
  PROVE  GuardIsFresh' /\ SagaTellsLedger'
  <1>1. ASSUME NEW e \in Drivers, pc'[e] \in PastGuard
        PROVE  sagas'[job'[e]] = MarkedFrom(step'[e])
    <2>1. pc[e] \in PastGuard /\ step'[e] = step[e] /\ job'[e] = job[e] /\ job[e] # c
      BY <1>1
    <2>2. job[e] \in Calls
      BY <2>1, JobType DEF PastGuard, InTransaction
    <2> QED
      BY <2>1, <2>2 DEF GuardIsFresh
  <1>2. {"debit", "credit", "compensate"} \subseteq Steps
    BY DEF Steps
  <1>3. SagaTellsLedger'
    BY <1>2 DEF SagaTellsLedger
  <1> QED
    BY <1>1, <1>3 DEF GuardIsFresh, MarkedFrom

(* The commit of a step by the saga's only driver: the state it read is    *)
(* still there when it is overwritten.                                     *)
LEMMA FreshCommit ==
  ASSUME SoleDriver, TypeOK, SagaInv, RowInv, SoleInv,
         NEW d \in Drivers, NEW acked \in BOOLEAN, Commit(d, acked)
  PROVE  GuardIsFresh' /\ SagaTellsLedger'
  <1>1. pc[d] = "written" /\ job[d] \in Calls /\ step[d] \in Steps
    BY JobType DEF Commit, InTransaction
  <1>2. PICK c \in Calls, s \in Steps : job[d] = c /\ step[d] = s
    BY <1>1
  <1>3. /\ sagas' = [sagas EXCEPT ![c] = MarkedAs(s)]
        /\ events' = BagAdd(events, EventOf(s, c))
        /\ UNCHANGED <<req, job>>
    BY <1>2 DEF Commit
  <1>4. /\ Times(s, c)' = Times(s, c) + 1
        /\ \A t \in Steps, e \in Calls : t # s \/ e # c => Times(t, e)' = Times(t, e)
    BY <1>2, <1>3, TimesCommit
  <1>5. sagas[c] = MarkedFrom(s)
    BY <1>1, <1>2 DEF SoleInv, GuardIsFresh, PastGuard
  <1>6. /\ Times("debit", c) = IF s = "debit" THEN 0 ELSE 1
        /\ Times("credit", c) = 0 /\ Times("compensate", c) = 0
    BY <1>2, <1>5 DEF SoleInv, SagaTellsLedger, MarkedFrom
  <1>7. /\ sagas'[c] = MarkedAs(s)
        /\ \A e \in Calls \ {c} : sagas'[e] = sagas[e]
    BY <1>2, <1>3 DEF TypeOK, TablesOK, SagaRows
  <1>8. /\ Times("debit", c)' = 1
        /\ Times("credit", c)' = IF s = "credit" THEN 1 ELSE 0
        /\ Times("compensate", c)' = IF s = "compensate" THEN 1 ELSE 0
    BY <1>2, <1>4, <1>6 DEF Steps
  <1>9. ASSUME NEW e \in Drivers, pc'[e] \in PastGuard
        PROVE  /\ pc[e] \in PastGuard /\ step'[e] = step[e] /\ job'[e] = job[e]
               /\ job[e] # c
    <2>1. e # d /\ pc[e] \in PastGuard /\ step'[e] = step[e] /\ job'[e] = job[e]
      BY <1>9, CommitRows DEF Others, Holding, PastGuard
    <2>2. pc[e] \in InTransaction /\ pc[d] \in InTransaction
      BY <1>1, <2>1 DEF PastGuard, InTransaction
    <2> QED
      BY <1>2, <2>1, <2>2, OneDriver DEF SoleInv
  <1>10. /\ Times("debit", c)' = IF sagas'[c] \in {"DEBITED", "COMPLETED", "COMPENSATED"}
                                 THEN 1 ELSE 0
         /\ Times("credit", c)' = IF sagas'[c] = "COMPLETED" THEN 1 ELSE 0
         /\ Times("compensate", c)' = IF sagas'[c] = "COMPENSATED" THEN 1 ELSE 0
    BY <1>2, <1>7, <1>8 DEF MarkedAs, Steps
  <1>11. \A e \in Calls \ {c} : /\ sagas'[e] = sagas[e]
                                /\ \A t \in Steps : Times(t, e)' = Times(t, e)
    BY <1>4, <1>7
  <1> QED
    BY <1>9, <1>10, <1>11, FreshChanged DEF SoleInv

(* The steps of a request outside its transactions.  Its saga comes to be, *)
(* or is called FAILED, while nobody is past a guard of it.                *)
LEMMA FreshCalls ==
  ASSUME SoleDriver, TypeOK, SagaInv, SoleInv, NEW c \in Calls, CallStep(c) \/ CallError(c)
  PROVE  GuardIsFresh' /\ SagaTellsLedger'
  <1>1. CallMove(c) /\ c \in Drivers /\ c \notin Instances
    BY CallMoves, DriversAssumption DEF Drivers
  <1>2. ASSUME NEW e \in Drivers, pc'[e] \in PastGuard
        PROVE  e # c /\ pc[e] \in PastGuard /\ step'[e] = step[e] /\ job'[e] = job[e]
    BY <1>1, <1>2 DEF CallMove, Others, PastGuard
  <1>3. ASSUME UNCHANGED sagas, \A s \in Steps, e \in Calls : Times(s, e)' = Times(s, e)
        PROVE  GuardIsFresh' /\ SagaTellsLedger'
    BY <1>2, <1>3, FreshKept DEF SoleInv
  <1>4. ASSUME NEW state \in {"PENDING", "FAILED"}, sagas' = [sagas EXCEPT ![c] = state],
               sagas[c] \in {"NONE", "PENDING"}, UNCHANGED events,
               \A e \in Drivers : pc'[e] \in PastGuard => job[e] # c
        PROVE  GuardIsFresh' /\ SagaTellsLedger'
    <2>1. /\ sagas'[c] = state
          /\ \A e \in Calls \ {c} : sagas'[e] = sagas[e]
      BY <1>4 DEF TypeOK, TablesOK, SagaRows
    <2>2. \A s, e : Times(s, e)' = Times(s, e)
      BY <1>1, <1>4, TimesFrame DEF CallMove
    <2>3. Times("debit", c) = 0 /\ Times("credit", c) = 0 /\ Times("compensate", c) = 0
      BY <1>4 DEF SoleInv, SagaTellsLedger
    <2> QED
      BY <1>2, <1>4, <2>1, <2>2, <2>3, FreshChanged DEF SoleInv
  <1>5. ASSUME NEW acked, CreateSaga(c, acked)
        PROVE  GuardIsFresh' /\ SagaTellsLedger'
    <2>1. /\ pc[c] = "createSaga" /\ UNCHANGED events
          /\ sagas' = [sagas EXCEPT ![c] = "PENDING"]
      BY <1>5 DEF CreateSaga, InitialState
    <2>2. sagas[c] = "NONE"
      BY <2>1 DEF SagaInv, StateTellsDebit, BeforeSaga
    <2>3. \A e \in Drivers : pc'[e] \in PastGuard => job[e] # c
      BY <1>2, <2>2 DEF SoleInv, GuardIsFresh, MarkedFrom
    <2> QED
      BY <1>4, <2>1, <2>2, <2>3
  <1>6. CASE MarkFailed(c)
    <2>1. /\ pc[c] = "fail" /\ UNCHANGED events
          /\ sagas' = [sagas EXCEPT ![c] = "FAILED"]
      BY <1>6 DEF MarkFailed, MarkAsFailed
    <2>2. sagas[c] = "PENDING"
      BY <2>1 DEF SagaInv, HandlerHolds, SoleDriver
    <2>3. ASSUME NEW e \in Drivers, pc'[e] \in PastGuard
          PROVE  job[e] # c
      <3>1. e # c /\ pc[e] \in PastGuard /\ pc[e] \in InTransaction
        BY <1>2, <2>3 DEF PastGuard, InTransaction
      <3>2. CASE e \in Calls
        BY <3>1, <3>2 DEF TypeOK, DriversOK
      <3>3. CASE e \in Instances
        <4>1. pc[job[e]] \in Ended
          BY <3>1, <3>3 DEF SoleInv, RequestIsOver
        <4> QED
          BY <2>1, <4>1 DEF Ended
      <3> QED
        BY <3>2, <3>3 DEF Drivers
    <2> QED
      BY <1>4, <2>1, <2>2, <2>3
  <1>7. ASSUME NEW acked, GetOrCreateReceiver(c, acked)
        PROVE  GuardIsFresh' /\ SagaTellsLedger'
    <2>1. UNCHANGED <<sagas, req>>
      BY <1>7 DEF GetOrCreateReceiver
    <2>2. \A s \in Steps, e \in Calls : Times(s, e)' = Times(s, e)
      BY <1>7, TimesFrame, TimesPlain DEF GetOrCreateReceiver
    <2> QED
      BY <1>3, <2>1, <2>2
  <1>8. CASE UNCHANGED <<sagas, events>>
    BY <1>1, <1>3, <1>8, TimesFrame DEF CallMove
  <1>9. \/ UNCHANGED <<sagas, events>>
        \/ \E acked \in BOOLEAN : CreateSaga(c, acked) \/ GetOrCreateReceiver(c, acked)
        \/ MarkFailed(c)
    BY DEF CallStep, CallError, CheckIdempotency, FindSender, FailEarly, FailHandler,
           SaveKey, ReloadSaga, db
  <1> QED
    BY <1>5, <1>6, <1>7, <1>8, <1>9

(* Every step keeps the invariant of sole drivers. *)
LEMMA SoleInvStep ==
  ASSUME SoleDriver, TypeOK, TypeOK', SagaInv, RowInv, SoleInv, [Next]_vars
  PROVE  SoleInv'
  <1>o. RequestIsOver'
    BY OverStep DEF SoleInv
  <1> SUFFICES GuardIsFresh' /\ SagaTellsLedger'
    BY <1>o DEF SoleInv
  <1>q. ASSUME UNCHANGED <<sagas, events, req>>,
               \A e \in Drivers : pc'[e] \in PastGuard =>
                 \/ pc[e] \in PastGuard /\ step'[e] = step[e] /\ job'[e] = job[e]
                 \/ sagas[job'[e]] = MarkedFrom(step'[e])
        PROVE  GuardIsFresh' /\ SagaTellsLedger'
    BY <1>q, TimesFrame, FreshKept DEF SoleInv
  <1>1. ASSUME NEW i \in Instances, RecoveryStep(i) \/ RecoveryError(i)
        PROVE  GuardIsFresh' /\ SagaTellsLedger'
    <2>1. RecoveryMove(i) /\ i \in Drivers
      BY <1>1, RecoveryMoves DEF Drivers
    <2> QED
      BY <1>q, <2>1 DEF RecoveryMove, Others, PastGuard
  <1>2. ASSUME NEW d \in Drivers, SagaStep(d) \/ SagaError(d)
        PROVE  GuardIsFresh' /\ SagaTellsLedger'
    <2>1. CASE LockWallet(d)
      <3>1. Others(d) /\ UNCHANGED <<db, req>> /\ pc'[d] \notin PastGuard
        BY <2>1, LockRows DEF PastGuard
      <3> QED
        BY <1>q, <3>1 DEF Others, db
    <2>2. CASE ReadSaga(d)
      <3>1. Others(d) /\ UNCHANGED <<db, req, job>>
        BY <2>2, MarkRows
      <3>2. pc'[d] \in PastGuard => UNCHANGED step /\ sagas[job[d]] = MarkedFrom(step[d])
        <4>1. CASE Throw(d)
          BY <4>1, ThrowMoves DEF PastGuard
        <4>2. CASE MayMark(step[d], sagas[job[d]]) /\ UNCHANGED step
          BY <4>2 DEF MayMark
        <4> QED
          BY <2>2, <4>1, <4>2 DEF ReadSaga
      <3> QED
        BY <1>q, <3>1, <3>2 DEF Others, db
    <2>3. CASE WriteSaga(d)
      <3>1. /\ Others(d) /\ UNCHANGED <<db, req, job, step>> /\ pc[d] \in PastGuard
        BY <2>3, MarkRows DEF WriteSaga, PastGuard
      <3> QED
        BY <1>q, <3>1 DEF Others, db
    <2>4. CASE LeaveMove(d)
      BY <1>q, <2>4 DEF LeaveMove, Others, PastGuard, db
    <2> QED
      BY <1>2, <2>1, <2>2, <2>3, <2>4, SagaLeaves, FreshCommit DEF SagaStep, SagaError
  <1>3. CASE WalletStep
    BY <1>3, WalletTimes, FreshKept DEF SoleInv
  <1>4. ASSUME NEW c \in Calls, Age(c)
        PROVE  GuardIsFresh' /\ SagaTellsLedger'
    BY <1>4, <1>q DEF Age, db, memory
  <1>5. CASE Replicate \/ UNCHANGED vars
    BY <1>5, <1>q DEF Replicate, vars, db, memory
  <1> QED
    BY <1>1, <1>2, <1>3, <1>4, <1>5, FreshCalls DEF Next

(* At first nobody works on a saga. *)
LEMMA SoleInvInit ==
  ASSUME Init
  PROVE  SoleInv
  <1>1. \A d \in Drivers : pc[d] \in {"start", "idle"}
    BY DEF Init
  <1>2. RequestIsOver
    BY <1>1 DEF Init, RequestIsOver, InTransaction, Drivers
  <1>3. GuardIsFresh
    BY <1>1 DEF GuardIsFresh, PastGuard
  <1>4. SagaTellsLedger
    <2>1. StateTellsDebit /\ {"debit", "credit", "compensate"} \subseteq Steps
      BY SagaInvInit DEF SagaInv, Steps
    <2> QED
      BY <2>1 DEF Init, SagaTellsLedger, StateTellsDebit
  <1> QED
    BY <1>2, <1>3, <1>4 DEF SoleInv

(* The invariant of sole drivers holds throughout. *)
THEOREM SoleInvariant ==
  ASSUME SoleDriver
  PROVE  Spec => []SoleInv
  <1>1. Init => SoleInv
    BY SoleInvInit
  <1>2. TypeOK /\ TypeOK' /\ SagaInv /\ RowInv /\ SoleInv /\ [Next]_vars => SoleInv'
    BY SoleInvStep
  <1> QED
    BY <1>1, <1>2, TypeCorrect, SagaInvariant, RowInvariant, PTL DEF Spec

(* With one recoverer, no request that outlives the stuck threshold and no *)
(* replica, the state column tells exactly which steps have taken effect.  *)
THEOREM StatesTellLedger ==
  ASSUME SoleDriver
  PROVE  Spec => []SagaTellsLedger
  <1>1. SoleInv => SagaTellsLedger
    BY DEF SoleInv
  <1> QED
    BY <1>1, SoleInvariant, PTL

(* Then a saga pays out once: receiver and sender do not both get the      *)
(* money.  With a second driver they may, which the run saga_double_payout *)
(* shows.                                                                  *)
THEOREM SoleDriverPaysOnce ==
  ASSUME SoleDriver
  PROVE  Spec => []PaidOutOnce
  <1>1. SagaTellsLedger => PaidOutOnce
    BY DEF SagaTellsLedger, PaidOutOnce
  <1> QED
    BY <1>1, StatesTellLedger, PTL

-----------------------------------------------------------------------------
(* Sagas implement the escrow. *)

(* Balances and phases stay: the escrow does not move. *)
LEMMA EscrowStutters ==
  ASSUME UNCHANGED req, \A w \in Wallets : wallets'[w].balance = wallets[w].balance,
         \A c \in Calls : PhaseOf(sagas'[c]) = PhaseOf(sagas[c])
  PROVE  UNCHANGED Escrow!vars
  BY DEF Escrow!vars

(* A plain write moves the balance of one wallet by a deposit or by a      *)
(* withdrawal, or not at all.                                              *)
LEMMA EscrowWallets ==
  ASSUME TypeOK, RowInv, WalletStep
  PROVE  [Escrow!Next]_(Escrow!vars)
  <1> DEFINE bal == [w \in Wallets |-> wallets[w].balance]
  <1>1. PICK w \in Wallets :
          \/ \E a \in Amounts : DepositFunds(w, a)
          \/ \E a \in Amounts : WithdrawFunds(w, a)
          \/ FreezeWallet(w)
          \/ UnfreezeWallet(w)
          \/ CloseWallet(w)
          \/ \E l \in Limits : SetLimit(w, l)
    BY DEF WalletStep
  <1>2. wallets[w] \in WalletRows(Currencies) /\ wallets[w].balance \in Nat
    BY DEF TypeOK, TablesOK, Rows, WalletRows
  <1>3. ASSUME NEW row, NEW created, NEW type, NEW a, WalletTransaction(w, row, created, type, a)
        PROVE  /\ UNCHANGED <<req, sagas>>
               /\ bal' = [bal EXCEPT ![w] = row.balance]
    BY <1>3 DEF WalletTransaction, TypeOK, TablesOK
  <1>4. ASSUME NEW a \in Amounts, DepositFunds(w, a)
        PROVE  Escrow!Next
    <2> DEFINE row == IF Exists(wallets[w]) THEN wallets[w] ELSE NewWallet(DefaultCurrency)
    <2>1. UNCHANGED <<req, sagas>> /\ bal' = [bal EXCEPT ![w] = Deposit(row, a).balance]
      BY <1>3, <1>4 DEF DepositFunds
    <2>2. Deposit(row, a).balance = wallets[w].balance + a
      <3>1. CASE Exists(wallets[w])
        BY <1>2, <3>1 DEF Deposit, WalletRows
      <3>2. CASE ~Exists(wallets[w])
        BY <1>2, <3>2 DEF Deposit, NewWallet, RowInv, AbsentIsEmpty
      <3> QED
        BY <3>1, <3>2
    <2>3. Escrow!Deposit(w, a)
      BY <2>1, <2>2 DEF Escrow!Deposit
    <2> QED
      BY <2>1, <2>3 DEF Escrow!Next
  <1>5. ASSUME NEW a \in Amounts, WithdrawFunds(w, a)
        PROVE  Escrow!Next
    <2>1. /\ UNCHANGED <<req, sagas>>
          /\ bal' = [bal EXCEPT ![w] = Withdraw(wallets[w], a, Today, Today).balance]
          /\ wallets[w].balance >= a
      BY <1>3, <1>5 DEF WithdrawFunds, MayWithdraw
    <2>2. Withdraw(wallets[w], a, Today, Today).balance = wallets[w].balance - a
      BY <1>2 DEF Withdraw, WalletRows
    <2>3. Escrow!Withdraw(w, a)
      BY <2>1, <2>2 DEF Escrow!Withdraw
    <2> QED
      BY <2>1, <2>3 DEF Escrow!Next
  <1>6. ASSUME NEW row, NEW created, NEW type, NEW a, row.balance = wallets[w].balance,
               WalletTransaction(w, row, created, type, a)
        PROVE  UNCHANGED Escrow!vars
    <2>1. /\ UNCHANGED <<req, sagas>>
          /\ \A v \in Wallets : wallets'[v].balance = wallets[v].balance
      BY <1>6 DEF WalletTransaction, TypeOK, TablesOK
    <2> QED
      BY <2>1, EscrowStutters
  <1>7. /\ Freeze(wallets[w]).balance = wallets[w].balance
        /\ Unfreeze(wallets[w]).balance = wallets[w].balance
        /\ Close(wallets[w]).balance = wallets[w].balance
        /\ \A l : SetDailyWithdrawalLimit(wallets[w], l).balance = wallets[w].balance
    BY <1>2 DEF Freeze, Unfreeze, Close, SetDailyWithdrawalLimit, WalletRows
  <1>8. CASE \/ FreezeWallet(w) \/ UnfreezeWallet(w) \/ CloseWallet(w)
             \/ \E l \in Limits : SetLimit(w, l)
    BY <1>6, <1>7, <1>8 DEF FreezeWallet, UnfreezeWallet, CloseWallet, SetLimit
  <1> QED
    BY <1>1, <1>4, <1>5, <1>8

(* A commit is the escrow's step of the same name: its guard is fresh, so  *)
(* the phase is the one the step starts from, and its row is the stored    *)
(* one, so the balance moves by the amount.                                *)
LEMMA EscrowCommit ==
  ASSUME TypeOK, SagaInv, RowInv, SoleInv, NEW d \in Drivers, NEW acked, Commit(d, acked)
  PROVE  Escrow!Next
  <1>1. pc[d] = "written" /\ job[d] \in Calls /\ step[d] \in Steps
    BY JobType DEF Commit, InTransaction
  <1>2. PICK c \in Calls, s \in Steps : job[d] = c /\ step[d] = s
    BY <1>1
  <1> DEFINE w == WalletOf(s, c)
             a == req[c].amount
             bal == [v \in Wallets |-> wallets[v].balance]
             phase == [e \in Calls |-> PhaseOf(sagas[e])]
  <1>3. w \in Wallets /\ a \in Nat \ {0} /\ wallets[w] \in WalletRows(Currencies)
    BY RequestType DEF TypeOK, TablesOK, Rows
  <1>4. wallets[w].balance \in Nat
    BY <1>3 DEF WalletRows
  <1>5. work[d] = Operation(s, wallets[w], a) /\ MayOperate(s, wallets[w], a)
    BY <1>1, <1>2 DEF RowInv, NoLostUpdate, MayStillOperate, Holding
  <1>6. /\ wallets' = [wallets EXCEPT ![w] = work[d]]
        /\ sagas' = [sagas EXCEPT ![c] = MarkedAs(s)]
        /\ UNCHANGED req
    BY <1>2 DEF Commit
  <1>7. bal' = [bal EXCEPT ![w] = work[d].balance]
    BY <1>3, <1>6 DEF TypeOK, TablesOK
  <1>8. phase' = [phase EXCEPT ![c] = PhaseOf(MarkedAs(s))]
    BY <1>6 DEF TypeOK, TablesOK, SagaRows
  <1>9. phase[c] = PhaseOf(MarkedFrom(s))
    BY <1>1, <1>2 DEF SoleInv, GuardIsFresh, PastGuard
  <1>10. bal[w] = wallets[w].balance
    BY <1>3
  <1>11. CASE s = "debit"
    <2>1. w = req[c].from /\ bal[w] >= a
      BY <1>5, <1>10, <1>11 DEF WalletOf, MayOperate, MayWithdraw
    <2>2. work[d].balance = bal[w] - a
      BY <1>3, <1>5, <1>10, <1>11 DEF Operation, Withdraw, WalletRows
    <2>3. phase[c] = "open" /\ phase' = [phase EXCEPT ![c] = "held"]
      BY <1>8, <1>9, <1>11 DEF MarkedFrom, MarkedAs, PhaseOf
    <2>4. Escrow!Hold(c)
      BY <1>7, <2>1, <2>2, <2>3 DEF Escrow!Hold
    <2> QED
      BY <1>6, <2>4 DEF Escrow!Next
  <1>12. CASE s # "debit"
    <2>1. work[d].balance = bal[w] + a
      BY <1>3, <1>5, <1>10, <1>12 DEF Operation, Credit, WalletRows
    <2>2. phase[c] = "held"
      BY <1>9, <1>12 DEF MarkedFrom, PhaseOf
    <2>3. CASE s = "credit"
      <3>1. w = req[c].to /\ phase' = [phase EXCEPT ![c] = "paid"]
        BY <1>8, <2>3 DEF WalletOf, MarkedAs, PhaseOf
      <3>2. Escrow!PayOut(c, req[c].to, "paid")
        BY <1>7, <2>1, <2>2, <3>1 DEF Escrow!PayOut
      <3> QED
        BY <1>6, <3>2 DEF Escrow!Next
    <2>4. CASE s = "compensate"
      <3>1. w = req[c].from /\ phase' = [phase EXCEPT ![c] = "refunded"]
        BY <1>8, <2>4 DEF WalletOf, MarkedAs, PhaseOf
      <3>2. Escrow!PayOut(c, req[c].from, "refunded")
        BY <1>7, <2>1, <2>2, <3>1 DEF Escrow!PayOut
      <3> QED
        BY <1>6, <3>2 DEF Escrow!Next
    <2> QED
      BY <1>12, <2>3, <2>4 DEF Steps
  <1> QED
    BY <1>11, <1>12

(* Outside its transactions a request creates the receiver with no money   *)
(* and the saga with nothing held; giving up voids the transfer.           *)
LEMMA EscrowCalls ==
  ASSUME SoleDriver, TypeOK, SagaInv, RowInv, NEW c \in Calls, CallStep(c) \/ CallError(c)
  PROVE  [Escrow!Next]_(Escrow!vars)
  <1>0. UNCHANGED req
    BY CallMoves DEF CallMove
  <1>1. ASSUME NEW acked, GetOrCreateReceiver(c, acked)
        PROVE  UNCHANGED Escrow!vars
    <2> DEFINE to == req[c].to
    <2>1. to \in Wallets /\ UNCHANGED sagas
      BY <1>1, RequestType DEF GetOrCreateReceiver
    <2>2. \A w \in Wallets : wallets'[w].balance = wallets[w].balance
      <3>1. CASE Exists(wallets[to])
        BY <1>1, <3>1 DEF GetOrCreateReceiver
      <3>2. CASE ~Exists(wallets[to])
        <4>1. wallets[to].balance = 0
          BY <2>1, <3>2 DEF RowInv, AbsentIsEmpty
        <4>2. wallets' = [wallets EXCEPT ![to] = NewWallet(wallets[req[c].from].currency)]
          BY <1>1, <3>2 DEF GetOrCreateReceiver
        <4> QED
          BY <2>1, <4>1, <4>2 DEF NewWallet, TypeOK, TablesOK
      <3> QED
        BY <3>1, <3>2
    <2> QED
      BY <1>0, <2>1, <2>2, EscrowStutters
  <1>2. ASSUME NEW acked, CreateSaga(c, acked)
        PROVE  UNCHANGED Escrow!vars
    <2>1. UNCHANGED wallets /\ sagas' = [sagas EXCEPT ![c] = "PENDING"] /\ sagas[c] = "NONE"
      BY <1>2 DEF CreateSaga, InitialState, SagaInv, StateTellsDebit, BeforeSaga
    <2>2. \A e \in Calls : PhaseOf(sagas'[e]) = PhaseOf(sagas[e])
      BY <2>1 DEF PhaseOf, TypeOK, TablesOK, SagaRows
    <2> QED
      BY <1>0, <2>1, <2>2, EscrowStutters
  <1>3. CASE MarkFailed(c)
    <2> DEFINE phase == [e \in Calls |-> PhaseOf(sagas[e])]
    <2>1. UNCHANGED wallets /\ sagas' = [sagas EXCEPT ![c] = "FAILED"] /\ sagas[c] = "PENDING"
      BY <1>3 DEF MarkFailed, MarkAsFailed, SoleDriver, SagaInv, HandlerHolds
    <2>o. PhaseOf("PENDING") = "open" /\ PhaseOf("FAILED") = "void"
      BY DEF PhaseOf
    <2>2. phase[c] = "open" /\ phase' = [phase EXCEPT ![c] = "void"]
      BY <2>1, <2>o DEF TypeOK, TablesOK, SagaRows
    <2>3. Escrow!Void(c)
      BY <2>1, <2>2 DEF Escrow!Void
    <2> QED
      BY <1>0, <2>3 DEF Escrow!Next
  <1>4. CASE UNCHANGED <<wallets, sagas>>
    BY <1>0, <1>4, EscrowStutters
  <1>5. CASE \/ CheckIdempotency(c) \/ FindSender(c) \/ ReloadSaga(c) \/ FailEarly(c)
             \/ FailHandler(c)
    BY <1>4, <1>5 DEF CheckIdempotency, FindSender, ReloadSaga, FailEarly, FailHandler, db
  <1>6. ASSUME NEW saved, NEW acked, SaveKey(c, saved, acked)
        PROVE  UNCHANGED <<wallets, sagas>>
    BY <1>6 DEF SaveKey
  <1> QED
    BY <1>1, <1>2, <1>3, <1>4, <1>5, <1>6 DEF CallStep, CallError

(* Every step is a step of the escrow or leaves it alone. *)
LEMMA EscrowStep ==
  ASSUME SoleDriver, TypeOK, SagaInv, RowInv, SoleInv, [Next]_vars
  PROVE  [Escrow!Next]_(Escrow!vars)
  <1>q. ASSUME UNCHANGED <<wallets, sagas, req>>
        PROVE  UNCHANGED Escrow!vars
    BY <1>q, EscrowStutters
  <1>1. ASSUME NEW i \in Instances, RecoveryStep(i) \/ RecoveryError(i)
        PROVE  UNCHANGED Escrow!vars
    BY <1>1, <1>q, RecoveryMoves DEF RecoveryMove
  <1>2. ASSUME NEW d \in Drivers, SagaStep(d) \/ SagaError(d)
        PROVE  [Escrow!Next]_(Escrow!vars)
    <2>1. CASE LockWallet(d) \/ ReadSaga(d) \/ WriteSaga(d)
      BY <1>q, <2>1, LockRows, MarkRows DEF db
    <2>2. CASE LeaveMove(d)
      BY <1>q, <2>2 DEF LeaveMove, db
    <2> QED
      BY <1>2, <2>1, <2>2, SagaLeaves, EscrowCommit DEF SagaStep, SagaError
  <1>3. ASSUME NEW c \in Calls, Age(c)
        PROVE  UNCHANGED Escrow!vars
    BY <1>3, <1>q DEF Age, db
  <1>4. CASE Replicate \/ UNCHANGED vars
    BY <1>4, <1>q DEF Replicate, vars, db
  <1> QED
    BY <1>1, <1>2, <1>3, <1>4, EscrowCalls, EscrowWallets DEF Next

(* The opening balances are an initial state of the escrow. *)
LEMMA EscrowInit ==
  ASSUME Init
  PROVE  Escrow!Init
  <1>1. TypeOK
    BY TypeInit
  <1>2. \A w \in Wallets : wallets[w].balance \in Nat
    BY <1>1 DEF TypeOK, TablesOK, Rows, WalletRows
  <1>3. \A c \in Calls : PhaseOf(sagas[c]) = "open"
    BY DEF Init, PhaseOf
  <1> QED
    BY <1>2, <1>3 DEF Escrow!Init

(* Sagas with one driver at a time implement the escrow: whatever fails or *)
(* crashes, and whatever deposits, withdrawals and operators do meanwhile, *)
(* the committed balances and states move only by Hold, by one of the two  *)
(* PayOuts, by Void and by plain deposits and withdrawals.                 *)
THEOREM SagasImplementEscrow ==
  ASSUME SoleDriver
  PROVE  Spec => ImplementsEscrow
  <1>1. Init => Escrow!Init
    BY EscrowInit
  <1>2. TypeOK /\ SagaInv /\ RowInv /\ SoleInv /\ [Next]_vars => [Escrow!Next]_(Escrow!vars)
    BY EscrowStep
  <1> QED
    BY <1>1, <1>2, TypeCorrect, SagaInvariant, RowInvariant, SoleInvariant, PTL
       DEF Spec, ImplementsEscrow, Escrow!Spec

-----------------------------------------------------------------------------
(* The ledger: what the rows of wallet_events add up to. *)

(* A table of events that can be added up. *)
Summable(B) ==
  IsABag(B) /\ IsFiniteSet(BagToSet(B)) /\ \A e \in BagToSet(B) : e.amount \in Nat

(* What a row says is an integer. *)
LEMMA SignedType ==
  ASSUME NEW e, e.amount \in Nat
  PROVE  Signed(e) \in Int
  BY DEF Signed

(* What an event row and its copies add to a wallet is a number. *)
LEMMA EntryType ==
  ASSUME NEW B, Summable(B), NEW e \in BagToSet(B)
  PROVE  Entries(B)[e] \in Int
  <1>1. Signed(e) \in Int
    BY SignedType DEF Summable
  <1>2. B[e] \in Int
    BY DEF Summable, IsABag, BagToSet
  <1> QED
    BY <1>1, <1>2 DEF Entries

(* A row more can be added up. *)
LEMMA SummableAdd ==
  ASSUME NEW B, Summable(B), NEW e, e.amount \in Nat
  PROVE  Summable(BagAdd(B, e)) /\ BagToSet(BagAdd(B, e)) = BagToSet(B) \cup {e}
  <1>1. BagToSet(BagAdd(B, e)) = BagToSet(B) \cup {e}
    BY DEF BagToSet, BagAdd
  <1>2. IsFiniteSet(BagToSet(B) \cup {e})
    BY FiniteAdd DEF Summable
  <1> QED
    BY <1>1, <1>2, BagAddIsABag DEF Summable

(* Of the rows in a set T, one more adds what it says, if it is in T. *)
LEMMA EntriesAdd ==
  ASSUME NEW B, Summable(B), NEW e, e.amount \in Nat, NEW T
  PROVE  /\ SumFunctionOnSet(Entries(B), BagToSet(B) \cap T) \in Int
         /\ SumFunctionOnSet(Entries(BagAdd(B, e)), BagToSet(BagAdd(B, e)) \cap T)
              = SumFunctionOnSet(Entries(B), BagToSet(B) \cap T)
                  + IF e \in T THEN Signed(e) ELSE 0
  <1> DEFINE f == Entries(B)
             g == Entries(BagAdd(B, e))
             S == BagToSet(B) \cap T
             R == BagToSet(BagAdd(B, e)) \cap T
  <1>1. BagToSet(BagAdd(B, e)) = BagToSet(B) \cup {e}
    BY SummableAdd
  <1>2. IsFiniteSet(S) /\ \A x \in S : f[x] \in Int
    BY FiniteSub, EntryType DEF Summable
  <1>3. SumFunctionOnSet(f, S) \in Int
    BY <1>2, SumType
  <1>4. \A x \in BagToSet(B) \ {e} : g[x] = f[x]
    BY DEF Entries, BagAdd, BagToSet
  <1>5. Signed(e) \in Int
    BY SignedType
  <1>6. CASE e \notin T
    <2>1. R = S /\ \A x \in S : g[x] = f[x]
      BY <1>1, <1>4, <1>6
    <2>2. SumFunctionOnSet(g, R) = SumFunctionOnSet(f, S)
      <3> HIDE DEF f, g, S, R
      <3> QED
        BY <1>2, <2>1, SumEqual
    <2> QED
      BY <1>3, <1>6, <2>2
  <1>7. CASE e \in T /\ e \notin BagToSet(B)
    <2>1. R = S \cup {e} /\ e \notin S /\ \A x \in S : g[x] = f[x]
      BY <1>1, <1>4, <1>7
    <2>2. g[e] = Signed(e)
      BY <1>5, <1>7 DEF Entries, BagAdd, BagToSet
    <2>3. SumFunctionOnSet(g, R) = SumFunctionOnSet(f, S) + g[e]
      <3> HIDE DEF f, g, S, R
      <3> QED
        BY <1>2, <1>5, <2>1, <2>2, SumAdd
    <2> QED
      BY <1>3, <1>7, <2>2, <2>3
  <1>8. CASE e \in T /\ e \in BagToSet(B)
    <2>1. R = S /\ e \in S /\ \A x \in S \ {e} : g[x] = f[x]
      BY <1>1, <1>4, <1>8
    <2>2. g[e] = f[e] + Signed(e) /\ f[e] \in Int
      <3>1. B[e] \in Int /\ f[e] = B[e] * Signed(e) /\ g[e] = (B[e] + 1) * Signed(e)
        BY <1>8 DEF Entries, BagAdd, BagToSet, Summable, IsABag
      <3>2. (B[e] + 1) * Signed(e) = B[e] * Signed(e) + Signed(e)
        BY <1>5, <3>1
      <3> QED
        BY <1>2, <2>1, <3>1, <3>2
    <2>3. SumFunctionOnSet(g, S) = SumFunctionOnSet(f, S) - f[e] + g[e]
      <3>1. g[e] \in Int
        BY <1>5, <2>2
      <3> HIDE DEF f, g, S, R
      <3> QED
        BY <1>2, <2>1, <3>1, SumChange
    <2>4. SumFunctionOnSet(g, R) = SumFunctionOnSet(f, S) + Signed(e)
      <3> HIDE DEF f, g, S, R
      <3> QED
        BY <1>3, <1>5, <2>1, <2>2, <2>3
    <2> QED
      BY <1>3, <1>8, <2>4
  <1> QED
    BY <1>6, <1>7, <1>8

(* One more row in the ledger of a wallet. *)
LEMMA LedgerAdd ==
  ASSUME NEW B, Summable(B), NEW e, e.amount \in Nat, NEW w
  PROVE  /\ LedgerOf(w, B) \in Int
         /\ LedgerOf(w, BagAdd(B, e)) = LedgerOf(w, B) + IF e.wallet = w THEN Signed(e) ELSE 0
  <1> DEFINE T == {x \in BagToSet(B) \cup {e} : x.wallet = w}
  <1>1. BagToSet(BagAdd(B, e)) = BagToSet(B) \cup {e}
    BY SummableAdd
  <1>2. /\ {x \in BagToSet(B) : x.wallet = w} = BagToSet(B) \cap T
        /\ {x \in BagToSet(BagAdd(B, e)) : x.wallet = w} = BagToSet(BagAdd(B, e)) \cap T
        /\ e \in T <=> e.wallet = w
    BY <1>1
  <1> HIDE DEF T
  <1> QED
    BY <1>2, EntriesAdd DEF LedgerOf

(* One more row in what was brought in. *)
LEMMA BroughtInAdd ==
  ASSUME NEW B, Summable(B), NEW e, e.amount \in Nat
  PROVE  /\ BroughtIn(B) \in Int
         /\ BroughtIn(BagAdd(B, e)) = BroughtIn(B) + IF e.saga = NoSaga THEN Signed(e) ELSE 0
  <1> DEFINE T == {x \in BagToSet(B) \cup {e} : x.saga = NoSaga}
  <1>1. BagToSet(BagAdd(B, e)) = BagToSet(B) \cup {e}
    BY SummableAdd
  <1>2. /\ {x \in BagToSet(B) : x.saga = NoSaga} = BagToSet(B) \cap T
        /\ {x \in BagToSet(BagAdd(B, e)) : x.saga = NoSaga} = BagToSet(BagAdd(B, e)) \cap T
        /\ e \in T <=> e.saga = NoSaga
    BY <1>1
  <1> HIDE DEF T
  <1> QED
    BY <1>2, EntriesAdd DEF BroughtIn

(* The balances move by what row e says. *)
BalancesMove(e) ==
  \A w \in Wallets :
    wallets'[w].balance = wallets[w].balance + IF e.wallet = w THEN Signed(e) ELSE 0

(* A step that stores row e, and before it, if it inserts the wallet, the  *)
(* WALLET_CREATED of that wallet, and changes the balances accordingly.    *)
Books(e) ==
  /\ e.wallet \in Wallets /\ e.amount \in Nat /\ e.saga \in Calls \cup {NoSaga}
  /\ \/ events' = BagAdd(events, e)
     \/ events' = BagAdd(BagAdd(events, Event("WALLET_CREATED", e.wallet, NoSaga, 0)), e)
  /\ BalancesMove(e)

BalancesStay == \A w \in Wallets : wallets'[w].balance = wallets[w].balance

(* What a saga holds moves against what row e of it says. *)
HeldMoves(e) ==
  \A c \in Calls : Held(c)' = Held(c) - IF e.saga = c THEN Signed(e) ELSE 0

HeldStays == \A c \in Calls : Held(c)' = Held(c)

(* Balances and rows of wallet_events change together, in one step; for a  *)
(* sole driver, what the sagas hold changes with them.                     *)
BookStep ==
  \/ UNCHANGED events /\ BalancesStay /\ (SoleDriver /\ SoleInv => HeldStays)
  \/ \E e : Books(e) /\ (SoleDriver /\ SoleInv => HeldMoves(e))

(* A row of no saga leaves the sagas alone. *)
LEMMA PlainHeld ==
  ASSUME TypeOK, UNCHANGED <<sagas, req>>
  PROVE  HeldStays /\ \A e : e.saga = NoSaga => HeldMoves(e)
  <1>1. \A c \in Calls : Held(c)' = Held(c) /\ Held(c) \in Int
    BY RequestType DEF Held
  <1> QED
    BY <1>1, DriversAssumption DEF HeldStays, HeldMoves

(* The transactions of WalletService book. *)
LEMMA WalletBooks ==
  ASSUME TypeOK, RowInv, WalletStep
  PROVE  BookStep
  <1>1. PICK w \in Wallets :
          \/ \E a \in Amounts : DepositFunds(w, a)
          \/ \E a \in Amounts : WithdrawFunds(w, a)
          \/ FreezeWallet(w)
          \/ UnfreezeWallet(w)
          \/ CloseWallet(w)
          \/ \E l \in Limits : SetLimit(w, l)
    BY DEF WalletStep
  <1>2. wallets[w] \in WalletRows(Currencies) /\ wallets[w].balance \in Nat
    BY DEF TypeOK, TablesOK, Rows, WalletRows
  <1>3. ASSUME NEW row, NEW created, NEW type, NEW a \in Nat,
               WalletTransaction(w, row, created, type, a),
               row.balance = wallets[w].balance + Signed(Event(type, w, NoSaga, a))
        PROVE  BookStep
    <2> DEFINE e == Event(type, w, NoSaga, a)
    <2>1. e.wallet = w /\ e.saga = NoSaga /\ e.amount = a
      BY DEF Event
    <2>2. BalancesMove(e)
      <3>1. wallets' = [wallets EXCEPT ![w] = row]
        BY <1>3 DEF WalletTransaction
      <3>2. \A v \in Wallets : wallets[v].balance \in Nat
        BY DEF TypeOK, TablesOK, Rows, WalletRows
      <3> QED
        BY <1>3, <2>1, <3>1, <3>2 DEF BalancesMove, TypeOK, TablesOK
    <2>3. Books(e)
      BY <1>3, <2>1, <2>2 DEF WalletTransaction, Books
    <2>4. HeldMoves(e)
      BY <1>3, <2>1, PlainHeld DEF WalletTransaction
    <2> QED
      BY <2>3, <2>4 DEF BookStep
  <1>4. ASSUME NEW a \in Amounts, DepositFunds(w, a)
        PROVE  BookStep
    <2> DEFINE row == IF Exists(wallets[w]) THEN wallets[w] ELSE NewWallet(DefaultCurrency)
    <2>1. a \in Nat /\ Signed(Event("FUNDS_DEPOSITED", w, NoSaga, a)) = a
      BY RequestsAssumption DEF Signed, Event
    <2>2. Deposit(row, a).balance = wallets[w].balance + a
      <3>1. CASE Exists(wallets[w])
        BY <1>2, <3>1 DEF Deposit, WalletRows
      <3>2. CASE ~Exists(wallets[w])
        BY <1>2, <3>2 DEF Deposit, NewWallet, RowInv, AbsentIsEmpty
      <3> QED
        BY <3>1, <3>2
    <2> QED
      BY <1>3, <1>4, <2>1, <2>2 DEF DepositFunds
  <1>5. ASSUME NEW a \in Amounts, WithdrawFunds(w, a)
        PROVE  BookStep
    <2>1. a \in Nat /\ Signed(Event("FUNDS_WITHDRAWN", w, NoSaga, a)) = -a
      BY RequestsAssumption DEF Signed, Event
    <2>2. Withdraw(wallets[w], a, Today, Today).balance = wallets[w].balance + (-a)
      BY <1>2, <2>1 DEF Withdraw, WalletRows
    <2> QED
      BY <1>3, <1>5, <2>1, <2>2 DEF WithdrawFunds
  <1>6. /\ Freeze(wallets[w]).balance = wallets[w].balance
        /\ Unfreeze(wallets[w]).balance = wallets[w].balance
        /\ Close(wallets[w]).balance = wallets[w].balance
        /\ \A l : SetDailyWithdrawalLimit(wallets[w], l).balance = wallets[w].balance
    BY <1>2 DEF Freeze, Unfreeze, Close, SetDailyWithdrawalLimit, WalletRows
  <1>7. \A type \in {"WALLET_FROZEN", "WALLET_UNFROZEN", "WALLET_CLOSED",
                     "DAILY_WITHDRAWAL_LIMIT_REMOVED", "DAILY_WITHDRAWAL_LIMIT_SET"} :
          wallets[w].balance = wallets[w].balance + Signed(Event(type, w, NoSaga, 0))
    BY <1>2 DEF Signed, Event
  <1>8. CASE FreezeWallet(w) \/ UnfreezeWallet(w) \/ CloseWallet(w)
    BY <1>3, <1>6, <1>7, <1>8 DEF FreezeWallet, UnfreezeWallet, CloseWallet
  <1>9. ASSUME NEW l \in Limits, SetLimit(w, l)
        PROVE  BookStep
    BY <1>3, <1>6, <1>7, <1>9 DEF SetLimit
  <1> QED
    BY <1>1, <1>4, <1>5, <1>8, <1>9

(* The commit of a step books its event.  The saga takes the money at the  *)
(* debit and gives it away at either payout, if its guard is fresh.        *)
LEMMA CommitBooks ==
  ASSUME TypeOK, RowInv, NEW d \in Drivers, NEW acked, Commit(d, acked)
  PROVE  BookStep
  <1>1. pc[d] = "written" /\ job[d] \in Calls /\ step[d] \in Steps
    BY JobType DEF Commit, InTransaction
  <1>2. PICK c \in Calls, s \in Steps : job[d] = c /\ step[d] = s
    BY <1>1
  <1> DEFINE e == EventOf(s, c)
             a == req[c].amount
             w == WalletOf(s, c)
  <1>3. w \in Wallets /\ a \in Nat \ {0} /\ wallets[w] \in WalletRows(Currencies)
    BY RequestType DEF TypeOK, TablesOK, Rows
  <1>4. \A v \in Wallets : wallets[v].balance \in Nat
    BY DEF TypeOK, TablesOK, Rows, WalletRows
  <1>5. e.wallet = w /\ e.saga = c /\ e.amount = a
    BY DEF EventOf, Event
  <1>6. Signed(e) = IF s = "debit" THEN -a ELSE a
    BY <1>2 DEF EventOf, Event, Signed, EventType, Steps
  <1>7. work[d] = Operation(s, wallets[w], a)
    BY <1>1, <1>2 DEF RowInv, NoLostUpdate, Holding
  <1>8. work[d].balance = wallets[w].balance + Signed(e)
    <2>1. CASE s = "debit"
      <3>1. Withdraw(wallets[w], a, Today, Today).balance = wallets[w].balance + (-a)
        BY <1>3, <1>4 DEF Withdraw, WalletRows
      <3> QED
        BY <1>6, <1>7, <2>1, <3>1 DEF Operation
    <2>2. CASE s # "debit"
      <3>1. Credit(wallets[w], a).balance = wallets[w].balance + a
        BY <1>3 DEF Credit, WalletRows
      <3> QED
        BY <1>6, <1>7, <2>2, <3>1 DEF Operation
    <2> QED
      BY <2>1, <2>2
  <1>9. /\ wallets' = [wallets EXCEPT ![w] = work[d]]
        /\ sagas' = [sagas EXCEPT ![c] = MarkedAs(s)]
        /\ events' = BagAdd(events, e)
        /\ UNCHANGED req
    BY <1>2 DEF Commit
  <1>10. BalancesMove(e)
    <2> HIDE DEF e
    <2> QED
      BY <1>3, <1>4, <1>5, <1>8, <1>9 DEF BalancesMove, TypeOK, TablesOK
  <1>11. Books(e)
    <2> HIDE DEF e
    <2> QED
      BY <1>3, <1>5, <1>9, <1>10 DEF Books
  <1>12. ASSUME SoleInv
         PROVE  HeldMoves(e)
    <2>1. sagas[c] = MarkedFrom(s)
      BY <1>1, <1>2, <1>12 DEF SoleInv, GuardIsFresh, PastGuard
    <2>2. /\ sagas'[c] = MarkedAs(s)
          /\ \A x \in Calls \ {c} : sagas'[x] = sagas[x]
      BY <1>2, <1>9 DEF TypeOK, TablesOK, SagaRows
    <2>3. Held(c)' = Held(c) - Signed(e)
      <3>1. CASE s = "debit"
        BY <1>3, <1>6, <1>9, <2>1, <2>2, <3>1 DEF Held, MarkedFrom, MarkedAs
      <3>2. CASE s # "debit"
        <4>1. Held(c) = a /\ Held(c)' = 0
          BY <1>2, <1>9, <2>1, <2>2, <3>2 DEF Held, MarkedFrom, MarkedAs, Steps
        <4> QED
          BY <1>3, <1>6, <3>2, <4>1
      <3> QED
        BY <3>1, <3>2
    <2>4. ASSUME NEW x \in Calls, x # c
          PROVE  Held(x)' = Held(x) - 0
      <3>1. Held(x) \in Int /\ Held(x)' = Held(x)
        BY <1>9, <2>2, <2>4, RequestType DEF Held
      <3> QED
        BY <3>1
    <2> QED
      BY <1>5, <2>3, <2>4 DEF HeldMoves
  <1> QED
    BY <1>11, <1>12 DEF BookStep

(* Outside its transactions a request stores at most the WALLET_CREATED of *)
(* an empty receiver, and no saga that it creates or gives up holds money. *)
LEMMA CallBooks ==
  ASSUME TypeOK, SagaInv, RowInv, NEW c \in Calls, CallStep(c) \/ CallError(c)
  PROVE  BookStep
  <1>0. UNCHANGED req
    BY CallMoves DEF CallMove
  <1>1. ASSUME NEW acked, GetOrCreateReceiver(c, acked)
        PROVE  BookStep
    <2> DEFINE to == req[c].to
               e == Event("WALLET_CREATED", to, NoSaga, 0)
    <2>1. to \in Wallets /\ UNCHANGED <<sagas, req>>
      BY <1>1, RequestType DEF GetOrCreateReceiver
    <2>2. BalancesStay
      <3>1. CASE Exists(wallets[to])
        BY <1>1, <3>1 DEF GetOrCreateReceiver, BalancesStay
      <3>2. CASE ~Exists(wallets[to])
        <4>1. wallets[to].balance = 0
          BY <2>1, <3>2 DEF RowInv, AbsentIsEmpty
        <4>2. wallets' = [wallets EXCEPT ![to] = NewWallet(wallets[req[c].from].currency)]
          BY <1>1, <3>2 DEF GetOrCreateReceiver
        <4> QED
          BY <2>1, <4>1, <4>2 DEF NewWallet, TypeOK, TablesOK, BalancesStay
      <3> QED
        BY <3>1, <3>2
    <2>3. e.wallet = to /\ e.saga = NoSaga /\ e.amount = 0 /\ Signed(e) = 0
      BY DEF Event, Signed
    <2>4. \A w \in Wallets : wallets[w].balance \in Nat
      BY DEF TypeOK, TablesOK, Rows, WalletRows
    <2>5. BalancesMove(e)
      BY <2>2, <2>3, <2>4 DEF BalancesStay, BalancesMove
    <2>6. CASE AnnouncesWallet(to)
      <3>1. Books(e)
        BY <1>1, <2>1, <2>3, <2>5, <2>6 DEF Books, GetOrCreateReceiver
      <3> QED
        BY <2>1, <2>3, <3>1, PlainHeld DEF BookStep
    <2>7. CASE ~AnnouncesWallet(to)
      <3>1. UNCHANGED events
        BY <1>1, <2>7 DEF GetOrCreateReceiver
      <3> QED
        BY <2>1, <2>2, <3>1, PlainHeld DEF BookStep
    <2> QED
      BY <2>6, <2>7
  <1>2. ASSUME NEW state \in {"PENDING", "FAILED"}, sagas' = [sagas EXCEPT ![c] = state],
               SoleDriver => sagas[c] \in {"NONE", "PENDING"}, UNCHANGED <<events, wallets>>
        PROVE  BookStep
    <2>1. ASSUME SoleDriver
          PROVE  HeldStays
      BY <1>0, <1>2, <2>1 DEF HeldStays, Held, TypeOK, TablesOK, SagaRows
    <2> QED
      BY <1>2, <2>1 DEF BookStep, BalancesStay
  <1>3. ASSUME NEW acked, CreateSaga(c, acked)
        PROVE  BookStep
    <2>1. /\ sagas' = [sagas EXCEPT ![c] = "PENDING"] /\ sagas[c] = "NONE"
          /\ UNCHANGED <<events, wallets>>
      BY <1>3 DEF CreateSaga, InitialState, SagaInv, StateTellsDebit, BeforeSaga
    <2> QED
      BY <1>2, <2>1
  <1>4. CASE MarkFailed(c)
    <2>1. /\ sagas' = [sagas EXCEPT ![c] = "FAILED"] /\ UNCHANGED <<events, wallets>>
          /\ SoleDriver => sagas[c] = "PENDING"
      BY <1>4 DEF MarkFailed, MarkAsFailed, SoleDriver, SagaInv, HandlerHolds
    <2> QED
      BY <1>2, <2>1
  <1>5. CASE UNCHANGED <<wallets, sagas, events>>
    BY <1>0, <1>5, PlainHeld DEF BookStep, BalancesStay
  <1>6. CASE \/ CheckIdempotency(c) \/ FindSender(c) \/ ReloadSaga(c) \/ FailEarly(c)
             \/ FailHandler(c)
    BY <1>5, <1>6 DEF CheckIdempotency, FindSender, ReloadSaga, FailEarly, FailHandler, db
  <1>7. ASSUME NEW saved, NEW acked, SaveKey(c, saved, acked)
        PROVE  UNCHANGED <<wallets, sagas, events>>
    BY <1>7 DEF SaveKey
  <1> QED
    BY <1>1, <1>3, <1>4, <1>5, <1>6, <1>7 DEF CallStep, CallError

(* Every step books or leaves the money alone. *)
LEMMA NextBooks ==
  ASSUME TypeOK, SagaInv, RowInv, [Next]_vars
  PROVE  BookStep
  <1>q. ASSUME UNCHANGED <<wallets, sagas, events, req>>
        PROVE  BookStep
    BY <1>q, PlainHeld DEF BookStep, BalancesStay
  <1>1. ASSUME NEW i \in Instances, RecoveryStep(i) \/ RecoveryError(i)
        PROVE  BookStep
    BY <1>1, <1>q, RecoveryMoves DEF RecoveryMove
  <1>2. ASSUME NEW d \in Drivers, SagaStep(d) \/ SagaError(d)
        PROVE  BookStep
    <2>1. CASE LockWallet(d) \/ ReadSaga(d) \/ WriteSaga(d)
      BY <1>q, <2>1, LockRows, MarkRows DEF db
    <2>2. CASE LeaveMove(d)
      BY <1>q, <2>2 DEF LeaveMove, db
    <2> QED
      BY <1>2, <2>1, <2>2, SagaLeaves, CommitBooks DEF SagaStep, SagaError
  <1>3. ASSUME NEW c \in Calls, Age(c)
        PROVE  BookStep
    BY <1>3, <1>q DEF Age, db
  <1>4. CASE Replicate \/ UNCHANGED vars
    BY <1>4, <1>q DEF Replicate, vars, db
  <1> QED
    BY <1>1, <1>2, <1>3, <1>4, CallBooks, WalletBooks DEF Next

(* What a booking does to the ledgers. *)
LEMMA LedgerBooks ==
  ASSUME Summable(events), NEW e, Books(e)
  PROVE  /\ Summable(events)'
         /\ \A w \in Wallets :
              /\ LedgerOf(w, events) \in Int
              /\ LedgerOf(w, events)'
                   = LedgerOf(w, events) + IF e.wallet = w THEN Signed(e) ELSE 0
         /\ BroughtIn(events) \in Int
         /\ BroughtIn(events)' = BroughtIn(events) + IF e.saga = NoSaga THEN Signed(e) ELSE 0
  <1> DEFINE o == Event("WALLET_CREATED", e.wallet, NoSaga, 0)
  <1>1. e.amount \in Nat /\ o.amount \in Nat /\ Signed(o) = 0 /\ Signed(e) \in Int
    BY SignedType DEF Books, Event, Signed
  <1>2. \E B : /\ B \in {events, BagAdd(events, o)} /\ events' = BagAdd(B, e)
    BY DEF Books
  <1>3. PICK B : B \in {events, BagAdd(events, o)} /\ events' = BagAdd(B, e)
    BY <1>2
  <1> HIDE DEF o
  <1>4. /\ BroughtIn(events) \in Int
        /\ \A w \in Wallets : LedgerOf(w, events) \in Int
    BY <1>1, LedgerAdd, BroughtInAdd
  <1>5. /\ Summable(B) /\ BroughtIn(B) = BroughtIn(events)
        /\ \A w \in Wallets : LedgerOf(w, B) = LedgerOf(w, events)
    <2>1. CASE B = events
      BY <2>1
    <2>2. CASE B = BagAdd(events, o)
      <3>1. BroughtIn(B) = BroughtIn(events) + 0
        BY <1>1, <2>2, BroughtInAdd
      <3>2. \A w \in Wallets : LedgerOf(w, B) = LedgerOf(w, events) + 0
        BY <1>1, <2>2, LedgerAdd
      <3> QED
        BY <1>1, <1>4, <2>2, <3>1, <3>2, SummableAdd
    <2> QED
      BY <1>3, <2>1, <2>2
  <1>6. /\ Summable(events') /\ BroughtIn(events') = BroughtIn(events)'
        /\ \A w : LedgerOf(w, events)' = LedgerOf(w, events')
    <2>1. Summable(events')
      BY <1>1, <1>3, <1>5, SummableAdd
    <2> QED
      BY <2>1 DEF BroughtIn, LedgerOf, Entries, Signed
  <1>7. Summable(events)'
    BY <1>6 DEF Summable
  <1> QED
    BY <1>1, <1>3, <1>4, <1>5, <1>6, <1>7, LedgerAdd, BroughtInAdd

(* Every step keeps the ledgers. *)
LedgerInv == Summable(events) /\ LedgerIsBalance

(* Every step books what it does to the balances. *)
LEMMA LedgerInvStep ==
  ASSUME TypeOK, SagaInv, RowInv, LedgerInv, [Next]_vars
  PROVE  LedgerInv'
  <1>1. BookStep
    BY NextBooks
  <1>2. CASE UNCHANGED events /\ BalancesStay
    BY <1>2 DEF BalancesStay, LedgerInv, LedgerIsBalance, Summable, LedgerOf, Entries, Signed
  <1>3. ASSUME NEW e, Books(e)
        PROVE  LedgerInv'
    <2>1. \A w \in Wallets :
            wallets'[w].balance = wallets[w].balance + IF e.wallet = w THEN Signed(e) ELSE 0
      BY <1>3 DEF Books, BalancesMove
    <2>2. Summable(events)' /\ \A w \in Wallets : LedgerOf(w, events)'
            = LedgerOf(w, events) + IF e.wallet = w THEN Signed(e) ELSE 0
      BY <1>3, LedgerBooks DEF LedgerInv
    <2> QED
      BY <2>1, <2>2 DEF LedgerInv, LedgerIsBalance
  <1> QED
    BY <1>1, <1>2, <1>3 DEF BookStep

(* The opening rows of wallet_events, by wallet. *)
OpenedRow(w) == Event("WALLET_CREATED", w, NoSaga, 0)

PaidInRow(w) == Event("FUNDS_DEPOSITED", w, NoSaga, Opening[w].deposit)

OpeningOf(w) == IF Opening[w].deposit = 0 THEN {} ELSE {OpenedRow(w), PaidInRow(w)}

(* At first there are the events of the opening deposits, one of each. *)
LEMMA OpeningRows ==
  ASSUME Init
  PROVE  /\ Summable(events)
         /\ BagToSet(events) = UNION {OpeningOf(w) : w \in Wallets}
         /\ \A w \in Wallets : {e \in BagToSet(events) : e.wallet = w} = OpeningOf(w)
         /\ {e \in BagToSet(events) : e.saga = NoSaga} = BagToSet(events)
         /\ \A e \in BagToSet(events) : Entries(events)[e] = Signed(e)
  <1> DEFINE opened == {w \in Wallets : Opening[w].deposit # 0}
             o == [w \in Wallets |-> OpenedRow(w)]
             p == [w \in Wallets |-> PaidInRow(w)]
  <1>1. OpeningEvents = {o[w] : w \in opened} \cup {p[w] : w \in opened}
    BY DEF OpeningEvents, OpenedRow, PaidInRow
  <1>2. IsFiniteSet(opened)
    BY FiniteAssumption, FiniteSub
  <1>3. IsFiniteSet({o[w] : w \in opened}) /\ IsFiniteSet({p[w] : w \in opened})
    <2> HIDE DEF o, p, opened
    <2> QED
      BY <1>2, FiniteImage
  <1>4. IsFiniteSet(OpeningEvents)
    <2> HIDE DEF o, p, opened
    <2> QED
      BY <1>1, <1>3, FiniteUnion
  <1>5. BagToSet(events) = OpeningEvents /\ IsABag(events) /\ \A e \in OpeningEvents : events[e] = 1
    BY DEF Init, BagToSet, SetToBag, IsABag
  <1>6. \A e \in OpeningEvents : \E w \in opened : e \in {OpenedRow(w), PaidInRow(w)}
    BY DEF OpeningEvents, OpenedRow, PaidInRow
  <1>7. \A w \in Wallets :
          /\ OpenedRow(w).wallet = w /\ OpenedRow(w).saga = NoSaga /\ OpenedRow(w).amount = 0
          /\ PaidInRow(w).wallet = w /\ PaidInRow(w).saga = NoSaga
          /\ PaidInRow(w).amount \in Nat
    BY RequestsAssumption DEF OpenedRow, PaidInRow, Event
  <1>8. \A w \in opened : OpenedRow(w) \in OpeningEvents /\ PaidInRow(w) \in OpeningEvents
    BY DEF OpeningEvents, OpenedRow, PaidInRow
  <1>9. \A e \in OpeningEvents : e.amount \in Nat /\ e.saga = NoSaga
    BY <1>6, <1>7
  <1>10. Summable(events)
    BY <1>4, <1>5, <1>9 DEF Summable
  <1>11. OpeningEvents = UNION {OpeningOf(w) : w \in Wallets}
    BY <1>6, <1>8 DEF OpeningOf
  <1>12. \A w \in Wallets : {e \in OpeningEvents : e.wallet = w} = OpeningOf(w)
    BY <1>6, <1>7, <1>8 DEF OpeningOf
  <1>13. \A e \in OpeningEvents : Entries(events)[e] = Signed(e)
    <2>1. \A e \in OpeningEvents : Signed(e) \in Int
      BY <1>9, SignedType
    <2> QED
      BY <1>5, <2>1 DEF Entries
  <1> QED
    BY <1>5, <1>9, <1>10, <1>11, <1>12, <1>13

(* The opening rows of a wallet say its opening balance. *)
LEMMA LedgerInvInit ==
  ASSUME Init
  PROVE  LedgerInv
  <1> DEFINE f == Entries(events)
  <1>1. ASSUME NEW w \in Wallets
        PROVE  wallets[w].balance = SumFunctionOnSet(f, OpeningOf(w))
    <2>1. Opening[w].deposit \in Nat /\ wallets[w] = OpeningRow(w)
      BY RequestsAssumption DEF Init
    <2>2. CASE Opening[w].deposit = 0
      BY <2>1, <2>2, SumEmpty DEF OpeningOf, OpeningRow, AbsentWallet, NewWallet
    <2>3. CASE Opening[w].deposit # 0
      <3>1. OpeningOf(w) = {OpenedRow(w)} \cup {PaidInRow(w)}
        BY <2>3 DEF OpeningOf
      <3>2. /\ Signed(OpenedRow(w)) = 0 /\ Signed(PaidInRow(w)) = Opening[w].deposit
            /\ OpenedRow(w) # PaidInRow(w)
        BY DEF OpenedRow, PaidInRow, Signed, Event
      <3>3. OpenedRow(w) \in BagToSet(events) /\ PaidInRow(w) \in BagToSet(events)
        BY <3>1, OpeningRows
      <3>4. f[OpenedRow(w)] = 0 /\ f[PaidInRow(w)] = Opening[w].deposit
        BY <3>2, <3>3, OpeningRows
      <3> HIDE DEF f
      <3>5. IsFiniteSet({OpenedRow(w)}) /\ SumFunctionOnSet(f, {OpenedRow(w)}) = 0
        BY <3>4, SumOne
      <3>6. PaidInRow(w) \notin {OpenedRow(w)} /\ \A x \in {OpenedRow(w)} : f[x] \in Int
        BY <3>2, <3>4
      <3>7. SumFunctionOnSet(f, OpeningOf(w)) = 0 + Opening[w].deposit
        <4> DEFINE S == {OpenedRow(w)}
                   x == PaidInRow(w)
        <4>1. OpeningOf(w) = S \cup {x} /\ IsFiniteSet(S) /\ x \notin S /\ f[x] \in Int
          BY <2>1, <3>1, <3>4, <3>5, <3>6
        <4>2. \A y \in S : f[y] \in Int
          BY <3>6
        <4>3. SumFunctionOnSet(f, S) = 0 /\ f[x] = Opening[w].deposit
          BY <3>4, <3>5
        <4> HIDE DEF S, x
        <4>4. SumFunctionOnSet(f, S \cup {x}) = SumFunctionOnSet(f, S) + f[x]
          BY <4>1, <4>2, SumInsert
        <4> QED
          BY <4>1, <4>3, <4>4
      <3>8. OpeningRow(w).balance = 0 + Opening[w].deposit
        BY <2>3 DEF OpeningRow, Deposit, NewWallet
      <3> QED
        BY <2>1, <3>7, <3>8
    <2> QED
      BY <2>2, <2>3
  <1> QED
    BY <1>1, OpeningRows DEF LedgerInv, LedgerIsBalance, LedgerOf

(* Replaying the rows of wallet_events gives every wallet's balance, with  *)
(* any number of requests, recoverers, errors and crashes.                 *)
THEOREM LedgersAreBalances == Spec => []LedgerIsBalance
  <1>1. Init => LedgerInv
    BY LedgerInvInit
  <1>2. TypeOK /\ SagaInv /\ RowInv /\ LedgerInv /\ [Next]_vars => LedgerInv'
    BY LedgerInvStep
  <1>3. LedgerInv => LedgerIsBalance
    BY DEF LedgerInv
  <1> QED
    BY <1>1, <1>2, <1>3, TypeCorrect, SagaInvariant, RowInvariant, PTL DEF Spec

(* The balances and what the sagas hold, to add up. *)
Balances == [w \in Wallets |-> wallets[w].balance]

Holdings == [c \in Calls |-> Held(c)]

(* MoneyConserved as an equation between two sums over fixed finite sets. *)
LEMMA MoneySums ==
  ASSUME TypeOK
  PROVE  /\ \A w \in Wallets : Balances[w] \in Int
         /\ \A c \in Calls : Holdings[c] \in Int
         /\ SumFunctionOnSet(Balances, Wallets) \in Int
         /\ SumFunctionOnSet(Holdings, Calls) \in Int
         /\ MoneyConserved <=>
              SumFunctionOnSet(Balances, Wallets) + SumFunctionOnSet(Holdings, Calls)
                = BroughtIn(events)
  <1>1. \A w \in Wallets : Balances[w] \in Int
    BY DEF Balances, TypeOK, TablesOK, Rows, WalletRows
  <1>2. \A c \in Calls : Holdings[c] \in Int
    BY RequestType DEF Holdings, Held
  <1>3. DOMAIN Balances = Wallets /\ DOMAIN Holdings = Calls
    BY DEF Balances, Holdings
  <1>4. /\ SumFunctionOnSet(Balances, Wallets) \in Int
        /\ SumFunctionOnSet(Holdings, Calls) \in Int
    BY <1>1, <1>2, FiniteAssumption, SumType
  <1>5. /\ SumFunction(Balances) = SumFunctionOnSet(Balances, Wallets)
        /\ SumFunction(Holdings) = SumFunctionOnSet(Holdings, Calls)
    BY <1>3 DEF SumFunction
  <1> QED
    BY <1>1, <1>2, <1>4, <1>5 DEF MoneyConserved, Balances, Holdings

(* The same equation after a step. *)
LEMMA MoneySumsNext ==
  ASSUME SumFunctionOnSet(Balances', Wallets) + SumFunctionOnSet(Holdings', Calls)
           = BroughtIn(events)'
  PROVE  MoneyConserved'
  <1>1. DOMAIN Balances' = Wallets /\ DOMAIN Holdings' = Calls
    BY DEF Balances, Holdings
  <1>2. /\ SumFunction(Balances') = SumFunctionOnSet(Balances', Wallets)
        /\ SumFunction(Holdings') = SumFunctionOnSet(Holdings', Calls)
    BY <1>1 DEF SumFunction
  <1>3. MoneyConserved' <=> SumFunction(Balances') + SumFunction(Holdings') = BroughtIn(events)'
    BY DEF MoneyConserved, Balances, Holdings
  <1> QED
    BY <1>2, <1>3

(* Every step of sole drivers conserves the money: a plain booking changes *)
(* the balances and what was brought in alike, one of a saga moves money   *)
(* between a wallet and the saga.                                          *)
LEMMA MoneyStep ==
  ASSUME SoleDriver, TypeOK, TypeOK', SagaInv, RowInv, SoleInv, LedgerInv, MoneyConserved,
         [Next]_vars
  PROVE  MoneyConserved'
  <1> DEFINE in == BroughtIn(events)
             all == SumFunctionOnSet(Balances, Wallets)
             held == SumFunctionOnSet(Holdings, Calls)
             all1 == SumFunctionOnSet(Balances', Wallets)
             held1 == SumFunctionOnSet(Holdings', Calls)
  <1>0. all \in Int /\ held \in Int /\ all + held = in
    BY MoneySums
  <1> SUFFICES all1 + held1 = in'
    BY MoneySumsNext
  <1>1. BookStep
    BY NextBooks
  <1>2. CASE UNCHANGED events /\ BalancesStay /\ HeldStays
    <2>1. Balances' = Balances /\ Holdings' = Holdings
      BY <1>2 DEF Balances, Holdings, BalancesStay, HeldStays
    <2>2. in' = in
      BY <1>2 DEF BroughtIn, Entries, Signed
    <2> QED
      BY <1>0, <2>1, <2>2
  <1>3. ASSUME NEW e, Books(e), HeldMoves(e)
        PROVE  all1 + held1 = in'
    <2> DEFINE w == e.wallet
               x == Signed(e)
    <2>1. w \in Wallets /\ x \in Int /\ e.saga \in Calls \cup {NoSaga}
      BY <1>3, SignedType DEF Books
    <2>2. in' = in + (IF e.saga = NoSaga THEN x ELSE 0) /\ in \in Int
      BY <1>3, LedgerBooks DEF LedgerInv
    <2>3. all1 = all + x
      <3>1. \A v \in Wallets : Balances[v] \in Int
        BY MoneySums
      <3>2. Balances'[w] = Balances[w] + x
        BY <1>3, <2>1 DEF Books, BalancesMove, Balances
      <3>3. ASSUME NEW v \in Wallets \ {w}
            PROVE  Balances'[v] = Balances[v]
        <4>1. Balances'[v] = Balances[v] + 0
          BY <1>3, <3>3 DEF Books, BalancesMove, Balances
        <4> QED
          BY <3>1, <4>1
      <3> HIDE DEF w, x
      <3>4. all1 = all - Balances[w] + Balances'[w]
        BY <2>1, <3>1, <3>2, <3>3, FiniteAssumption, SumChange
      <3> HIDE DEF all, all1
      <3> QED
        BY <1>0, <2>1, <3>1, <3>2, <3>4
    <2>4. held1 = held - IF e.saga = NoSaga THEN 0 ELSE x
      <3>1. \A c \in Calls : Holdings[c] \in Int
        BY MoneySums
      <3>2. \A c \in Calls : Holdings'[c] = Holdings[c] - IF e.saga = c THEN x ELSE 0
        BY <1>3 DEF HeldMoves, Holdings
      <3>3. \A c \in Calls : e.saga # c => Holdings'[c] = Holdings[c]
        BY <3>1, <3>2
      <3> HIDE DEF x
      <3>4. CASE e.saga = NoSaga
        <4>1. \A c \in Calls : Holdings'[c] = Holdings[c]
          BY <3>3, <3>4, DriversAssumption
        <4>2. held1 = held
          BY <4>1, FiniteAssumption, SumEqual
        <4> HIDE DEF held, held1
        <4> QED
          BY <1>0, <3>4, <4>2
      <3>5. CASE e.saga # NoSaga
        <4> DEFINE c == e.saga
        <4>1. c \in Calls
          BY <2>1, <3>5
        <4>2. Holdings'[c] = Holdings[c] - x
          BY <3>2, <4>1
        <4> HIDE DEF c
        <4>3. \A b \in Calls \ {c} : Holdings'[b] = Holdings[b]
          BY <3>3 DEF c
        <4>4. held1 = held - Holdings[c] + Holdings'[c]
          BY <2>1, <3>1, <4>1, <4>2, <4>3, FiniteAssumption, SumChange
        <4> HIDE DEF held, held1
        <4> QED
          BY <1>0, <2>1, <3>1, <3>5, <4>1, <4>2, <4>4
      <3> QED
        BY <3>4, <3>5
    <2> HIDE DEF all, held, all1, held1, in, x
    <2> QED
      BY <1>0, <2>1, <2>2, <2>3, <2>4
  <1> QED
    BY <1>1, <1>2, <1>3 DEF BookStep

(* At first the money is what the opening deposits brought in. *)
LEMMA MoneyInit ==
  ASSUME Init
  PROVE  MoneyConserved
  <1> DEFINE S == BagToSet(events)
             f == Entries(events)
             p == [w \in Wallets |-> OpeningOf(w)]
  <1>1. TypeOK /\ LedgerInv
    BY TypeInit, LedgerInvInit
  <1>2. S = UNION {p[w] : w \in Wallets} /\ p \in [Wallets -> SUBSET S] /\ IsFiniteSet(S)
    BY OpeningRows DEF Summable
  <1>3. \A v, w \in Wallets : v # w => p[v] \cap p[w] = {}
    BY OpeningRows
  <1>4. \A w \in Wallets : Balances[w] = SumFunctionOnSet(f, p[w])
    BY <1>1, OpeningRows DEF LedgerInv, LedgerIsBalance, LedgerOf, Balances
  <1>5. \A x \in S : f[x] \in Int
    BY OpeningRows, EntryType
  <1>6. BroughtIn(events) = SumFunctionOnSet(f, S)
    BY OpeningRows DEF BroughtIn
  <1>7. SumFunctionOnSet(Holdings, Calls) = 0
    <2>1. \A c \in Calls : Holdings[c] = 0
      BY DEF Init, Holdings, Held
    <2> QED
      BY <2>1, FiniteAssumption, SumZero
  <1> HIDE DEF S, f, p
  <1>8. SumFunctionOnSet(f, S) = SumFunctionOnSet(Balances, Wallets)
    BY <1>2, <1>3, <1>4, <1>5, FiniteAssumption, SumPartition
  <1>9. SumFunctionOnSet(Balances, Wallets) \in Int
    BY <1>1, MoneySums
  <1> QED
    BY <1>1, <1>6, <1>7, <1>8, <1>9, MoneySums

(* Transfers neither make nor destroy money, for any number of wallets and *)
(* requests, as long as a saga has one driver at a time.                   *)
THEOREM MoneyIsConserved ==
  ASSUME SoleDriver
  PROVE  Spec => []MoneyConserved
  <1>1. Init => LedgerInv /\ MoneyConserved
    BY LedgerInvInit, MoneyInit
  <1>2. TypeOK /\ TypeOK' /\ SagaInv /\ RowInv /\ SoleInv /\ LedgerInv /\ MoneyConserved
          /\ [Next]_vars => LedgerInv' /\ MoneyConserved'
    BY LedgerInvStep, MoneyStep
  <1> QED
    BY <1>1, <1>2, TypeCorrect, SagaInvariant, RowInvariant, SoleInvariant, PTL DEF Spec
=============================================================================
