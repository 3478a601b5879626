------------------------ MODULE TransferSagaService ------------------------
(***************************************************************************)
(* Money transfers between wallets: TransferSagaService.executeTransfer,   *)
(* run by any number of concurrent requests (Calls), and recoverSaga, run  *)
(* by the SagaRecoveryService of every API instance (Instances), against   *)
(* one PostgreSQL database.  Requests and recoverers are the drivers of    *)
(* sagas; every await of the code at which another driver can interfere is *)
(* a step boundary.  The wallet transactions of WalletService run beside   *)
(* them; each holds its wallet's row lock from its first statement to its  *)
(* commit, so here each of them is one step.                               *)
(*                                                                         *)
(* A call creates at most one saga, so the saga is named after the call.   *)
(***************************************************************************)
EXTENDS Wallet, TransferSaga, FiniteSets, Bags, BagsExt, Functions

CONSTANTS
  Wallets,           \* wallet ids
  Currencies,        \* ISO codes in use
  DefaultCurrency,   \* 'USD', what a deposit creates a wallet with
  Opening,           \* per wallet: currency and first deposit, 0 for no wallet
  Calls,             \* executeTransfer requests
  Instances,         \* API processes, each with one SagaRecoveryService
  RequestIds,        \* values of the X-Request-ID header
  NoRequestId,       \* the header is missing
  NoSaga,            \* no saga: an event of a plain deposit or withdrawal
  Free,              \* a row lock nobody holds
  Requests,          \* the parameters a call may have
  Amounts,           \* amounts of plain deposits and withdrawals
  Limits,            \* daily limits an operator may set, NoLimit to remove one
  MaxRetries,        \* configService.maxRetries
  Batch,             \* take: 10
  Overlap,           \* a request may outlive configService.sagaStuckThreshold
  ReadReplica,       \* configService.databaseReadHost is set
  MaxFaults,         \* bound on errors and crashes
  MaxOps             \* bound on plain wallet transactions

Drivers == Calls \cup Instances

ASSUME DriversAssumption ==
  /\ Calls \cap Instances = {}
  /\ NoSaga \notin Calls
  /\ Free \notin Drivers
  /\ NoRequestId \notin RequestIds

ASSUME ConfigAssumption ==
  /\ MaxRetries \in Nat \ {0}
  /\ Batch \in Nat \ {0}
  /\ MaxFaults \in Nat
  /\ MaxOps \in Nat
  /\ Overlap \in BOOLEAN
  /\ ReadReplica \in BOOLEAN

(* The DTOs admit positive amounts only. *)
ASSUME RequestsAssumption ==
  /\ Requests \subseteq [from : Wallets, to : Wallets, amount : Nat \ {0},
                         rid : RequestIds \cup {NoRequestId}]
  /\ Amounts \subseteq Nat \ {0}
  /\ Limits \subseteq Nat \cup {NoLimit}
  /\ DefaultCurrency \in Currencies
  /\ Opening \in [Wallets -> [currency : Currencies, deposit : Nat]]

(* So that balances and amounts add up. *)
ASSUME FiniteAssumption == IsFiniteSet(Wallets) /\ IsFiniteSet(Calls)

(* Everything happens on one day. *)
Today == 1

VARIABLES
  wallets,     \* the wallets table
  sagas,       \* the state column of transfer_sagas
  events,      \* the wallet_events table, a bag of rows
  outbox,      \* rows ever written to outbox_events, a bag
  idem,        \* idempotency_keys: the call whose result a key answers with
  published,   \* sagas whose TRANSFER_FAILED went straight to the broker
  replica,     \* what the read replica shows of the three tables read there
  walletLock,  \* the transaction that holds a wallet's row
  sagaLock,    \* the transaction that holds a saga's row
  req,         \* the parameters of a call
  pc,          \* where a driver is
  step,        \* the transactional step it is at
  job,         \* the saga it works on
  attempt,     \* attempt of executeWithRetry
  work,        \* the wallet entity in the memory of its transaction
  queue,       \* sagas a recoverer found and has not yet tried
  old,         \* sagas whose updated_at has passed the stuck threshold
  faults,      \* errors and crashes so far
  ops          \* plain wallet transactions so far

db == <<wallets, sagas, events, outbox, idem>>
locks == <<walletLock, sagaLock>>
memory == <<pc, step, job, attempt, work, queue>>
vars == <<db, published, replica, locks, req, memory, old, faults, ops>>

-----------------------------------------------------------------------------
(* Rows of wallet_events and outbox_events. *)
Event(type, wallet, saga, amount) ==
  [type |-> type, wallet |-> wallet, saga |-> saga, amount |-> amount]

(* A slip: the refund goes where the credit would have gone. *)
WalletOfReceiver(s, c) == IF s = "debit" THEN req[c].from ELSE req[c].to

(* The wallet a step locks, the event it stores, its wallet operation. *)
WalletOf(s, c) == IF s = "credit" THEN req[c].to ELSE req[c].from

(* A slip: the refund is stored as TRANSFER_FAILED. *)
EventTypeAsFailed(s) ==
  CASE s = "debit"      -> "FUNDS_WITHDRAWN"
    [] s = "credit"     -> "FUNDS_DEPOSITED"
    [] s = "compensate" -> "TRANSFER_FAILED"

EventType(s) ==
  CASE s = "debit"      -> "FUNDS_WITHDRAWN"
    [] s = "credit"     -> "FUNDS_DEPOSITED"
    [] s = "compensate" -> "TRANSFER_COMPENSATED"

EventOf(s, c) == Event(EventType(s), WalletOf(s, c), c, req[c].amount)

MayOperate(s, row, amount) ==
  IF s = "debit" THEN MayWithdraw(row, amount, Today) ELSE MayCredit(row, amount)

Operation(s, row, amount) ==
  IF s = "debit" THEN Withdraw(row, amount, Today, Today) ELSE Credit(row, amount)

Initiated(c) == Event("TRANSFER_INITIATED", req[c].from, c, req[c].amount)

Completed(c) == Event("TRANSFER_COMPLETED", req[c].from, c, req[c].amount)

(* Reads outside a transaction go to the replica when there is one. *)
Tables == [sagas |-> sagas, idem |-> idem, wallets |-> wallets]

View == IF ReadReplica THEN replica ELSE Tables

-----------------------------------------------------------------------------
NoWork == AbsentWallet(DefaultCurrency)

OpeningRow(w) ==
  IF Opening[w].deposit = 0
  THEN AbsentWallet(Opening[w].currency)
  ELSE Deposit(NewWallet(Opening[w].currency), Opening[w].deposit)

OpeningEvents ==
  LET opened == {w \in Wallets : Opening[w].deposit # 0}
  IN  {Event("WALLET_CREATED", w, NoSaga, 0) : w \in opened}
        \cup {Event("FUNDS_DEPOSITED", w, NoSaga, Opening[w].deposit) : w \in opened}

Init ==
  /\ wallets = [w \in Wallets |-> OpeningRow(w)]
  /\ sagas = [c \in Calls |-> "NONE"]
  /\ events = SetToBag(OpeningEvents)
  /\ outbox = EmptyBag
  /\ idem = [r \in RequestIds |-> NoSaga]
  /\ published = {}
  /\ replica = [sagas |-> sagas, idem |-> idem, wallets |-> wallets]
  /\ walletLock = [w \in Wallets |-> Free]
  /\ sagaLock = [c \in Calls |-> Free]
  /\ req \in [Calls -> Requests]
  /\ pc = [d \in Drivers |-> IF d \in Calls THEN "start" ELSE "idle"]
  /\ step = [d \in Drivers |-> IF d \in Calls THEN "debit" ELSE "credit"]
  /\ job = [d \in Drivers |-> IF d \in Calls THEN d ELSE NoSaga]
  /\ attempt = [d \in Drivers |-> 0]
  /\ work = [d \in Drivers |-> NoWork]
  /\ queue = [i \in Instances |-> {}]
  /\ old = {}
  /\ faults = 0
  /\ ops = 0

-----------------------------------------------------------------------------
(* Helpers of the actions. *)
Fault == faults < MaxFaults /\ faults' = faults + 1

NoFault == UNCHANGED faults

Goto(d, label) == pc' = [pc EXCEPT ![d] = label]

(* A step may end well or with an error, which costs a fault. *)
Outcome(d, ok, label, otherwise) ==
  /\ Goto(d, IF ok THEN label ELSE otherwise)
  /\ IF ok THEN NoFault ELSE Fault

(* A driver starts a transactional step: executeWithRetry at attempt 0. *)
StartStep(d, s) ==
  /\ pc' = [pc EXCEPT ![d] = "begin"]
  /\ step' = [step EXCEPT ![d] = s]
  /\ attempt' = [attempt EXCEPT ![d] = 0]

(* A driver leaves its transactional steps. *)
Leave(d, label) ==
  /\ pc' = [pc EXCEPT ![d] = label]
  /\ step' = [step EXCEPT ![d] = IF d \in Calls THEN @ ELSE "credit"]
  /\ attempt' = [attempt EXCEPT ![d] = 0]

(* A slip: a debit that was refused is tried again. *)
ThrowAgain(d) ==
  CASE d \in Calls /\ step[d] = "debit"          -> StartStep(d, "debit")
    [] d \in Calls /\ step[d] = "credit"         -> Leave(d, "catch")
    [] d \in Calls /\ step[d] = "compensate"     -> Leave(d, "error")
    [] d \in Instances /\ step[d] # "compensate" -> StartStep(d, "compensate")
    [] d \in Instances /\ step[d] = "compensate" -> Leave(d, "loop")

(* An error escapes the step: in a request the catch of executeTransfer    *)
(* takes it, or, from compensate, the client; in a recoverer the catch of  *)
(* recoverSaga, which compensates, or, from compensate, the loop over the  *)
(* stuck sagas, which logs it and goes on.                                 *)
Throw(d) ==
  CASE d \in Calls /\ step[d] # "compensate"     -> Leave(d, "catch")
    [] d \in Calls /\ step[d] = "compensate"     -> Leave(d, "error")
    [] d \in Instances /\ step[d] # "compensate" -> StartStep(d, "compensate")
    [] d \in Instances /\ step[d] = "compensate" -> Leave(d, "loop")

(* Rollback or commit: the transaction's row locks and its entity are gone.*)
Release(d) ==
  /\ walletLock' = [w \in Wallets |-> IF walletLock[w] = d THEN Free ELSE walletLock[w]]
  /\ sagaLock' = [c \in Calls |-> IF sagaLock[c] = d THEN Free ELSE sagaLock[c]]
  /\ work' = [work EXCEPT ![d] = NoWork]

(* A slip: the wallet is read without its row lock. *)
RowUnlocked(w) == TRUE

(* SELECT ... FOR UPDATE waits until nobody holds the wallet's row. *)
RowFree(w) == walletLock[w] = Free

-----------------------------------------------------------------------------
(* executeTransfer up to the saga.  Until createSaga commits, an error     *)
(* goes straight to the client: the try block starts after it.             *)

(* The idempotency lookup, then the test for equal wallets. *)
CheckIdempotency(c) ==
  /\ pc[c] = "start"
  /\ LET known == req[c].rid # NoRequestId /\ View.idem[req[c].rid] # NoSaga
     IN  Goto(c, IF known THEN "replay"
                 ELSE IF req[c].from = req[c].to THEN "error" ELSE "findSender")
  /\ UNCHANGED <<db, published, replica, locks, req, step, job, attempt, work,
                 queue, old, faults, ops>>

FindSender(c) ==
  /\ pc[c] = "findSender"
  /\ Goto(c, IF Exists(View.wallets[req[c].from]) THEN "getOrCreate" ELSE "error")
  /\ UNCHANGED <<db, published, replica, locks, req, step, job, attempt, work,
                 queue, old, faults, ops>>

(* A slip: the currency check is missing. *)
CurrencyIgnored(a, b) == TRUE

SameCurrency(a, b) == a.currency = b.currency

(* getOrCreate stores WALLET_CREATED for a row it inserts, unless the      *)
(* wallet has events already.                                              *)
AnnouncesWallet(w) ==
  ~Exists(wallets[w]) /\ \A e \in BagToSet(events) : e.wallet # w

(* getOrCreate of the receiver, a transaction of its own that stays        *)
(* committed when the transfer fails later; then the currency check.  The  *)
(* currency of a row never changes, so the sender's is read here.  One     *)
(* step stands for the transaction: INSERT ... ON CONFLICT DO NOTHING      *)
(* waits for another creator of the row to commit and then finds its row,  *)
(* and the row stays locked to the end, so of two creators one runs after  *)
(* the other.                                                              *)
GetOrCreateReceiver(c, acked) ==
  LET to == req[c].to
      currency == wallets[req[c].from].currency
      fresh == ~Exists(wallets[to])
  IN  /\ pc[c] = "getOrCreate"
      /\ RowFree(to)
      /\ wallets' = IF fresh THEN [wallets EXCEPT ![to] = NewWallet(currency)] ELSE wallets
      /\ events' = IF AnnouncesWallet(to)
                   THEN BagAdd(events, Event("WALLET_CREATED", to, NoSaga, 0))
                   ELSE events
      /\ Outcome(c, acked,
                 IF SameCurrency(wallets[req[c].from], wallets'[to]) THEN "createSaga" ELSE "error",
                 "error")
      /\ UNCHANGED <<sagas, outbox, idem, published, replica, locks, req, step, job,
                     attempt, work, queue, old, ops>>

CreateSaga(c, acked) ==
  /\ pc[c] = "createSaga"
  /\ sagas' = [sagas EXCEPT ![c] = InitialState]
  /\ outbox' = BagAdd(outbox, Initiated(c))
  /\ Outcome(c, acked, "begin", "error")
  /\ UNCHANGED <<wallets, events, idem, published, replica, locks, req, step, job,
                 attempt, work, queue, old, ops>>

(* A statement before the saga fails. *)
FailEarly(c) ==
  /\ pc[c] \in {"start", "findSender", "getOrCreate", "createSaga"}
  /\ Outcome(c, FALSE, "begin", "error")
  /\ UNCHANGED <<db, published, replica, locks, req, step, job, attempt, work,
                 queue, old, ops>>
-----------------------------------------------------------------------------
(* executeTransactionalStep: one transaction per attempt. *)

(* SELECT ... FOR UPDATE of the wallet, the wallet operation, and its      *)
(* UPDATE, which nobody sees before the commit.  A missing wallet or an    *)
(* operation that throws rolls back; neither error is retryable.           *)
LockWallet(d) ==
  LET c == job[d]
      w == WalletOf(step[d], c)
  IN  /\ pc[d] = "begin"
      /\ RowFree(w)
      /\ \/ /\ MayOperate(step[d], wallets[w], req[c].amount)
            /\ walletLock' = [walletLock EXCEPT ![w] = d]
            /\ work' = [work EXCEPT ![d] = Operation(step[d], wallets[w], req[c].amount)]
            /\ Goto(d, "locked")
            /\ UNCHANGED <<step, attempt>>
         \/ /\ ~MayOperate(step[d], wallets[w], req[c].amount)
            /\ Throw(d)
            /\ UNCHANGED <<walletLock, work>>
      /\ UNCHANGED <<db, published, replica, sagaLock, req, job, queue, old, faults, ops>>

(* SELECT of the saga, without a lock, and the guard of its mark. *)
ReadSaga(d) ==
  /\ pc[d] = "locked"
  /\ \/ /\ MayMark(step[d], sagas[job[d]])
        /\ Goto(d, "marked")
        /\ UNCHANGED <<step, attempt, locks, work>>
     \/ /\ ~MayMark(step[d], sagas[job[d]])
        /\ Throw(d)
        /\ Release(d)
  /\ UNCHANGED <<db, published, replica, req, job, queue, old, faults, ops>>

(* UPDATE of the saga by its id: it waits for the row's lock, not for the  *)
(* state that was read.                                                    *)
WriteSaga(d) ==
  /\ pc[d] = "marked"
  /\ sagaLock[job[d]] = Free
  /\ sagaLock' = [sagaLock EXCEPT ![job[d]] = d]
  /\ Goto(d, "written")
  /\ UNCHANGED <<db, published, replica, walletLock, req, step, job, attempt, work,
                 queue, old, faults, ops>>

(* What the commit makes visible: the wallet, the saga, the wallet event,  *)
(* its outbox row and, for a credit, the TRANSFER_COMPLETED outbox row.    *)
OutboxAfter(s, c) ==
  IF s = "credit" THEN BagAdd(BagAdd(outbox, EventOf(s, c)), Completed(c))
                  ELSE BagAdd(outbox, EventOf(s, c))

Commit(d, acked) ==
  LET c == job[d] IN
  /\ pc[d] = "written"
  /\ wallets' = [wallets EXCEPT ![WalletOf(step[d], c)] = work[d]]
  /\ sagas' = [sagas EXCEPT ![c] = MarkedAs(step[d])]
  /\ events' = BagAdd(events, EventOf(step[d], c))
  /\ outbox' = OutboxAfter(step[d], c)
  /\ Release(d)
  /\ \/ acked /\ NoFault /\ Goto(d, "committed") /\ UNCHANGED <<step, attempt>>
     \/ ~acked /\ Fault /\ Throw(d)
  /\ UNCHANGED <<idem, published, replica, req, job, queue, old, ops>>

InTransaction == {"begin", "locked", "marked", "written"}

(* A statement fails and the transaction rolls back.  executeWithRetry     *)
(* starts the step again if the error is retryable and attempts are left.  *)
Abort(d, retryable) ==
  /\ pc[d] \in InTransaction
  /\ Fault
  /\ Release(d)
  /\ \/ /\ retryable /\ attempt[d] + 1 < MaxRetries
        /\ Goto(d, "begin")
        /\ attempt' = [attempt EXCEPT ![d] = @ + 1]
        /\ UNCHANGED step
     \/ ~(retryable /\ attempt[d] + 1 < MaxRetries) /\ Throw(d)
  /\ UNCHANGED <<db, published, replica, req, job, queue, old, ops>>

-----------------------------------------------------------------------------
(* What follows a committed step. *)

(* debitFromSender and creditToReceiver drop the wallet's cached balance.  *)
(* Redis may fail, and the error counts as the step's.                     *)
InvalidateCache(d, ok) ==
  /\ pc[d] = "committed"
  /\ step[d] # "compensate"
  /\ \/ ok /\ NoFault /\ step[d] = "debit" /\ StartStep(d, "credit")
     \/ ok /\ NoFault /\ step[d] = "credit"
           /\ Leave(d, IF d \in Calls THEN "saveKey" ELSE "loop")
     \/ ~ok /\ Fault /\ Throw(d)
  /\ UNCHANGED <<db, published, replica, locks, req, job, work, queue, old, ops>>

(* compensate publishes TRANSFER_FAILED itself, after its transaction; an  *)
(* error of the broker is rethrown, and nothing publishes it again.        *)
PublishFailed(d, ok) ==
  /\ pc[d] = "committed"
  /\ step[d] = "compensate"
  /\ published' = IF ok THEN published \cup {job[d]} ELSE published
  /\ IF ok THEN NoFault ELSE Fault
  /\ Leave(d, IF d \in Calls THEN "error" ELSE "loop")
  /\ UNCHANGED <<db, replica, locks, req, job, work, queue, old, ops>>

(* A slip: the key is stored for failed transfers too. *)
SaveKeyAnyway(c, saved, acked) ==
  LET r == req[c].rid IN
  /\ pc[c] \in {"saveKey", "catch"}
  /\ acked => saved
  /\ r = NoRequestId => acked
  /\ idem' = IF saved /\ r # NoRequestId THEN [idem EXCEPT ![r] = c] ELSE idem
  /\ Outcome(c, acked, "ok", "catch")
  /\ UNCHANGED <<wallets, sagas, events, outbox, published, replica, locks, req, step,
                 job, attempt, work, queue, old, ops>>

(* The idempotency key is an upsert of its own, after the transfer.  The   *)
(* save is a SELECT and then an INSERT: that of two concurrent saves of a  *)
(* key one may fail is one of the errors of the saveKey step.              *)
SaveKey(c, saved, acked) ==
  LET r == req[c].rid IN
  /\ pc[c] = "saveKey"
  /\ acked => saved
  /\ r = NoRequestId => acked
  /\ idem' = IF saved /\ r # NoRequestId THEN [idem EXCEPT ![r] = c] ELSE idem
  /\ Outcome(c, acked, "ok", "catch")
  /\ UNCHANGED <<wallets, sagas, events, outbox, published, replica, locks, req, step,
                 job, attempt, work, queue, old, ops>>

(* A slip: the error handler does not look for DEBITED. *)
ReloadSagaUndebited(c) ==
  LET seen == View.sagas[c] IN
  /\ pc[c] = "catch"
  /\ \/ seen \in {"PENDING", "DEBITED"} /\ Leave(c, "fail")
     \/ seen \in TerminalStates \cup {"NONE"} /\ Leave(c, "error")
  /\ UNCHANGED <<db, published, replica, locks, req, job, work, queue, old, faults, ops>>

(* The error handler reads the saga again, outside any transaction, and    *)
(* goes by its state.                                                      *)
ReloadSaga(c) ==
  LET seen == View.sagas[c] IN
  /\ pc[c] = "catch"
  /\ \/ seen = "DEBITED" /\ StartStep(c, "compensate")
     \/ seen = "PENDING" /\ Leave(c, "fail")
     \/ seen \in TerminalStates \cup {"NONE"} /\ Leave(c, "error")
  /\ UNCHANGED <<db, published, replica, locks, req, job, work, queue, old, faults, ops>>

(* markAsFailed on the entity read above, and an UPDATE by id. *)
MarkFailed(c) ==
  /\ pc[c] = "fail"
  /\ sagaLock[c] = Free
  /\ sagas' = [sagas EXCEPT ![c] = MarkAsFailed]
  /\ Goto(c, "error")
  /\ UNCHANGED <<wallets, events, outbox, idem, published, replica, locks, req, step,
                 job, attempt, work, queue, old, faults, ops>>

(* A statement of the error handler fails. *)
FailHandler(c) ==
  /\ pc[c] \in {"catch", "fail"}
  /\ Outcome(c, FALSE, "begin", "error")
  /\ UNCHANGED <<db, published, replica, locks, req, step, job, attempt, work,
                 queue, old, ops>>

-----------------------------------------------------------------------------
(* SagaRecoveryService.processStuckSagas.  isRecovering is pc # "idle". *)

Ended == {"replay", "ok", "error", "dead"}

(* A saga's updated_at passes the threshold.  Without Overlap no request   *)
(* is still at work on its saga by then.                                   *)
Age(c) ==
  /\ sagas[c] = "DEBITED"
  /\ c \notin old
  /\ Overlap \/ pc[c] \in Ended
  /\ old' = old \cup {c}
  /\ UNCHANGED <<db, published, replica, locks, req, memory, faults, ops>>

(* A slip: the recovery query asks for PENDING sagas. *)
StuckPending == {c \in old : View.sagas[c] = "PENDING"}

Stuck == {c \in old : View.sagas[c] = "DEBITED"}

(* At most Batch of the stuck sagas, in no particular order. *)
FindStuck(i) ==
  /\ pc[i] = "idle"
  /\ \E found \in SUBSET Stuck :
        /\ IF Cardinality(Stuck) <= Batch THEN found = Stuck
                                         ELSE Cardinality(found) = Batch
        /\ queue' = [queue EXCEPT ![i] = found]
        /\ Goto(i, IF found = {} THEN "idle" ELSE "loop")
  /\ UNCHANGED <<db, published, replica, locks, req, step, job, attempt, work, old,
                 faults, ops>>

(* recoverSaga: the saga is read again and credited if it is DEBITED.  A   *)
(* failing read is logged and the loop goes on.                            *)
RecoverSaga(i, c, ok) ==
  /\ pc[i] = "loop"
  /\ c \in queue[i]
  /\ queue' = [queue EXCEPT ![i] = @ \ {c}]
  /\ IF ok THEN NoFault ELSE Fault
  /\ \/ /\ ok /\ View.sagas[c] = "DEBITED"
        /\ StartStep(i, "credit")
        /\ job' = [job EXCEPT ![i] = c]
     \/ ~(ok /\ View.sagas[c] = "DEBITED") /\ UNCHANGED <<pc, step, attempt, job>>
  /\ UNCHANGED <<db, published, replica, locks, req, work, old, ops>>

FinishRound(i) ==
  /\ pc[i] = "loop"
  /\ queue[i] = {}
  /\ Goto(i, "idle")
  /\ job' = [job EXCEPT ![i] = NoSaga]
  /\ UNCHANGED <<db, published, replica, locks, req, step, attempt, work, queue, old,
                 faults, ops>>

-----------------------------------------------------------------------------
(* The process of a driver dies; PostgreSQL rolls its transaction back.  A *)
(* request is gone, a recoverer polls again after the restart.             *)
Crash(d) ==
  /\ pc[d] \notin Ended \cup {"start", "idle"}
  /\ Fault
  /\ Release(d)
  /\ Leave(d, IF d \in Calls THEN "dead" ELSE "idle")
  /\ queue' = [i \in Instances |-> IF i = d THEN {} ELSE queue[i]]
  /\ job' = [job EXCEPT ![d] = IF d \in Calls THEN @ ELSE NoSaga]
  /\ UNCHANGED <<db, published, replica, req, old, ops>>

(* The replica catches up with the primary. *)
Replicate ==
  /\ ReadReplica
  /\ replica # Tables
  /\ replica' = Tables
  /\ UNCHANGED <<db, published, locks, req, memory, old, faults, ops>>

-----------------------------------------------------------------------------
(* The transactions of WalletService: one wallet, one event, one outbox    *)
(* row.  created is the extra event of a deposit that makes the wallet.    *)
WalletTransaction(w, row, created, type, amount) ==
  LET e == Event(type, w, NoSaga, amount) IN
  /\ ops < MaxOps
  /\ ops' = ops + 1
  /\ RowFree(w)
  /\ wallets' = [wallets EXCEPT ![w] = row]
  /\ events' = IF created
               THEN BagAdd(BagAdd(events, Event("WALLET_CREATED", w, NoSaga, 0)), e)
               ELSE BagAdd(events, e)
  /\ outbox' = BagAdd(outbox, e)
  /\ UNCHANGED <<sagas, idem, published, replica, locks, req, memory, old, faults>>

DepositFunds(w, amount) ==
  LET row == IF Exists(wallets[w]) THEN wallets[w] ELSE NewWallet(DefaultCurrency)
  IN  /\ MayDeposit(row, amount)
      /\ WalletTransaction(w, Deposit(row, amount), AnnouncesWallet(w), "FUNDS_DEPOSITED", amount)

WithdrawFunds(w, amount) ==
  /\ MayWithdraw(wallets[w], amount, Today)
  /\ WalletTransaction(w, Withdraw(wallets[w], amount, Today, Today), FALSE,
                       "FUNDS_WITHDRAWN", amount)

FreezeWallet(w) ==
  /\ Exists(wallets[w]) /\ MayFreeze(wallets[w])
  /\ WalletTransaction(w, Freeze(wallets[w]), FALSE, "WALLET_FROZEN", 0)

UnfreezeWallet(w) ==
  /\ Exists(wallets[w])
  /\ WalletTransaction(w, Unfreeze(wallets[w]), FALSE, "WALLET_UNFROZEN", 0)

CloseWallet(w) ==
  /\ Exists(wallets[w]) /\ MayClose(wallets[w])
  /\ WalletTransaction(w, Close(wallets[w]), FALSE, "WALLET_CLOSED", 0)

SetLimit(w, limit) ==
  /\ Exists(wallets[w]) /\ MaySetDailyWithdrawalLimit(limit)
  /\ WalletTransaction(w, SetDailyWithdrawalLimit(wallets[w], limit), FALSE,
                       IF limit = NoLimit THEN "DAILY_WITHDRAWAL_LIMIT_REMOVED"
                                          ELSE "DAILY_WITHDRAWAL_LIMIT_SET", 0)

-----------------------------------------------------------------------------
(* What the drivers do of themselves, and what is done to them. *)
CallStep(c) ==
  \/ CheckIdempotency(c)
  \/ FindSender(c)
  \/ GetOrCreateReceiver(c, TRUE)
  \/ CreateSaga(c, TRUE)
  \/ SaveKey(c, TRUE, TRUE)
  \/ ReloadSaga(c)
  \/ MarkFailed(c)

SagaStep(d) ==
  \/ LockWallet(d)
  \/ ReadSaga(d)
  \/ WriteSaga(d)
  \/ Commit(d, TRUE)
  \/ InvalidateCache(d, TRUE)
  \/ PublishFailed(d, TRUE)

RecoveryStep(i) ==
  \/ FindStuck(i)
  \/ \E c \in Calls : RecoverSaga(i, c, TRUE)
  \/ FinishRound(i)

CallError(c) ==
  \/ FailEarly(c)
  \/ GetOrCreateReceiver(c, FALSE)
  \/ CreateSaga(c, FALSE)
  \/ \E saved \in BOOLEAN : SaveKey(c, saved, FALSE)
  \/ FailHandler(c)

SagaError(d) ==
  \/ \E retryable \in BOOLEAN : Abort(d, retryable)
  \/ Commit(d, FALSE)
  \/ InvalidateCache(d, FALSE)
  \/ PublishFailed(d, FALSE)
  \/ Crash(d)

RecoveryError(i) == \E c \in Calls : RecoverSaga(i, c, FALSE)

WalletStep ==
  \E w \in Wallets :
    \/ \E a \in Amounts : DepositFunds(w, a)
    \/ \E a \in Amounts : WithdrawFunds(w, a)
    \/ FreezeWallet(w)
    \/ UnfreezeWallet(w)
    \/ CloseWallet(w)
    \/ \E l \in Limits : SetLimit(w, l)

Next ==
  \/ \E c \in Calls : CallStep(c) \/ CallError(c) \/ Age(c)
  \/ \E i \in Instances : RecoveryStep(i) \/ RecoveryError(i)
  \/ \E d \in Drivers : SagaStep(d) \/ SagaError(d)
  \/ WalletStep
  \/ Replicate

Spec == Init /\ [][Next]_vars

(* A request's promises are resolved and a recoverer's cron keeps firing;  *)
(* time passes; the replica catches up.  Nothing is assumed of faults, of  *)
(* operators or of plain deposits and withdrawals.                         *)
Fairness ==
  /\ \A c \in Calls : WF_vars(CallStep(c)) /\ WF_vars(Age(c))
  /\ \A i \in Instances : WF_vars(RecoveryStep(i))
  /\ \A d \in Drivers : WF_vars(SagaStep(d))
  /\ WF_vars(Replicate)

FairSpec == Spec /\ Fairness

-----------------------------------------------------------------------------
(* Properties. *)

Rows == WalletRows(Currencies)

SagaRows == [Calls -> TransferSagaState \cup {"NONE"}]

Keys == [RequestIds -> Calls \cup {NoSaga}]

Labels ==
  {"start", "findSender", "getOrCreate", "createSaga", "begin", "locked", "marked",
   "written", "committed", "saveKey", "catch", "fail", "idle", "loop"} \cup Ended

TablesOK ==
  /\ wallets \in [Wallets -> Rows]
  /\ sagas \in SagaRows
  /\ IsABag(events)
  /\ IsABag(outbox)
  /\ idem \in Keys
  /\ published \subseteq Calls
  /\ replica \in [sagas : SagaRows, idem : Keys, wallets : [Wallets -> Rows]]

LocksOK ==
  /\ walletLock \in [Wallets -> Drivers \cup {Free}]
  /\ sagaLock \in [Calls -> Drivers \cup {Free}]

(* A request works on its own saga; a recoverer at work has one, and never *)
(* debits.                                                                 *)
DriversOK ==
  /\ pc \in [Drivers -> Labels]
  /\ step \in [Drivers -> Steps]
  /\ job \in [Drivers -> Calls \cup {NoSaga}]
  /\ attempt \in [Drivers -> 0 .. MaxRetries - 1]
  /\ work \in [Drivers -> Rows]
  /\ queue \in [Instances -> SUBSET Calls]
  /\ \A c \in Calls : job[c] = c /\ pc[c] \notin {"idle", "loop"}
  /\ \A i \in Instances :
        /\ step[i] # "debit"
        /\ pc[i] \in {"idle", "loop", "committed"} \cup InTransaction
        /\ pc[i] \notin {"idle", "loop"} => job[i] \in Calls

(* Every variable has its type; in particular no balance is ever negative. *)
TypeOK ==
  /\ TablesOK
  /\ LocksOK
  /\ DriversOK
  /\ req \in [Calls -> Requests]
  /\ old \subseteq Calls
  /\ faults \in 0 .. MaxFaults
  /\ ops \in 0 .. MaxOps

(* How many rows of table B equal e. *)
Copies(e, B) == IF e \in BagToSet(B) THEN B[e] ELSE 0

(* How often saga c has debited its sender, credited its receiver and      *)
(* refunded its sender, according to the wallet events.                    *)
Times(s, c) == Copies(EventOf(s, c), events)

(* Whatever requests, retries, recoverers, errors and crashes do to a      *)
(* saga, each of its steps takes effect at most once, and neither payout   *)
(* happens without the debit: the guards of the marks, re-read inside each *)
(* transaction under the wallet's row lock, see to it.                     *)
AtMostOnce ==
  \A c \in Calls :
    /\ \A s \in Steps : Times(s, c) <= 1
    /\ Times("credit", c) + Times("compensate", c) > 0 => Times("debit", c) = 1

(* A saga pays out at most once: it credits the receiver or refunds the    *)
(* sender, never both.                                                     *)
PaidOutOnce ==
  \A c \in Calls : Times("credit", c) + Times("compensate", c) <= 1

(* The error handler calls a saga FAILED only when no money has moved.     *)
FailedMeansUntouched ==
  \A c \in Calls : sagas[c] = "FAILED" => \A s \in Steps : Times(s, c) = 0

(* The state column tells how far the money has gone. *)
SagaTellsLedger ==
  \A c \in Calls :
    /\ Times("debit", c) = IF sagas[c] \in {"DEBITED", "COMPLETED", "COMPENSATED"}
                           THEN 1 ELSE 0
    /\ Times("credit", c) = IF sagas[c] = "COMPLETED" THEN 1 ELSE 0
    /\ Times("compensate", c) = IF sagas[c] = "COMPENSATED" THEN 1 ELSE 0

(* An entity loaded FOR UPDATE and changed in memory still is the change   *)
(* of the stored row when the transaction writes it: no update is lost to  *)
(* a deposit, withdrawal, freeze or other transfer in between.             *)
NoLostUpdate ==
  \A d \in Drivers :
    pc[d] \in {"locked", "marked", "written"} =>
      work[d] = Operation(step[d], wallets[WalletOf(step[d], job[d])],
                          req[job[d]].amount)

(* What a row of wallet_events says of the balance of its wallet. *)
Signed(e) ==
  CASE e.type \in {"FUNDS_DEPOSITED", "TRANSFER_COMPENSATED"} -> e.amount
    [] e.type = "FUNDS_WITHDRAWN"                             -> -e.amount
    [] OTHER                                                  -> 0

(* What the rows of table B say, all copies of a row together. *)
Entries(B) == [e \in BagToSet(B) |-> B[e] * Signed(e)]

LedgerOf(w, B) == SumFunctionOnSet(Entries(B), {e \in BagToSet(B) : e.wallet = w})

(* Replaying the events of a wallet, compensations included, gives its     *)
(* balance: every balance change stores its event in the same transaction. *)
LedgerIsBalance ==
  \A w \in Wallets : wallets[w].balance = LedgerOf(w, events)

(* What plain deposits and withdrawals have brought in. *)
BroughtIn(B) == SumFunctionOnSet(Entries(B), {e \in BagToSet(B) : e.saga = NoSaga})

(* The money a saga has taken from its sender and not yet passed on. *)
Held(c) == IF sagas[c] = "DEBITED" THEN req[c].amount ELSE 0

(* Transfers neither make nor destroy money: the balances and the money    *)
(* held by DEBITED sagas add up to what plain deposits and withdrawals     *)
(* have brought in.                                                        *)
MoneyConserved ==
  SumFunction([w \in Wallets |-> wallets[w].balance]) + SumFunction([c \in Calls |-> Held(c)])
    = BroughtIn(events)

(* A closed wallet holds no money, also when it was closed while a         *)
(* transfer from it or to it was under way.                                *)
ClosedIsEmpty ==
  \A w \in Wallets : wallets[w].status = "CLOSED" => wallets[w].balance = 0

(* A stored idempotency key answers with a transfer that reached its       *)
(* receiver and was asked for under this very key.                         *)
KeyAnswersTransfer ==
  \A r \in RequestIds :
    idem[r] # NoSaga => req[idem[r]].rid = r /\ Times("credit", idem[r]) = 1

(* A saga joins wallets of one currency, although the receiver may be      *)
(* created by a deposit while the transfer is looking for it.              *)
OneCurrency ==
  \A c \in Calls :
    sagas[c] # "NONE" => wallets[req[c].from].currency = wallets[req[c].to].currency

(* A closed wallet stays closed: transfers and operators alike write back  *)
(* no stale status, and unfreeze does not revive it.                       *)
ClosedForever ==
  [][\A w \in Wallets : wallets[w].status = "CLOSED" => wallets'[w].status = "CLOSED"]_vars

(* Every request gets an answer, unless its process dies. *)
CallsEnd == \A c \in Calls : <>(pc[c] \in Ended)

(* A debited saga is settled, by its request or by a recoverer, once its   *)
(* sender or its receiver is ACTIVE for good: its receiver is paid or its  *)
(* sender refunded.  With a replica this is said of sagas whose request    *)
(* has ended or died, for its error handler may see the saga PENDING and   *)
(* write FAILED over DEBITED (FailedMeansUntouched).                       *)
DebitedIsSettled ==
  \A c \in Calls :
    <>[](IsActive(wallets[req[c].from]) \/ IsActive(wallets[req[c].to]))
      => (sagas[c] = "DEBITED" /\ (ReadReplica => pc[c] \in Ended)
            ~> sagas[c] \in {"COMPLETED", "COMPENSATED"})

(* A compensated transfer is announced: TRANSFER_FAILED reaches the broker.*)
CompensationAnnounced ==
  \A c \in Calls : sagas[c] = "COMPENSATED" ~> c \in published

-----------------------------------------------------------------------------
(* The state column read as the phase of a transfer in escrow. *)
PhaseOf(state) ==
  CASE state \in {"NONE", "PENDING"} -> "open"
    [] state = "DEBITED"             -> "held"
    [] state = "COMPLETED"           -> "paid"
    [] state = "COMPENSATED"         -> "refunded"
    [] state = "FAILED"              -> "void"

Escrow == INSTANCE TransferEscrow
  WITH Transfers <- Calls,
       terms <- req,
       balance <- [w \in Wallets |-> wallets[w].balance],
       phase <- [c \in Calls |-> PhaseOf(sagas[c])]

(* Sagas implement the escrow: committed money follows the state column,   *)
(* in one direction and in full.                                           *)
ImplementsEscrow == Escrow!Spec
=============================================================================
