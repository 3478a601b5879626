# A TLA+ model of the wallet microservice

The repository is a NestJS service that keeps wallets in PostgreSQL and moves
money between them with a saga. Redis holds locks and a balance cache,
RabbitMQ carries events to a fraud-detection worker. Several API processes run
side by side. This directory models the parts in which processes, crashes,
retries and messages interfere with each other, checks them with TLC on small
instances, and proves every safety property the passing runs check with TLAPS, for
every number of requests, instances, wallets, messages and retries.

Paths below are relative to the repository (`src/…` is its source directory).

## 1. The system

| Component | State | Operations | Talks to |
|---|---|---|---|
| Wallet entity (`modules/wallet/entities/wallet.entity.ts`) | one row of `wallets`: balance, status, daily limit and total, last withdrawal date | `deposit`, `withdraw`, `credit`, `freeze`, `unfreeze`, `close`, `setDailyWithdrawalLimit` | – |
| Wallet repository | – | `findById`, `findByIdWithLock`, `getOrCreate`, `saveWithEvent` | PostgreSQL |
| Wallet service | cached balances in Redis | `deposit`, `withdraw`, status and limit changes, `getBalance`, `getHistory` | transaction manager, idempotency keys, cache |
| Transaction manager | Redis key `lock:req:<id>` | `execute`: lock, transaction, outbox rows, commit or rollback, unlock | Redis, PostgreSQL |
| Idempotency keys | `idempotency_keys` | lookup, save | wallet service, transfer saga |
| Transfer saga (entity and service) | `transfer_sagas` | `executeTransfer`, `debitFromSender`, `creditToReceiver`, `compensate`, `recoverSaga` | wallets, events, outbox, cache, broker |
| Saga recovery | flag `isRecovering` | a cron per API instance that looks for stuck sagas | transfer saga |
| Outbox relay | `outbox_events`, flag `isProcessing`, Redis key `lock:outbox-relay` | `handleCron` every 5 s in every instance | Redis, PostgreSQL, broker |
| Event publisher | a confirm channel | `publish` | broker |
| Fraud consumer | Redis keys and sliding windows, `fraud_alerts` | `handleMessage`, retries, dead letters | broker, Redis, PostgreSQL |
| Event immutability | a subscriber and a trigger on `wallet_events` | refuse UPDATE and DELETE | PostgreSQL |
| HTTP API, configuration, migrations, health | – | validation, wiring, start-up | – |

How they interact: a request enters through the controller, which calls one
service method. Deposits, withdrawals and operator changes run in one
transaction, under the row lock of their wallet and, when they carry a request
id, under a Redis lock. A transfer is a row of `transfer_sagas` and up to three
such transactions, one wallet each. All of them write their event to
`wallet_events` and to the outbox in the same transaction, except
`TRANSFER_FAILED`, which is published directly. The recovery cron picks up
sagas left DEBITED; the relay cron publishes outbox rows. When a read host is
configured, every read outside a transaction goes to a replica.

What is hard here, and what has to hold:

* **Transfers.** The debit and the payout are separate transactions. The saga
  row is read without a lock. Request and recoverers may drive one saga at the
  same time; commits may succeed unheard; processes die in between. Each step
  must take effect at most once, the state column must tell where the money is,
  no money may appear or vanish, a debited transfer must be settled.
* **Wallets.** Read-modify-write by many transactions; wallets frozen or closed
  under a transfer; receivers created concurrently.
* **Idempotency.** Keys are looked up outside the transaction; the Redis lock
  has a time to live and no owner.
* **Cache.** Written after the commit, outside any lock, by calls and readers.
* **Outbox.** Ticks overlap in one instance and across instances; a lock may
  leak or expire early; publishing and marking are two steps. Nothing may be
  lost, duplicates need a reason, everything must be sent in the end.
* **Consumer.** Messages come more than once and out of order; the
  deduplication key is set before the message is processed; handlers of several
  processes change one sliding window in separate commands; a handler goes on
  after its connection is lost. Nothing may vanish unaccounted, no alert may be
  doubled, a burst must be noticed, no message may go round for ever.
* **Days and cents.** Dates are compared in UTC and stored from local time;
  the entity adds doubles, and columns round what the validators let through.

The hazards are listed with their lines in `PROJECT.json`.

## 2. Modules

| Module | Models |
|---|---|
| `Wallet` | the Wallet entity: for each method when it throws (`MayX`) and the row it leaves (`X`) |
| `TransferSaga` | the TransferSaga entity: states, marks and their guards |
| `TransferSagaService` | `executeTransfer`, its error handler, the transactional steps with `executeWithRetry`, `recoverSaga` and the recovery cron, beside the plain wallet transactions |
| `TransferEscrow` | the abstract specification: an amount is held, then paid or refunded, once |
| `TransferSagaInvariants` | the inductive invariants behind the proofs about sagas: `SagaInv`, `RowInv`, `CurrencyInv` and `SoleInv` |
| `WalletService` | deposit, withdraw, status and limit changes through `TransactionManager.execute`; idempotency keys, Redis lock, balance cache, `getBalance` |
| `OutboxRelay` | `handleCron` with its flag, Redis lock, fetch, publish and mark |
| `WalletLedger` | one wallet over days: rounding of the `decimal(20, 2)` columns, stored and compared dates, the daily limit, refunds, and the recorded events beside the balance |
| `FraudConsumer` | `FraudDetectionConsumer`: deliveries, deduplication, sliding window, alerts, retries, dead letters, crashes and lost connections |
| `MC…` | instances for TLC |
| `…_proofs` | theorems; `Wallet_proofs` holds the lemmas on wallet rows and on sums over finite sets that several of them share |

`TransferSagaService`, `WalletService` and `WalletLedger` extend `Wallet`, so there is one
definition of what a wallet operation does. An action is the code between two
awaits at which somebody else can interfere; a transaction's writes become
visible in its `Commit`. Operators introduced by "A slip" are plausible bugs in
the operator that follows them. They are not part of any specification; each
replaces its operator to show that a property notices it.

### TransferSagaService

*Drivers* are the requests (`Calls`) and the recoverers (`Instances`). A call
creates at most one saga, so the saga carries the call's name. `pc` says where a
driver is:

| `pc` | code |
|---|---|
| `start`, `findSender`, `getOrCreate`, `createSaga` | `executeTransfer` up to the `try` |
| `begin` → `locked` → `marked` → `written` → `committed` | `executeTransactionalStep`: row lock and wallet operation, read of the saga and guard of its mark, UPDATE of the saga, commit |
| `saveKey` | the idempotency key, outside every transaction |
| `catch`, `fail` | the error handler: reload the saga, `markAsFailed` |
| `idle`, `loop` | the recovery cron and its loop |
| `replay`, `ok`, `error`, `dead` | the request has ended |

`step` is the step of the saga (debit, credit, compensate), `work` the wallet
entity in the transaction's memory, `walletLock` and `sagaLock` the row locks.
`WriteSaga` waits for the saga's row lock but does not look at the state again:
TypeORM's `save` issues an UPDATE by id and PostgreSQL runs at READ COMMITTED.
`events` and `outbox` are bags of rows, so a repeated step shows as a second
copy. The plain wallet transactions are single actions here because each holds
its only row lock from its first statement to its commit; their inner steps are
the subject of `WalletService`.

### WalletService

A call goes `start` → `lock` → `begin` → `locked` → `saved` → `committed` (or
`failed`) → `cache` → `ok` or `error`. Errors before the `try` block of
`TransactionManager.execute` skip the `finally` block and so leak the Redis key;
errors inside it do not. `FindKey` is the SELECT with which `repository.save`
chooses between INSERT and UPDATE; `RejectKey` the unique violation when the
choice is out of date. Readers are callers of `getBalance`. `done` and `overran`
are history variables: calls that took effect, and ids whose lock has expired
while its call was at work.

### OutboxRelay

A tick is one run of `handleCron`; several ticks of one instance may overlap,
because the flag `isProcessing` goes up only after the answer of Redis and every
tick's `finally` puts it down. Rows are ranked by `created_at` and may become
visible out of that order. `lock` remembers which tick set the key although the
code stores no owner; only `Expire` reads it, to record an overrun. `causes` is
a history variable: a key that expired under its tick, and a fetch of rows the
replica shows as unpublished and the primary does not.

### WalletLedger

`row` is the wallet as a transaction would load it. An action is a whole service
call: the entity's method, then `Save`, which rounds balance, daily total and
limit to whole cents as the columns do. Amounts and limits are in tenths of a
cent, because `@IsPositive` accepts them: they are below, at or above half a cent.
Between load and save the entity computes with IEEE-754 doubles, whose error is far
below a tenth of a cent for the amounts the entity is meant for (under a billion,
as its comment says). It matters where the exact sum lies on a half cent: 1.2 +
0.005 is 1.2049999999999998 and stored as 1.20, while 0.005 on its own is stored as
0.01. `SumToColumn` therefore lets a sum at half a cent round up or down, which
covers whatever the doubles do; numbers that are not sums (the amounts of events
and sagas, the limit) round half up. A sum that is exactly the limit may come out
above it, as 0.1 + 0.2 does of 0.3, and be refused; a refused call changes nothing
and is a stuttering step. A limit below half a cent is stored as 0.00, which is not
null and lets nothing pass. `Today` is `getTodayDate` (UTC); `LocalDate` is what
the driver writes into the `date` column for `new Date()` in a process `offset`
hours ahead of UTC. A withdrawal reads the clock twice, so `WithdrawFunds` has a
second instant. `CreditFunds` may use the amount of the request or what the saga's
column has kept of it (a recovered saga is loaded from the table). `spent`,
`slips`, `replay`, `halvesIn` and `halvesOut` are history variables: what the day's
withdrawals have taken and how many of them had half a cent, the sum of the
recorded events, and the amounts with half a cent paid in and withdrawn so far.

### FraudConsumer

A handler is one run of `handleMessage`: `idle` → `lock` (`acquireLock`) → `check`
→ `prune` → `count` (ZADD, ZREMRANGEBYSCORE with EXPIRE, ZCARD) → `high` → `ack`.
`ready` and `waiting` count the copies of each message in the queue and the wait
queues; order is left open, since several processes consume. `live[h]` says
whether the broker still waits for the handler's ack: `Disconnect` requeues the
message and lets the handler run on. `Fail` is a Redis error followed by the whole
of `handleProcessingError`; its copy is sent before the ack, so a connection lost
in between leaves both. `payload` is a constant of a behaviour, chosen in `Init`
from a set of scenarios. `done`, `cut`, `expired`, `added`, `overtaken` and `blind`
are history variables. `cut` has the events whose handler set the key and did not
get to the end; `overtaken` those counted when a later one of the wallet had
already been added; `blind` the wallets whose window expired or whose alert was
not saved (`saveFraudAlert` swallows the error), for good. Withdrawals of one wallet
in one millisecond are one member of the sorted set, in the code and in `Burst`.

### Abstractions

* Outside `WalletLedger` money is counted in whole cents and there is one
  calendar day; amounts and limits come from small sets. Error texts, metadata and logging are left out.
* A failed statement, a lost answer, a lost confirm and a crash are *faults*.
  Their number is bounded by `MaxFaults`; in the proofs it is any number.
* The replica catches up with all tables at once, at any time or late.
* Redis expiry may happen at any time, also under a call or tick at work; the
  properties that depend on it say so.
* `getOrCreate` of the receiver is one step: its INSERT waits for another creator
  of the row to commit and then finds that row, which stays locked to the end, so
  two creators run one after the other.
* The unique violation of two concurrent saves of one idempotency key of a
  transfer is a fault of `SaveKey`.
* Client errors of `getBalance` are a reader that stops asking.

## 3. What TLC checks

Every run finishes within three minutes with two workers.

| Run | Instance | Shows |
|---|---|---|
| `saga_concurrent` | 2 calls with any of 4 requests (both directions, to oneself, with and without id), receiver not yet there, 1 recoverer, 1 fault, 2 plain transactions of any kind | with one driver per saga at a time: `FailedMeansUntouched`, `SagaTellsLedger`, `MoneyConserved`, `LedgerIsBalance`, `ClosedIsEmpty`, `ClosedForever`, and the refinement `ImplementsEscrow` |
| `saga_race` | 1 call, 2 recoverers that may start while it works, lagging replica, euro sender whose receiver a deposit may create in dollars, 1 fault, 1 plain transaction | `TypeOK`, `AtMostOnce`, `NoLostUpdate`, `KeyAnswersTransfer`, `OneCurrency`, and under fairness `CallsEnd`, `DebitedIsSettled` |
| `wallet_retry` | 3 calls, one id used for a deposit, a withdrawal and another wallet, operators beside it, no overlap of attempts, 1 fault; symmetric in the calls | `TypeOK`, `OncePerRequestId`, `BalanceIsLedger`, `DailyLimitHeld` |
| `wallet_overlap` | 2 overlapping calls, 1 reader, lagging replica, 1 fault | `LockExcludes`, `CacheSettles` |
| `relay` | 2 rows, batches of 1, 2 ticks of one instance and 1 of another, lagging replica, early expiry, 1 fault | `MarkedIsSent`, `OneWorker`, `DuplicatesHaveCauses`, `EventuallySent` |
| `wallet_ledger` | 6 calls at 5 instants of two days, one of them the last hour before midnight, in 3 time zones, amounts of 0.4, 0.5, 1 and 1.5 cents, limits of 0.4, 1 and 2 cents and none, sums at half a cent rounding either way | `LedgerTypeOK`, `EventsAddUp`, `LimitPerDay`, `CountedStays` |
| `fraud` | 3 events (three withdrawals of one wallet; or a withdrawal, a transfer and an unreadable message), 2 handlers, 1 retry, 1 fault beside errors of SET | `TypeOK`, `AlertedOnce`, `EventsAccounted`, `BurstIsAlerted`, `AlarmIsBurst`, and under fairness `EventuallyExamined` |

Five runs show that the code does not do what a document, comment or test of the
repository says of it. TLC finds a counterexample in each:

| Run | Property | What happens |
|---|---|---|
| `saga_double_payout` | `PaidOutOnce` | the recoverers of two instances find one stuck saga; one credits the receiver while the other, whose own credit has failed, refunds the sender; both read DEBITED |
| `saga_stale_replica` | `FailedMeansUntouched` | the debit commits, its answer is lost, the error handler reads PENDING from the replica and saves FAILED over DEBITED |
| `saga_failed_event` | `CompensationAnnounced` | compensation commits, publishing `TRANSFER_FAILED` fails, nothing publishes it again |
| `wallet_duplicate_race` | `OncePerRequestId` | the second of two overlapping withdrawals looks the key up before the first commits and takes the lock after the first has released it |
| `fraud_lost` | `AckedIsExamined` | a handler sets the deduplication key and fails or dies; the retried or redelivered message finds the key and is acknowledged unexamined |

Other disagreements were read from the code or met while modelling and have no
run of their own.

* Two transfers with one request id can both take effect: `executeTransfer` looks
  the key up first, takes no lock and stores the key after the saga. It is the race
  of `wallet_duplicate_race`, without even the lock.
* With more stuck sagas than the recovery query takes (`take: 10`, no order) one
  that cannot be settled may be returned in every round, and another that could
  be settled waits for ever. `DebitedIsSettled` is checked with one saga and holds
  only as long as the stuck ones fit into the batch.
* A transfer that was completed and whose key was not stored, because of an error
  or a crash after the credit, is executed again when the client retries it.
  `KeyAnswersTransfer` speaks of stored keys only.
* The replay query in `src/docs/DESIGN.md` (line 483) leaves out
  `TRANSFER_COMPENSATED`; `LedgerIsBalance` is checked with it.
* The lookup of an idempotency key may miss it on a lagging replica, which is why
  `RetriesAreSafe` below assumes there is none.
* A cached balance may be older than the last commit, because calls fill the
  cache in another order than they commit and a replayed request caches its old
  answer: `CacheSettles` claims only that this does not last.
* In a process ahead of UTC, in the hours when its date is ahead, the date a
  withdrawal stores is never the date the next one compares it with, so each
  withdrawal starts the day's total afresh and the limit bounds single
  withdrawals only. Behind UTC it is the same in the first hours of the UTC day.
  `LimitPerDay` and `CountedStays` speak of the hours in which both dates agree,
  which in a process that runs in UTC is always.
* An amount with half a cent may round one way in the event and the other in the
  balance. Deposit 1.20 and then 0.005: the balance is 1.20 and the events add up to
  1.21. `EventsAddUp` allows a cent for each such amount and claims equality without
  them. A transfer of half a cent may take nothing and credit a cent.
* The day's total may round down what the balance rounds up. With a limit of 1.21, a
  total of 1.20 and a balance of 10.10, two withdrawals of 0.005 leave the total at
  1.20 and the balance at 10.08: the day has taken 1.22. `LimitPerDay` allows a cent
  for each earlier withdrawal of the day with half a cent.
* `setDailyWithdrawalLimit` accepts 0.004; the column makes 0.00 of it, a limit that
  blocks every withdrawal and that the method itself would refuse.

### Why the bounds are enough

The interesting conflicts are between two drivers of one saga, two transfers
that share wallets, and one driver and an operator; each is present, with a
fault at any point; `saga_double_payout` has the second fault that lets two
drivers fail at one saga. `MaxRetries = 2` has a retry
that works and one that is the last. `Batch = 1` makes the batch smaller than
the number of stuck sagas or outbox rows. Amounts are such that a debit may
empty a wallet (which can then be closed), exceed the balance or exceed the
limit. Three ticks are needed to see a tick of the same instance put down the
flag of a working one while another instance holds the key. Three calls with one
id are a first attempt, a retry and a second retry. In `wallet_ledger` the amounts
round up, down and at the half, and 6 calls are enough to deposit twice, set a limit,
withdraw in two agreeing hours, past the limit by the cent of a half cent, and be
refunded in between. In `fraud` two of the
three withdrawals already are a burst and the first is outside the window of the
last, so the window must both keep and drop; two handlers are enough to overtake
each other, and one retry is both a retry and the last one. What is proved does not
depend on the bounds.

### Fairness

* `WF` of each driver's, call's and tick's own step: Node resolves promises, and
  the clients of PostgreSQL, Redis and RabbitMQ either answer or fail. A waiting
  `SELECT … FOR UPDATE` is served in turn, so a lock that keeps becoming free is
  obtained.
* `WF` of the crons (`FindStuck`, `HandleCron`): `@Cron` fires while the process
  lives, and a crashed instance is restarted.
* `WF` of time: a saga's `updated_at` becomes old, Redis keys expire (all are set
  with `EX`), the replica catches up.
* `WF` of each consumer handler's steps and of the wait queues' time to live.
  Messages left in a queue are delivered as long as a consumer is connected.
* Nothing is assumed of faults, operators, plain deposits and withdrawals or
  readers. `DebitedIsSettled` therefore speaks of sagas whose sender or receiver
  is ACTIVE for good: a frozen or closed wallet accepts neither credit nor refund.
  Settled means COMPLETED or COMPENSATED. With a replica, as in `saga_race`, the
  property speaks of sagas whose request has ended or died, since its error handler
  may still write FAILED over DEBITED, which is what `saga_stale_replica` shows;
  without one it speaks of every debited saga.

Deadlock is checked in the saga and relay runs, where a cron can always fire. In
the wallet, ledger and consumer runs a finite set of calls or events simply ends.

## 4. What is proved

For every value of the constants that meets the modules' assumptions: disjoint
sets of actors, positive retry count and batch, positive amounts in transfers, and
finitely many wallets and transfers, which only the sums need. Faults, operators
and plain transactions may come in any number.

| Theorem | Statement | Inductive invariant |
|---|---|---|
| `TransferSagaService_proofs!TypeCorrect` | `TypeOK`; no balance goes negative | itself |
| `TransferSagaSafety_proofs!SagaInvariant` | `SagaInv` | itself, with `TypeOK` |
| `…!StepsAtMostOnce` | `AtMostOnce`, with any overlap, replica and number of drivers | `SagaInv` |
| `…!KeysAnswerTransfers` | `KeyAnswersTransfer` | `SagaInv` |
| `…!FailedIsUntouched` | `FailedMeansUntouched`, assuming no replica | `SagaInv` |
| `TransferSagaEscrow_proofs!RowInvariant` | `RowInv` | itself, with `SagaInv` |
| `…!UpdatesAreNotLost` | `NoLostUpdate` | `RowInv` |
| `…!ClosedWalletsAreEmpty`, `…!ClosedWalletsStayClosed` | `ClosedIsEmpty`, `ClosedForever` | `RowInv` |
| `…!CurrencyInvariant`, `…!SagasJoinOneCurrency` | `CurrencyInv`, `OneCurrency`, with any replica | `CurrencyInv` |
| `…!LedgersAreBalances` | `LedgerIsBalance`, with any number of drivers | `LedgerInv`, with `RowInv` |
| `…!SoleInvariant`, `…!StatesTellLedger` | `SoleInv`, `SagaTellsLedger`, assuming a sole driver | `SoleInv` |
| `…!SoleDriverPaysOnce` | `PaidOutOnce`, assuming a sole driver | `SoleInv` |
| `…!MoneyIsConserved` | `MoneyConserved`, assuming a sole driver | itself, with `SoleInv` and `LedgerInv` |
| `…!SagasImplementEscrow` | `ImplementsEscrow`, assuming a sole driver | `SoleInv` |
| `WalletService_proofs!TypeCorrect` | `TypeOK` | itself |
| `…!RequestExclusion` | `LockExcludes` | `LockHeld` |
| `…!RetriesAreSafe` | `OncePerRequestId`, assuming no overlapping attempts and no replica | `RetryInv` |
| `…!RowInvariant`, `…!LimitIsKept` | `RowInv`, `DailyLimitHeld` | `RowInv` |
| `…!BalancesAreLedger` | `BalanceIsLedger` | `LedgerInv`, with `RowInv` |
| `OutboxRelay_proofs!TypeCorrect` | `TypeOK` | itself |
| `…!NoEventLost` | `MarkedIsSent` | `SentInv` |
| `…!KeyInvariant`, `…!RelayExclusion` | `WorkerHasKey`, `OneWorker` | `WorkerHasKey` |
| `…!DuplicatesNeedCauses` | `DuplicatesHaveCauses` | `DuplicateInv`, with `SentInv` and `WorkerHasKey` |
| `WalletLedger_proofs!LedgerTypeCorrect` | `LedgerTypeOK` | itself |
| `…!EventsAddUpAlways` | `EventsAddUp` | itself, with `LedgerTypeOK` |
| `…!DailyLimit` | `LimitPerDay` | `SpentIsCounted` |
| `…!AllowanceIsNotGivenBack` | `CountedStays` | `LedgerTypeOK` |
| `FraudConsumer_proofs!TypeCorrect` | `TypeOK` | itself |
| `…!AlertsAreNotDoubled` | `AlertedOnce` | `AlertInv` |
| `…!NoEventUnaccounted` | `EventsAccounted` | `SentInv` |
| `…!BurstsAreAlerted`, `…!AlarmsAreBursts` | `BurstIsAlerted`, `AlarmIsBurst` | `BurstInv` |

*The saga.* `AtMostOnce` is not inductive: a driver past the guard of its mark
commits whatever the saga's state has become. `SagaInv` adds why its step is
still undone. A driver from `locked` on holds the row of the wallet its step
changes (`HoldsWallet`); two drivers at the same step of one saga need the same
row; so between guard and commit nobody else can do this step
(`GuardHolds`: the debit is done, this step is not). It cannot claim that the
saga is still DEBITED, because the *other* payout locks another wallet: that gap
is what `saga_double_payout` shows. `StateTellsDebit` ties the states before any
payout to the events, `StepDone` carries a committed step to the point where the
key is stored, and `HandlerHolds` says that without a replica the error
handler's PENDING is still true when it saves FAILED: only the request itself
debits.

*The rows.* `NoLostUpdate` says that the entity a transaction is about to write is
its operation on the row as it is stored now. To keep that, a step of anybody else
must leave the row alone, which is what `HoldsWallet` gives. `RowInv` adds that
the operation would still be allowed (`MayStillOperate`: what the entity's guard
was asked under the row lock stays true up to the commit), which closed wallets
need, and that a wallet not yet created has no money, which creating one needs.
`CurrencyInv` follows a call from the comparison of the currencies to its saga:
wallets are never deleted and keep their currency, so a stale read of the sender
does no harm.

*One driver at a time.* `SoleDriver` is no replica, no request that outlives the
stuck threshold (`~Overlap`) and one recoverer. It is the hypothesis that
`saga_double_payout` and `saga_stale_replica` show to be needed: with a second
recoverer `PaidOutOnce`, and with a replica `FailedMeansUntouched`, is refuted,
and with them the refinement. `SoleInv` says what it buys. A recoverer works only
on sagas whose request has ended (`RequestIsOver`, which also speaks of those in
its queue and of those it may fetch next), so between a driver's guard and its
commit the saga has the state the guard saw (`GuardIsFresh`), and the state column
tells which steps are done (`SagaTellsLedger`).

*The escrow.* Under the refinement mapping of `TransferSagaService` only commits,
the error handler's save and plain transactions move anything. The commit of a
debit is `Hold`, because the state is PENDING (`GuardIsFresh`) and the sender has
the amount (`MayStillOperate`); that of a credit or a compensation is a `PayOut`,
because the state is DEBITED; saving FAILED is `Void`, because the handler's
PENDING is still true (`HandlerHolds`). Every other step, retries and crashes
included, stutters.

*The books.* `LedgerIsBalance` and `MoneyConserved` are sums over the event rows
and over all wallets and sagas. `BookStep` takes a step apart: it stores no row
and moves no balance, or it stores one row (and perhaps WALLET_CREATED, which
carries no money) and moves the balance of that row's wallet by what the row says,
and, with a sole driver, what the saga holds by as much the other way. One lemma
per operation shows this from `NoLostUpdate`; the rest is arithmetic on the sums.
`SumFunctionOnSet` is a fold, and what a fold computes would call for an induction
whose predicate is an operator. The lemmas of `Wallet_proofs` avoid it by a least
counterexample: the subsets of a finite set are well-founded under inclusion, so
if two candidates for the sums of all subsets differ anywhere they differ at a
smallest subset, and there one element less already agrees.

*The request lock.* `LockHeld`: a call between SET and DEL is the one whose key
is in Redis, unless a key of its id has expired under its call. It holds
although DEL is unconditional, because the only callers of DEL are calls inside
the `try` block, which got the key.

*Retries.* `RetryInv`: at most one attempt of an id is under way; the key it did
not find is still missing; every call that took effect has its key stored. The
Redis lock plays no part in it.

*Limits and balances of the wallet service.* Its `RowInv` is the same idea for
deposits and withdrawals that are several steps: the transaction with the row lock
has the operation's result on the stored row. So the limit and total that the
guard compared are those of the row it replaces (`LimitIsKept`). `LedgerInv` adds
that the set of committed calls is finite and that a call about to commit is not
yet among them, so each effect is added once.

*The relay.* `SentInv`: what a tick has collected for marking is with the broker.
`WorkerHasKey`: as long as no key has expired under a tick, a working tick has
it. `DuplicateInv`: without a cause, a row the broker has is marked or about to
be, and no row still to be tried is with the broker.

*The ledger.* `LimitPerDay` compares one withdrawal with all earlier ones of the
day, which the row knows only through its rounded total and its date.
`SpentIsCounted`: what the day has taken is at most the stored total and a cent for
each slip, and the stored date is today's, or the local date is ahead for the rest
of the day. The limit is a whole number of cents, so a total that is within it
before rounding is within it after. What is added to or taken from whole cents
rounds on its own (`ColumnAdds`, `ColumnTakes`), whichever way the doubles fall, but
for half a cent; `EventsAddUp` follows from these two call by call.

*The consumer.* `AlertInv`: who examines an event has set its key
(`ExaminerHasKey`), two handlers examine events of one key only after it has
expired (`OneExaminer`), and who raised an alert has passed the check it is of
(`AlertIsPast`); so when an alert is saved it is not there yet. It needs neither
acks nor an order of deliveries. `SentInv`: behind every key Redis has or had is an
event that was examined, is being examined or was cut short (`KeyCovered`), and so
behind every message about to be acked (`AckCovered`). A hash of the payload tells
events apart only by what they say, hence `Like` in `EventsAccounted`.

*Bursts.* `BurstIsAlerted` compares what ZCARD counts with the events that have
been added, although three commands of several handlers interleave. `BurstInv`: an
event's time is in the sorted set unless it lies a whole window behind an event
that was added (`AddedIsKept`: a prune removes nothing else), so a handler that no
later event has overtaken counts at least its burst; a handler that counts while a
later event is there is marked overtaken (`LateIsOvertaken`), so no event that
counts in somebody's burst is added after that somebody has counted; and in a
wallet without overtaking nothing old is left when it is counted
(`CountedIsPruned`), so the count is no more than the burst. Whether the handler
was cut short earlier plays no part.

Only model-checked: the liveness properties `CallsEnd`, `DebitedIsSettled`,
`EventuallySent`, `CacheSettles` and `EventuallyExamined`, which need fairness and
ENABLED and are outside TLAPS. Every other property of the passing runs is a
theorem; the five violation runs refute `CompensationAnnounced` and
`AckedIsExamined`, and the three other properties without the hypotheses above.

## 5. Not modelled

* What fraud alerts say, and payloads that are JSON but no event (they fail in the
  first step and take the retries' way).
* The keys that deposits, withdrawals and transfers share: the two services are
  modelled apart, and nothing says what a deposit with a transfer's id should do.
* The path from outbox to alert as one specification: the relay's promise
  (published at least once, in any order) is what `FraudConsumer!Publish` assumes.
* Event immutability: no code path updates or deletes an event, so there is
  nothing for the trigger to refuse.
* HTTP validation, configuration, migrations, health checks, bootstrap, and the
  read-only queries `getHistory` and `getEventHistory`: no state of their own.
* Reconnection and buffering inside `amqp-connection-manager`.

## 6. Plan

Done: 1. wallets, saga, recovery; 2. escrow refinement; 3. wallet service and
transaction manager; 4. outbox relay; 5. calendar and rounding; 6. fraud consumer;
7. type and core safety theorems of each; 8. the remaining safety theorems: rows,
currencies, sole drivers, step refinement of `TransferEscrow`, sums, limits, bursts.

Next, in this order:

1. What `CacheSettles` and `EventuallyExamined` rest on, as safety theorems: a cache
   entry that differs from the row has a call or an expiry still to come; a message
   goes round at most the configured number of times.
2. An abstract specification of what the relay promises the consumer (each row
   published at least once, marked only after that) and the step refinement.
3. Which alerts can be missing: those whose save failed or whose window expired
   (`blind`), and the high-value alerts as well.
