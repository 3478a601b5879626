--------------------------- MODULE WalletService ---------------------------
(***************************************************************************)
(* WalletService and the TransactionManager under it: deposits and         *)
(* withdrawals made idempotent by a request id, the operators' changes of  *)
(* a wallet, and balance queries through the Redis cache.  Calls and       *)
(* readers run concurrently in any number of API processes; every await at *)
(* which another one can interfere is a step boundary.                     *)
(*                                                                         *)
(* A request id is guarded twice: by a row of idempotency_keys, looked up  *)
(* before and written inside the transaction, and by a Redis key with a    *)
(* time to live, which holds no owner.                                     *)
(***************************************************************************)
EXTENDS Wallet, Functions

CONSTANTS
  Wallets,          \* wallet ids
  Currency,         \* 'USD', what a deposit creates a wallet with
  Opening,          \* the balance of a wallet, 0 for no wallet
  Calls,            \* calls of the service that change a wallet
  Readers,          \* callers of getBalance
  RequestIds,       \* values of the X-Request-ID header
  NoRequestId,      \* the header is missing
  Free,             \* a row or a Redis key nobody holds
  Requests,         \* the parameters a call may have
  Overlapping,      \* a client may retry while its first attempt still runs
  ReadReplica,      \* configService.databaseReadHost is set
  MaxFaults         \* bound on errors and crashes

(* deposit and withdraw take part in idempotency; the others change the    *)
(* status or the limit of a wallet.                                        *)
Moves == {"deposit", "withdraw"}

StatusChanges == {"freeze", "unfreeze", "close"}

Operations == Moves \cup StatusChanges \cup {"setLimit"}

(* amount is the new limit of a setLimit, and not looked at by the changes *)
(* of status.                                                              *)
ASSUME WalletServiceAssumption ==
  /\ Requests \subseteq [op : Operations, wallet : Wallets, amount : Nat \cup {NoLimit},
                         rid : RequestIds \cup {NoRequestId}]
  /\ \A q \in Requests : q.op # "setLimit" => q.amount \in Nat
  /\ \A q \in Requests : q.op \notin Moves => q.rid = NoRequestId
  /\ NoRequestId \notin RequestIds
  /\ Calls \cap Readers = {}
  /\ Free \notin Calls
  /\ Opening \in [Wallets -> Nat]
  /\ Overlapping \in BOOLEAN
  /\ ReadReplica \in BOOLEAN
  /\ MaxFaults \in Nat

VARIABLES
  wallets,   \* the wallets table
  keys,      \* idempotency_keys: the balance in the stored response
  done,      \* calls whose transaction has committed
  replica,   \* what the read replica shows of wallets and keys
  rowLock,   \* the call that holds a wallet's row
  lock,      \* the call that set lock:req:<id> in Redis; nobody reads who
  cache,     \* wallet:balance:<id> in Redis
  req,       \* the parameters of a call
  pc,        \* where a call or a reader is
  work,      \* the wallet entity in the memory of a transaction
  insert,    \* the key was not there when the transaction looked for it
  result,    \* the balance a call is about to answer with
  target,    \* the wallet a reader asks for
  seen,      \* the balance a reader has read
  overran,   \* request ids whose lock has expired under its call
  faults     \* errors and crashes so far

tables == <<wallets, keys, done>>
callVars == <<work, insert, result>>
readerVars == <<target, seen>>
vars == <<tables, replica, rowLock, lock, cache, req, pc, callVars, readerVars, overran,
          faults>>

(* No key, nothing cached, nothing read: no balance is negative. *)
NoBalance == -1

Today == 1

Tables == [wallets |-> wallets, keys |-> keys]

View == IF ReadReplica THEN replica ELSE Tables

OpeningRow(w) ==
  IF Opening[w] = 0 THEN AbsentWallet(Currency) ELSE Deposit(NewWallet(Currency), Opening[w])

Init ==
  /\ wallets = [w \in Wallets |-> OpeningRow(w)]
  /\ keys = [r \in RequestIds |-> NoBalance]
  /\ done = {}
  /\ replica = [wallets |-> wallets, keys |-> keys]
  /\ rowLock = [w \in Wallets |-> Free]
  /\ lock = [r \in RequestIds |-> Free]
  /\ cache = [w \in Wallets |-> NoBalance]
  /\ req \in [Calls -> Requests]
  /\ pc = [d \in Calls \cup Readers |-> IF d \in Calls THEN "start" ELSE "idle"]
  /\ work = [c \in Calls |-> AbsentWallet(Currency)]
  /\ insert = [c \in Calls |-> FALSE]
  /\ result = [c \in Calls |-> NoBalance]
  /\ target \in [Readers -> Wallets]
  /\ seen = [g \in Readers |-> NoBalance]
  /\ overran = {}
  /\ faults = 0

-----------------------------------------------------------------------------
Fault == faults < MaxFaults /\ faults' = faults + 1

NoFault == UNCHANGED faults

Goto(d, label) == pc' = [pc EXCEPT ![d] = label]

Ended == {"ok", "error", "dead"}

HasId(c) == req[c].rid # NoRequestId

(* The wallet entity a transaction works on: getOrCreate for a deposit. *)
Entity(c) ==
  LET row == wallets[req[c].wallet] IN
  IF req[c].op = "deposit" /\ ~Exists(row) THEN NewWallet(Currency) ELSE row

(* The operation finds its wallet and does not throw. *)
MayRun(op, row, amount) ==
  /\ Exists(row)
  /\ \/ op = "deposit" /\ MayDeposit(row, amount)
     \/ op = "withdraw" /\ MayWithdraw(row, amount, Today)
     \/ op = "freeze" /\ MayFreeze(row)
     \/ op = "unfreeze"
     \/ op = "close" /\ MayClose(row)
     \/ op = "setLimit" /\ MaySetDailyWithdrawalLimit(amount)

Run(op, row, amount) ==
  CASE op = "deposit"  -> Deposit(row, amount)
    [] op = "withdraw" -> Withdraw(row, amount, Today, Today)
    [] op = "freeze"   -> Freeze(row)
    [] op = "unfreeze" -> Unfreeze(row)
    [] op = "close"    -> Close(row)
    [] op = "setLimit" -> SetDailyWithdrawalLimit(row, amount)

(* The end of a transaction, either way. *)
Unlock(c) ==
  rowLock' = [w \in Wallets |-> IF rowLock[w] = c THEN Free ELSE rowLock[w]]

-----------------------------------------------------------------------------
(* Before the transaction. *)

(* The lookup of the key.  A stored response is the answer, and deposit    *)
(* and withdraw go on to cache its balance.  A client that does not        *)
(* overlap its attempts waits for the end of the first.                    *)
CheckIdempotency(c) ==
  /\ pc[c] = "start"
  /\ Overlapping \/ \A d \in Calls :
       d # c /\ HasId(c) /\ req[d].rid = req[c].rid => pc[d] \in Ended \cup {"start"}
  /\ \/ /\ HasId(c) /\ View.keys[req[c].rid] # NoBalance
        /\ result' = [result EXCEPT ![c] = View.keys[req[c].rid]]
        /\ Goto(c, "cache")
     \/ /\ HasId(c) => View.keys[req[c].rid] = NoBalance
        /\ Goto(c, IF HasId(c) THEN "lock" ELSE "begin")
        /\ UNCHANGED result
  /\ UNCHANGED <<tables, replica, rowLock, lock, cache, req, work, insert, readerVars, overran,
                 faults>>

(* A slip: the conflict is thrown inside the try block, whose finally      *)
(* deletes the key of the other call.                                      *)
RefusedInTry == "failed"

(* A ConflictException, thrown before the try block. *)
Refused == "error"

(* SET lock:req:<id> NX EX 60. *)
AcquireLock(c) ==
  /\ pc[c] = "lock"
  /\ \/ /\ lock[req[c].rid] = Free
        /\ lock' = [lock EXCEPT ![req[c].rid] = c]
        /\ Goto(c, "begin")
     \/ lock[req[c].rid] # Free /\ Goto(c, Refused) /\ UNCHANGED lock
  /\ UNCHANGED <<tables, replica, rowLock, cache, req, callVars, readerVars, overran, faults>>

(* The lookup or SET fails; the key may be set all the same.  An error of  *)
(* connect or startTransaction comes before the try block, so nobody       *)
(* deletes the key.                                                        *)
FailEarly(c) ==
  /\ pc[c] \in {"start", "lock", "begin"}
  /\ Fault
  /\ \/ UNCHANGED lock
     \/ /\ pc[c] = "lock" /\ lock[req[c].rid] = Free
        /\ lock' = [lock EXCEPT ![req[c].rid] = c]
  /\ Goto(c, "error")
  /\ UNCHANGED <<tables, replica, rowLock, cache, req, callVars, readerVars, overran>>

-----------------------------------------------------------------------------
(* The transaction. *)

(* A slip: the wallet is read without its row lock. *)
RowUnlocked(w) == TRUE

(* SELECT ... FOR UPDATE waits until nobody holds the wallet's row. *)
RowFree(w) == rowLock[w] = Free

(* The wallet is locked and loaded, or created, and the operation is run   *)
(* on the entity.  When it throws, the transaction rolls back.             *)
LockWallet(c) ==
  LET w == req[c].wallet
      op == req[c].op
      amount == req[c].amount
  IN  /\ pc[c] = "begin"
      /\ RowFree(w)
      /\ \/ /\ MayRun(op, Entity(c), amount)
            /\ rowLock' = [rowLock EXCEPT ![w] = c]
            /\ work' = [work EXCEPT ![c] = Run(op, Entity(c), amount)]
            /\ Goto(c, "locked")
         \/ ~MayRun(op, Entity(c), amount) /\ Goto(c, "failed") /\ UNCHANGED <<rowLock, work>>
      /\ UNCHANGED <<tables, replica, lock, cache, req, insert, result, readerVars, overran,
                     faults>>

(* repository.save of the key looks for the row to choose between INSERT   *)
(* and UPDATE.                                                             *)
FindKey(c) ==
  /\ pc[c] = "locked"
  /\ insert' = [insert EXCEPT ![c] = HasId(c) /\ keys[req[c].rid] = NoBalance]
  /\ Goto(c, "saved")
  /\ UNCHANGED <<tables, replica, rowLock, lock, cache, req, work, result, readerVars, overran,
                 faults>>

(* A slip: the key is stored after the transaction, if at all. *)
KeysUnsaved(c) == keys

(* The key is stored in the transaction of the operation. *)
KeysAfter(c) ==
  IF HasId(c) THEN [keys EXCEPT ![req[c].rid] = work[c].balance] ELSE keys

(* The commit, which may succeed without the caller hearing of it. *)
Commit(c, acked) ==
  /\ pc[c] = "saved"
  /\ insert[c] => keys[req[c].rid] = NoBalance
  /\ wallets' = [wallets EXCEPT ![req[c].wallet] = work[c]]
  /\ keys' = KeysAfter(c)
  /\ done' = done \cup {c}
  /\ result' = [result EXCEPT ![c] = work[c].balance]
  /\ Unlock(c)
  /\ IF acked THEN NoFault ELSE Fault
  /\ Goto(c, IF acked THEN "committed" ELSE "failed")
  /\ UNCHANGED <<replica, lock, cache, req, work, insert, readerVars, overran>>

(* The INSERT of a key that has come to be: unique violation, rollback. *)
RejectKey(c) ==
  /\ pc[c] = "saved"
  /\ insert[c] /\ keys[req[c].rid] # NoBalance
  /\ Unlock(c)
  /\ Goto(c, "failed")
  /\ UNCHANGED <<tables, replica, lock, cache, req, callVars, readerVars, overran, faults>>

(* A statement fails and the transaction rolls back. *)
Abort(c) ==
  /\ pc[c] \in {"begin", "locked", "saved"}
  /\ Fault
  /\ Unlock(c)
  /\ Goto(c, "failed")
  /\ UNCHANGED <<tables, replica, lock, cache, req, callVars, readerVars, overran>>

-----------------------------------------------------------------------------
(* After the transaction. *)

(* DEL of the Redis key, whoever has set it.  An error of Redis takes the  *)
(* place of the result.                                                    *)
ReleaseLock(c, deleted, acked) ==
  /\ pc[c] \in {"committed", "failed"}
  /\ acked => deleted
  /\ ~HasId(c) => acked
  /\ lock' = IF HasId(c) /\ deleted THEN [lock EXCEPT ![req[c].rid] = Free] ELSE lock
  /\ IF acked THEN NoFault ELSE Fault
  /\ Goto(c, IF acked /\ pc[c] = "committed" THEN "cache" ELSE "error")
  /\ UNCHANGED <<tables, replica, rowLock, cache, req, callVars, readerVars, overran>>

(* deposit and withdraw cache the balance they answer with, a change of    *)
(* status drops the cached balance, setDailyWithdrawalLimit does neither.  *)
CacheAfter(c) ==
  CASE req[c].op \in Moves         -> [cache EXCEPT ![req[c].wallet] = result[c]]
    [] req[c].op \in StatusChanges -> [cache EXCEPT ![req[c].wallet] = NoBalance]
    [] req[c].op = "setLimit"      -> cache

UpdateCache(c, stored, acked) ==
  /\ pc[c] = "cache"
  /\ acked => stored
  /\ cache' = IF stored THEN CacheAfter(c) ELSE cache
  /\ IF acked THEN NoFault ELSE Fault
  /\ Goto(c, IF acked THEN "ok" ELSE "error")
  /\ UNCHANGED <<tables, replica, rowLock, lock, req, callVars, readerVars, overran>>

-----------------------------------------------------------------------------
(* getBalance.  A hit is answered at once. *)
MissCache(g, w) ==
  /\ pc[g] = "idle"
  /\ cache[w] = NoBalance
  /\ target' = [target EXCEPT ![g] = w]
  /\ Goto(g, "query")
  /\ UNCHANGED <<tables, replica, rowLock, lock, cache, req, callVars, seen, overran, faults>>

(* A wallet that is not there has balance 0, which is not cached. *)
ReadBalance(g) ==
  LET row == View.wallets[target[g]] IN
  /\ pc[g] = "query"
  /\ seen' = [seen EXCEPT ![g] = IF Exists(row) THEN row.balance ELSE NoBalance]
  /\ Goto(g, IF Exists(row) THEN "fill" ELSE "idle")
  /\ UNCHANGED <<tables, replica, rowLock, lock, cache, req, callVars, target, overran, faults>>

FillCache(g) ==
  /\ pc[g] = "fill"
  /\ cache' = [cache EXCEPT ![target[g]] = seen[g]]
  /\ seen' = [seen EXCEPT ![g] = NoBalance]
  /\ Goto(g, "idle")
  /\ UNCHANGED <<tables, replica, rowLock, lock, req, callVars, target, overran, faults>>

-----------------------------------------------------------------------------
(* Redis, PostgreSQL and the operating system. *)

(* A call between its SET and its DEL. *)
Working == {"begin", "locked", "saved", "committed", "failed"}

(* The time to live of a lock ends, normally after its call. *)
ExpireLock(r) ==
  /\ lock[r] # Free
  /\ lock' = [lock EXCEPT ![r] = Free]
  /\ overran' = IF pc[lock[r]] \in Working THEN overran \cup {r} ELSE overran
  /\ UNCHANGED <<tables, replica, rowLock, cache, req, pc, callVars, readerVars, faults>>

(* A slip: the balance is cached without a time to live. *)
ExpireCacheNever(w) == FALSE

(* The time to live of a cached balance ends. *)
ExpireCache(w) ==
  /\ cache[w] # NoBalance
  /\ cache' = [cache EXCEPT ![w] = NoBalance]
  /\ UNCHANGED <<tables, replica, rowLock, lock, req, pc, callVars, readerVars, overran,
                 faults>>

(* The process of a call dies; PostgreSQL rolls its transaction back.      *)
Crash(c) ==
  /\ pc[c] \notin Ended \cup {"start"}
  /\ Fault
  /\ Unlock(c)
  /\ Goto(c, "dead")
  /\ UNCHANGED <<tables, replica, lock, cache, req, callVars, readerVars, overran>>

Replicate ==
  /\ ReadReplica
  /\ replica # Tables
  /\ replica' = Tables
  /\ UNCHANGED <<tables, rowLock, lock, cache, req, pc, callVars, readerVars, overran, faults>>

-----------------------------------------------------------------------------
CallStep(c) ==
  \/ CheckIdempotency(c)
  \/ AcquireLock(c)
  \/ LockWallet(c)
  \/ FindKey(c)
  \/ Commit(c, TRUE)
  \/ RejectKey(c)
  \/ ReleaseLock(c, TRUE, TRUE)
  \/ UpdateCache(c, TRUE, TRUE)

CallError(c) ==
  \/ FailEarly(c)
  \/ Commit(c, FALSE)
  \/ Abort(c)
  \/ \E deleted \in BOOLEAN : ReleaseLock(c, deleted, FALSE)
  \/ \E stored \in BOOLEAN : UpdateCache(c, stored, FALSE)
  \/ Crash(c)

ReadStep(g) ==
  \/ \E w \in Wallets : MissCache(g, w)
  \/ ReadBalance(g)
  \/ FillCache(g)

Next ==
  \/ \E c \in Calls : CallStep(c) \/ CallError(c)
  \/ \E g \in Readers : ReadStep(g)
  \/ \E r \in RequestIds : ExpireLock(r)
  \/ \E w \in Wallets : ExpireCache(w)
  \/ Replicate

Spec == Init /\ [][Next]_vars

(* Promises are resolved, Redis forgets keys, the replica catches up.  No  *)
(* reader is bound to ask.                                                 *)
Fairness ==
  /\ \A c \in Calls : WF_vars(CallStep(c))
  /\ \A g \in Readers : WF_vars(ReadBalance(g) \/ FillCache(g))
  /\ \A r \in RequestIds : WF_vars(ExpireLock(r))
  /\ \A w \in Wallets : WF_vars(ExpireCache(w))
  /\ WF_vars(Replicate)

FairSpec == Spec /\ Fairness

-----------------------------------------------------------------------------
Balances == Nat \cup {NoBalance}

Labels == Working \cup Ended \cup {"start", "lock", "cache", "idle", "query", "fill"}

(* Every variable has its type; no balance is ever negative. *)
TypeOK ==
  /\ wallets \in [Wallets -> WalletRows({Currency})]
  /\ keys \in [RequestIds -> Balances]
  /\ done \subseteq Calls
  /\ replica \in [wallets : [Wallets -> WalletRows({Currency})], keys : [RequestIds -> Balances]]
  /\ rowLock \in [Wallets -> Calls \cup {Free}]
  /\ lock \in [RequestIds -> Calls \cup {Free}]
  /\ cache \in [Wallets -> Balances]
  /\ req \in [Calls -> Requests]
  /\ pc \in [Calls \cup Readers -> Labels]
  /\ work \in [Calls -> WalletRows({Currency})]
  /\ insert \in [Calls -> BOOLEAN]
  /\ result \in [Calls -> Balances]
  /\ target \in [Readers -> Wallets]
  /\ seen \in [Readers -> Balances]
  /\ overran \subseteq RequestIds
  /\ faults \in 0 .. MaxFaults

(* Of all calls with one request id at most one takes effect. *)
OncePerRequestId ==
  \A c, d \in done : HasId(c) /\ req[c].rid = req[d].rid => c = d

(* Two calls with one request id are never between SET and DEL at the same *)
(* time, unless a lock has expired under its call: not after a failed      *)
(* connect, a lost reply or a crash either.                                *)
LockExcludes ==
  \A c, d \in Calls :
    /\ HasId(c) /\ req[c].rid = req[d].rid /\ req[c].rid \notin overran
    /\ pc[c] \in Working /\ pc[d] \in Working
    => c = d

(* A withdrawal never takes the day's total above the limit that is in     *)
(* force when it commits, also when the limit is set while it runs.        *)
DailyLimitHeld ==
  [][\A w \in Wallets :
       /\ wallets[w].dailyWithdrawalLimit # NoLimit
       /\ wallets'[w].dailyWithdrawalTotal # wallets[w].dailyWithdrawalTotal
       => wallets'[w].dailyWithdrawalTotal <= wallets[w].dailyWithdrawalLimit]_vars

(* What a call does to the balance of its wallet. *)
Effect(c) ==
  CASE req[c].op = "deposit"            -> req[c].amount
    [] req[c].op = "withdraw"           -> -req[c].amount
    [] req[c].op \in Operations \ Moves -> 0

(* The balance of a wallet is what it was opened with plus the effects of  *)
(* the committed calls: none is lost to a concurrent one that has read the *)
(* balance before it.                                                      *)
BalanceIsLedger ==
  \A w \in Wallets :
    wallets[w].balance =
      Opening[w] + SumFunctionOnSet([c \in Calls |-> Effect(c)], {c \in done : req[c].wallet = w})

(* A wrong balance does not stay in the cache for good. *)
CacheSettles ==
  \A w \in Wallets : <>[](cache[w] \in {NoBalance, wallets[w].balance})
=============================================================================
