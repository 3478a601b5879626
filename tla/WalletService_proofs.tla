------------------------ MODULE WalletService_proofs ------------------------
(***************************************************************************)
(* Proofs about WalletService, for every value of its constants.           *)
(***************************************************************************)
EXTENDS WalletService, Wallet_proofs, TLAPS

(* The parameters of a call. *)
LEMMA RequestType ==
  ASSUME TypeOK, NEW c \in Calls
  PROVE  /\ req[c].op \in Operations
         /\ req[c].wallet \in Wallets
         /\ req[c].amount \in Nat \cup {NoLimit}
         /\ req[c].op # "setLimit" => req[c].amount \in Nat
         /\ req[c].rid \in RequestIds \cup {NoRequestId}
         /\ HasId(c) => req[c].rid \in RequestIds /\ req[c].op \in Moves
  <1>1. req[c] \in Requests
    BY DEF TypeOK
  <1> QED
    BY <1>1, WalletServiceAssumption DEF HasId

(* The wallets a transaction starts from and ends with are rows. *)
LEMMA RunType ==
  ASSUME TypeOK, NEW c \in Calls
  PROVE  /\ Entity(c) \in WalletRows({Currency})
         /\ MayRun(req[c].op, Entity(c), req[c].amount) =>
              Run(req[c].op, Entity(c), req[c].amount) \in WalletRows({Currency})
  <1>1. Entity(c) \in WalletRows({Currency})
    BY RequestType, InsertedRowType DEF Entity, TypeOK
  <1>2. ASSUME MayRun(req[c].op, Entity(c), req[c].amount)
        PROVE  Run(req[c].op, Entity(c), req[c].amount) \in WalletRows({Currency})
    <2> DEFINE w == Entity(c)
               a == req[c].amount
    <2>1. a \in Nat \cup {NoLimit} /\ Today \in Nat
      BY RequestType DEF Today
    <2>2. CASE req[c].op \in Moves
      <3>1. a \in Nat \ {0}
        <4>1. req[c].op = "deposit" \/ req[c].op = "withdraw"
          BY <2>2 DEF Moves
        <4>2. a \in Nat
          BY <4>1, RequestType
        <4> QED
          BY <1>2, <4>1, <4>2 DEF MayRun, MayDeposit, MayWithdraw
      <3> QED
        BY <1>1, <1>2, <2>1, <2>2, <3>1, WalletOperationTypes DEF MayRun, Run, Moves
    <2>3. CASE req[c].op \in StatusChanges
      BY <1>1, <2>1, <2>3, WalletOperationTypes, 1 \in Nat \ {0} DEF Run, StatusChanges
    <2>4. CASE req[c].op = "setLimit"
      BY <1>1, <2>1, <2>4, WalletOperationTypes, 1 \in Nat \ {0} DEF Run
    <2> QED
      BY <2>2, <2>3, <2>4, RequestType DEF Operations
  <1> QED
    BY <1>1, <1>2

(* The count of errors stays in its bound. *)
LEMMA FaultType ==
  ASSUME faults \in 0 .. MaxFaults, Fault \/ NoFault
  PROVE  faults' \in 0 .. MaxFaults
  BY WalletServiceAssumption DEF Fault, NoFault

(* The initial tables have their types. *)
LEMMA TypeInit == Init => TypeOK
  <1> SUFFICES ASSUME Init PROVE TypeOK
    OBVIOUS
  <1>1. \A w \in Wallets : OpeningRow(w) \in WalletRows({Currency})
    <2> SUFFICES ASSUME NEW w \in Wallets PROVE OpeningRow(w) \in WalletRows({Currency})
      OBVIOUS
    <2>1. Opening[w] \in Nat
      BY WalletServiceAssumption
    <2> QED
      BY <2>1, WalletOperationTypes, InsertedRowType, 1 \in Nat DEF OpeningRow
  <1>2. wallets \in [Wallets -> WalletRows({Currency})] /\ keys \in [RequestIds -> Balances]
    BY <1>1 DEF Init, Balances
  <1>3. replica \in [wallets : [Wallets -> WalletRows({Currency})], keys : [RequestIds -> Balances]]
    BY <1>2 DEF Init
  <1>4. work \in [Calls -> WalletRows({Currency})]
    BY InsertedRowType DEF Init
  <1>5. pc \in [Calls \cup Readers -> Labels]
    BY DEF Init, Labels
  <1>6. faults \in 0 .. MaxFaults
    BY WalletServiceAssumption DEF Init
  <1> QED
    BY <1>2, <1>3, <1>4, <1>5, <1>6 DEF Init, TypeOK, Balances
-----------------------------------------------------------------------------
(* The steps of a call before and in its transaction keep the types. *)
LEMMA TransactionType ==
  ASSUME TypeOK, NEW c \in Calls,
         \/ CheckIdempotency(c) \/ AcquireLock(c) \/ FailEarly(c) \/ LockWallet(c)
         \/ FindKey(c) \/ \E acked \in BOOLEAN : Commit(c, acked)
         \/ RejectKey(c) \/ Abort(c) \/ Crash(c)
  PROVE  TypeOK'
  <1>0. /\ req[c].wallet \in Wallets
        /\ HasId(c) => req[c].rid \in RequestIds
    BY RequestType
  <1>1. CASE CheckIdempotency(c)
    <2>1. HasId(c) => View.keys[req[c].rid] \in Balances
      BY <1>0 DEF View, Tables, TypeOK
    <2>2. result' \in [Calls -> Balances]
      BY <1>1, <2>1 DEF CheckIdempotency, TypeOK
    <2>3. pc' \in [Calls \cup Readers -> Labels]
      BY <1>1 DEF CheckIdempotency, Goto, Labels, Working, TypeOK
    <2> QED
      BY <1>1, <2>2, <2>3 DEF CheckIdempotency, TypeOK, tables, readerVars
  <1>2. CASE AcquireLock(c) \/ FailEarly(c)
    <2>1. lock' \in [RequestIds -> Calls \cup {Free}]
      BY <1>2 DEF AcquireLock, FailEarly, TypeOK
    <2>2. pc' \in [Calls \cup Readers -> Labels]
      BY <1>2 DEF AcquireLock, FailEarly, Refused, Goto, Labels, Working, Ended, TypeOK
    <2>3. faults' \in 0 .. MaxFaults
      BY <1>2, FaultType DEF AcquireLock, FailEarly, NoFault, TypeOK
    <2> QED
      BY <1>2, <2>1, <2>2, <2>3 DEF AcquireLock, FailEarly, TypeOK, tables, callVars, readerVars
  <1>3. CASE LockWallet(c)
    <2>1. rowLock' \in [Wallets -> Calls \cup {Free}]
      BY <1>0, <1>3 DEF LockWallet, TypeOK
    <2>2. work' \in [Calls -> WalletRows({Currency})]
      <3>1. CASE UNCHANGED work
        BY <3>1 DEF TypeOK
      <3>2. CASE /\ MayRun(req[c].op, Entity(c), req[c].amount)
                 /\ work' = [work EXCEPT ![c] = Run(req[c].op, Entity(c), req[c].amount)]
        <4>1. Run(req[c].op, Entity(c), req[c].amount) \in WalletRows({Currency})
          BY <3>2, RunType
        <4> QED
          BY <3>2, <4>1 DEF TypeOK
      <3> QED
        BY <1>3, <3>1, <3>2 DEF LockWallet
    <2>3. pc' \in [Calls \cup Readers -> Labels]
      BY <1>3 DEF LockWallet, Goto, Labels, Working, TypeOK
    <2> QED
      BY <1>3, <2>1, <2>2, <2>3 DEF LockWallet, TypeOK, tables, readerVars
  <1>4. CASE FindKey(c)
    <2>1. insert' \in [Calls -> BOOLEAN]
      BY <1>4 DEF FindKey, HasId, TypeOK
    <2>2. pc' \in [Calls \cup Readers -> Labels]
      BY <1>4 DEF FindKey, Goto, Labels, Working, TypeOK
    <2> QED
      BY <1>4, <2>1, <2>2 DEF FindKey, TypeOK, tables, readerVars
  <1>5. ASSUME NEW acked \in BOOLEAN, Commit(c, acked) PROVE TypeOK'
    <2>1. work[c] \in WalletRows({Currency}) /\ work[c].balance \in Balances
      BY DEF TypeOK, WalletRows, Balances
    <2>2. wallets' \in [Wallets -> WalletRows({Currency})]
      BY <1>5, <2>1 DEF Commit, TypeOK
    <2>3. keys' \in [RequestIds -> Balances]
      BY <1>5, <2>1 DEF Commit, KeysAfter, TypeOK
    <2>4. done' \subseteq Calls /\ result' \in [Calls -> Balances]
      BY <1>5, <2>1 DEF Commit, TypeOK
    <2>5. rowLock' \in [Wallets -> Calls \cup {Free}]
      BY <1>5 DEF Commit, Unlock, TypeOK
    <2>6. pc' \in [Calls \cup Readers -> Labels]
      BY <1>5 DEF Commit, Goto, Labels, Working, TypeOK
    <2>7. faults' \in 0 .. MaxFaults
      BY <1>5, FaultType DEF Commit, TypeOK
    <2> QED
      BY <1>5, <2>2, <2>3, <2>4, <2>5, <2>6, <2>7 DEF Commit, TypeOK, readerVars
  <1>6. CASE RejectKey(c) \/ Abort(c) \/ Crash(c)
    <2>1. rowLock' \in [Wallets -> Calls \cup {Free}]
      BY <1>6 DEF RejectKey, Abort, Crash, Unlock, TypeOK
    <2>2. pc' \in [Calls \cup Readers -> Labels]
      BY <1>6 DEF RejectKey, Abort, Crash, Goto, Labels, Working, Ended, TypeOK
    <2>3. faults' \in 0 .. MaxFaults
      BY <1>6, FaultType DEF RejectKey, Abort, Crash, NoFault, TypeOK
    <2> QED
      BY <1>6, <2>1, <2>2, <2>3
         DEF RejectKey, Abort, Crash, TypeOK, tables, callVars, readerVars
  <1> QED
    BY <1>1, <1>2, <1>3, <1>4, <1>5, <1>6

(* The steps of a call after its transaction keep the types. *)
LEMMA AfterwardsType ==
  ASSUME TypeOK, NEW c \in Calls, NEW stored \in BOOLEAN, NEW acked \in BOOLEAN,
         ReleaseLock(c, stored, acked) \/ UpdateCache(c, stored, acked)
  PROVE  TypeOK'
  <1>0. faults' \in 0 .. MaxFaults
    BY FaultType DEF ReleaseLock, UpdateCache, TypeOK
  <1>1. pc' \in [Calls \cup Readers -> Labels]
    BY DEF ReleaseLock, UpdateCache, Goto, Labels, Ended, TypeOK
  <1>2. CASE ReleaseLock(c, stored, acked)
    <2>1. lock' \in [RequestIds -> Calls \cup {Free}]
      BY <1>2 DEF ReleaseLock, TypeOK
    <2> QED
      BY <1>0, <1>1, <1>2, <2>1 DEF ReleaseLock, TypeOK, tables, callVars, readerVars
  <1>3. CASE UpdateCache(c, stored, acked)
    <2>1. CacheAfter(c) \in [Wallets -> Balances]
      BY RequestType DEF CacheAfter, Operations, Moves, StatusChanges, Balances, TypeOK
    <2>2. cache' \in [Wallets -> Balances]
      BY <1>3, <2>1 DEF UpdateCache, TypeOK
    <2> QED
      BY <1>0, <1>1, <1>3, <2>2 DEF UpdateCache, TypeOK, tables, callVars, readerVars
  <1> QED
    BY <1>2, <1>3

(* The steps of a reader, of Redis and of the replica keep the types. *)
LEMMA OutsideType ==
  ASSUME TypeOK,
         \/ \E g \in Readers : ReadStep(g)
         \/ \E r \in RequestIds : ExpireLock(r)
         \/ \E w \in Wallets : ExpireCache(w)
         \/ Replicate
  PROVE  TypeOK'
  <1>1. ASSUME NEW g \in Readers, ReadStep(g) PROVE TypeOK'
    <2>1. CASE \E w \in Wallets : MissCache(g, w)
      <3>1. target' \in [Readers -> Wallets]
        BY <2>1 DEF MissCache, TypeOK
      <3>2. pc' \in [Calls \cup Readers -> Labels]
        BY <2>1 DEF MissCache, Goto, Labels, TypeOK
      <3> QED
        BY <2>1, <3>1, <3>2 DEF MissCache, TypeOK, tables, callVars
    <2>2. CASE ReadBalance(g)
      <3>1. View.wallets[target[g]].balance \in Nat
        BY DEF View, Tables, TypeOK, WalletRows
      <3>2. seen' \in [Readers -> Balances]
        BY <2>2, <3>1 DEF ReadBalance, Balances, TypeOK
      <3>3. pc' \in [Calls \cup Readers -> Labels]
        BY <2>2 DEF ReadBalance, Goto, Labels, TypeOK
      <3> QED
        BY <2>2, <3>2, <3>3 DEF ReadBalance, TypeOK, tables, callVars
    <2>3. CASE FillCache(g)
      <3>1. seen' \in [Readers -> Balances] /\ cache' \in [Wallets -> Balances]
        BY <2>3 DEF FillCache, Balances, TypeOK
      <3>2. pc' \in [Calls \cup Readers -> Labels]
        BY <2>3 DEF FillCache, Goto, Labels, TypeOK
      <3> QED
        BY <2>3, <3>1, <3>2 DEF FillCache, TypeOK, tables, callVars
    <2> QED
      BY <1>1, <2>1, <2>2, <2>3 DEF ReadStep
  <1>2. ASSUME NEW r \in RequestIds, ExpireLock(r) PROVE TypeOK'
    <2>1. lock' \in [RequestIds -> Calls \cup {Free}] /\ overran' \subseteq RequestIds
      BY <1>2 DEF ExpireLock, TypeOK
    <2> QED
      BY <1>2, <2>1 DEF ExpireLock, TypeOK, tables, callVars, readerVars
  <1>3. ASSUME NEW w \in Wallets, ExpireCache(w) PROVE TypeOK'
    <2>1. cache' \in [Wallets -> Balances]
      BY <1>3 DEF ExpireCache, Balances, TypeOK
    <2> QED
      BY <1>3, <2>1 DEF ExpireCache, TypeOK, tables, callVars, readerVars
  <1>4. CASE Replicate
    <2>1. replica' \in [wallets : [Wallets -> WalletRows({Currency})],
                        keys : [RequestIds -> Balances]]
      BY <1>4 DEF Replicate, Tables, TypeOK
    <2> QED
      BY <1>4, <2>1 DEF Replicate, TypeOK, tables, callVars, readerVars
  <1> QED
    BY <1>1, <1>2, <1>3, <1>4

(* Every step keeps the types. *)
LEMMA TypeStep == TypeOK /\ [Next]_vars => TypeOK'
  <1> SUFFICES ASSUME TypeOK, [Next]_vars PROVE TypeOK'
    OBVIOUS
  <1>1. ASSUME NEW c \in Calls, CallStep(c) \/ CallError(c) PROVE TypeOK'
    BY <1>1, TransactionType, AfterwardsType DEF CallStep, CallError
  <1>2. CASE UNCHANGED vars
    BY <1>2 DEF vars, TypeOK, tables, callVars, readerVars
  <1> QED
    BY <1>1, <1>2, OutsideType DEF Next

(* Every variable keeps its type; that balances are natural numbers says   *)
(* that no sequence of deposits, withdrawals and retries overdraws a       *)
(* wallet.                                                                 *)
THEOREM TypeCorrect == Spec => []TypeOK
  BY TypeInit, TypeStep, PTL DEF Spec
-----------------------------------------------------------------------------
(* Inductive for LockExcludes: a call between SET and DEL is the one whose *)
(* key is in Redis, unless a key of this id has expired under its call.    *)
LockHeld ==
  \A c \in Calls :
    HasId(c) /\ pc[c] \in Working /\ req[c].rid \notin overran => lock[req[c].rid] = c

(* A step of a call keeps LockHeld.  DEL drops the key of its own call,    *)
(* because by LockHeld no other call can be between SET and DEL.           *)
LEMMA CallLock ==
  ASSUME TypeOK, LockHeld, NEW c \in Calls, CallStep(c) \/ CallError(c)
  PROVE  LockHeld'
  <1>0. /\ \A d \in Calls : HasId(d) => req[d].rid \in RequestIds
        /\ Free \notin Calls
        /\ \A d \in Calls : HasId(d)' = HasId(d)
        /\ req' = req /\ overran' = overran
    BY RequestType, WalletServiceAssumption
       DEF CallStep, CallError, CheckIdempotency, AcquireLock, FailEarly, LockWallet, FindKey,
           Commit, RejectKey, Abort, ReleaseLock, UpdateCache, Crash, HasId
  <1>1. CASE CheckIdempotency(c)
    BY <1>0, <1>1 DEF CheckIdempotency, Goto, LockHeld, Working, TypeOK
  <1>2. CASE AcquireLock(c)
    BY <1>0, <1>2 DEF AcquireLock, Refused, Goto, LockHeld, Working, TypeOK
  <1>3. CASE FailEarly(c)
    BY <1>0, <1>3 DEF FailEarly, Goto, LockHeld, Working, TypeOK
  <1>4. CASE LockWallet(c) \/ FindKey(c) \/ RejectKey(c) \/ Abort(c) \/ Crash(c)
    BY <1>0, <1>4
       DEF LockWallet, FindKey, RejectKey, Abort, Crash, Goto, LockHeld, Working, Ended, TypeOK
  <1>5. ASSUME NEW acked \in BOOLEAN, Commit(c, acked) PROVE LockHeld'
    BY <1>0, <1>5 DEF Commit, Goto, LockHeld, Working, TypeOK
  <1>6. ASSUME NEW deleted \in BOOLEAN, NEW acked \in BOOLEAN, ReleaseLock(c, deleted, acked)
        PROVE  LockHeld'
    <2>1. pc[c] \in Working /\ pc'[c] \notin Working
      BY <1>6 DEF ReleaseLock, Goto, Working, TypeOK
    <2>2. \A d \in Calls : d # c => pc'[d] = pc[d]
      BY <1>6 DEF ReleaseLock, Goto, TypeOK
    <2>3. \A d \in Calls :
            d # c /\ HasId(d) /\ pc[d] \in Working /\ req[d].rid \notin overran =>
              lock'[req[d].rid] = lock[req[d].rid]
      BY <1>0, <1>6, <2>1 DEF ReleaseLock, LockHeld, TypeOK
    <2> QED
      BY <1>0, <2>1, <2>2, <2>3 DEF LockHeld
  <1>7. ASSUME NEW stored \in BOOLEAN, NEW acked \in BOOLEAN, UpdateCache(c, stored, acked)
        PROVE  LockHeld'
    BY <1>0, <1>7 DEF UpdateCache, Goto, LockHeld, Working, TypeOK
  <1> QED
    BY <1>1, <1>2, <1>3, <1>4, <1>5, <1>6, <1>7 DEF CallStep, CallError

(* Every step keeps LockHeld. *)
LEMMA LockStep ==
  ASSUME TypeOK, LockHeld, [Next]_vars
  PROVE  LockHeld'
  <1>1. ASSUME NEW g \in Readers, ReadStep(g) PROVE LockHeld'
    BY <1>1, WalletServiceAssumption
       DEF ReadStep, MissCache, ReadBalance, FillCache, Goto, LockHeld, HasId, TypeOK
  <1>2. ASSUME NEW r \in RequestIds, ExpireLock(r) PROVE LockHeld'
    BY <1>2, RequestType DEF ExpireLock, LockHeld, HasId, TypeOK
  <1>3. CASE Replicate \/ (\E w \in Wallets : ExpireCache(w)) \/ UNCHANGED vars
    BY <1>3 DEF Replicate, ExpireCache, vars, LockHeld, HasId
  <1> QED
    BY <1>1, <1>2, <1>3, CallLock DEF Next

(* The Redis key keeps calls with one request id apart, although it names  *)
(* no owner and DEL is unconditional, as long as no transaction outlives   *)
(* lockTtl.                                                                *)
THEOREM RequestExclusion == Spec => []LockExcludes
  <1>1. Init => LockHeld
    BY DEF Init, LockHeld, Working
  <1>2. TypeOK /\ LockHeld /\ [Next]_vars => LockHeld'
    BY LockStep
  <1>3. LockHeld => LockExcludes
    BY DEF LockHeld, LockExcludes, HasId
  <1> QED
    BY <1>1, <1>2, <1>3, TypeCorrect, PTL DEF Spec

-----------------------------------------------------------------------------
(* Inductive for OncePerRequestId, in three parts. *)

Waiting == Ended \cup {"start"}

Uncommitted == {"lock", "begin", "locked", "saved"}

(* A client has one attempt under way. *)
OneAttempt ==
  \A c, d \in Calls :
    /\ HasId(c) /\ req[c].rid = req[d].rid
    /\ pc[c] \notin Waiting /\ pc[d] \notin Waiting
    => c = d

(* The lookup that let a call into its transaction is still true. *)
KeyStillMissing ==
  \A c \in Calls : HasId(c) /\ pc[c] \in Uncommitted => keys[req[c].rid] = NoBalance

(* What is committed has left its key. *)
DoneHasKey ==
  \A c \in done : HasId(c) => keys[req[c].rid] # NoBalance

RetryInv == OneAttempt /\ KeyStillMissing /\ DoneHasKey /\ OncePerRequestId

(* A step that writes no table keeps RetryInv if it only moves a call on.  *)
LEMMA RetryMove ==
  ASSUME TypeOK, RetryInv, NEW c \in Calls, NEW label,
         UNCHANGED <<tables, req>>, Goto(c, label),
         pc[c] \notin Waiting \/ label \in Waiting,
         label \in Uncommitted => pc[c] \in Uncommitted \/ ~HasId(c)
  PROVE  RetryInv'
  BY DEF RetryInv, OneAttempt, KeyStillMissing, DoneHasKey, OncePerRequestId, HasId, Goto,
         tables, TypeOK

(* The lookup sees the table and starts the only attempt of its client. *)
LEMMA RetryCheck ==
  ASSUME ~Overlapping, ~ReadReplica, TypeOK, RetryInv, NEW c \in Calls, CheckIdempotency(c)
  PROVE  RetryInv'
  <1>1. UNCHANGED <<tables, req>>
    BY DEF CheckIdempotency
  <1>2. OneAttempt'
    BY <1>1 DEF CheckIdempotency, RetryInv, OneAttempt, HasId, Goto, Waiting, TypeOK
  <1>3. KeyStillMissing'
    BY <1>1 DEF CheckIdempotency, RetryInv, KeyStillMissing, HasId, Goto, View, Tables, tables,
                Uncommitted, TypeOK
  <1> QED
    BY <1>1, <1>2, <1>3 DEF RetryInv, DoneHasKey, OncePerRequestId, HasId, tables

(* The commit writes operation and key together. *)
LEMMA RetryCommit ==
  ASSUME TypeOK, RetryInv, NEW c \in Calls, NEW acked \in BOOLEAN, Commit(c, acked)
  PROVE  RetryInv'
  <1>0. /\ req' = req
        /\ pc[c] = "saved"
        /\ pc'[c] \in {"committed", "failed"}
        /\ \A d \in Calls : d # c => pc'[d] = pc[d]
        /\ done' = done \cup {c}
    BY DEF Commit, Goto, TypeOK
  <1>1. work[c].balance # NoBalance
    BY DEF TypeOK, WalletRows, NoBalance
  <1>2. \A d \in Calls : HasId(d) =>
          keys'[req[d].rid] = IF req[d].rid = req[c].rid THEN work[c].balance
                                                         ELSE keys[req[d].rid]
    BY RequestType DEF Commit, KeysAfter, HasId, TypeOK
  <1>3. OneAttempt'
    BY <1>0 DEF RetryInv, OneAttempt, HasId, Waiting, Ended
  <1>4. KeyStillMissing'
    BY <1>0, <1>2 DEF RetryInv, OneAttempt, KeyStillMissing, HasId, Waiting, Ended, Uncommitted
  <1>5. DoneHasKey'
    BY <1>0, <1>1, <1>2 DEF RetryInv, DoneHasKey, HasId, TypeOK
  <1>6. OncePerRequestId'
    BY <1>0 DEF RetryInv, KeyStillMissing, DoneHasKey, OncePerRequestId, HasId, Uncommitted, TypeOK
  <1> QED
    BY <1>3, <1>4, <1>5, <1>6 DEF RetryInv

(* Every step keeps RetryInv. *)
LEMMA RetryStep ==
  ASSUME ~Overlapping, ~ReadReplica, TypeOK, RetryInv, [Next]_vars
  PROVE  RetryInv'
  <1>1. ASSUME NEW c \in Calls, CallStep(c) \/ CallError(c) PROVE RetryInv'
    <2>1. CASE AcquireLock(c)
      BY <2>1, RetryMove DEF AcquireLock, Refused, Waiting, Ended, Uncommitted
    <2>2. CASE FailEarly(c) \/ Crash(c)
      BY <2>2, RetryMove DEF FailEarly, Crash, Waiting, Ended, Uncommitted
    <2>3. CASE LockWallet(c) \/ FindKey(c) \/ RejectKey(c) \/ Abort(c)
      BY <2>3, RetryMove
         DEF LockWallet, FindKey, RejectKey, Abort, Waiting, Ended, Uncommitted
    <2>4. ASSUME NEW deleted \in BOOLEAN, NEW acked \in BOOLEAN, ReleaseLock(c, deleted, acked)
          PROVE  RetryInv'
      BY <2>4, RetryMove DEF ReleaseLock, Waiting, Ended, Uncommitted
    <2>5. ASSUME NEW stored \in BOOLEAN, NEW acked \in BOOLEAN, UpdateCache(c, stored, acked)
          PROVE  RetryInv'
      BY <2>5, RetryMove DEF UpdateCache, Waiting, Ended, Uncommitted
    <2> QED
      BY <1>1, <2>1, <2>2, <2>3, <2>4, <2>5, RetryCheck, RetryCommit DEF CallStep, CallError
  <1>2. ASSUME NEW g \in Readers, ReadStep(g) PROVE RetryInv'
    <2>1. UNCHANGED <<tables, req>> /\ \A c \in Calls : pc'[c] = pc[c]
      BY <1>2, WalletServiceAssumption
         DEF ReadStep, MissCache, ReadBalance, FillCache, Goto, TypeOK
    <2> QED
      BY <2>1 DEF RetryInv, OneAttempt, KeyStillMissing, DoneHasKey, OncePerRequestId, HasId,
                  tables, TypeOK
  <1>3. CASE \/ \E r \in RequestIds : ExpireLock(r)
             \/ \E w \in Wallets : ExpireCache(w)
             \/ Replicate \/ UNCHANGED vars
    BY <1>3 DEF ExpireLock, ExpireCache, Replicate, vars, tables, RetryInv, OneAttempt,
                KeyStillMissing, DoneHasKey, OncePerRequestId, HasId
  <1> QED
    BY <1>1, <1>2, <1>3 DEF Next

(* A client that retries only after its previous attempt has ended, in     *)
(* success, error or a crash, has its request executed at most once, if    *)
(* lookups go to the primary.  The proof does not use the Redis key: the   *)
(* row of idempotency_keys written in the transaction is what gives it.    *)
THEOREM RetriesAreSafe ==
  ASSUME ~Overlapping, ~ReadReplica
  PROVE  Spec => []OncePerRequestId
  <1>1. Init => RetryInv
    BY WalletServiceAssumption
       DEF Init, RetryInv, OneAttempt, KeyStillMissing, DoneHasKey, OncePerRequestId, Waiting,
           Uncommitted
  <1>2. TypeOK /\ RetryInv /\ [Next]_vars => RetryInv'
    BY RetryStep
  <1>3. RetryInv => OncePerRequestId
    BY DEF RetryInv
  <1> QED
    BY <1>1, <1>2, <1>3, TypeCorrect, PTL DEF Spec

-----------------------------------------------------------------------------
(* The row of a wallet belongs to one transaction from SELECT FOR UPDATE   *)
(* to its end.                                                             *)
InTransaction == {"locked", "saved"}

(* The entity in the memory of a transaction is the operation run on the   *)
(* stored row, as it still is.                                             *)
RowHeld ==
  \A c \in Calls : pc[c] \in InTransaction =>
    /\ rowLock[req[c].wallet] = c
    /\ MayRun(req[c].op, Entity(c), req[c].amount)
    /\ work[c] = Run(req[c].op, Entity(c), req[c].amount)

(* A wallet that is not there has no balance, no limit and no total. *)
AbsentIsNew == \A w \in Wallets : ~Exists(wallets[w]) => wallets[w] = AbsentWallet(Currency)

RowInv == RowHeld /\ AbsentIsNew

(* An operation leaves a wallet behind. *)
LEMMA RunExists ==
  ASSUME TypeOK, NEW c \in Calls, MayRun(req[c].op, Entity(c), req[c].amount)
  PROVE  Exists(Run(req[c].op, Entity(c), req[c].amount))
  <1>1. /\ Entity(c) \in WalletRows({Currency}) /\ Entity(c).status # "ABSENT"
        /\ req[c].op \in Operations
    BY RunType, RequestType DEF MayRun, Exists
  <1> QED
    BY <1>1 DEF Exists, Run, Operations, Moves, StatusChanges, WalletRows, Deposit, Withdraw,
                Freeze, Unfreeze, Close, SetDailyWithdrawalLimit

(* Nothing is written and no transaction is begun. *)
LEMMA RowsKept ==
  ASSUME RowInv, UNCHANGED <<wallets, req, work>>,
         \A c \in Calls : pc'[c] \in InTransaction =>
           pc[c] \in InTransaction /\ rowLock'[req[c].wallet] = rowLock[req[c].wallet]
  PROVE  RowInv'
  BY DEF RowInv, RowHeld, AbsentIsNew, Entity

(* A call that ends its transaction gives up its own locks only. *)
LEMMA RowsGivenUp ==
  ASSUME TypeOK, RowInv, NEW c \in Calls, NEW label, UNCHANGED <<wallets, req, work>>,
         Unlock(c), Goto(c, label), label \notin InTransaction
  PROVE  RowInv'
  <1>1. \A d \in Calls : pc'[d] \in InTransaction => d # c /\ pc[d] \in InTransaction
    BY DEF Goto, TypeOK
  <1>2. \A d \in Calls : pc'[d] \in InTransaction =>
          rowLock'[req[d].wallet] = rowLock[req[d].wallet]
    BY <1>1, RequestType DEF RowInv, RowHeld, Unlock
  <1> QED
    BY <1>1, <1>2, RowsKept

(* SELECT FOR UPDATE finds the row free. *)
LEMMA RowsLocked ==
  ASSUME TypeOK, RowInv, NEW c \in Calls, LockWallet(c)
  PROVE  RowInv'
  <1> DEFINE w == req[c].wallet
  <1>0. w \in Wallets /\ UNCHANGED <<wallets, req>> /\ rowLock[w] = Free
    BY RequestType DEF LockWallet, tables, RowFree
  <1>1. CASE Goto(c, "failed") /\ UNCHANGED <<rowLock, work>>
    BY <1>0, <1>1, RowsKept DEF Goto, InTransaction, TypeOK
  <1>2. CASE /\ MayRun(req[c].op, Entity(c), req[c].amount)
             /\ rowLock' = [rowLock EXCEPT ![w] = c]
             /\ work' = [work EXCEPT ![c] = Run(req[c].op, Entity(c), req[c].amount)]
             /\ Goto(c, "locked")
    <2>1. ASSUME NEW d \in Calls, pc'[d] \in InTransaction
          PROVE  /\ rowLock'[req[d].wallet] = d
                 /\ MayRun(req[d].op, Entity(d), req[d].amount)
                 /\ work'[d] = Run(req[d].op, Entity(d), req[d].amount)
      <3>1. CASE d = c
        BY <1>0, <1>2, <3>1 DEF TypeOK
      <3>2. CASE d # c
        <4>1. pc[d] \in InTransaction
          BY <1>2, <2>1, <3>2 DEF Goto, TypeOK
        <4>2. rowLock[req[d].wallet] = d /\ req[d].wallet # w
          BY <1>0, <4>1, WalletServiceAssumption DEF RowInv, RowHeld
        <4> QED
          BY <1>2, <3>2, <4>1, <4>2, RequestType DEF RowInv, RowHeld, TypeOK
      <3> QED
        BY <3>1, <3>2
    <2>2. \A d \in Calls : Entity(d)' = Entity(d)
      BY <1>0 DEF Entity
    <2> QED
      BY <1>0, <2>1, <2>2 DEF RowInv, RowHeld, AbsentIsNew
  <1> QED
    BY <1>1, <1>2 DEF LockWallet

(* What a commit does to the rows. *)
LEMMA CommitRow ==
  ASSUME TypeOK, RowInv, NEW c \in Calls, NEW acked, Commit(c, acked)
  PROVE  /\ req[c].wallet \in Wallets
         /\ MayRun(req[c].op, Entity(c), req[c].amount)
         /\ wallets' = [wallets EXCEPT ![req[c].wallet] =
                          Run(req[c].op, Entity(c), req[c].amount)]
         /\ UNCHANGED req
  BY RequestType DEF Commit, RowInv, RowHeld, InTransaction

(* A commit writes the row that its transaction holds and no other one. *)
LEMMA RowsCommitted ==
  ASSUME TypeOK, RowInv, NEW c \in Calls, NEW acked, Commit(c, acked)
  PROVE  RowInv'
  <1> DEFINE w == req[c].wallet
             row == Run(req[c].op, Entity(c), req[c].amount)
  <1>1. w \in Wallets /\ wallets' = [wallets EXCEPT ![w] = row] /\ UNCHANGED <<req, work>>
    BY CommitRow DEF Commit
  <1>2. Exists(row)
    BY CommitRow, RunExists
  <1>3. AbsentIsNew'
    BY <1>1, <1>2 DEF RowInv, AbsentIsNew, TypeOK
  <1>4. ASSUME NEW d \in Calls, pc'[d] \in InTransaction
        PROVE  /\ rowLock'[req[d].wallet] = d
               /\ MayRun(req[d].op, Entity(d), req[d].amount)
               /\ work[d] = Run(req[d].op, Entity(d), req[d].amount)
               /\ Entity(d)' = Entity(d)
    <2>1. d # c /\ pc[d] \in InTransaction /\ pc[c] \in InTransaction
      BY <1>4 DEF Commit, Goto, InTransaction, TypeOK
    <2>2. rowLock[req[d].wallet] = d /\ rowLock[w] = c
      BY <2>1 DEF RowInv, RowHeld
    <2>3. wallets'[req[d].wallet] = wallets[req[d].wallet]
      BY <1>1, <2>1, <2>2, RequestType DEF TypeOK
    <2>4. rowLock'[req[d].wallet] = d
      BY <2>1, <2>2, RequestType DEF Commit, Unlock
    <2> QED
      BY <1>1, <2>1, <2>3, <2>4 DEF Entity, RowInv, RowHeld
  <1> QED
    BY <1>1, <1>3, <1>4 DEF RowInv, RowHeld

(* Every step keeps rows with their transactions. *)
LEMMA RowStep ==
  ASSUME TypeOK, RowInv, [Next]_vars
  PROVE  RowInv'
  <1>q. ASSUME NEW c \in Calls, NEW label, UNCHANGED <<wallets, req, work, rowLock>>,
               Goto(c, label), label \in InTransaction => pc[c] \in InTransaction
        PROVE  RowInv'
    BY <1>q, RowsKept DEF Goto, TypeOK
  <1>1. ASSUME NEW c \in Calls, CallStep(c) \/ CallError(c) PROVE RowInv'
    <2>1. CASE CheckIdempotency(c) \/ AcquireLock(c) \/ FailEarly(c) \/ FindKey(c)
      BY <1>q, <2>1
         DEF CheckIdempotency, AcquireLock, Refused, FailEarly, FindKey, InTransaction, tables,
             callVars
    <2>2. CASE RejectKey(c) \/ Abort(c) \/ Crash(c)
      BY <2>2, RowsGivenUp DEF RejectKey, Abort, Crash, InTransaction, tables, callVars
    <2>3. ASSUME NEW deleted \in BOOLEAN, NEW acked \in BOOLEAN,
                 ReleaseLock(c, deleted, acked) \/ UpdateCache(c, deleted, acked)
          PROVE  RowInv'
      BY <1>q, <2>3 DEF ReleaseLock, UpdateCache, InTransaction, tables, callVars
    <2> QED
      BY <1>1, <2>1, <2>2, <2>3, RowsLocked, RowsCommitted DEF CallStep, CallError
  <1>2. ASSUME NEW g \in Readers, ReadStep(g) PROVE RowInv'
    <2>1. UNCHANGED <<wallets, req, work, rowLock>> /\ \A c \in Calls : pc'[c] = pc[c]
      BY <1>2, WalletServiceAssumption
         DEF ReadStep, MissCache, ReadBalance, FillCache, Goto, tables, callVars, TypeOK
    <2> QED
      BY <2>1, RowsKept
  <1>3. CASE \/ \E r \in RequestIds : ExpireLock(r)
             \/ \E w \in Wallets : ExpireCache(w)
             \/ Replicate \/ UNCHANGED vars
    <2>1. UNCHANGED <<wallets, req, work, rowLock, pc>>
      BY <1>3 DEF ExpireLock, ExpireCache, Replicate, vars, tables, callVars
    <2> QED
      BY <2>1, RowsKept
  <1> QED
    BY <1>1, <1>2, <1>3 DEF Next

(* Rows stay with their transactions throughout. *)
THEOREM RowInvariant == Spec => []RowInv
  <1>1. Init => RowInv
    <2> SUFFICES ASSUME Init PROVE RowInv
      OBVIOUS
    <2>1. RowHeld
      BY WalletServiceAssumption DEF Init, RowHeld, InTransaction
    <2>2. ASSUME NEW w \in Wallets, Opening[w] # 0
          PROVE  Exists(OpeningRow(w))
      BY <2>2 DEF OpeningRow, Exists, Deposit, NewWallet
    <2>3. AbsentIsNew
      BY <2>2 DEF Init, AbsentIsNew, OpeningRow
    <2> QED
      BY <2>1, <2>3 DEF RowInv
  <1> QED
    BY <1>1, RowStep, TypeCorrect, PTL DEF Spec

(* Only a commit writes a row. *)
LEMMA OnlyCommits ==
  ASSUME [Next]_vars
  PROVE  \/ UNCHANGED wallets
         \/ \E c \in Calls, acked \in BOOLEAN : Commit(c, acked)
  BY DEF Next, CallStep, CallError, ReadStep, CheckIdempotency, AcquireLock, FailEarly, LockWallet,
         FindKey, RejectKey, Abort, ReleaseLock, UpdateCache, Crash, MissCache, ReadBalance,
         FillCache, ExpireLock, ExpireCache, Replicate, vars, tables

(* Nor does an operation exceed the limit of the row it runs on. *)
LEMMA RunWithinLimit ==
  ASSUME TypeOK, RowInv, NEW c \in Calls, MayRun(req[c].op, Entity(c), req[c].amount),
         wallets[req[c].wallet].dailyWithdrawalLimit # NoLimit,
         Run(req[c].op, Entity(c), req[c].amount).dailyWithdrawalTotal
           # wallets[req[c].wallet].dailyWithdrawalTotal
  PROVE  Run(req[c].op, Entity(c), req[c].amount).dailyWithdrawalTotal
           <= wallets[req[c].wallet].dailyWithdrawalLimit
  <1> DEFINE row == wallets[req[c].wallet]
  <1>1. row \in WalletRows({Currency}) /\ req[c].op \in Operations /\ req[c].wallet \in Wallets
    BY RequestType DEF TypeOK
  <1>2. Exists(row)
    <2>1. AbsentWallet(Currency).dailyWithdrawalLimit = NoLimit
      BY DEF AbsentWallet, NewWallet
    <2> QED
      BY <1>1, <2>1 DEF RowInv, AbsentIsNew
  <1>3. Entity(c) = row
    BY <1>2 DEF Entity
  <1>4. ASSUME req[c].op # "withdraw"
        PROVE  Run(req[c].op, row, req[c].amount).dailyWithdrawalTotal = row.dailyWithdrawalTotal
    BY <1>1, <1>4 DEF Run, Operations, Moves, StatusChanges, WalletRows, Deposit, Freeze, Unfreeze,
                      Close, SetDailyWithdrawalLimit
  <1>5. req[c].op = "withdraw" /\ MayWithdraw(row, req[c].amount, Today)
    BY <1>3, <1>4 DEF MayRun
  <1>6. Run(req[c].op, row, req[c].amount).dailyWithdrawalTotal
          = WithdrawnOn(row, Today) + req[c].amount
    BY <1>1, <1>5 DEF Run, Withdraw, WalletRows
  <1> QED
    BY <1>3, <1>5, <1>6 DEF MayWithdraw, WithinDailyLimit

(* No withdrawal takes the day's total above the limit in force when it    *)
(* commits, whoever sets limits, deposits, withdraws or retries meanwhile: *)
(* the limit that was asked is that of the row the transaction still has.  *)
THEOREM LimitIsKept == Spec => DailyLimitHeld
  <1>1. ASSUME TypeOK, RowInv, [Next]_vars, NEW w \in Wallets,
               wallets[w].dailyWithdrawalLimit # NoLimit,
               wallets'[w].dailyWithdrawalTotal # wallets[w].dailyWithdrawalTotal
        PROVE  wallets'[w].dailyWithdrawalTotal <= wallets[w].dailyWithdrawalLimit
    <2>1. PICK c \in Calls, acked \in BOOLEAN : Commit(c, acked)
      BY <1>1, OnlyCommits
    <2>2. /\ MayRun(req[c].op, Entity(c), req[c].amount)
          /\ wallets' = [wallets EXCEPT ![req[c].wallet] =
                           Run(req[c].op, Entity(c), req[c].amount)]
      BY <1>1, <2>1, CommitRow
    <2>3. w = req[c].wallet
      BY <1>1, <2>2 DEF TypeOK
    <2>4. wallets'[w] = Run(req[c].op, Entity(c), req[c].amount)
      BY <1>1, <2>2, <2>3 DEF TypeOK
    <2> QED
      BY <1>1, <2>2, <2>3, <2>4, RunWithinLimit
  <1>2. TypeOK /\ RowInv /\ [Next]_vars =>
          [\A w \in Wallets :
             /\ wallets[w].dailyWithdrawalLimit # NoLimit
             /\ wallets'[w].dailyWithdrawalTotal # wallets[w].dailyWithdrawalTotal
             => wallets'[w].dailyWithdrawalTotal <= wallets[w].dailyWithdrawalLimit]_vars
    BY <1>1
  <1> QED
    BY <1>2, TypeCorrect, RowInvariant, PTL DEF Spec, DailyLimitHeld

-----------------------------------------------------------------------------
(* Inductive for BalanceIsLedger: what is committed is finite, and a call  *)
(* that has not come to its commit is not among it.                        *)
CommitIsAhead == \A c \in done : pc[c] \notin Uncommitted \cup {"start"}

LedgerInv == IsFiniteSet(done) /\ CommitIsAhead /\ BalanceIsLedger

(* The effect of a call is what its operation does to the balance of the   *)
(* row it runs on.                                                         *)
LEMMA RunEffect ==
  ASSUME TypeOK, AbsentIsNew, NEW c \in Calls, MayRun(req[c].op, Entity(c), req[c].amount)
  PROVE  Run(req[c].op, Entity(c), req[c].amount).balance
           = wallets[req[c].wallet].balance + Effect(c)
  <1> DEFINE row == wallets[req[c].wallet]
  <1>1. /\ Entity(c) \in WalletRows({Currency}) /\ row \in WalletRows({Currency})
        /\ req[c].op \in Operations /\ req[c].amount \in Int /\ req[c].wallet \in Wallets
    <2>1. Entity(c) \in WalletRows({Currency})
      BY RunType
    <2>2. /\ req[c].op \in Operations /\ req[c].amount \in Int
          /\ req[c].wallet \in Wallets
      BY RequestType DEF NoLimit
    <2> QED
      BY <2>1, <2>2 DEF TypeOK
  <1>2. Entity(c).balance = row.balance
    <2>1. CASE Exists(row)
      BY <2>1 DEF Entity
    <2>2. CASE ~Exists(row)
      <3>1. row = AbsentWallet(Currency)
        BY <1>1, <2>2 DEF AbsentIsNew
      <3> QED
        BY <2>2, <3>1 DEF Entity, AbsentWallet, NewWallet
    <2> QED
      BY <2>1, <2>2
  <1>3. Run(req[c].op, Entity(c), req[c].amount).balance = Entity(c).balance + Effect(c)
    BY <1>1 DEF Run, Effect, Operations, Moves, StatusChanges, WalletRows, Deposit, Withdraw,
                Freeze, Unfreeze, Close, SetDailyWithdrawalLimit
  <1> QED
    BY <1>2, <1>3

(* An effect is an integer. *)
LEMMA EffectType ==
  ASSUME TypeOK, NEW c \in Calls
  PROVE  Effect(c) \in Int
  BY RequestType DEF Effect, Operations, Moves, StatusChanges

(* Nothing is committed. *)
LEMMA LedgerKept ==
  ASSUME LedgerInv, UNCHANGED <<tables, req>>,
         \A c \in done : pc'[c] = pc[c] \/ pc'[c] \notin Uncommitted \cup {"start"}
  PROVE  LedgerInv'
  <1>1. IsFiniteSet(done)' /\ CommitIsAhead'
    BY DEF LedgerInv, CommitIsAhead, tables
  <1>2. [c \in Calls |-> Effect(c)]' = [c \in Calls |-> Effect(c)]
    BY DEF Effect
  <1>3. \A w \in Wallets : {c \in done : req[c].wallet = w}' = {c \in done : req[c].wallet = w}
    BY DEF tables
  <1>4. BalanceIsLedger'
    BY <1>2, <1>3 DEF LedgerInv, BalanceIsLedger, tables
  <1> QED
    BY <1>1, <1>4 DEF LedgerInv

(* A commit adds one effect to one balance. *)
LEMMA LedgerCommit ==
  ASSUME TypeOK, RowInv, LedgerInv, NEW c \in Calls, NEW acked \in BOOLEAN, Commit(c, acked)
  PROVE  LedgerInv'
  <1> DEFINE effects == [d \in Calls |-> Effect(d)]
             of(w) == {d \in done : req[d].wallet = w}
  <1>1. /\ pc[c] = "saved" /\ c \notin done /\ done' = done \cup {c} /\ UNCHANGED req
        /\ pc'[c] \notin Uncommitted \cup {"start"}
        /\ \A d \in Calls \ {c} : pc'[d] = pc[d]
    BY DEF Commit, LedgerInv, CommitIsAhead, Uncommitted, Goto, TypeOK
  <1>2. IsFiniteSet(done') /\ CommitIsAhead'
    BY <1>1, FS_AddElement DEF LedgerInv, CommitIsAhead, TypeOK
  <1>3. /\ req[c].wallet \in Wallets
        /\ \A w \in Wallets : wallets'[w].balance =
             IF w = req[c].wallet THEN wallets[w].balance + Effect(c) ELSE wallets[w].balance
    <2>1. /\ MayRun(req[c].op, Entity(c), req[c].amount) /\ req[c].wallet \in Wallets
          /\ wallets' = [wallets EXCEPT ![req[c].wallet] =
                           Run(req[c].op, Entity(c), req[c].amount)]
      BY CommitRow
    <2>2. Run(req[c].op, Entity(c), req[c].amount).balance
            = wallets[req[c].wallet].balance + Effect(c)
      BY <2>1, RunEffect DEF RowInv
    <2> QED
      BY <2>1, <2>2 DEF TypeOK
  <1>4. effects' = effects /\ \A d \in Calls : effects[d] \in Int
    <2>1. effects' = effects
      BY <1>1 DEF Effect
    <2>2. \A d \in Calls : effects[d] \in Int
      BY EffectType
    <2> QED
      BY <2>1, <2>2
  <1>5. ASSUME NEW w \in Wallets
        PROVE  wallets'[w].balance = Opening[w] + SumFunctionOnSet(effects', of(w)')
    <2>1. IsFiniteSet(of(w)) /\ of(w) \subseteq Calls
      BY FS_Subset DEF LedgerInv, TypeOK
    <2>2. wallets[w].balance = Opening[w] + SumFunctionOnSet(effects, of(w))
      BY DEF LedgerInv, BalanceIsLedger
    <2>3. CASE w # req[c].wallet
      <3>1. of(w)' = of(w)
        BY <1>1, <2>3
      <3> QED
        BY <1>3, <1>4, <2>2, <2>3, <3>1
    <2>4. CASE w = req[c].wallet
      <3>1. of(w)' = of(w) \cup {c} /\ c \notin of(w)
        BY <1>1, <2>4
      <3>2. \A d \in of(w) : effects[d] \in Int
        BY <1>4, <2>1
      <3>3. Opening[w] \in Int
        BY WalletServiceAssumption
      <3>t. SumFunctionOnSet(effects, of(w)) \in Int
        BY <2>1, <3>2, SumType
      <3>4. SumFunctionOnSet(effects, of(w) \cup {c}) = SumFunctionOnSet(effects, of(w)) + Effect(c)
        <4>1. effects[c] = Effect(c) /\ effects[c] \in Int
          BY <1>4
        <4> HIDE DEF effects, of
        <4> QED
          BY <2>1, <3>1, <3>2, <4>1, SumInsert
      <3>5. wallets'[w].balance = wallets[w].balance + Effect(c) /\ Effect(c) \in Int
        BY <1>3, <2>4, EffectType
      <3> HIDE DEF effects, of
      <3>6. SumFunctionOnSet(effects', of(w)') = SumFunctionOnSet(effects, of(w)) + Effect(c)
        BY <1>4, <3>1, <3>4
      <3> QED
        BY <2>2, <3>3, <3>t, <3>5, <3>6
    <2> QED
      BY <2>3, <2>4
  <1> QED
    BY <1>2, <1>5 DEF LedgerInv, BalanceIsLedger

(* Every step keeps the balances with the ledger. *)
LEMMA LedgerStep ==
  ASSUME TypeOK, RowInv, LedgerInv, [Next]_vars
  PROVE  LedgerInv'
  <1>q. ASSUME NEW c \in Calls, NEW label, UNCHANGED <<tables, req>>, Goto(c, label),
               label \in Uncommitted => pc[c] \in Uncommitted \cup {"start"}, label # "start"
        PROVE  LedgerInv'
    <2>1. ASSUME NEW d \in done
          PROVE  pc'[d] = pc[d] \/ pc'[d] \notin Uncommitted \cup {"start"}
      BY <1>q, <2>1 DEF Goto, LedgerInv, CommitIsAhead, TypeOK
    <2> QED
      BY <1>q, <2>1, LedgerKept
  <1>1. ASSUME NEW c \in Calls, CallStep(c) \/ CallError(c) PROVE LedgerInv'
    <2>1. CASE CheckIdempotency(c) \/ AcquireLock(c) \/ FailEarly(c) \/ LockWallet(c) \/ FindKey(c)
      BY <1>q, <2>1
         DEF CheckIdempotency, AcquireLock, Refused, FailEarly, LockWallet, FindKey, Uncommitted
    <2>2. CASE RejectKey(c) \/ Abort(c) \/ Crash(c)
      BY <1>q, <2>2 DEF RejectKey, Abort, Crash, Uncommitted
    <2>3. ASSUME NEW deleted \in BOOLEAN, NEW acked \in BOOLEAN,
                 ReleaseLock(c, deleted, acked) \/ UpdateCache(c, deleted, acked)
          PROVE  LedgerInv'
      BY <1>q, <2>3 DEF ReleaseLock, UpdateCache, Uncommitted
    <2> QED
      BY <1>1, <2>1, <2>2, <2>3, LedgerCommit DEF CallStep, CallError
  <1>2. ASSUME NEW g \in Readers, ReadStep(g) PROVE LedgerInv'
    <2>1. UNCHANGED <<tables, req>> /\ \A c \in Calls : pc'[c] = pc[c]
      BY <1>2, WalletServiceAssumption
         DEF ReadStep, MissCache, ReadBalance, FillCache, Goto, TypeOK
    <2> QED
      BY <2>1, LedgerKept DEF TypeOK
  <1>3. CASE \/ \E r \in RequestIds : ExpireLock(r)
             \/ \E w \in Wallets : ExpireCache(w)
             \/ Replicate \/ UNCHANGED vars
    <2>1. UNCHANGED <<tables, req, pc>>
      BY <1>3 DEF ExpireLock, ExpireCache, Replicate, vars
    <2> QED
      BY <2>1, LedgerKept
  <1> QED
    BY <1>1, <1>2, <1>3 DEF Next

(* At first nothing is committed, and the balances are the opening ones. *)
LEMMA LedgerInit ==
  ASSUME Init
  PROVE  LedgerInv
  <1>1. done = {} /\ IsFiniteSet(done) /\ CommitIsAhead
    BY FS_EmptySet DEF Init, CommitIsAhead
  <1>2. ASSUME NEW w \in Wallets
        PROVE  wallets[w].balance = Opening[w]
    <2>1. Opening[w] \in Nat
      BY WalletServiceAssumption
    <2> QED
      BY <2>1 DEF Init, OpeningRow, AbsentWallet, Deposit, NewWallet
  <1>3. ASSUME NEW w \in Wallets
        PROVE  SumFunctionOnSet([c \in Calls |-> Effect(c)], {c \in done : req[c].wallet = w}) = 0
    <2>1. {c \in done : req[c].wallet = w} = {}
      BY <1>1
    <2> QED
      BY <2>1, SumEmpty
  <1>4. BalanceIsLedger
    <2>1. \A w \in Wallets : Opening[w] \in Nat
      BY WalletServiceAssumption
    <2> QED
      BY <1>2, <1>3, <2>1 DEF BalanceIsLedger
  <1> QED
    BY <1>1, <1>4 DEF LedgerInv

(* The balance of a wallet is its opening balance plus the effects of all  *)
(* committed calls: no deposit or withdrawal is lost, and none counts      *)
(* twice, with any number of concurrent calls, retries, errors, crashes    *)
(* and expired locks.                                                      *)
THEOREM BalancesAreLedger == Spec => []BalanceIsLedger
  <1>1. Init => LedgerInv
    BY LedgerInit
  <1>2. TypeOK /\ RowInv /\ LedgerInv /\ [Next]_vars => LedgerInv'
    BY LedgerStep
  <1>3. LedgerInv => BalanceIsLedger
    BY DEF LedgerInv
  <1> QED
    BY <1>1, <1>2, <1>3, TypeCorrect, RowInvariant, PTL DEF Spec
=============================================================================
