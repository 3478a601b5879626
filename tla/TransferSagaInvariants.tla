----------------------- MODULE TransferSagaInvariants -----------------------
(***************************************************************************)
(* The inductive invariants behind the proofs about TransferSagaService.   *)
(* They say what a driver between two of its statements may rely on.       *)
(***************************************************************************)
EXTENDS TransferSagaService

(* From its SELECT FOR UPDATE to its end a transaction holds its wallet. *)
Holding == {"locked", "marked", "written"}

(* The guard of the saga's mark has been passed. *)
PastGuard == {"marked", "written"}

(* No saga row yet. *)
BeforeSaga == {"start", "findSender", "getOrCreate", "createSaga"}

HoldsWallet ==
  \A d \in Drivers :
    pc[d] \in Holding => walletLock[WalletOf(step[d], job[d])] = d

(* Before the debit nothing has happened to the money, and right after it  *)
(* only the debit.                                                         *)
StateTellsDebit ==
  \A c \in Calls :
    /\ pc[c] \in BeforeSaga => sagas[c] = "NONE"
    /\ sagas[c] \in {"NONE", "PENDING"} => \A s \in Steps : Times(s, c) = 0
    /\ sagas[c] = "DEBITED" => /\ Times("debit", c) = 1
                               /\ Times("credit", c) = 0
                               /\ Times("compensate", c) = 0

(* A driver past the guard still has its step to do.  It may not rely on   *)
(* the saga being DEBITED any more: the other payout locks another wallet. *)
GuardHolds ==
  \A d \in Drivers :
    pc[d] \in PastGuard =>
      /\ step[d] = "debit" => sagas[job[d]] = "PENDING"
      /\ step[d] # "debit" => /\ sagas[job[d]] \notin {"NONE", "PENDING"}
                              /\ Times("debit", job[d]) = 1
                              /\ Times(step[d], job[d]) = 0

(* A step that is behind its driver has taken effect. *)
StepDone ==
  /\ \A d \in Drivers : pc[d] = "committed" => Times(step[d], job[d]) = 1
  /\ \A c \in Calls : pc[c] = "saveKey" => Times("credit", c) = 1

(* Without a replica the error handler's reading is still true when it     *)
(* saves the saga.                                                         *)
HandlerHolds ==
  ~ReadReplica => \A c \in Calls : pc[c] = "fail" => sagas[c] = "PENDING"

UntouchedInv == ~ReadReplica => FailedMeansUntouched

SagaInv ==
  /\ HoldsWallet
  /\ StateTellsDebit
  /\ GuardHolds
  /\ AtMostOnce
  /\ StepDone
  /\ HandlerHolds
  /\ UntouchedInv
  /\ KeyAnswersTransfer

-----------------------------------------------------------------------------
(* A transaction's wallet row is still one on which its operation may run: *)
(* what the entity's guard was asked under the row lock is true up to the  *)
(* commit.                                                                 *)
MayStillOperate ==
  \A d \in Drivers :
    pc[d] \in Holding =>
      MayOperate(step[d], wallets[WalletOf(step[d], job[d])], req[job[d]].amount)

(* A wallet that is not there has no money. *)
AbsentIsEmpty == \A w \in Wallets : ~Exists(wallets[w]) => wallets[w].balance = 0

RowInv == NoLostUpdate /\ MayStillOperate /\ ClosedIsEmpty /\ AbsentIsEmpty

(* The saga row has been created. *)
AfterSaga == InTransaction \cup {"committed", "saveKey", "catch", "fail"}

(* Both wallets of a transfer are there, in one currency. *)
Matched(c) ==
  /\ Exists(wallets[req[c].from])
  /\ Exists(wallets[req[c].to])
  /\ wallets[req[c].from].currency = wallets[req[c].to].currency

(* Wallets are never deleted, so one that the replica shows is there, and  *)
(* the currencies that were compared before the saga stay as they were.    *)
CurrencyInv ==
  /\ \A w \in Wallets : Exists(replica.wallets[w]) => Exists(wallets[w])
  /\ \A c \in Calls :
       /\ pc[c] = "getOrCreate" => Exists(wallets[req[c].from])
       /\ pc[c] = "createSaga" \/ sagas[c] # "NONE" => Matched(c)
       /\ pc[c] \in AfterSaga => sagas[c] # "NONE"

-----------------------------------------------------------------------------
(* One recoverer in all, no request that outlives the stuck threshold, and *)
(* no replica: then a saga has one driver at a time.                       *)
SoleDriver ==
  /\ ~Overlap
  /\ ~ReadReplica
  /\ \A i, j \in Instances : i = j

(* A recoverer works only on sagas whose request has ended. *)
RequestIsOver ==
  /\ \A c \in old : pc[c] \in Ended
  /\ \A i \in Instances :
       /\ \A c \in queue[i] : pc[c] \in Ended
       /\ pc[i] \in InTransaction \cup {"committed"} => pc[job[i]] \in Ended

(* Nobody moves the saga between a driver's guard and its commit. *)
GuardIsFresh ==
  \A d \in Drivers :
    pc[d] \in PastGuard => sagas[job[d]] = MarkedFrom(step[d])

SoleInv == RequestIsOver /\ GuardIsFresh /\ SagaTellsLedger
=============================================================================
