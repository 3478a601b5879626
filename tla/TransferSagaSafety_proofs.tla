---------------------- MODULE TransferSagaSafety_proofs ----------------------
(***************************************************************************)
(* What holds of sagas whatever interferes: any number of requests and of  *)
(* recoverers, requests that outlive the stuck threshold, a stale replica, *)
(* errors, lost answers and crashes at every step.                         *)
(***************************************************************************)
EXTENDS TransferSagaInvariants, TransferSagaService_proofs

-----------------------------------------------------------------------------
(* Counting the events of a saga. *)

(* A count of wallet events is a natural number. *)
LEMMA TimesNat ==
  ASSUME TypeOK, NEW s, NEW c
  PROVE  Times(s, c) \in Nat
  BY CopiesNat DEF Times, TypeOK, TablesOK

(* The events of two steps, or of two sagas, are different rows. *)
LEMMA EventsDiffer ==
  ASSUME NEW s \in Steps, NEW t \in Steps, NEW c, NEW e,
         EventOf(s, c) = EventOf(t, e)
  PROVE  s = t /\ c = e
  BY DEF EventOf, Event, EventType, Steps

(* The table and the calls are left alone. *)
LEMMA TimesFrame ==
  ASSUME UNCHANGED <<events, req>>
  PROVE  \A s, c : Times(s, c)' = Times(s, c)
  BY DEF Times, EventOf, WalletOf

(* An event of no saga counts for none. *)
LEMMA TimesPlain ==
  ASSUME TypeOK, UNCHANGED req, NEW type, NEW w, NEW a,
         events' = BagAdd(events, Event(type, w, NoSaga, a))
  PROVE  \A s \in Steps, c \in Calls : Times(s, c)' = Times(s, c)
  <1> TAKE s \in Steps, c \in Calls
  <1>1. EventOf(s, c)' = EventOf(s, c)
    BY DEF EventOf, WalletOf
  <1>2. EventOf(s, c) # Event(type, w, NoSaga, a)
    BY DriversAssumption DEF EventOf, Event
  <1> QED
    BY <1>1, <1>2, CopiesBagAdd DEF Times, TypeOK, TablesOK

(* A committed step counts once more, and nothing else does. *)
LEMMA TimesCommit ==
  ASSUME TypeOK, UNCHANGED req, NEW s \in Steps, NEW c \in Calls,
         events' = BagAdd(events, EventOf(s, c))
  PROVE  /\ Times(s, c)' = Times(s, c) + 1
         /\ \A t \in Steps, e \in Calls : t # s \/ e # c => Times(t, e)' = Times(t, e)
  <1>1. \A t, e : EventOf(t, e)' = EventOf(t, e)
    BY DEF EventOf, WalletOf
  <1>2. \A t, e : Times(t, e)' = Copies(EventOf(t, e), BagAdd(events, EventOf(s, c)))
    BY <1>1 DEF Times
  <1>3. ASSUME NEW t \in Steps, NEW e \in Calls, t # s \/ e # c
        PROVE  EventOf(t, e) # EventOf(s, c)
    BY <1>3, EventsDiffer
  <1> QED
    BY <1>2, <1>3, CopiesBagAdd DEF Times, TypeOK, TablesOK
-----------------------------------------------------------------------------
(* SagaInv is inductive. *)

(* What one driver does to itself, its locks given back or kept, while the *)
(* sagas, their events and the keys stay as they are.                      *)
LEMMA LocalMove ==
  ASSUME TypeOK, TypeOK', SagaInv, NEW d \in Drivers,
         \A e \in Drivers : e # d => /\ pc'[e] = pc[e]
                                     /\ step'[e] = step[e]
                                     /\ job'[e] = job[e],
         \A w \in Wallets : \A e \in Drivers :
           e # d /\ walletLock[w] = e => walletLock'[w] = e,
         UNCHANGED <<sagas, idem, req>>,
         \A s \in Steps, c \in Calls : Times(s, c)' = Times(s, c),
         pc'[d] \notin Holding \cup {"committed"},
         pc'[d] \in BeforeSaga => pc[d] \in BeforeSaga,
         pc'[d] = "saveKey" => Times("credit", d) = 1,
         pc'[d] = "fail" /\ ~ReadReplica => sagas[d] = "PENDING"
  PROVE  SagaInv'
  <1>t. /\ \A e \in Drivers : e # d /\ pc[e] \in InTransaction \cup {"committed"}
             => job[e] \in Calls /\ step[e] \in Steps
        /\ {"debit", "credit", "compensate"} \subseteq Steps
    BY JobType DEF Steps
  <1>1. HoldsWallet'
    <2> SUFFICES ASSUME NEW e \in Drivers, pc'[e] \in Holding
                 PROVE  walletLock'[WalletOf(step[e], job[e])'] = e
      BY DEF HoldsWallet
    <2>1. e # d /\ pc[e] \in Holding
      OBVIOUS
    <2>2. job[e] \in Calls /\ step[e] \in Steps
      BY <1>t, <2>1 DEF Holding, InTransaction
    <2>3. WalletOf(step[e], job[e])' = WalletOf(step[e], job[e])
      BY <2>1 DEF WalletOf
    <2>4. WalletOf(step[e], job[e]) \in Wallets
      BY <2>2, RequestType
    <2>5. walletLock[WalletOf(step[e], job[e])] = e
      BY <2>1 DEF SagaInv, HoldsWallet
    <2> QED
      BY <2>1, <2>3, <2>4, <2>5
  <1>2. StateTellsDebit'
    BY <1>t DEF SagaInv, StateTellsDebit, Drivers
  <1>3. GuardHolds'
    <2> SUFFICES ASSUME NEW e \in Drivers, pc'[e] \in PastGuard
                 PROVE  /\ step'[e] = "debit" => sagas'[job'[e]] = "PENDING"
                        /\ step'[e] # "debit" => /\ sagas'[job'[e]] \notin {"NONE", "PENDING"}
                                                 /\ Times("debit", job[e])' = 1
                                                 /\ Times(step[e], job[e])' = 0
      BY DEF GuardHolds
    <2>1. e # d /\ pc[e] \in PastGuard
      BY DEF Holding, PastGuard
    <2>2. job[e] \in Calls /\ step[e] \in Steps
      BY <1>t, <2>1 DEF PastGuard, InTransaction
    <2>3. /\ Times("debit", job[e])' = Times("debit", job[e])
          /\ Times(step[e], job[e])' = Times(step[e], job[e])
      BY <1>t, <2>1, <2>2
    <2> QED
      BY <2>1, <2>3 DEF SagaInv, GuardHolds
  <1>4. AtMostOnce'
    BY <1>t DEF SagaInv, AtMostOnce
  <1>5. StepDone'
    <2>1. ASSUME NEW e \in Drivers, pc'[e] = "committed"
          PROVE  Times(step[e], job[e])' = 1
      <3>1. e # d /\ pc[e] = "committed"
        BY <2>1
      <3>2. job[e] \in Calls /\ step[e] \in Steps
        BY <1>t, <3>1
      <3>3. Times(step[e], job[e])' = Times(step[e], job[e])
        BY <3>1, <3>2
      <3> QED
        BY <3>1, <3>3 DEF SagaInv, StepDone
    <2>2. ASSUME NEW c \in Calls, pc'[c] = "saveKey"
          PROVE  Times("credit", c)' = 1
      BY <1>t, <2>2 DEF SagaInv, StepDone, Drivers
    <2> QED
      BY <2>1, <2>2 DEF StepDone
  <1>6. HandlerHolds'
    BY DEF SagaInv, HandlerHolds, Drivers
  <1>7. UntouchedInv'
    BY DEF SagaInv, UntouchedInv, FailedMeansUntouched
  <1>8. KeyAnswersTransfer'
    BY <1>t DEF SagaInv, KeyAnswersTransfer, TypeOK, TablesOK, Keys
  <1> QED
    BY <1>1, <1>2, <1>3, <1>4, <1>5, <1>6, <1>7, <1>8 DEF SagaInv
(* Nothing the drivers rely on changes. *)
LEMMA Quiet ==
  ASSUME TypeOK, SagaInv, UNCHANGED <<pc, step, job, walletLock, sagas, idem, req>>,
         \A s \in Steps, c \in Calls : Times(s, c)' = Times(s, c)
  PROVE  SagaInv'
  <1>t. /\ \A e \in Drivers : pc[e] \in InTransaction \cup {"committed"}
             => job[e] \in Calls /\ step[e] \in Steps
        /\ {"debit", "credit", "compensate"} \subseteq Steps
    BY JobType DEF Steps
  <1>1. HoldsWallet'
    BY DEF SagaInv, HoldsWallet, WalletOf
  <1>2. StateTellsDebit' /\ AtMostOnce' /\ HandlerHolds'
    BY <1>t DEF SagaInv, StateTellsDebit, AtMostOnce, HandlerHolds
  <1>3. GuardHolds'
    BY <1>t DEF SagaInv, GuardHolds, PastGuard, InTransaction
  <1>4. StepDone'
    BY <1>t DEF SagaInv, StepDone
  <1>5. UntouchedInv'
    BY DEF SagaInv, UntouchedInv, FailedMeansUntouched
  <1>6. KeyAnswersTransfer'
    BY <1>t DEF SagaInv, KeyAnswersTransfer, TypeOK, TablesOK, Keys
  <1> QED
    BY <1>1, <1>2, <1>3, <1>4, <1>5, <1>6 DEF SagaInv

(* A driver's step inside its transaction, before the commit: it may take  *)
(* a free wallet and, once it holds it, pass the guard.                    *)
LEMMA InsideMove ==
  ASSUME TypeOK, TypeOK', SagaInv, NEW d \in Drivers, NEW label \in Holding,
         pc[d] \in InTransaction,
         pc' = [pc EXCEPT ![d] = label],
         UNCHANGED <<step, job, sagas, events, idem, req>>,
         walletLock'[WalletOf(step[d], job[d])] = d,
         \A w \in Wallets : \A e \in Drivers : walletLock[w] = e => walletLock'[w] = e,
         label \in PastGuard /\ pc[d] \notin PastGuard => MayMark(step[d], sagas[job[d]])
  PROVE  SagaInv'
  <1>p. /\ pc'[d] = label
        /\ \A e \in Drivers : e # d => pc'[e] = pc[e]
    BY DEF TypeOK, DriversOK
  <1>t. /\ \A e \in Drivers : pc[e] \in InTransaction \cup {"committed"}
             => job[e] \in Calls /\ step[e] \in Steps
        /\ {"debit", "credit", "compensate"} \subseteq Steps
    BY JobType DEF Steps
  <1>f. \A s, c : Times(s, c)' = Times(s, c)
    BY TimesFrame
  <1>n. label \notin BeforeSaga \cup {"committed", "saveKey", "fail"}
    BY DEF Holding, BeforeSaga
  <1>1. HoldsWallet'
    <2> SUFFICES ASSUME NEW e \in Drivers, pc'[e] \in Holding
                 PROVE  walletLock'[WalletOf(step[e], job[e])] = e
      BY DEF HoldsWallet, WalletOf
    <2>1. CASE e = d
      BY <2>1
    <2>2. CASE e # d
      <3>1. pc[e] \in Holding /\ pc[e] \in InTransaction
        BY <1>p, <2>2 DEF Holding, InTransaction
      <3>2. WalletOf(step[e], job[e]) \in Wallets
        BY <1>t, <3>1, RequestType
      <3> QED
        BY <3>1, <3>2 DEF SagaInv, HoldsWallet
    <2> QED
      BY <2>1, <2>2
  <1>2. StateTellsDebit' /\ AtMostOnce' /\ HandlerHolds'
    BY <1>p, <1>f, <1>n DEF SagaInv, StateTellsDebit, AtMostOnce, HandlerHolds, Drivers
  <1>3. GuardHolds'
    <2> SUFFICES ASSUME NEW e \in Drivers, pc'[e] \in PastGuard
                 PROVE  /\ step[e] = "debit" => sagas[job[e]] = "PENDING"
                        /\ step[e] # "debit" => /\ sagas[job[e]] \notin {"NONE", "PENDING"}
                                                /\ Times("debit", job[e]) = 1
                                                /\ Times(step[e], job[e]) = 0
      BY <1>f DEF GuardHolds
    <2>1. CASE pc[e] \in PastGuard
      BY <2>1 DEF SagaInv, GuardHolds
    <2>2. CASE pc[e] \notin PastGuard
      <3>1. e = d /\ sagas[job[d]] = MarkedFrom(step[d])
        BY <1>p, <2>2 DEF MayMark
      <3>2. job[d] \in Calls /\ step[d] \in Steps
        BY <1>t
      <3>3. step[d] # "debit" => sagas[job[d]] = "DEBITED"
        BY <3>1 DEF MarkedFrom
      <3>4. step[d] # "debit" => /\ Times("debit", job[d]) = 1
                                 /\ Times(step[d], job[d]) = 0
        BY <3>2, <3>3 DEF SagaInv, StateTellsDebit, Steps
      <3> QED
        BY <3>1, <3>3, <3>4 DEF MarkedFrom
    <2> QED
      BY <2>1, <2>2
  <1>4. StepDone'
    BY <1>p, <1>f, <1>n DEF SagaInv, StepDone, Drivers
  <1>5. UntouchedInv'
    BY <1>f DEF SagaInv, UntouchedInv, FailedMeansUntouched
  <1>6. KeyAnswersTransfer'
    BY <1>f DEF SagaInv, KeyAnswersTransfer
  <1> QED
    BY <1>1, <1>2, <1>3, <1>4, <1>5, <1>6 DEF SagaInv
(* Whoever throws or leaves ends up outside every transaction. *)
LEMMA ThrowMoves ==
  ASSUME TypeOK, NEW d \in Drivers, Throw(d)
  PROVE  /\ pc'[d] \in {"catch", "error", "begin", "loop"}
         /\ \A e \in Drivers : e # d => pc'[e] = pc[e] /\ step'[e] = step[e]
  <1>1. \/ StartStep(d, "compensate")
        \/ \E label \in {"catch", "error", "loop"} : Leave(d, label)
    BY DEF Throw, Drivers
  <1> QED
    BY <1>1 DEF StartStep, Leave, TypeOK, DriversOK

(* The end of a transaction takes no lock from another driver. *)
LEMMA ReleaseMoves ==
  ASSUME TypeOK, NEW d \in Drivers, Release(d)
  PROVE  \A w \in Wallets : \A e \in Drivers :
           e # d /\ walletLock[w] = e => walletLock'[w] = e
  BY DEF Release

(* The commit of a step.  No other driver is past the guard of the same    *)
(* step of this saga, because both would hold the same wallet; one may be  *)
(* past the guard of the other payout, and keeps what it relies on.        *)
LEMMA CommitSafe ==
  ASSUME TypeOK, TypeOK', SagaInv, NEW d \in Drivers, NEW acked, Commit(d, acked)
  PROVE  SagaInv'
  <1>j. job[d] \in Calls /\ step[d] \in Steps /\ pc[d] = "written"
    BY JobType DEF Commit, InTransaction
  <1>c. PICK c \in Calls, s \in Steps : job[d] = c /\ step[d] = s
    BY <1>j
  <1>p. /\ pc'[d] \in {"committed", "catch", "error", "begin", "loop"}
        /\ \A e \in Drivers : e # d => pc'[e] = pc[e] /\ step'[e] = step[e]
        /\ pc'[d] = "committed" => step'[d] = s
        /\ UNCHANGED <<job, req, idem>>
    BY <1>c, ThrowMoves DEF Commit, Goto, TypeOK, DriversOK
  <1>t. /\ \A e \in Drivers : pc[e] \in InTransaction \cup {"committed"}
             => job[e] \in Calls /\ step[e] \in Steps
        /\ {"debit", "credit", "compensate"} \subseteq Steps
    BY JobType DEF Steps
  <1>s. /\ sagas'[c] = MarkedAs(s)
        /\ \A e \in Calls : e # c => sagas'[e] = sagas[e]
        /\ sagas'[c] \in {"DEBITED", "COMPLETED", "COMPENSATED"}
        /\ sagas'[c] = "DEBITED" <=> s = "debit"
    BY <1>c DEF Commit, TypeOK, TablesOK, SagaRows, MarkedAs, Steps
  <1>n. /\ Times(s, c)' = Times(s, c) + 1
        /\ \A t \in Steps, e \in Calls : t # s \/ e # c => Times(t, e)' = Times(t, e)
    BY <1>c, <1>p, TimesCommit DEF Commit
  <1>g. /\ s = "debit" => sagas[c] = "PENDING"
        /\ s # "debit" => sagas[c] \notin {"NONE", "PENDING"} /\ Times("debit", c) = 1
        /\ Times(s, c) = 0
    <2>1. /\ s = "debit" => sagas[c] = "PENDING"
          /\ s # "debit" => /\ sagas[c] \notin {"NONE", "PENDING"}
                            /\ Times("debit", c) = 1
                            /\ Times(s, c) = 0
      BY <1>j, <1>c DEF SagaInv, GuardHolds, PastGuard
    <2>2. s = "debit" => Times(s, c) = 0
      BY <1>c, <2>1 DEF SagaInv, StateTellsDebit
    <2> QED
      BY <2>1, <2>2
  <1>i. Times(s, c)' = 1
    BY <1>n, <1>g
  <1>z. s = "debit" => Times("credit", c) = 0 /\ Times("compensate", c) = 0
    BY <1>c, <1>g, <1>t DEF SagaInv, StateTellsDebit
  <1>1. HoldsWallet'
    <2> SUFFICES ASSUME NEW e \in Drivers, pc'[e] \in Holding
                 PROVE  walletLock'[WalletOf(step[e], job[e])'] = e
      BY DEF HoldsWallet
    <2>1. e # d /\ pc[e] \in Holding /\ pc[e] \in InTransaction
      BY <1>p DEF Holding, InTransaction
    <2>2. WalletOf(step[e], job[e])' = WalletOf(step[e], job[e])
      BY <1>p, <2>1 DEF WalletOf
    <2>3. WalletOf(step[e], job[e]) \in Wallets
      BY <1>t, <2>1, RequestType
    <2>4. walletLock[WalletOf(step[e], job[e])] = e
      BY <2>1 DEF SagaInv, HoldsWallet
    <2>5. Release(d)
      BY DEF Commit
    <2> QED
      BY <2>1, <2>2, <2>3, <2>4, <2>5, ReleaseMoves
  <1>2. StateTellsDebit'
    <2> SUFFICES ASSUME NEW e \in Calls
                 PROVE  /\ pc'[e] \in BeforeSaga => sagas'[e] = "NONE"
                        /\ sagas'[e] \in {"NONE", "PENDING"} => \A t \in Steps : Times(t, e)' = 0
                        /\ sagas'[e] = "DEBITED" => /\ Times("debit", e)' = 1
                                                    /\ Times("credit", e)' = 0
                                                    /\ Times("compensate", e)' = 0
      BY DEF StateTellsDebit
    <2>1. CASE e # c
      <3>1. pc'[e] \in BeforeSaga => pc[e] \in BeforeSaga
        BY <1>p DEF BeforeSaga, Drivers
      <3> QED
        BY <1>s, <1>n, <1>t, <2>1, <3>1 DEF SagaInv, StateTellsDebit
    <2>2. CASE e = c
      <3>1. pc'[e] \notin BeforeSaga
        <4>1. sagas[c] # "NONE"
          BY <1>g
        <4>2. pc[c] \notin BeforeSaga
          BY <1>c, <4>1 DEF SagaInv, StateTellsDebit
        <4> QED
          BY <1>p, <2>2, <4>2 DEF BeforeSaga, Drivers
      <3>2. s = "debit" => /\ Times("debit", c)' = 1
                           /\ Times("credit", c)' = 0
                           /\ Times("compensate", c)' = 0
        BY <1>c, <1>n, <1>i, <1>z, <1>t
      <3> QED
        BY <1>s, <2>2, <3>1, <3>2
    <2> QED
      BY <2>1, <2>2
  <1>3. GuardHolds'
    <2> SUFFICES ASSUME NEW e \in Drivers, pc'[e] \in PastGuard
                 PROVE  /\ step'[e] = "debit" => sagas'[job'[e]] = "PENDING"
                        /\ step'[e] # "debit" => /\ sagas'[job'[e]] \notin {"NONE", "PENDING"}
                                                 /\ Times("debit", job[e])' = 1
                                                 /\ Times(step[e], job[e])' = 0
      BY DEF GuardHolds
    <2>1. /\ e # d /\ pc[e] \in PastGuard
          /\ pc[e] \in Holding /\ pc[e] \in InTransaction
      BY <1>p DEF PastGuard, Holding, InTransaction
    <2>2. job[e] \in Calls /\ step[e] \in Steps /\ job'[e] = job[e] /\ step'[e] = step[e]
      BY <1>p, <1>t, <2>1
    <2>3. /\ step[e] = "debit" => sagas[job[e]] = "PENDING"
          /\ step[e] # "debit" => /\ sagas[job[e]] \notin {"NONE", "PENDING"}
                                  /\ Times("debit", job[e]) = 1
                                  /\ Times(step[e], job[e]) = 0
      BY <2>1 DEF SagaInv, GuardHolds
    <2>4. CASE job[e] # c
      <3>1. /\ Times("debit", job[e])' = Times("debit", job[e])
            /\ Times(step[e], job[e])' = Times(step[e], job[e])
        BY <1>n, <1>p, <1>t, <2>1, <2>2, <2>4
      <3> QED
        BY <1>s, <2>2, <2>3, <2>4, <3>1
    <2>5. CASE job[e] = c
      <3>1. step[e] # s
        <4>1. SUFFICES ASSUME step[e] = s PROVE FALSE
          OBVIOUS
        <4>2. /\ walletLock[WalletOf(step[e], job[e])] = e
              /\ walletLock[WalletOf(step[d], job[d])] = d
          BY <1>j, <2>1 DEF SagaInv, HoldsWallet, Holding
        <4> QED
          BY <1>c, <2>1, <2>5, <4>1, <4>2
      <3>2. step[e] # "debit" /\ s # "debit"
        BY <1>g, <2>3, <2>5, <3>1
      <3>3. /\ Times("debit", job[e])' = Times("debit", job[e])
            /\ Times(step[e], job[e])' = Times(step[e], job[e])
        BY <1>n, <1>p, <1>t, <2>1, <2>2, <3>1, <3>2
      <3> QED
        BY <1>s, <2>2, <2>3, <2>5, <3>2, <3>3
    <2> QED
      BY <2>4, <2>5
  <1>4. AtMostOnce'
    <2> SUFFICES ASSUME NEW e \in Calls
                 PROVE  /\ \A t \in Steps : Times(t, e)' <= 1
                        /\ Times("credit", e)' + Times("compensate", e)' > 0
                             => Times("debit", e)' = 1
      BY DEF AtMostOnce
    <2>1. \A t \in Steps : Times(t, e) \in Nat /\ Times(t, e) <= 1
      BY TimesNat DEF SagaInv, AtMostOnce
    <2>2. \A t \in Steps : Times(t, e)' <= 1
      BY <1>n, <1>i, <2>1
    <2>3. CASE e # c
      BY <1>n, <1>t, <2>2, <2>3 DEF SagaInv, AtMostOnce
    <2>4. CASE e = c
      <3>1. Times("debit", c)' = 1
        BY <1>c, <1>n, <1>g, <1>i, <1>t
      <3> QED
        BY <2>2, <2>4, <3>1
    <2> QED
      BY <2>3, <2>4
  <1>5. StepDone'
    <2>1. ASSUME NEW e \in Drivers, pc'[e] = "committed"
          PROVE  Times(step[e], job[e])' = 1
      <3>1. CASE e = d
        <4>1. step'[e] = s /\ job'[e] = c
          BY <1>c, <1>p, <2>1, <3>1
        <4> QED
          BY <1>i, <4>1
      <3>2. CASE e # d
        <4>1. pc[e] = "committed" /\ step'[e] = step[e] /\ job'[e] = job[e]
          BY <1>p, <2>1, <3>2
        <4>2. job[e] \in Calls /\ step[e] \in Steps /\ Times(step[e], job[e]) = 1
          BY <1>t, <4>1 DEF SagaInv, StepDone
        <4> QED
          BY <1>n, <1>i, <4>1, <4>2
      <3> QED
        BY <3>1, <3>2
    <2>2. ASSUME NEW e \in Calls, pc'[e] = "saveKey"
          PROVE  Times("credit", e)' = 1
      <3>1. pc[e] = "saveKey" /\ Times("credit", e) = 1
        BY <1>p, <2>2 DEF SagaInv, StepDone, Drivers
      <3> QED
        BY <1>n, <1>i, <1>t, <3>1
    <2> QED
      BY <2>1, <2>2 DEF StepDone
  <1>6. HandlerHolds'
    <2> SUFFICES ASSUME ~ReadReplica, NEW e \in Calls, pc'[e] = "fail"
                 PROVE  sagas'[e] = "PENDING"
      BY DEF HandlerHolds
    <2>1. e # d /\ pc[e] = "fail" /\ sagas[e] = "PENDING"
      BY <1>p DEF SagaInv, HandlerHolds, Drivers
    <2>2. e # c
      <3>1. SUFFICES ASSUME e = c PROVE FALSE
        OBVIOUS
      <3>2. s = "debit"
        BY <1>g, <2>1, <3>1
      <3>3. d \in Calls /\ c = d
        BY <1>c, <3>2 DEF TypeOK, DriversOK, Drivers
      <3> QED
        BY <2>1, <3>1, <3>3
    <2> QED
      BY <1>s, <2>1, <2>2
  <1>7. UntouchedInv'
    <2> SUFFICES ASSUME ~ReadReplica, NEW e \in Calls, sagas'[e] = "FAILED", NEW t \in Steps
                 PROVE  Times(t, e)' = 0
      BY DEF UntouchedInv, FailedMeansUntouched
    <2>1. e # c /\ sagas[e] = "FAILED"
      BY <1>s
    <2> QED
      BY <1>n, <2>1 DEF SagaInv, UntouchedInv, FailedMeansUntouched
  <1>8. KeyAnswersTransfer'
    <2> SUFFICES ASSUME NEW r \in RequestIds, idem[r] # NoSaga
                 PROVE  req[idem[r]].rid = r /\ Times("credit", idem[r])' = 1
      BY <1>p DEF KeyAnswersTransfer
    <2>1. idem[r] \in Calls
      BY DEF TypeOK, TablesOK, Keys
    <2>2. req[idem[r]].rid = r /\ Times("credit", idem[r]) = 1
      BY DEF SagaInv, KeyAnswersTransfer
    <2> QED
      BY <1>n, <1>i, <1>t, <1>p, <2>1, <2>2
  <1> QED
    BY <1>1, <1>2, <1>3, <1>4, <1>5, <1>6, <1>7, <1>8 DEF SagaInv
(* The saga's row is created: until then it had no driver past a guard. *)
LEMMA CreateSagaSafe ==
  ASSUME TypeOK, TypeOK', SagaInv, NEW c \in Calls, NEW acked, CreateSaga(c, acked)
  PROVE  SagaInv'
  <1>p. /\ pc[c] = "createSaga" /\ pc'[c] \in {"begin", "error"}
        /\ \A e \in Drivers : e # c => pc'[e] = pc[e]
        /\ UNCHANGED <<step, job, walletLock, idem, req>>
    BY DEF CreateSaga, Outcome, Goto, TypeOK, DriversOK, Drivers, locks
  <1>n. \A s, e : Times(s, e)' = Times(s, e)
    BY TimesFrame DEF CreateSaga
  <1>s. /\ sagas[c] = "NONE" /\ sagas'[c] = "PENDING"
        /\ \A e \in Calls : e # c => sagas'[e] = sagas[e]
    BY <1>p DEF CreateSaga, InitialState, SagaInv, StateTellsDebit, BeforeSaga,
                TypeOK, TablesOK, SagaRows
  <1>t. \A e \in Drivers : pc[e] \in InTransaction => job[e] \in Calls /\ step[e] \in Steps
    BY JobType
  <1>1. HoldsWallet'
    BY <1>p DEF SagaInv, HoldsWallet, WalletOf, Holding, Drivers
  <1>2. StateTellsDebit'
    BY <1>p, <1>n, <1>s DEF SagaInv, StateTellsDebit, BeforeSaga, Drivers
  <1>3. GuardHolds'
    <2> SUFFICES ASSUME NEW e \in Drivers, pc'[e] \in PastGuard
                 PROVE  /\ step[e] = "debit" => sagas'[job[e]] = "PENDING"
                        /\ step[e] # "debit" => /\ sagas'[job[e]] \notin {"NONE", "PENDING"}
                                                /\ Times("debit", job[e]) = 1
                                                /\ Times(step[e], job[e]) = 0
      BY <1>p, <1>n DEF GuardHolds
    <2>1. pc[e] \in PastGuard /\ job[e] \in Calls
      BY <1>p, <1>t DEF PastGuard, InTransaction
    <2>2. job[e] # c
      BY <1>s, <2>1 DEF SagaInv, GuardHolds
    <2> QED
      BY <1>s, <2>1, <2>2 DEF SagaInv, GuardHolds
  <1>4. AtMostOnce' /\ KeyAnswersTransfer'
    BY <1>p, <1>n DEF SagaInv, AtMostOnce, KeyAnswersTransfer
  <1>5. StepDone'
    BY <1>p, <1>n DEF SagaInv, StepDone, Drivers
  <1>6. HandlerHolds'
    BY <1>p, <1>s DEF SagaInv, HandlerHolds, Drivers
  <1>7. UntouchedInv'
    BY <1>n, <1>s DEF SagaInv, UntouchedInv, FailedMeansUntouched
  <1> QED
    BY <1>1, <1>2, <1>3, <1>4, <1>5, <1>6, <1>7 DEF SagaInv

(* The error handler saves FAILED over whatever the row has become. *)
LEMMA MarkFailedSafe ==
  ASSUME TypeOK, TypeOK', SagaInv, NEW c \in Calls, MarkFailed(c)
  PROVE  SagaInv'
  <1>p. /\ pc[c] = "fail" /\ pc'[c] = "error"
        /\ \A e \in Drivers : e # c => pc'[e] = pc[e]
        /\ UNCHANGED <<step, job, walletLock, idem, req>>
    BY DEF MarkFailed, Goto, TypeOK, DriversOK, Drivers, locks
  <1>n. \A s, e : Times(s, e)' = Times(s, e)
    BY TimesFrame DEF MarkFailed
  <1>s. /\ sagas'[c] = "FAILED"
        /\ \A e \in Calls : e # c => sagas'[e] = sagas[e]
    BY DEF MarkFailed, MarkAsFailed, TypeOK, TablesOK, SagaRows
  <1>t. \A e \in Drivers : pc[e] \in InTransaction => job[e] \in Calls /\ step[e] \in Steps
    BY JobType
  <1>1. HoldsWallet'
    BY <1>p DEF SagaInv, HoldsWallet, WalletOf, Holding, Drivers
  <1>2. StateTellsDebit'
    BY <1>p, <1>n, <1>s DEF SagaInv, StateTellsDebit, BeforeSaga, Drivers
  <1>3. GuardHolds'
    <2> SUFFICES ASSUME NEW e \in Drivers, pc'[e] \in PastGuard
                 PROVE  /\ step[e] = "debit" => sagas'[job[e]] = "PENDING"
                        /\ step[e] # "debit" => /\ sagas'[job[e]] \notin {"NONE", "PENDING"}
                                                /\ Times("debit", job[e]) = 1
                                                /\ Times(step[e], job[e]) = 0
      BY <1>p, <1>n DEF GuardHolds
    <2>1. e # c /\ pc[e] \in PastGuard /\ job[e] \in Calls
      BY <1>p, <1>t DEF PastGuard, InTransaction
    <2>2. step[e] = "debit" => job[e] # c
      BY <2>1 DEF TypeOK, DriversOK, Drivers
    <2> QED
      BY <1>s, <2>1, <2>2 DEF SagaInv, GuardHolds
  <1>4. AtMostOnce' /\ KeyAnswersTransfer'
    BY <1>p, <1>n DEF SagaInv, AtMostOnce, KeyAnswersTransfer
  <1>5. StepDone'
    BY <1>p, <1>n DEF SagaInv, StepDone, Drivers
  <1>6. HandlerHolds'
    BY <1>p, <1>s DEF SagaInv, HandlerHolds, Drivers
  <1>7. UntouchedInv'
    <2>1. ~ReadReplica => \A t \in Steps : Times(t, c) = 0
      BY <1>p DEF SagaInv, HandlerHolds, StateTellsDebit
    <2> QED
      BY <1>n, <1>s, <2>1 DEF SagaInv, UntouchedInv, FailedMeansUntouched
  <1> QED
    BY <1>1, <1>2, <1>3, <1>4, <1>5, <1>6, <1>7 DEF SagaInv

(* The key is stored after the credit. *)
LEMMA SaveKeySafe ==
  ASSUME TypeOK, TypeOK', SagaInv, NEW c \in Calls, NEW saved, NEW acked,
         SaveKey(c, saved, acked)
  PROVE  SagaInv'
  <1>p. /\ pc[c] = "saveKey" /\ pc'[c] \in {"ok", "catch"}
        /\ \A e \in Drivers : e # c => pc'[e] = pc[e]
        /\ UNCHANGED <<step, job, walletLock, sagas, req>>
    BY DEF SaveKey, Outcome, Goto, TypeOK, DriversOK, Drivers, locks
  <1>n. \A s, e : Times(s, e)' = Times(s, e)
    BY TimesFrame DEF SaveKey
  <1>1. HoldsWallet' /\ StateTellsDebit' /\ HandlerHolds'
    BY <1>p, <1>n DEF SagaInv, HoldsWallet, StateTellsDebit, HandlerHolds, WalletOf,
                      Holding, BeforeSaga, Drivers
  <1>2. GuardHolds'
    BY <1>p, <1>n DEF SagaInv, GuardHolds, PastGuard, Drivers
  <1>3. AtMostOnce' /\ StepDone'
    BY <1>p, <1>n DEF SagaInv, AtMostOnce, StepDone, Drivers
  <1>4. UntouchedInv'
    BY <1>p, <1>n DEF SagaInv, UntouchedInv, FailedMeansUntouched
  <1>5. KeyAnswersTransfer'
    <2>1. Times("credit", c) = 1
      BY <1>p DEF SagaInv, StepDone
    <2>2. \A r \in RequestIds : idem'[r] = idem[r] \/ (idem'[r] = c /\ req[c].rid = r)
      BY DEF SaveKey, TypeOK, TablesOK, Keys
    <2> QED
      BY <1>p, <1>n, <2>1, <2>2 DEF SagaInv, KeyAnswersTransfer
  <1> QED
    BY <1>1, <1>2, <1>3, <1>4, <1>5 DEF SagaInv
-----------------------------------------------------------------------------
(* The initial state: no saga, and only events of no saga. *)
LEMMA SagaInvInit ==
  ASSUME Init
  PROVE  SagaInv
  <1>1. \A s \in Steps, c \in Calls : Times(s, c) = 0
    <2> TAKE s \in Steps, c \in Calls
    <2>1. \A e \in OpeningEvents : e.saga = NoSaga
      BY DEF OpeningEvents, Event
    <2>2. EventOf(s, c).saga = c
      BY DEF EventOf, Event
    <2>3. EventOf(s, c) \notin OpeningEvents
      BY <2>1, <2>2, DriversAssumption
    <2> QED
      BY <2>3 DEF Init, Times, Copies, SetToBag, BagToSet
  <1>2. \A d \in Drivers : pc[d] \in {"start", "idle"}
    BY DEF Init
  <1>3. {"debit", "credit", "compensate"} \subseteq Steps
    BY DEF Steps
  <1>4. HoldsWallet /\ GuardHolds
    BY <1>2 DEF HoldsWallet, GuardHolds, Holding, PastGuard
  <1>5. StateTellsDebit
    BY <1>1 DEF Init, StateTellsDebit
  <1>6. AtMostOnce
    BY <1>1, <1>3 DEF AtMostOnce
  <1>7. StepDone /\ HandlerHolds
    BY <1>2 DEF StepDone, HandlerHolds, Drivers
  <1>8. UntouchedInv /\ KeyAnswersTransfer
    BY <1>1 DEF Init, UntouchedInv, FailedMeansUntouched, KeyAnswersTransfer
  <1> QED
    BY <1>4, <1>5, <1>6, <1>7, <1>8 DEF SagaInv

(* The steps of a request outside its transactions. *)
LEMMA CallSafe ==
  ASSUME TypeOK, TypeOK', SagaInv, NEW c \in Calls, CallStep(c) \/ CallError(c)
  PROVE  SagaInv'
  <1> c \in Drivers /\ c \notin Instances
    BY DriversAssumption DEF Drivers
  <1>1. ASSUME NEW label, Goto(c, label), UNCHANGED <<step, job, walletLock, sagas, idem, req>>,
               \A s \in Steps, e \in Calls : Times(s, e)' = Times(s, e),
               label \notin Holding \cup {"committed", "saveKey", "fail"},
               label \in BeforeSaga => pc[c] \in BeforeSaga
        PROVE  SagaInv'
    <2>1. pc'[c] = label /\ \A e \in Drivers : e # c => pc'[e] = pc[e]
      BY <1>1 DEF Goto, TypeOK, DriversOK
    <2> QED
      BY <1>1, <2>1, LocalMove
  <1>2. CASE CheckIdempotency(c) \/ FindSender(c) \/ FailEarly(c) \/ FailHandler(c)
    <2>1. /\ pc[c] \in BeforeSaga \/ FailHandler(c)
          /\ UNCHANGED <<step, job, walletLock, sagas, events, idem, req>>
      BY <1>2 DEF CheckIdempotency, FindSender, FailEarly, FailHandler, BeforeSaga, db, locks
    <2>2. PICK label \in {"replay", "error", "findSender", "getOrCreate"} :
            Goto(c, label) /\ (FailHandler(c) => label = "error")
      BY <1>2 DEF CheckIdempotency, FindSender, FailEarly, FailHandler, Outcome
    <2> QED
      BY <1>1, <2>1, <2>2, TimesFrame DEF Holding, BeforeSaga
  <1>3. ASSUME NEW acked, GetOrCreateReceiver(c, acked) PROVE SagaInv'
    <2>1. \A s \in Steps, e \in Calls : Times(s, e)' = Times(s, e)
      BY <1>3, TimesFrame, TimesPlain DEF GetOrCreateReceiver
    <2>2. PICK label \in {"createSaga", "error"} : Goto(c, label)
      BY <1>3 DEF GetOrCreateReceiver, Outcome
    <2> QED
      BY <1>1, <1>3, <2>1, <2>2 DEF GetOrCreateReceiver, locks, Holding, BeforeSaga
  <1>4. CASE ReloadSaga(c)
    <2>1. /\ pc'[c] \in {"begin", "fail", "error"}
          /\ pc'[c] = "fail" => View.sagas[c] = "PENDING"
          /\ \A e \in Drivers : e # c => pc'[e] = pc[e] /\ step'[e] = step[e]
          /\ UNCHANGED <<job, walletLock, sagas, events, idem, req>>
      BY <1>4 DEF ReloadSaga, StartStep, Leave, TypeOK, DriversOK, db, locks
    <2>2. pc'[c] = "fail" /\ ~ReadReplica => sagas[c] = "PENDING"
      BY <2>1 DEF View, Tables
    <2> QED
      BY <2>1, <2>2, LocalMove, TimesFrame DEF Holding, BeforeSaga
  <1> QED
    BY <1>2, <1>3, <1>4, CreateSagaSafe, MarkFailedSafe, SaveKeySafe
       DEF CallStep, CallError

(* The steps in and around the transactions. *)
LEMMA SagaSafe ==
  ASSUME TypeOK, TypeOK', SagaInv, NEW d \in Drivers, SagaStep(d) \/ SagaError(d)
  PROVE  SagaInv'
  <1>1. ASSUME Throw(d), UNCHANGED <<job, sagas, events, idem, req>>,
               Release(d) \/ UNCHANGED walletLock
        PROVE  SagaInv'
    BY <1>1, ThrowMoves, ReleaseMoves, TimesFrame, LocalMove DEF Holding, BeforeSaga
  <1>2. CASE LockWallet(d)
    <2> DEFINE w == WalletOf(step[d], job[d])
    <2>1. CASE Throw(d) /\ UNCHANGED walletLock
      BY <1>1, <1>2, <2>1 DEF LockWallet, db
    <2>2. CASE /\ walletLock' = [walletLock EXCEPT ![w] = d]
               /\ Goto(d, "locked")
               /\ UNCHANGED <<step, attempt>>
      <3>1. pc[d] \in InTransaction /\ walletLock[w] = Free
        BY <1>2 DEF LockWallet, RowFree, InTransaction
      <3>2. w \in Wallets
        BY <3>1, JobType, RequestType
      <3>3. /\ walletLock'[w] = d
            /\ \A v \in Wallets : \A e \in Drivers : walletLock[v] = e => walletLock'[v] = e
        BY <2>2, <3>1, <3>2, DriversAssumption DEF TypeOK, LocksOK
      <3>4. /\ UNCHANGED <<step, job, sagas, events, idem, req>>
            /\ pc' = [pc EXCEPT ![d] = "locked"]
        BY <1>2, <2>2 DEF LockWallet, db, Goto
      <3> QED
        BY <3>1, <3>3, <3>4, InsideMove DEF Holding, PastGuard
    <2> QED
      BY <1>2, <2>1, <2>2 DEF LockWallet
  <1>3. CASE ReadSaga(d)
    <2>1. CASE Throw(d) /\ Release(d)
      BY <1>1, <1>3, <2>1 DEF ReadSaga, db
    <2>2. CASE MayMark(step[d], sagas[job[d]]) /\ Goto(d, "marked") /\ UNCHANGED <<step, attempt, locks, work>>
      <3>1. pc[d] \in InTransaction /\ pc[d] \in Holding
        BY <1>3 DEF ReadSaga, InTransaction, Holding
      <3>2. walletLock[WalletOf(step[d], job[d])] = d
        BY <3>1 DEF SagaInv, HoldsWallet
      <3>3. /\ UNCHANGED <<step, job, walletLock, sagas, events, idem, req>>
            /\ pc' = [pc EXCEPT ![d] = "marked"]
        BY <1>3, <2>2 DEF ReadSaga, db, locks, Goto
      <3> QED
        BY <2>2, <3>1, <3>2, <3>3, InsideMove DEF Holding
    <2> QED
      BY <1>3, <2>1, <2>2 DEF ReadSaga
  <1>4. CASE WriteSaga(d)
    <2>1. pc[d] \in InTransaction /\ pc[d] \in Holding /\ pc[d] \in PastGuard
      BY <1>4 DEF WriteSaga, InTransaction, Holding, PastGuard
    <2>2. walletLock[WalletOf(step[d], job[d])] = d
      BY <2>1 DEF SagaInv, HoldsWallet
    <2>3. /\ UNCHANGED <<step, job, walletLock, sagas, events, idem, req>>
          /\ pc' = [pc EXCEPT ![d] = "written"]
      BY <1>4 DEF WriteSaga, db, Goto
    <2> QED
      BY <2>1, <2>2, <2>3, InsideMove DEF Holding
  <1>5. ASSUME NEW ok, InvalidateCache(d, ok) PROVE SagaInv'
    <2>1. UNCHANGED <<job, walletLock, sagas, events, idem, req>> /\ pc[d] = "committed"
      BY <1>5 DEF InvalidateCache, db, locks
    <2>2. CASE Throw(d)
      BY <1>1, <2>1, <2>2
    <2>3. CASE StartStep(d, "credit")
      <3>1. /\ pc'[d] = "begin"
            /\ \A e \in Drivers : e # d => pc'[e] = pc[e] /\ step'[e] = step[e]
        BY <2>3 DEF StartStep, TypeOK, DriversOK
      <3> QED
        BY <2>1, <3>1, LocalMove, TimesFrame DEF Holding, BeforeSaga
    <2>4. CASE step[d] = "credit" /\ Leave(d, IF d \in Calls THEN "saveKey" ELSE "loop")
      <3>1. /\ pc'[d] = IF d \in Calls THEN "saveKey" ELSE "loop"
            /\ \A e \in Drivers : e # d => pc'[e] = pc[e] /\ step'[e] = step[e]
        BY <2>4 DEF Leave, TypeOK, DriversOK
      <3>2. d \in Calls => Times("credit", d) = 1
        BY <2>1, <2>4 DEF SagaInv, StepDone, TypeOK, DriversOK
      <3> QED
        BY <2>1, <3>1, <3>2, LocalMove, TimesFrame DEF Holding, BeforeSaga
    <2> QED
      BY <1>5, <2>2, <2>3, <2>4 DEF InvalidateCache
  <1>6. ASSUME NEW ok, PublishFailed(d, ok) PROVE SagaInv'
    <2>1. /\ UNCHANGED <<job, walletLock, sagas, events, idem, req>>
          /\ pc'[d] \in {"error", "loop"}
          /\ \A e \in Drivers : e # d => pc'[e] = pc[e] /\ step'[e] = step[e]
      BY <1>6 DEF PublishFailed, db, locks, Leave, TypeOK, DriversOK
    <2> QED
      BY <2>1, LocalMove, TimesFrame DEF Holding, BeforeSaga
  <1>7. ASSUME NEW retryable, Abort(d, retryable) PROVE SagaInv'
    <2>1. Release(d) /\ UNCHANGED <<job, sagas, events, idem, req>>
      BY <1>7 DEF Abort, db
    <2>2. CASE Throw(d)
      BY <1>1, <2>1, <2>2
    <2>3. CASE Goto(d, "begin") /\ UNCHANGED step
      <3>1. pc'[d] = "begin" /\ \A e \in Drivers : e # d => pc'[e] = pc[e]
        BY <2>3 DEF Goto, TypeOK, DriversOK
      <3> QED
        BY <2>1, <2>3, <3>1, ReleaseMoves, LocalMove, TimesFrame DEF Holding, BeforeSaga
    <2> QED
      BY <1>7, <2>2, <2>3 DEF Abort
  <1>8. CASE Crash(d)
    <2>1. /\ Release(d) /\ UNCHANGED <<sagas, events, idem, req>>
          /\ pc'[d] \in {"dead", "idle"}
          /\ \A e \in Drivers : e # d => /\ pc'[e] = pc[e]
                                         /\ step'[e] = step[e]
                                         /\ job'[e] = job[e]
      BY <1>8 DEF Crash, db, Leave, TypeOK, DriversOK
    <2> QED
      BY <2>1, ReleaseMoves, LocalMove, TimesFrame DEF Holding, BeforeSaga
  <1> QED
    BY <1>2, <1>3, <1>4, <1>5, <1>6, <1>7, <1>8, CommitSafe DEF SagaStep, SagaError

(* The steps of a recoverer between its sagas. *)
LEMMA RecoverySafe ==
  ASSUME TypeOK, TypeOK', SagaInv, NEW i \in Instances, RecoveryStep(i) \/ RecoveryError(i)
  PROVE  SagaInv'
  <1> i \in Drivers
    BY DEF Drivers
  <1>1. pc[i] \in {"idle", "loop"}
    BY DEF RecoveryStep, RecoveryError, FindStuck, RecoverSaga, FinishRound
  <1>2. /\ UNCHANGED <<walletLock, sagas, events, idem, req>>
        /\ pc'[i] \in {"idle", "loop", "begin"}
        /\ \A e \in Drivers : e # i => /\ pc'[e] = pc[e]
                                       /\ step'[e] = step[e]
                                       /\ job'[e] = job[e]
    <2>1. CASE FindStuck(i)
      BY <2>1 DEF FindStuck, Goto, db, locks, TypeOK, DriversOK
    <2>2. ASSUME NEW c \in Calls, NEW ok, RecoverSaga(i, c, ok)
          PROVE  <1>2!:
      BY <1>1, <2>2 DEF RecoverSaga, StartStep, db, locks, TypeOK, DriversOK
    <2>3. CASE FinishRound(i)
      BY <2>3 DEF FinishRound, Goto, db, locks, TypeOK, DriversOK
    <2> QED
      BY <2>1, <2>2, <2>3 DEF RecoveryStep, RecoveryError
  <1> QED
    BY <1>2, LocalMove, TimesFrame DEF Holding, BeforeSaga

(* The transactions of WalletService store events of no saga. *)
LEMMA WalletTimes ==
  ASSUME TypeOK, WalletStep
  PROVE  /\ \A s \in Steps, c \in Calls : Times(s, c)' = Times(s, c)
         /\ UNCHANGED <<pc, step, job, walletLock, sagas, idem, req>>
  <1>1. PICK w, row, created, type, a : WalletTransaction(w, row, created, type, a)
    BY DEF WalletStep, DepositFunds, WithdrawFunds, FreezeWallet, UnfreezeWallet,
           CloseWallet, SetLimit
  <1> DEFINE e == Event(type, w, NoSaga, a)
             opened == BagAdd(events, Event("WALLET_CREATED", w, NoSaga, 0))
  <1>2. ASSUME NEW s \in Steps, NEW c \in Calls
        PROVE  Times(s, c)' = Times(s, c)
    <2>1. UNCHANGED req /\ events' \in {BagAdd(opened, e), BagAdd(events, e)}
      BY <1>1 DEF WalletTransaction
    <2>2. EventOf(s, c)' = EventOf(s, c)
      BY <2>1 DEF EventOf, WalletOf
    <2>3. EventOf(s, c) # e /\ EventOf(s, c) # Event("WALLET_CREATED", w, NoSaga, 0)
      BY DriversAssumption DEF EventOf, Event
    <2>4. IsABag(events) /\ IsABag(opened)
      BY BagAddIsABag DEF TypeOK, TablesOK
    <2>5. Copies(EventOf(s, c), opened) = Copies(EventOf(s, c), events)
      BY <2>3, <2>4, CopiesBagAdd
    <2> HIDE DEF opened, e
    <2>6. Copies(EventOf(s, c), events') = Copies(EventOf(s, c), events)
      BY <2>1, <2>3, <2>4, <2>5, CopiesBagAdd
    <2> QED
      BY <2>2, <2>6 DEF Times
  <1> QED
    BY <1>1, <1>2 DEF WalletTransaction, locks, memory

(* The transactions of WalletService keep the invariant. *)
LEMMA WalletSafe ==
  ASSUME TypeOK, SagaInv, WalletStep
  PROVE  SagaInv'
  BY WalletTimes, Quiet

-----------------------------------------------------------------------------
(* Every step keeps the invariant. *)
LEMMA SagaInvStep ==
  ASSUME TypeOK, TypeOK', SagaInv, [Next]_vars
  PROVE  SagaInv'
  <1>1. ASSUME NEW c \in Calls, Age(c) PROVE SagaInv'
    BY <1>1, Quiet, TimesFrame DEF Age, db, locks, memory
  <1>2. CASE Replicate
    BY <1>2, Quiet, TimesFrame DEF Replicate, db, locks, memory
  <1>3. CASE UNCHANGED vars
    BY <1>3, Quiet, TimesFrame DEF vars, db, locks, memory
  <1> QED
    BY <1>1, <1>2, <1>3, CallSafe, SagaSafe, RecoverySafe, WalletSafe DEF Next

(* The inductive invariant of TransferSagaInvariants holds throughout. *)
THEOREM SagaInvariant == Spec => []SagaInv
  <1>1. Init => SagaInv
    BY SagaInvInit
  <1>2. TypeOK /\ TypeOK' /\ SagaInv /\ [Next]_vars => SagaInv'
    BY SagaInvStep
  <1> QED
    BY <1>1, <1>2, TypeCorrect, PTL DEF Spec

(* Each step of a transfer takes effect at most once, and no payout        *)
(* happens without its debit, with any number of concurrent requests and   *)
(* recoverers, also when a request outlives the stuck threshold.           *)
THEOREM StepsAtMostOnce == Spec => []AtMostOnce
  <1>1. SagaInv => AtMostOnce
    BY DEF SagaInv
  <1> QED
    BY <1>1, SagaInvariant, PTL

(* A stored idempotency key answers with a transfer that was carried out   *)
(* and was asked for under this key.                                       *)
THEOREM KeysAnswerTransfers == Spec => []KeyAnswersTransfer
  <1>1. SagaInv => KeyAnswersTransfer
    BY DEF SagaInv
  <1> QED
    BY <1>1, SagaInvariant, PTL

(* Without a read replica a saga marked FAILED has moved no money. *)
THEOREM FailedIsUntouched ==
  ASSUME ~ReadReplica
  PROVE  Spec => []FailedMeansUntouched
  <1>1. SagaInv => FailedMeansUntouched
    BY DEF SagaInv, UntouchedInv
  <1> QED
    BY <1>1, SagaInvariant, PTL
=============================================================================
