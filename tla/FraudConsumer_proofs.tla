------------------------ MODULE FraudConsumer_proofs ------------------------
(***************************************************************************)
(* Theorems about the fraud consumer, for any number of events, handlers,  *)
(* retries and faults.                                                     *)
(***************************************************************************)
EXTENDS FraudConsumer, FiniteSetTheorems, TLAPS

Labels == Examining \cup {"idle", "lock", "ack"}

(* A message is an event and a count, and so is the copy of a retry. *)
LEMMA MessageType ==
  ASSUME NEW m \in Messages
  PROVE  /\ m.event \in Events
         /\ MayRetry(m) => Retry(m) \in Messages /\ Retry(m).event = m.event
BY FraudAssumption DEF Messages, MayRetry, Retry

(* What an event says. *)
LEMMA PayloadType ==
  ASSUME TypeOK, NEW e \in Events
  PROVE  /\ payload[e].walletId \in Wallets /\ payload[e].timestamp \in Int
         /\ payload[e].amount \in Nat /\ payload[e].eventType \in EventTypes
         /\ GenerateIdempotencyKey(e) \in EventKeys
BY FraudAssumption DEF TypeOK, WalletEventPayload, EventKeys

(* A handler that is not idle has a message. *)
LEMMA HeldType ==
  ASSUME TypeOK, NEW h \in Handlers, pc[h] # "idle"
  PROVE  held[h] \in Messages /\ EventOf(h) \in Events
BY MessageType DEF TypeOK, EventOf

(* Queues stay queues. *)
LEMMA PutType ==
  ASSUME NEW queue \in [Messages -> Nat], NEW m \in Messages
  PROVE  /\ Put(queue, m) \in [Messages -> Nat]
         /\ Put(queue, m)[m] > 0
         /\ \A n \in Messages : queue[n] > 0 => Put(queue, m)[n] > 0
BY DEF Put

(* A copy taken out of a queue leaves the other messages there. *)
LEMMA DropType ==
  ASSUME NEW queue \in [Messages -> Nat], NEW m \in Messages, queue[m] > 0
  PROVE  /\ Drop(queue, m) \in [Messages -> Nat]
         /\ \A n \in Messages : n # m => Drop(queue, m)[n] = queue[n]
BY DEF Drop

(* A handler that returns is idle and holds nothing. *)
LEMMA ReturnType ==
  ASSUME TypeOK, NEW h \in Handlers, Return(h)
  PROVE  /\ pc' \in [Handlers -> Labels]
         /\ held' \in [Handlers -> Messages \cup {None}]
         /\ live' \in [Handlers -> BOOLEAN]
         /\ pc'[h] = "idle" /\ live'[h] /\ held'[h] = None
         /\ \A g \in Handlers \ {h} : pc'[g] = pc[g] /\ held'[g] = held[g] /\ live'[g] = live[g]
         /\ \A g \in Handlers : pc'[g] = "idle" <=> held'[g] = None
<1>1. pc' \in [Handlers -> Labels] /\ held' \in [Handlers -> Messages \cup {None}]
  BY DEF TypeOK, Return, Goto, Labels
<1>2. live' \in [Handlers -> BOOLEAN] /\ live'[h]
  BY DEF TypeOK, Return
<1>3. pc'[h] = "idle" /\ held'[h] = None
  BY DEF TypeOK, Return, Goto
<1>4. \A g \in Handlers \ {h} : pc'[g] = pc[g] /\ held'[g] = held[g]
  BY DEF TypeOK, Return, Goto
<1>5. \A g \in Handlers \ {h} : live'[g] = live[g]
  BY DEF TypeOK, Return
<1> QED BY <1>1, <1>2, <1>3, <1>4, <1>5 DEF TypeOK

(* A handler that goes on to another label keeps its message. *)
LEMMA GotoType ==
  ASSUME TypeOK, NEW h \in Handlers, pc[h] # "idle",
         NEW label \in Labels \ {"idle"}, Goto(h, label), UNCHANGED <<held, live>>
  PROVE  /\ pc' \in [Handlers -> Labels]
         /\ pc'[h] = label
         /\ \A g \in Handlers \ {h} : pc'[g] = pc[g]
         /\ \A g \in Handlers : pc'[g] = "idle" <=> held'[g] = None
BY DEF TypeOK, Goto, Labels

(* The bound on faults is kept. *)
LEMMA FaultType ==
  ASSUME TypeOK, Fault \/ UNCHANGED faults
  PROVE  faults' \in 0 .. MaxFaults
BY FraudAssumption DEF TypeOK, Fault

(* The keys of the events do not change. *)
LEMMA KeysStay ==
  ASSUME UNCHANGED payload
  PROVE  EventKeys' = EventKeys
BY DEF EventKeys, GenerateIdempotencyKey

(* The consumer starts in a well-typed state. *)
LEMMA TypeInit ==
  ASSUME Init
  PROVE  TypeOK
BY FraudAssumption, NoneAssumption DEF Init, TypeOK, EventKeys, AlertTypes, Examining

-----------------------------------------------------------------------------
(* The type invariant in parts: one for each group of variables. *)
QueueOK ==
  /\ payload \in Payloads
  /\ sends \in [Events -> 0 .. MaxSends]
  /\ ready \in [Messages -> Nat]
  /\ waiting \in [Messages -> Nat]
  /\ dead \subseteq Events

HandlerOK ==
  /\ pc \in [Handlers -> Labels]
  /\ held \in [Handlers -> Messages \cup {None}]
  /\ live \in [Handlers -> BOOLEAN]
  /\ \A h \in Handlers : pc[h] = "idle" <=> held[h] = None

KeyOK ==
  /\ keys \subseteq EventKeys /\ expired \subseteq EventKeys
  /\ done \subseteq Events /\ cut \subseteq Events

WindowOK ==
  /\ window \in [Wallets -> SUBSET {payload[e].timestamp : e \in Events}]
  /\ added \subseteq Events /\ overtaken \subseteq Events

AlertOK ==
  /\ alerts \subseteq Events \X AlertTypes
  /\ realerted \subseteq alerts
  /\ blind \subseteq Wallets

(* TypeOK, taken apart into groups of variables. *)
LEMMA TypeParts ==
  TypeOK <=> QueueOK /\ HandlerOK /\ KeyOK /\ WindowOK /\ AlertOK /\ faults \in 0 .. MaxFaults
BY DEF TypeOK, QueueOK, HandlerOK, KeyOK, WindowOK, AlertOK, Labels

(* The same groups, put together after a step. *)
LEMMA TypePartsNext ==
  QueueOK' /\ HandlerOK' /\ KeyOK' /\ WindowOK' /\ AlertOK' /\ faults' \in 0 .. MaxFaults
    => TypeOK'
BY DEF TypeOK, QueueOK, HandlerOK, KeyOK, WindowOK, AlertOK, Labels

(* Parts whose variables do not change. *)
LEMMA QueueStays == ASSUME QueueOK, UNCHANGED queueVars PROVE QueueOK'
BY DEF QueueOK, queueVars

(* The handlers, when no handler moves. *)
LEMMA HandlersStay == ASSUME HandlerOK, UNCHANGED handlerVars PROVE HandlerOK'
BY DEF HandlerOK, handlerVars

(* The deduplication keys, when none is set or expires. *)
LEMMA KeyPartStays == ASSUME KeyOK, UNCHANGED <<payload, keyVars>> PROVE KeyOK'
BY KeysStay DEF KeyOK, keyVars

(* The sliding windows, when none is changed. *)
LEMMA WindowStays == ASSUME WindowOK, UNCHANGED <<payload, windowVars>> PROVE WindowOK'
BY DEF WindowOK, windowVars

(* The alerts, when none is saved. *)
LEMMA AlertsStay == ASSUME AlertOK, UNCHANGED alertVars PROVE AlertOK'
BY DEF AlertOK, alertVars

(* A handler goes on. *)
LEMMA HandlerGoesOn ==
  ASSUME TypeOK, NEW h \in Handlers, pc[h] # "idle",
         NEW label \in Labels \ {"idle"}, Goto(h, label), UNCHANGED <<held, live>>
  PROVE  HandlerOK'
BY GotoType DEF TypeOK, HandlerOK

(* A handler that returns is idle again. *)
LEMMA HandlerReturns ==
  ASSUME TypeOK, NEW h \in Handlers, Return(h)
  PROVE  HandlerOK'
BY ReturnType DEF HandlerOK

(* An alert is one of an event. *)
LEMMA AlertSaved ==
  ASSUME TypeOK, NEW h \in Handlers, pc[h] # "idle", NEW type \in AlertTypes,
         NEW raised \in BOOLEAN, NEW saved \in BOOLEAN, SaveFraudAlert(h, type, raised, saved)
  PROVE  AlertOK' /\ (Fault \/ UNCHANGED faults)
<1>1. EventOf(h) \in Events
  BY HeldType
<1>2. WalletOf(h) \in Wallets
  BY <1>1, PayloadType DEF WalletOf
<1>3. alerts \subseteq Events \X AlertTypes /\ realerted \subseteq alerts /\ blind \subseteq Wallets
  BY DEF TypeOK
<1>4. Fault \/ UNCHANGED faults
  BY DEF SaveFraudAlert
<1>5. blind' \subseteq Wallets
  BY <1>2, <1>3 DEF SaveFraudAlert
<1>6. alerts' \subseteq Events \X AlertTypes /\ realerted' \subseteq alerts'
  BY <1>1, <1>3 DEF SaveFraudAlert
<1> QED BY <1>4, <1>5, <1>6 DEF AlertOK

(* Every action keeps the types. *)
LEMMA TypePublish ==
  ASSUME TypeOK, NEW e \in Events, Publish(e)
  PROVE  TypeOK'
<1>1. [event |-> e, retries |-> 0] \in Messages
  BY FraudAssumption DEF Messages
<1>2. QueueOK'
  BY <1>1, PutType, FraudAssumption DEF Publish, TypeOK, QueueOK
<1> QED BY <1>2, TypeParts, TypePartsNext, HandlersStay, KeyPartStays, WindowStays, AlertsStay
     DEF Publish

(* HandleMessage keeps the types. *)
LEMMA TypeHandleMessage ==
  ASSUME TypeOK, NEW h \in Handlers, NEW m \in Messages, HandleMessage(h, m)
  PROVE  TypeOK'
<1>1. QueueOK'
  BY DropType, MessageType DEF HandleMessage, TypeOK, QueueOK, handlerVars
<1>2. HandlerOK'
  BY NoneAssumption DEF HandleMessage, TypeOK, HandlerOK, Goto, Labels, handlerVars
<1> QED BY <1>1, <1>2, TypeParts, TypePartsNext, KeyPartStays, WindowStays, AlertsStay
         DEF HandleMessage

(* AcquireLock keeps the types. *)
LEMMA TypeAcquireLock ==
  ASSUME TypeOK, NEW h \in Handlers, AcquireLock(h)
  PROVE  TypeOK'
<1>1. EventOf(h) \in Events
  BY HeldType DEF AcquireLock
<1>2. KeyOf(h) \in EventKeys /\ EventKeys' = EventKeys
  BY <1>1, PayloadType, KeysStay DEF KeyOf, AcquireLock, queueVars
<1>3. KeyOK'
  BY <1>2 DEF AcquireLock, TypeOK, KeyOK
<1>4. HandlerOK'
  BY HandlerGoesOn DEF AcquireLock, Labels, Examining
<1> QED BY <1>3, <1>4, TypeParts, TypePartsNext, QueueStays, WindowStays, AlertsStay
     DEF AcquireLock, queueVars

(* SkipChecks keeps the types. *)
LEMMA TypeSkipChecks ==
  ASSUME TypeOK, NEW h \in Handlers, SkipChecks(h)
  PROVE  TypeOK'
<1>1. EventOf(h) \in Events
  BY HeldType DEF SkipChecks
<1>2. KeyOK'
  BY <1>1, KeysStay DEF SkipChecks, TypeOK, KeyOK, queueVars
<1>3. HandlerOK'
  BY HandlerGoesOn DEF SkipChecks, Labels, Examining
<1> QED BY <1>2, <1>3, TypeParts, TypePartsNext, QueueStays, WindowStays, AlertsStay
         DEF SkipChecks, queueVars

(* ZAdd keeps the types. *)
LEMMA TypeZAdd ==
  ASSUME TypeOK, NEW h \in Handlers, ZAdd(h)
  PROVE  TypeOK'
<1>1. EventOf(h) \in Events
  BY HeldType DEF ZAdd
<1>2. \A g \in Earlier(h) : EventOf(g) \in Events
  BY HeldType DEF Earlier
<1>3. WalletOf(h) \in Wallets /\ TimeOf(h) \in {payload[e].timestamp : e \in Events}
  BY <1>1, PayloadType DEF WalletOf, TimeOf
<1>4. window' \in [Wallets -> SUBSET {payload[e].timestamp : e \in Events}]
  BY <1>3 DEF ZAdd, TypeOK
<1>5. added' \subseteq Events
  BY <1>1 DEF ZAdd, TypeOK
<1>6. overtaken' \subseteq Events
  BY <1>1, <1>2 DEF ZAdd, TypeOK
<1>7. WindowOK'
  BY <1>4, <1>5, <1>6 DEF WindowOK, ZAdd, queueVars
<1>8. HandlerOK'
  BY HandlerGoesOn DEF ZAdd, Labels, Examining
<1> QED BY <1>7, <1>8, TypeParts, TypePartsNext, QueueStays, KeyPartStays, AlertsStay
         DEF ZAdd, queueVars

(* Prune keeps the types. *)
LEMMA TypePrune ==
  ASSUME TypeOK, NEW h \in Handlers, Prune(h)
  PROVE  TypeOK'
<1>1. EventOf(h) \in Events
  BY HeldType DEF Prune
<1>2. WalletOf(h) \in Wallets
  BY <1>1, PayloadType DEF WalletOf
<1>3. window' \in [Wallets -> SUBSET {payload[e].timestamp : e \in Events}]
  BY <1>2 DEF Prune, Recent, TypeOK
<1>4. WindowOK'
  BY <1>3 DEF WindowOK, Prune, TypeOK, queueVars
<1>5. HandlerOK'
  BY HandlerGoesOn DEF Prune, Labels, Examining
<1> QED BY <1>4, <1>5, TypeParts, TypePartsNext, QueueStays, KeyPartStays, AlertsStay
         DEF Prune, queueVars

(* ZCard keeps the types. *)
LEMMA TypeZCard ==
  ASSUME TypeOK, NEW h \in Handlers, NEW saved \in BOOLEAN, ZCard(h, saved)
  PROVE  TypeOK'
<1>1. AlertOK' /\ faults' \in 0 .. MaxFaults
  <2>1. PICK raised \in BOOLEAN : SaveFraudAlert(h, "rapid_withdrawals", raised, saved)
    BY DEF ZCard, SaveFraudAlert
  <2> QED BY <2>1, AlertSaved, FaultType DEF ZCard, AlertTypes
<1>2. HandlerOK'
  BY HandlerGoesOn DEF ZCard, Labels, Examining
<1> QED BY <1>1, <1>2, TypeParts, TypePartsNext, QueueStays, KeyPartStays, WindowStays
         DEF ZCard, queueVars

(* HighValue keeps the types. *)
LEMMA TypeHighValue ==
  ASSUME TypeOK, NEW h \in Handlers, NEW saved \in BOOLEAN, DetectHighValueTransaction(h, saved)
  PROVE  TypeOK'
<1>1. EventOf(h) \in Events
  BY HeldType DEF DetectHighValueTransaction
<1>2. AlertOK' /\ faults' \in 0 .. MaxFaults
  <2>1. PICK raised \in BOOLEAN : SaveFraudAlert(h, "high_value_transaction", raised, saved)
    BY DEF DetectHighValueTransaction, SaveFraudAlert
  <2> QED BY <2>1, AlertSaved, FaultType DEF DetectHighValueTransaction, AlertTypes
<1>3. HandlerOK'
  BY HandlerGoesOn DEF DetectHighValueTransaction, Labels, Examining
<1>4. KeyOK'
  BY <1>1, KeysStay DEF DetectHighValueTransaction, TypeOK, KeyOK, queueVars
<1> QED BY <1>2, <1>3, <1>4, TypeParts, TypePartsNext, QueueStays, WindowStays
     DEF DetectHighValueTransaction, queueVars

(* Ack keeps the types. *)
LEMMA TypeAck ==
  ASSUME TypeOK, NEW h \in Handlers, Ack(h)
  PROVE  TypeOK'
BY HandlerReturns, TypeParts, TypePartsNext, QueueStays, KeyPartStays, WindowStays, AlertsStay
   DEF Ack, queueVars

(* CutShort keeps the types. *)
LEMMA TypeCutShort ==
  ASSUME TypeOK, NEW h \in Handlers, CutShort(h), UNCHANGED <<payload, keys, done, expired>>
  PROVE  KeyOK'
BY HeldType, KeysStay DEF CutShort, TypeOK, KeyOK, Examining

(* Fail keeps the types. *)
LEMMA TypeFail ==
  ASSUME TypeOK, NEW h \in Handlers, NEW acked \in BOOLEAN, Fail(h, acked)
  PROVE  TypeOK'
<1>1. held[h] \in Messages /\ HandleProcessingError(h, acked)
  BY HeldType DEF Fail
<1>2. QueueOK'
  BY <1>1, PutType, MessageType DEF HandleProcessingError, Fail, TypeOK, QueueOK
<1>3. HandlerOK'
  BY <1>1, HandlerReturns DEF HandleProcessingError
<1>4. KeyOK' /\ faults' \in 0 .. MaxFaults
  BY TypeCutShort, FaultType DEF Fail
<1> QED BY <1>2, <1>3, <1>4, TypeParts, TypePartsNext, WindowStays, AlertsStay DEF Fail

(* Requeue keeps the types. *)
LEMMA TypeRequeue ==
  ASSUME TypeOK, NEW h \in Handlers, pc[h] # "idle", Requeue(h),
         UNCHANGED <<payload, sends, waiting, dead>>
  PROVE  QueueOK'
BY HeldType, PutType DEF Requeue, TypeOK, QueueOK

(* Crash keeps the types. *)
LEMMA TypeCrash ==
  ASSUME TypeOK, NEW h \in Handlers, Crash(h)
  PROVE  TypeOK'
<1>1. QueueOK' /\ HandlerOK'
  BY TypeRequeue, HandlerReturns DEF Crash
<1>2. KeyOK' /\ faults' \in 0 .. MaxFaults
  BY TypeCutShort, FaultType DEF Crash
<1> QED BY <1>1, <1>2, TypeParts, TypePartsNext, WindowStays, AlertsStay DEF Crash

(* Disconnect keeps the types. *)
LEMMA TypeDisconnect ==
  ASSUME TypeOK, NEW h \in Handlers, Disconnect(h)
  PROVE  TypeOK'
<1>1. QueueOK' /\ faults' \in 0 .. MaxFaults
  BY TypeRequeue, FaultType DEF Disconnect
<1>2. HandlerOK'
  BY DEF Disconnect, TypeOK, HandlerOK, Labels
<1> QED BY <1>1, <1>2, TypeParts, TypePartsNext, KeyPartStays, WindowStays, AlertsStay
     DEF Disconnect

(* DeadLetter keeps the types. *)
LEMMA TypeDeadLetter ==
  ASSUME TypeOK, NEW m \in Messages, DeadLetter(m)
  PROVE  TypeOK'
<1>1. QueueOK'
  BY DropType, PutType DEF DeadLetter, TypeOK, QueueOK
<1> QED BY <1>1, TypeParts, TypePartsNext, HandlersStay, KeyPartStays, WindowStays, AlertsStay
     DEF DeadLetter

(* Expire keeps the types. *)
LEMMA TypeExpire ==
  ASSUME TypeOK, (\E k \in keys : ExpireKey(k)) \/ (\E w \in Wallets : ExpireWindow(w))
  PROVE  TypeOK'
<1>1. CASE \E k \in keys : ExpireKey(k)
  <2>1. KeyOK' /\ faults' \in 0 .. MaxFaults
    BY <1>1, KeysStay, FaultType DEF ExpireKey, TypeOK, KeyOK, queueVars
  <2> QED BY <1>1, <2>1, TypeParts, TypePartsNext, QueueStays, HandlersStay, WindowStays,
             AlertsStay DEF ExpireKey, queueVars
<1>2. CASE \E w \in Wallets : ExpireWindow(w)
  <2>1. WindowOK' /\ AlertOK' /\ faults' \in 0 .. MaxFaults
    BY <1>2, FaultType DEF ExpireWindow, TypeOK, WindowOK, AlertOK, queueVars
  <2> QED BY <1>2, <2>1, TypeParts, TypePartsNext, QueueStays, HandlersStay, KeyPartStays
       DEF ExpireWindow, queueVars
<1> QED BY <1>1, <1>2

(* Stutter keeps the types. *)
LEMMA TypeStutter ==
  ASSUME TypeOK, UNCHANGED vars
  PROVE  TypeOK'
BY TypeParts, TypePartsNext, QueueStays, HandlersStay, KeyPartStays, WindowStays, AlertsStay
   DEF vars, queueVars

(* Every step keeps the types. *)
LEMMA TypeNext ==
  ASSUME TypeOK, [Next]_vars
  PROVE  TypeOK'
<1>1. ASSUME NEW h \in Handlers, Step(h) PROVE TypeOK'
  BY <1>1, TypeHandleMessage, TypeAcquireLock, TypeSkipChecks, TypeZAdd, TypePrune, TypeZCard,
     TypeHighValue, TypeAck DEF Step
<1>2. ASSUME NEW h \in Handlers, Failure(h) PROVE TypeOK'
  BY <1>2, TypeFail, TypeZCard, TypeHighValue, TypeCrash, TypeDisconnect DEF Failure
<1> QED BY <1>1, <1>2, TypePublish, TypeDeadLetter, TypeExpire, TypeStutter DEF Next

(* The consumer keeps every variable in its type: in particular a handler  *)
(* has a message as long as it runs, and no retry count passes its limit.  *)
THEOREM TypeCorrect == Spec => []TypeOK
<1>1. Init => TypeOK
  BY TypeInit
<1>2. TypeOK /\ [Next]_vars => TypeOK'
  BY TypeNext
<1> QED BY <1>1, <1>2, PTL DEF Spec
-----------------------------------------------------------------------------
(* Keys known to Redis, now or once. *)
Known == keys \cup expired

IsExamining(h) == pc[h] \in Examining

(* Who examines an event has set its key. *)
ExaminerHasKey == \A h \in Handlers : IsExamining(h) => KeyOf(h) \in Known

(* Two handlers examine events of one key only after it has expired. *)
OneExaminer ==
  \A g, h \in Handlers :
    g # h /\ IsExamining(g) /\ IsExamining(h) /\ KeyOf(g) = KeyOf(h) => KeyOf(h) \in expired

(* Who raised an alert has set the key, and has passed the check it is of. *)
AlertIsPast ==
  \A a \in alerts :
    /\ GenerateIdempotencyKey(a[1]) \in Known
    /\ \A h \in Handlers :
         IsExamining(h) /\ KeyOf(h) = GenerateIdempotencyKey(a[1]) =>
           KeyOf(h) \in expired \/ (a[2] = "rapid_withdrawals" /\ pc[h] = "high")

AlertInv == ExaminerHasKey /\ OneExaminer /\ AlertIsPast /\ AlertedOnce

(* A step after which nobody examines who has not done so before, and that *)
(* raises no alert.                                                        *)
QuietStep ==
  /\ UNCHANGED <<payload, alerts, realerted>>
  /\ \A h \in Handlers :
       IsExamining(h)' => /\ IsExamining(h) /\ held'[h] = held[h]
                          /\ pc[h] = "high" => pc'[h] = "high"
  /\ Known \subseteq Known' /\ expired \subseteq expired'

(* Such a step cannot double an alert. *)
LEMMA QuietKeepsAlerts ==
  ASSUME AlertInv, QuietStep
  PROVE  AlertInv'
<1>1. \A h \in Handlers : IsExamining(h)' => IsExamining(h) /\ KeyOf(h)' = KeyOf(h)
  BY DEF QuietStep, KeyOf, EventOf, GenerateIdempotencyKey
<1>2. \A a \in alerts : GenerateIdempotencyKey(a[1])' = GenerateIdempotencyKey(a[1])
  BY DEF QuietStep, GenerateIdempotencyKey
<1>3. /\ alerts' = alerts /\ realerted' = realerted
      /\ Known \subseteq Known' /\ expired \subseteq expired'
  BY DEF QuietStep
<1>4. ExaminerHasKey' /\ OneExaminer'
  BY <1>1, <1>3 DEF AlertInv, ExaminerHasKey, OneExaminer
<1>5. AlertIsPast'
  <2> SUFFICES ASSUME NEW a \in alerts
               PROVE  /\ GenerateIdempotencyKey(a[1])' \in Known'
                      /\ \A h \in Handlers :
                           IsExamining(h)' /\ KeyOf(h)' = GenerateIdempotencyKey(a[1])' =>
                             KeyOf(h)' \in expired'
                               \/ (a[2] = "rapid_withdrawals" /\ pc'[h] = "high")
    BY <1>3 DEF AlertIsPast
  <2> QED BY <1>1, <1>2, <1>3 DEF AlertInv, AlertIsPast, QuietStep
<1>6. AlertedOnce'
  <2>1. \A a \in realerted : GenerateIdempotencyKey(a[1])' = GenerateIdempotencyKey(a[1])
    BY DEF QuietStep, GenerateIdempotencyKey
  <2> QED BY <2>1, <1>3 DEF AlertInv, AlertedOnce
<1> QED BY <1>4, <1>5, <1>6 DEF AlertInv

(* Setting the key: nobody else examines an event of it, or it has expired.*)
LEMMA AlertsAcquireLock ==
  ASSUME TypeOK, AlertInv, NEW h \in Handlers, AcquireLock(h)
  PROVE  AlertInv'
<1>1. /\ pc[h] = "lock" /\ pc' = [pc EXCEPT ![h] = IF IsNew(h) THEN "check" ELSE "ack"]
      /\ keys' = keys \cup {KeyOf(h)}
      /\ UNCHANGED <<payload, held, expired, alerts, realerted>>
  BY DEF AcquireLock, Goto, queueVars, alertVars
<1>2. CASE ~IsNew(h)
  <2>1. QuietStep
    BY <1>1, <1>2 DEF QuietStep, IsExamining, Examining, Known, TypeOK
  <2> QED BY <2>1, QuietKeepsAlerts
<1>3. CASE IsNew(h)
  <2>1. KeyOf(h) \notin keys
    BY <1>3 DEF IsNew
  <2>2. pc'[h] = "check" /\ \A g \in Handlers \ {h} : pc'[g] = pc[g]
    BY <1>1, <1>3 DEF TypeOK
  <2>3. \A g \in Handlers : KeyOf(g)' = KeyOf(g)
    BY <1>1 DEF KeyOf, EventOf, GenerateIdempotencyKey
  <2>4. Known' = Known \cup {KeyOf(h)} /\ expired' = expired
    BY <1>1 DEF Known
  <2>5. \A g \in Handlers \ {h} : IsExamining(g)' <=> IsExamining(g)
    BY <2>2 DEF IsExamining
  <2>6. ExaminerHasKey'
    BY <2>3, <2>4, <2>5 DEF ExaminerHasKey, AlertInv
  <2>7. \A g \in Handlers : IsExamining(g) /\ KeyOf(g) = KeyOf(h) => KeyOf(h) \in expired
    BY <2>1 DEF AlertInv, ExaminerHasKey, Known
  <2>8. OneExaminer'
    BY <2>3, <2>4, <2>5, <2>7 DEF OneExaminer, AlertInv
  <2>9. \A a \in alerts : GenerateIdempotencyKey(a[1])' = GenerateIdempotencyKey(a[1])
    BY <1>1 DEF GenerateIdempotencyKey
  <2>10. ASSUME NEW a \in alerts, NEW g \in Handlers, IsExamining(g)',
                KeyOf(g) = GenerateIdempotencyKey(a[1])
         PROVE  KeyOf(g) \in expired \/ (a[2] = "rapid_withdrawals" /\ pc'[g] = "high")
    <3>1. CASE g = h
      BY <3>1, <2>1, <2>10 DEF AlertInv, AlertIsPast, Known
    <3>2. CASE g # h
      BY <3>2, <2>2, <2>5, <2>10 DEF AlertInv, AlertIsPast
    <3> QED BY <3>1, <3>2
  <2>11. AlertIsPast'
    BY <1>1, <2>3, <2>4, <2>9, <2>10 DEF AlertIsPast, AlertInv
  <2>12. AlertedOnce'
    BY <1>1 DEF AlertedOnce, AlertInv, GenerateIdempotencyKey
  <2> QED BY <2>6, <2>8, <2>11, <2>12 DEF AlertInv
<1> QED BY <1>2, <1>3

(* Raising an alert: it is not there yet, or the key has expired. *)
LEMMA AlertsRaise ==
  ASSUME TypeOK, AlertInv, NEW h \in Handlers, NEW type, NEW raised, NEW saved,
         SaveFraudAlert(h, type, raised, saved),
         \/ pc[h] = "count" /\ type = "rapid_withdrawals" /\ Goto(h, "high")
         \/ pc[h] = "high" /\ type = "high_value_transaction" /\ Goto(h, "ack"),
         UNCHANGED <<payload, held, keys, expired>>
  PROVE  AlertInv'
<1> DEFINE a0 == <<EventOf(h), type>>
<1>1. /\ alerts \subseteq alerts' /\ alerts' \subseteq alerts \cup {a0}
      /\ realerted' \subseteq realerted \cup ({a0} \cap alerts)
  BY DEF SaveFraudAlert
<1>2. \A g \in Handlers : KeyOf(g)' = KeyOf(g)
  BY DEF KeyOf, EventOf, GenerateIdempotencyKey
<1>3. \A a : GenerateIdempotencyKey(a[1])' = GenerateIdempotencyKey(a[1])
  BY DEF GenerateIdempotencyKey
<1>4. IsExamining(h) /\ Known' = Known /\ expired' = expired
  BY DEF IsExamining, Examining, Known
<1>5. \A g \in Handlers \ {h} : pc'[g] = pc[g] /\ (IsExamining(g)' <=> IsExamining(g))
  BY DEF Goto, IsExamining, TypeOK
<1>6. GenerateIdempotencyKey(a0[1]) = KeyOf(h)
  BY DEF KeyOf
<1>7. ExaminerHasKey' /\ OneExaminer'
  BY <1>2, <1>4, <1>5 DEF AlertInv, ExaminerHasKey, OneExaminer
<1>8. \/ a0[2] = "rapid_withdrawals" /\ pc[h] = "count" /\ pc'[h] = "high"
      \/ a0[2] = "high_value_transaction" /\ pc[h] = "high" /\ pc'[h] = "ack"
  BY DEF Goto, TypeOK
<1>9. a0 \in alerts => KeyOf(h) \in expired
  <2>1. ~(a0[2] = "rapid_withdrawals" /\ pc[h] = "high")
    BY <1>8
  <2> HIDE DEF a0
  <2> QED BY <2>1, <1>4, <1>6 DEF AlertInv, AlertIsPast
<1> HIDE DEF a0
<1>10. ASSUME NEW a \in alerts', NEW g \in Handlers, IsExamining(g)',
              KeyOf(g) = GenerateIdempotencyKey(a[1])
       PROVE  KeyOf(g) \in expired \/ (a[2] = "rapid_withdrawals" /\ pc'[g] = "high")
  <2>1. CASE a \in alerts /\ g # h
    BY <2>1, <1>5, <1>10 DEF AlertInv, AlertIsPast
  <2>2. CASE a \in alerts /\ g = h
    BY <2>2, <1>4, <1>8, <1>10 DEF AlertInv, AlertIsPast, IsExamining, Examining
  <2>3. CASE a = a0 /\ g # h
    BY <2>3, <1>4, <1>5, <1>6, <1>10 DEF AlertInv, OneExaminer
  <2>4. CASE a = a0 /\ g = h
    BY <2>4, <1>8, <1>10 DEF IsExamining, Examining
  <2> QED BY <1>1, <2>1, <2>2, <2>3, <2>4
<1>11. \A a \in alerts' : GenerateIdempotencyKey(a[1]) \in Known
  BY <1>1, <1>4, <1>6 DEF AlertInv, AlertIsPast, ExaminerHasKey
<1>12. AlertIsPast'
  BY <1>2, <1>3, <1>4, <1>10, <1>11 DEF AlertIsPast
<1>13. AlertedOnce'
  BY <1>1, <1>3, <1>4, <1>6, <1>9 DEF AlertInv, AlertedOnce
<1> QED BY <1>7, <1>12, <1>13 DEF AlertInv

(* A handler that returns examines nothing any more. *)
LEMMA ReturnIsQuiet ==
  ASSUME TypeOK, NEW h \in Handlers, Return(h),
         UNCHANGED <<payload, alerts, realerted, keys, expired>>
  PROVE  QuietStep
BY ReturnType DEF QuietStep, IsExamining, Examining, Known

(* Every step keeps AlertInv. *)
LEMMA AlertsNext ==
  ASSUME TypeOK, AlertInv, [Next]_vars
  PROVE  AlertInv'
<1> USE DEF queueVars, handlerVars, keyVars, alertVars
<1>1. ASSUME NEW h \in Handlers, Step(h) PROVE AlertInv'
  <2>1. ASSUME NEW m \in Messages, HandleMessage(h, m) PROVE QuietStep
    BY <2>1 DEF HandleMessage, Goto, QuietStep, IsExamining, Examining, Known, TypeOK
  <2>2. CASE SkipChecks(h)
    BY <2>2, QuietKeepsAlerts DEF SkipChecks, Goto, QuietStep, IsExamining, Examining, Known, TypeOK
  <2>3. CASE ZAdd(h)
    BY <2>3, QuietKeepsAlerts DEF ZAdd, Goto, QuietStep, IsExamining, Examining, Known, TypeOK
  <2>4. CASE Prune(h)
    BY <2>4, QuietKeepsAlerts DEF Prune, Goto, QuietStep, IsExamining, Examining, Known, TypeOK
  <2>5. CASE Ack(h)
    BY <2>5, ReturnIsQuiet, QuietKeepsAlerts DEF Ack
  <2>6. CASE ZCard(h, TRUE)
    BY <2>6, AlertsRaise DEF ZCard
  <2>7. CASE DetectHighValueTransaction(h, TRUE)
    BY <2>7, AlertsRaise DEF DetectHighValueTransaction
  <2> QED BY <1>1, <2>1, <2>2, <2>3, <2>4, <2>5, <2>6, <2>7, QuietKeepsAlerts, AlertsAcquireLock
       DEF Step
<1>2. ASSUME NEW h \in Handlers, Failure(h) PROVE AlertInv'
  <2>1. ASSUME NEW acked \in BOOLEAN, Fail(h, acked) PROVE QuietStep
    BY <2>1, ReturnIsQuiet DEF Fail, HandleProcessingError
  <2>2. CASE Crash(h)
    BY <2>2, ReturnIsQuiet, QuietKeepsAlerts DEF Crash
  <2>3. CASE Disconnect(h)
    BY <2>3, QuietKeepsAlerts DEF Disconnect, QuietStep, IsExamining, Known
  <2>4. CASE ZCard(h, FALSE)
    BY <2>4, AlertsRaise DEF ZCard
  <2>5. CASE DetectHighValueTransaction(h, FALSE)
    BY <2>5, AlertsRaise DEF DetectHighValueTransaction
  <2> QED BY <1>2, <2>1, <2>2, <2>3, <2>4, <2>5, QuietKeepsAlerts DEF Failure
<1>3. ASSUME \/ \E e \in Events : Publish(e)
             \/ \E m \in Messages : DeadLetter(m)
             \/ \E k \in keys : ExpireKey(k)
             \/ \E w \in Wallets : ExpireWindow(w)
             \/ UNCHANGED vars
      PROVE  QuietStep
  <2>1. CASE \E e \in Events : Publish(e)
    BY <2>1 DEF Publish, QuietStep, IsExamining, Known
  <2>2. CASE \E m \in Messages : DeadLetter(m)
    BY <2>2 DEF DeadLetter, QuietStep, IsExamining, Known
  <2>3. CASE \E k \in keys : ExpireKey(k)
    BY <2>3 DEF ExpireKey, QuietStep, IsExamining, Known
  <2>4. CASE \E w \in Wallets : ExpireWindow(w)
    BY <2>4 DEF ExpireWindow, QuietStep, IsExamining, Known
  <2>5. CASE UNCHANGED vars
    BY <2>5 DEF vars, QuietStep, IsExamining, Known
  <2> QED BY <1>3, <2>1, <2>2, <2>3, <2>4, <2>5
<1> QED BY <1>1, <1>2, <1>3, QuietKeepsAlerts DEF Next

(* Nothing is examined or alerted at first. *)
LEMMA AlertsInit ==
  ASSUME Init
  PROVE  AlertInv
BY DEF Init, AlertInv, ExaminerHasKey, OneExaminer, AlertIsPast, AlertedOnce, IsExamining, Examining

(* An alert is raised once for an event, however often it is published,    *)
(* redelivered and retried, whoever crashes or loses its connection, with  *)
(* any number of handlers, until its key in Redis expires.                 *)
THEOREM AlertsAreNotDoubled == Spec => []AlertedOnce
<1>1. Init => AlertInv
  BY AlertsInit
<1>2. TypeOK /\ AlertInv /\ [Next]_vars => AlertInv'
  BY AlertsNext
<1>3. AlertInv => AlertedOnce
  BY DEF AlertInv
<1> QED BY <1>1, <1>2, <1>3, TypeCorrect, PTL DEF Spec
-----------------------------------------------------------------------------
(* Events that a handler has examined, is examining, or was cut short at. *)
Covered == done \cup BeingExamined \cup cut

CoveredKey(k) == \E e \in Covered : GenerateIdempotencyKey(e) = k

(* Behind a key in Redis is an event that got a handler's attention. *)
KeyCovered == \A k \in Known : CoveredKey(k)

(* So it is behind a message that is about to be acked. *)
AckCovered == \A h \in Handlers : pc[h] = "ack" => CoveredKey(KeyOf(h))

IdleIsLive == \A h \in Handlers : pc[h] = "idle" => live[h]

(* Events of one key say the same. *)
LEMMA KeyTellsPayload ==
  ASSUME TypeOK, NEW e \in Events, NEW f \in Events,
         GenerateIdempotencyKey(e) = GenerateIdempotencyKey(f)
  PROVE  payload[e] = payload[f]
<1>1. payload[e] \in WalletEventPayload /\ payload[f] \in WalletEventPayload
  BY FraudAssumption DEF TypeOK
<1>2. /\ payload[e].walletId = payload[f].walletId /\ payload[e].eventType = payload[f].eventType
      /\ payload[e].timestamp = payload[f].timestamp /\ payload[e].amount = payload[f].amount
  BY DEF GenerateIdempotencyKey
<1> QED BY <1>1, <1>2 DEF WalletEventPayload

(* Behind a covered key is an event that says the same as e. *)
LEMMA CoveredIsLike ==
  ASSUME TypeOK, NEW e \in Events, CoveredKey(GenerateIdempotencyKey(e))
  PROVE  Like(e) \cap (done \cup BeingExamined \cup cut) # {}
<1>1. PICK f \in Covered : GenerateIdempotencyKey(f) = GenerateIdempotencyKey(e)
  BY DEF CoveredKey
<1>2. f \in Events
  BY <1>1, HeldType DEF Covered, BeingExamined, TypeOK, Examining
<1>3. payload[f] = payload[e]
  BY <1>1, <1>2, KeyTellsPayload
<1> QED BY <1>1, <1>2, <1>3 DEF Like, Covered

(* A step after which what was examined still is, or is done or cut short. *)
SettledStep ==
  /\ UNCHANGED payload /\ done \subseteq done' /\ cut \subseteq cut'
  /\ \A h \in Handlers : IsExamining(h) =>
       (IsExamining(h)' /\ held'[h] = held[h]) \/ EventOf(h) \in done' \cup cut'

(* Such a step uncovers no key. *)
LEMMA CoverStays ==
  ASSUME SettledStep
  PROVE  /\ Covered \subseteq Covered'
         /\ \A k : CoveredKey(k) => CoveredKey(k)'
<1>1. ASSUME NEW h \in Handlers, IsExamining(h) PROVE EventOf(h) \in Covered'
  <2>1. CASE IsExamining(h)' /\ held'[h] = held[h]
    BY <2>1 DEF Covered, BeingExamined, EventOf, IsExamining
  <2>2. CASE EventOf(h) \in done' \cup cut'
    BY <2>2 DEF Covered
  <2> QED BY <1>1, <2>1, <2>2 DEF SettledStep
<1>2. Covered \subseteq Covered'
  BY <1>1 DEF SettledStep, Covered, BeingExamined, IsExamining
<1>3. \A e : GenerateIdempotencyKey(e)' = GenerateIdempotencyKey(e)
  BY DEF SettledStep, GenerateIdempotencyKey
<1> QED BY <1>2, <1>3 DEF CoveredKey

(* Who is cut short is recorded. *)
LEMMA CutIsSettled ==
  ASSUME TypeOK, NEW h \in Handlers, CutShort(h), Return(h), UNCHANGED <<payload, done>>
  PROVE  SettledStep
BY ReturnType DEF SettledStep, CutShort, IsExamining

(* Every step is of this kind. *)
LEMMA NextIsSettled ==
  ASSUME TypeOK, [Next]_vars
  PROVE  SettledStep
<1> USE DEF queueVars, handlerVars, keyVars, alertVars
<1>1. ASSUME NEW h \in Handlers, Step(h) PROVE SettledStep
  <2>1. ASSUME NEW m \in Messages, HandleMessage(h, m) PROVE SettledStep
    BY <2>1 DEF HandleMessage, Goto, SettledStep, IsExamining, Examining, TypeOK
  <2>2. CASE AcquireLock(h)
    BY <2>2 DEF AcquireLock, Goto, SettledStep, IsExamining, Examining, TypeOK
  <2>3. CASE SkipChecks(h)
    BY <2>3 DEF SkipChecks, Goto, SettledStep, IsExamining, TypeOK
  <2>4. CASE ZAdd(h)
    BY <2>4 DEF ZAdd, Goto, SettledStep, IsExamining, Examining, TypeOK
  <2>5. CASE Prune(h)
    BY <2>5 DEF Prune, Goto, SettledStep, IsExamining, Examining, TypeOK
  <2>6. CASE ZCard(h, TRUE)
    BY <2>6 DEF ZCard, Goto, SettledStep, IsExamining, Examining, TypeOK
  <2>7. CASE DetectHighValueTransaction(h, TRUE)
    BY <2>7 DEF DetectHighValueTransaction, Goto, SettledStep, IsExamining, TypeOK
  <2>8. CASE Ack(h)
    BY <2>8, ReturnType DEF Ack, SettledStep, IsExamining, Examining
  <2> QED BY <1>1, <2>1, <2>2, <2>3, <2>4, <2>5, <2>6, <2>7, <2>8 DEF Step
<1>2. ASSUME NEW h \in Handlers, Failure(h) PROVE SettledStep
  <2>1. ASSUME NEW acked \in BOOLEAN, Fail(h, acked) PROVE SettledStep
    BY <2>1, CutIsSettled DEF Fail, HandleProcessingError
  <2>2. CASE Crash(h)
    BY <2>2, CutIsSettled DEF Crash
  <2>3. CASE Disconnect(h)
    BY <2>3 DEF Disconnect, SettledStep, IsExamining
  <2>4. CASE ZCard(h, FALSE)
    BY <2>4 DEF ZCard, Goto, SettledStep, IsExamining, Examining, TypeOK
  <2>5. CASE DetectHighValueTransaction(h, FALSE)
    BY <2>5 DEF DetectHighValueTransaction, Goto, SettledStep, IsExamining, TypeOK
  <2> QED BY <1>2, <2>1, <2>2, <2>3, <2>4, <2>5 DEF Failure
<1>3. CASE \E e \in Events : Publish(e)
  BY <1>3 DEF Publish, SettledStep, IsExamining
<1>4. CASE \E m \in Messages : DeadLetter(m)
  BY <1>4 DEF DeadLetter, SettledStep, IsExamining
<1>5. CASE \E k \in keys : ExpireKey(k)
  BY <1>5 DEF ExpireKey, SettledStep, IsExamining
<1>6. CASE \E w \in Wallets : ExpireWindow(w)
  BY <1>6 DEF ExpireWindow, SettledStep, IsExamining
<1>7. CASE UNCHANGED vars
  BY <1>7 DEF vars, SettledStep, IsExamining
<1> QED BY <1>1, <1>2, <1>3, <1>4, <1>5, <1>6, <1>7 DEF Next

(* The keys of Redis and the messages about to be acked stay covered.      *)
LEMMA KeysNext ==
  ASSUME TypeOK, KeyCovered, AckCovered, IdleIsLive, [Next]_vars
  PROVE  KeyCovered' /\ AckCovered' /\ IdleIsLive'
<1> USE DEF queueVars, handlerVars, keyVars, alertVars
<1>1. \A k : CoveredKey(k) => CoveredKey(k)'
  BY NextIsSettled, CoverStays
<1>2. ASSUME Known' \subseteq Known,
             \A h \in Handlers : pc'[h] = "ack" => pc[h] = "ack" /\ held'[h] = held[h],
             \A h \in Handlers :
                pc'[h] = "idle" => (pc[h] = "idle" /\ live'[h] = live[h]) \/ live'[h],
             UNCHANGED payload
      PROVE  KeyCovered' /\ AckCovered' /\ IdleIsLive'
  <2>1. \A h \in Handlers : pc'[h] = "ack" => KeyOf(h)' = KeyOf(h)
    BY <1>2 DEF KeyOf, EventOf, GenerateIdempotencyKey
  <2>2. KeyCovered'
    BY <1>1, <1>2 DEF KeyCovered
  <2>3. AckCovered'
    BY <1>1, <1>2, <2>1 DEF AckCovered
  <2>4. IdleIsLive'
    BY <1>2 DEF IdleIsLive
  <2> QED BY <2>2, <2>3, <2>4
<1>3. ASSUME NEW h \in Handlers, pc[h] # "idle", NEW label \in {"check", "ack"}, Goto(h, label),
             UNCHANGED <<payload, held, live>>, Known' \subseteq Known \cup {KeyOf(h)},
             CoveredKey(KeyOf(h))'
      PROVE  KeyCovered' /\ AckCovered' /\ IdleIsLive'
  <2>1. \A g \in Handlers : KeyOf(g)' = KeyOf(g)
    BY <1>3 DEF KeyOf, EventOf, GenerateIdempotencyKey
  <2>2. pc'[h] = label /\ \A g \in Handlers \ {h} : pc'[g] = pc[g]
    BY <1>3 DEF Goto, TypeOK
  <2>3. KeyCovered'
    BY <1>1, <1>3, <2>1 DEF KeyCovered
  <2>4. AckCovered'
    BY <1>1, <1>3, <2>1, <2>2 DEF AckCovered
  <2>5. IdleIsLive'
    BY <1>3, <2>2 DEF IdleIsLive
  <2> QED BY <2>3, <2>4, <2>5
<1>4. ASSUME NEW h \in Handlers, held'[h] = held[h], payload' = payload,
             EventOf(h) \in done' \/ (pc'[h] \in Examining)
      PROVE  CoveredKey(KeyOf(h))'
  BY <1>4 DEF CoveredKey, Covered, BeingExamined, KeyOf, EventOf, GenerateIdempotencyKey
<1>5. ASSUME NEW h \in Handlers, AcquireLock(h) PROVE KeyCovered' /\ AckCovered' /\ IdleIsLive'
  <2>1. /\ pc[h] = "lock" /\ Goto(h, IF IsNew(h) THEN "check" ELSE "ack")
        /\ Known' = Known \cup {KeyOf(h)} /\ UNCHANGED <<payload, held, live>>
    BY <1>5 DEF AcquireLock, Known
  <2>2. CASE IsNew(h)
    <3>1. pc'[h] \in Examining
      BY <2>1, <2>2 DEF Goto, TypeOK, Examining
    <3> QED BY <1>3, <1>4, <2>1, <2>2, <3>1
  <2>3. CASE ~IsNew(h)
    <3>1. CoveredKey(KeyOf(h))
      BY <2>3 DEF IsNew, KeyCovered, Known
    <3>2. KeyOf(h)' = KeyOf(h)
      BY <2>1 DEF KeyOf, EventOf, GenerateIdempotencyKey
    <3> QED BY <1>1, <1>3, <2>1, <2>3, <3>1, <3>2
  <2> QED BY <2>2, <2>3
<1>6. ASSUME NEW h \in Handlers,
             SkipChecks(h) \/ (\E saved \in BOOLEAN : DetectHighValueTransaction(h, saved))
      PROVE  KeyCovered' /\ AckCovered' /\ IdleIsLive'
  <2>1. /\ pc[h] # "idle" /\ Goto(h, "ack") /\ UNCHANGED <<payload, held, live>>
        /\ Known' \subseteq Known /\ EventOf(h) \in done'
    BY <1>6 DEF SkipChecks, DetectHighValueTransaction, Known
  <2> QED BY <1>3, <1>4, <2>1
<1>7. ASSUME NEW h \in Handlers, Return(h), UNCHANGED <<payload, keys, expired>>
      PROVE  KeyCovered' /\ AckCovered' /\ IdleIsLive'
  BY <1>2, <1>7, ReturnType DEF Known
<1>8. ASSUME NEW h \in Handlers, Step(h) PROVE KeyCovered' /\ AckCovered' /\ IdleIsLive'
  <2>1. ASSUME NEW m \in Messages, HandleMessage(h, m)
        PROVE  KeyCovered' /\ AckCovered' /\ IdleIsLive'
    BY <1>2, <2>1 DEF HandleMessage, Goto, Known, TypeOK
  <2>2. CASE ZAdd(h)
    BY <1>2, <2>2 DEF ZAdd, Goto, Known, TypeOK
  <2>3. CASE Prune(h)
    BY <1>2, <2>3 DEF Prune, Goto, Known, TypeOK
  <2>4. CASE ZCard(h, TRUE)
    BY <1>2, <2>4 DEF ZCard, Goto, Known, TypeOK
  <2>5. CASE Ack(h)
    BY <1>7, <2>5 DEF Ack
  <2> QED BY <1>5, <1>6, <1>8, <2>1, <2>2, <2>3, <2>4, <2>5 DEF Step
<1>9. ASSUME NEW h \in Handlers, Failure(h) PROVE KeyCovered' /\ AckCovered' /\ IdleIsLive'
  <2>1. ASSUME NEW acked \in BOOLEAN, Fail(h, acked)
        PROVE  KeyCovered' /\ AckCovered' /\ IdleIsLive'
    BY <1>7, <2>1 DEF Fail, HandleProcessingError
  <2>2. CASE Crash(h)
    BY <1>7, <2>2 DEF Crash
  <2>3. CASE Disconnect(h)
    BY <1>2, <2>3 DEF Disconnect, Known, TypeOK
  <2>4. CASE ZCard(h, FALSE)
    BY <1>2, <2>4 DEF ZCard, Goto, Known, TypeOK
  <2> QED BY <1>6, <1>9, <2>1, <2>2, <2>3, <2>4 DEF Failure
<1>10. CASE \E e \in Events : Publish(e)
  BY <1>2, <1>10 DEF Publish, Known
<1>11. CASE \E m \in Messages : DeadLetter(m)
  BY <1>2, <1>11 DEF DeadLetter, Known
<1>12. CASE \E k \in keys : ExpireKey(k)
  BY <1>2, <1>12 DEF ExpireKey, Known
<1>13. CASE \E w \in Wallets : ExpireWindow(w)
  BY <1>2, <1>13 DEF ExpireWindow, Known
<1>14. CASE UNCHANGED vars
  BY <1>2, <1>14 DEF vars, Known
<1> QED BY <1>8, <1>9, <1>10, <1>11, <1>12, <1>13, <1>14 DEF Next

(* Where an event may be. *)
Accounted(e) == InBroker(e) \/ e \in dead \/ CoveredKey(GenerateIdempotencyKey(e))

(* Nothing leaves the broker if no queue is emptied and no handler stops. *)
LEMMA BrokerKeeps ==
  ASSUME NEW e,
         \A m \in Messages : ready[m] > 0 => ready'[m] > 0,
         \A m \in Messages : waiting[m] > 0 => waiting'[m] > 0,
         \A h \in Handlers : pc[h] # "idle" =>
           pc'[h] # "idle" /\ held'[h] = held[h] /\ live'[h] = live[h],
         InBroker(e)
  PROVE  InBroker(e)'
BY DEF InBroker, EventOf

(* A handler stops; everything else stays with the broker. *)
LEMMA BrokerWithout ==
  ASSUME TypeOK, NEW h \in Handlers, NEW e,
         \A m \in Messages : ready[m] > 0 => ready'[m] > 0,
         \A m \in Messages : waiting[m] > 0 => waiting'[m] > 0,
         Return(h), InBroker(e), ~(EventOf(h) = e /\ live[h])
  PROVE  InBroker(e)'
<1>1. CASE \E m \in Messages : m.event = e /\ (ready[m] > 0 \/ waiting[m] > 0)
  BY <1>1 DEF InBroker
<1>2. CASE \E g \in Handlers : pc[g] # "idle" /\ EventOf(g) = e /\ live[g]
  <2>1. PICK g \in Handlers : pc[g] # "idle" /\ EventOf(g) = e /\ live[g]
    BY <1>2
  <2>2. g # h
    BY <2>1
  <2> QED BY <2>1, <2>2, ReturnType DEF InBroker, EventOf
<1> QED BY <1>1, <1>2 DEF InBroker

(* The error handler leaves the event in a wait queue, or it is dead. *)
LEMMA BrokerFail ==
  ASSUME TypeOK, NEW h \in Handlers, NEW acked \in BOOLEAN, Fail(h, acked), NEW e, InBroker(e)
  PROVE  InBroker(e)' \/ e \in dead'
<1> DEFINE m == held[h]
<1>1. m \in Messages /\ m.event = EventOf(h) /\ HandleProcessingError(h, acked) /\ Return(h)
  BY HeldType DEF Fail, HandleProcessingError, EventOf
<1>2. ready \in [Messages -> Nat] /\ waiting \in [Messages -> Nat]
  BY DEF TypeOK
<1>3. /\ \A n \in Messages : ready[n] > 0 => ready'[n] > 0
      /\ \A n \in Messages : waiting[n] > 0 => waiting'[n] > 0
  BY <1>1, <1>2, PutType, MessageType DEF HandleProcessingError
<1>4. CASE EventOf(h) = e /\ live[h]
  <2>1. CASE MayRetry(m)
    <3>1. waiting' = Put(waiting, Retry(m)) /\ Retry(m) \in Messages /\ Retry(m).event = e
      BY <1>1, <1>4, <2>1, MessageType DEF HandleProcessingError
    <3>2. waiting'[Retry(m)] > 0
      BY <1>2, <3>1, PutType
    <3> QED BY <3>1, <3>2 DEF InBroker
  <2>2. CASE ~MayRetry(m)
    BY <1>1, <1>4, <2>2 DEF HandleProcessingError
  <2> QED BY <2>1, <2>2
<1> QED BY <1>1, <1>3, <1>4, BrokerWithout

(* A crash or a lost connection puts the message back. *)
LEMMA BrokerRequeue ==
  ASSUME TypeOK, NEW h \in Handlers, pc[h] # "idle", Requeue(h), UNCHANGED waiting
  PROVE  /\ \A n \in Messages : ready[n] > 0 => ready'[n] > 0
         /\ \A n \in Messages : waiting[n] > 0 => waiting'[n] > 0
BY HeldType, PutType DEF Requeue, TypeOK

(* A lost connection gives the message back to the queue. *)
LEMMA BrokerCrash ==
  ASSUME TypeOK, NEW h \in Handlers, Crash(h) \/ Disconnect(h), NEW e, InBroker(e)
  PROVE  InBroker(e)'
<1>1. pc[h] # "idle" /\ Requeue(h) /\ UNCHANGED waiting
  BY DEF Crash, Disconnect
<1>2. /\ \A n \in Messages : ready[n] > 0 => ready'[n] > 0
      /\ \A n \in Messages : waiting[n] > 0 => waiting'[n] > 0
  BY <1>1, BrokerRequeue
<1>3. CASE EventOf(h) = e /\ live[h]
  <2>1. held[h] \in Messages /\ held[h].event = e
    BY <1>1, <1>3, HeldType DEF EventOf
  <2>2. ready'[held[h]] > 0
    BY <1>1, <1>3, <2>1, PutType DEF Requeue, TypeOK
  <2> QED BY <2>1, <2>2 DEF InBroker
<1>4. CASE ~(EventOf(h) = e /\ live[h]) /\ Crash(h)
  BY <1>2, <1>4, BrokerWithout DEF Crash
<1>5. CASE ~(EventOf(h) = e /\ live[h]) /\ Disconnect(h)
  <2>1. CASE \E n \in Messages : n.event = e /\ (ready[n] > 0 \/ waiting[n] > 0)
    BY <2>1, <1>2 DEF InBroker
  <2>2. CASE \E g \in Handlers : pc[g] # "idle" /\ EventOf(g) = e /\ live[g]
    <3>1. PICK g \in Handlers : pc[g] # "idle" /\ EventOf(g) = e /\ live[g]
      BY <2>2
    <3>2. g # h
      BY <3>1, <1>5
    <3>3. live'[g] /\ pc'[g] = pc[g] /\ held'[g] = held[g]
      BY <3>1, <3>2, <1>5 DEF Disconnect, TypeOK
    <3> QED BY <3>1, <3>3 DEF InBroker, EventOf
  <2> QED BY <2>1, <2>2 DEF InBroker
<1> QED BY <1>3, <1>4, <1>5

(* A delivery hands the message to a handler, or it is dead. *)
LEMMA BrokerDelivers ==
  ASSUME TypeOK, IdleIsLive, NEW h \in Handlers, NEW m \in Messages, HandleMessage(h, m),
         NEW e, InBroker(e)
  PROVE  InBroker(e)' \/ e \in dead'
<1>1. /\ ready' = Drop(ready, m) /\ ready[m] > 0 /\ waiting' = waiting
      /\ ready \in [Messages -> Nat] /\ pc[h] = "idle"
  BY DEF HandleMessage, TypeOK
<1>2. \A n \in Messages : n # m => ready'[n] = ready[n]
  BY <1>1, DropType
<1>3. \A g \in Handlers : pc[g] # "idle" =>
        pc'[g] # "idle" /\ held'[g] = held[g] /\ live'[g] = live[g]
  BY <1>1 DEF HandleMessage, Goto, TypeOK, handlerVars
<1>4. CASE m.event = e
  <2>1. CASE IsParsable(m.event)
    <3>1. pc'[h] = "lock" /\ held'[h] = m /\ live' = live
      BY <2>1 DEF HandleMessage, Goto, TypeOK
    <3>2. live[h]
      BY <1>1 DEF IdleIsLive
    <3> QED BY <1>4, <3>1, <3>2 DEF InBroker, EventOf
  <2>2. CASE ~IsParsable(m.event)
    BY <1>4, <2>2 DEF HandleMessage
  <2> QED BY <2>1, <2>2
<1>5. CASE m.event # e
  BY <1>1, <1>2, <1>3, <1>5 DEF InBroker, EventOf
<1> QED BY <1>4, <1>5

(* An ack takes a message from the broker only if its event is covered. *)
LEMMA BrokerAck ==
  ASSUME TypeOK, AckCovered, NEW h \in Handlers, Ack(h), NEW e, InBroker(e)
  PROVE  InBroker(e)' \/ CoveredKey(GenerateIdempotencyKey(e))
<1>1. pc[h] = "ack" /\ Return(h) /\ UNCHANGED <<ready, waiting>>
  BY DEF Ack, queueVars
<1>2. CASE EventOf(h) = e
  BY <1>1, <1>2 DEF AckCovered, KeyOf
<1>3. CASE EventOf(h) # e
  BY <1>1, <1>3, BrokerWithout
<1> QED BY <1>2, <1>3

(* The end of a wait puts the message back into the queue. *)
LEMMA BrokerDeadLetters ==
  ASSUME TypeOK, NEW m \in Messages, DeadLetter(m), NEW e, InBroker(e)
  PROVE  InBroker(e)'
<1>1. /\ waiting' = Drop(waiting, m) /\ ready' = Put(ready, m) /\ waiting[m] > 0
      /\ ready \in [Messages -> Nat] /\ waiting \in [Messages -> Nat]
      /\ UNCHANGED <<pc, held, live>>
  BY DEF DeadLetter, TypeOK, handlerVars
<1>2. ready'[m] > 0 /\ \A n \in Messages : ready[n] > 0 => ready'[n] > 0
  BY <1>1, PutType
<1>3. \A n \in Messages : n # m => waiting'[n] = waiting[n]
  BY <1>1, DropType
<1> QED BY <1>1, <1>2, <1>3 DEF InBroker, EventOf

(* The other steps take nothing from the broker. *)
LEMMA BrokerRest ==
  ASSUME TypeOK, NEW e, InBroker(e),
         \/ \E h \in Handlers : AcquireLock(h) \/ SkipChecks(h) \/ ZAdd(h) \/ Prune(h)
         \/ \E h \in Handlers, saved \in BOOLEAN : ZCard(h, saved)
         \/ \E h \in Handlers, saved \in BOOLEAN : DetectHighValueTransaction(h, saved)
         \/ \E k \in keys : ExpireKey(k)
         \/ \E w \in Wallets : ExpireWindow(w)
         \/ UNCHANGED vars
  PROVE  InBroker(e)'
<1>1. UNCHANGED <<ready, waiting, held, live>>
  BY DEF AcquireLock, SkipChecks, ZAdd, Prune, ZCard, DetectHighValueTransaction, ExpireKey,
         ExpireWindow, vars, queueVars, handlerVars
<1>2. \A h \in Handlers : pc[h] # "idle" => pc'[h] # "idle"
  <2>1. \/ UNCHANGED pc
        \/ \E h \in Handlers, label \in {"check", "ack", "prune", "count", "high"} : Goto(h, label)
    BY DEF AcquireLock, SkipChecks, ZAdd, Prune, ZCard, DetectHighValueTransaction, ExpireKey,
           ExpireWindow, vars, handlerVars
  <2> QED BY <2>1 DEF Goto, TypeOK
<1> QED BY <1>1, <1>2, BrokerKeeps

(* No step makes an accounted event vanish. *)
LEMMA AccountedNext ==
  ASSUME TypeOK, KeyCovered, AckCovered, IdleIsLive, [Next]_vars, NEW e \in Events, Accounted(e)
  PROVE  Accounted(e)'
<1>1. CASE e \in dead
  <2>1. dead \subseteq dead'
    BY DEF Next, Step, Failure, Publish, HandleMessage, AcquireLock, SkipChecks, ZAdd, Prune,
           ZCard, DetectHighValueTransaction, Ack, Fail, HandleProcessingError, Crash, Disconnect,
           DeadLetter, ExpireKey, ExpireWindow, vars, queueVars
  <2> QED BY <1>1, <2>1 DEF Accounted
<1>2. ASSUME CoveredKey(GenerateIdempotencyKey(e)) PROVE Accounted(e)'
  <2>1. GenerateIdempotencyKey(e)' = GenerateIdempotencyKey(e)
    BY NextIsSettled DEF SettledStep, GenerateIdempotencyKey
  <2> QED BY <1>2, <2>1, NextIsSettled, CoverStays DEF Accounted
<1>3. CASE InBroker(e)
  <2>1. ASSUME NEW f \in Events, Publish(f) PROVE InBroker(e)'
    <3>1. [event |-> f, retries |-> 0] \in Messages
      BY FraudAssumption DEF Messages
    <3>2. \A m \in Messages : ready[m] > 0 => ready'[m] > 0
      BY <2>1, <3>1, PutType DEF Publish, TypeOK
    <3> QED BY <1>3, <2>1, <3>2, BrokerKeeps DEF Publish, handlerVars
  <2>2. ASSUME NEW h \in Handlers, Step(h) PROVE Accounted(e)'
    <3>1. CASE \E m \in Messages : HandleMessage(h, m)
      BY <1>3, <3>1, BrokerDelivers DEF Accounted
    <3>2. CASE Ack(h)
      BY <1>2, <1>3, <3>2, BrokerAck DEF Accounted
    <3> QED BY <1>3, <2>2, <3>1, <3>2, BrokerRest DEF Step, Accounted
  <2>3. ASSUME NEW h \in Handlers, Failure(h) PROVE Accounted(e)'
    BY <1>3, <2>3, BrokerFail, BrokerCrash, BrokerRest DEF Failure, Accounted
  <2> QED BY <1>3, <2>1, <2>2, <2>3, BrokerDeadLetters, BrokerRest DEF Next, Accounted
<1> QED BY <1>1, <1>2, <1>3 DEF Accounted

(* An event that is published for the first time is with the broker. *)
LEMMA SentIsAccounted ==
  ASSUME TypeOK, [Next]_vars, NEW e \in Events, sends'[e] > 0, ~(sends[e] > 0)
  PROVE  Accounted(e)'
<1>1. Publish(e)
  <2>1. PICK f \in Events : Publish(f)
    BY DEF Next, Step, Failure, HandleMessage, AcquireLock, SkipChecks, ZAdd, Prune, ZCard,
           DetectHighValueTransaction, Ack, Fail, Crash, Disconnect, DeadLetter, ExpireKey,
           ExpireWindow, vars, queueVars
  <2>2. f = e
    BY <2>1 DEF Publish, TypeOK
  <2> QED BY <2>1, <2>2
<1>2. [event |-> e, retries |-> 0] \in Messages
  BY FraudAssumption DEF Messages
<1>3. ready'[[event |-> e, retries |-> 0]] > 0
  BY <1>1, <1>2, PutType DEF Publish, TypeOK
<1> QED BY <1>2, <1>3 DEF Accounted, InBroker

(* The inductive invariant: with keys in place of payloads. *)
SentInv ==
  KeyCovered /\ AckCovered /\ IdleIsLive /\ \A e \in Events : sends[e] > 0 => Accounted(e)

(* Every step keeps SentInv. *)
LEMMA SentNext ==
  ASSUME TypeOK, SentInv, [Next]_vars
  PROVE  SentInv'
<1>1. KeyCovered' /\ AckCovered' /\ IdleIsLive'
  BY KeysNext DEF SentInv
<1>2. ASSUME NEW e \in Events, sends'[e] > 0 PROVE Accounted(e)'
  <2>1. CASE sends[e] > 0
    BY <2>1, AccountedNext DEF SentInv
  <2>2. CASE ~(sends[e] > 0)
    BY <1>2, <2>2, SentIsAccounted
  <2> QED BY <2>1, <2>2
<1> QED BY <1>1, <1>2 DEF SentInv

(* Nothing is sent at first. *)
LEMMA SentInit ==
  ASSUME Init
  PROVE  SentInv
BY DEF Init, SentInv, KeyCovered, AckCovered, IdleIsLive, Known

(* SentInv says more than EventsAccounted. *)
LEMMA SentIsEnough ==
  ASSUME TypeOK, SentInv
  PROVE  EventsAccounted
BY CoveredIsLike DEF SentInv, Accounted, EventsAccounted

(* No published event gets lost on the way: it is with the broker or dead  *)
(* lettered, or a handler set the key of its payload and has examined the  *)
(* event, is doing so, or was cut short.  For any number of handlers,      *)
(* retries, crashes, lost connections and expired keys.                    *)
THEOREM NoEventUnaccounted == Spec => []EventsAccounted
<1>1. Init => SentInv
  BY SentInit
<1>2. TypeOK /\ SentInv /\ [Next]_vars => SentInv'
  BY SentNext
<1>3. TypeOK /\ SentInv => EventsAccounted
  BY SentIsEnough
<1> QED BY <1>1, <1>2, <1>3, TypeCorrect, PTL DEF Spec
-----------------------------------------------------------------------------
(* Rapid withdrawals: how the sorted set of a wallet and the alerts relate *)
(* to the events that were added.                                          *)
Wal(e) == payload[e].walletId

Time(e) == payload[e].timestamp

(* Handlers that have added their event and not yet examined all of it. *)
PastAdd == {"prune", "count", "high"}

(* No event of the wallet was overtaken. *)
Calm(w) == \A f \in overtaken : Wal(f) # w

(* A sorted set holds nothing but times of events added to it. *)
WindowIsAdded ==
  \A w \in Wallets : \A t \in window[w] : \E f \in added : Wal(f) = w /\ Time(f) = t

(* An event is in the sorted set, or lies a window behind one that is or   *)
(* was in it, or the set has expired.                                      *)
AddedIsKept ==
  \A f \in added : Wal(f) \notin blind =>
    \/ Time(f) \in window[Wal(f)]
    \/ \E g \in added : Wal(g) = Wal(f) /\ Time(f) <= Time(g) - Window

(* Withdrawals are added before they are examined to the end. *)
AddedFirst ==
  /\ \A e \in added : IsWithdrawal(e)
  /\ \A e \in done : IsWithdrawal(e) => e \in added
  /\ \A h \in Handlers : pc[h] \in PastAdd => EventOf(h) \in added

(* Who still has to count while a later event is there was overtaken. *)
LateIsOvertaken ==
  \A h \in Handlers : pc[h] \in {"prune", "count"} /\ IsLate(h) => EventOf(h) \in overtaken

(* Before the count nothing old has come in, unless it was overtaken. *)
CountedIsPruned ==
  \A h \in Handlers : pc[h] = "count" /\ Calm(WalletOf(h)) =>
    \A t \in window[WalletOf(h)] : t > TimeOf(h) - Window

(* The event's withdrawals have been counted. *)
Passed(e) == e \in done \/ \E h \in Handlers : pc[h] = "high" /\ EventOf(h) = e

PassedIsAlerted ==
  \A e \in added \ overtaken :
    Passed(e) /\ Wal(e) \notin blind /\ Cardinality(Burst(e)) > MaxWithdrawals => RapidAlert(e)

BurstInv ==
  /\ IsFiniteSet(added)
  /\ WindowIsAdded
  /\ AddedIsKept
  /\ AddedFirst
  /\ LateIsOvertaken
  /\ CountedIsPruned
  /\ PassedIsAlerted
  /\ AlarmIsBurst

(* The times of finitely many events are finitely many. *)
LEMMA TimesFinite ==
  ASSUME NEW S, IsFiniteSet(S), NEW f
  PROVE  IsFiniteSet({f[x].timestamp : x \in S})
<1> DEFINE T == {f[x].timestamp : x \in S}
           g == [x \in S |-> f[x].timestamp]
<1>1. g \in Surjection(S, T)
  BY DEF Surjection
<1> QED BY <1>1, FS_Surjection

(* Burst and sorted set can be counted. *)
LEMMA BurstFinite ==
  ASSUME BurstInv, NEW e
  PROVE  IsFiniteSet(Burst(e)) /\ \A w \in Wallets : IsFiniteSet(window[w])
<1> DEFINE times == {payload[x].timestamp : x \in added}
<1>1. IsFiniteSet(times)
  BY TimesFinite DEF BurstInv
<1>2. Burst(e) \subseteq times
  BY DEF Burst
<1>3. \A w \in Wallets : window[w] \subseteq times
  BY DEF BurstInv, WindowIsAdded, Time
<1> HIDE DEF times
<1> QED BY <1>1, <1>2, <1>3, FS_Subset

(* The same after a step, for a burst that can be counted. *)
LEMMA BurstFiniteNext ==
  ASSUME IsFiniteSet(added)', NEW e
  PROVE  IsFiniteSet(Burst(e)')
<1> DEFINE times == {payload'[x].timestamp : x \in added'}
<1>1. IsFiniteSet(times)
  BY TimesFinite
<1>2. Burst(e)' \subseteq times
  BY DEF Burst
<1> HIDE DEF times
<1> QED BY <1>1, <1>2, FS_Subset

(* A set that contains too many is too large. *)
LEMMA MoreThan ==
  ASSUME NEW S, IsFiniteSet(S), NEW T, T \subseteq S, Cardinality(T) > MaxWithdrawals
  PROVE  Cardinality(S) > MaxWithdrawals
<1>1. Cardinality(T) <= Cardinality(S) /\ Cardinality(S) \in Nat /\ Cardinality(T) \in Nat
  BY FS_Subset, FS_CardinalityType
<1> QED BY <1>1, FraudAssumption

(* A step that adds nothing and counts nothing. *)
StillStep ==
  /\ UNCHANGED <<payload, added, overtaken>>
  /\ blind \subseteq blind'
  /\ \A w \in Wallets : window'[w] = window[w] \/ (window'[w] = {} /\ w \in blind')
  /\ \A h \in Handlers : pc'[h] \in PastAdd => pc'[h] = pc[h] /\ held'[h] = held[h]
  /\ \A e : RapidAlert(e)' <=> RapidAlert(e)
  /\ \A e \in done' : e \notin done => /\ IsWithdrawal(e) => e \in added
                                       /\ e \in added => Passed(e)

(* Such a step keeps BurstInv. *)
LEMMA StillKeepsBursts ==
  ASSUME TypeOK, BurstInv, StillStep
  PROVE  BurstInv'
<1>1. \A e : /\ Wal(e)' = Wal(e) /\ Time(e)' = Time(e) /\ Burst(e)' = Burst(e)
             /\ IsWithdrawal(e)' <=> IsWithdrawal(e)
  BY DEF StillStep, Wal, Time, Burst, IsWithdrawal
<1>2. /\ added' = added /\ overtaken' = overtaken /\ blind \subseteq blind'
      /\ \A w \in Wallets : window'[w] \subseteq window[w]
  BY DEF StillStep
<1>3. \A w : Calm(w)' <=> Calm(w)
  BY <1>1, <1>2 DEF Calm
<1>4. ASSUME NEW h \in Handlers, pc'[h] \in PastAdd
      PROVE  /\ pc'[h] = pc[h] /\ EventOf(h)' = EventOf(h) /\ WalletOf(h)' = WalletOf(h)
             /\ TimeOf(h)' = TimeOf(h) /\ (IsLate(h)' <=> IsLate(h)) /\ WalletOf(h) \in Wallets
  <2>1. pc'[h] = pc[h] /\ held'[h] = held[h] /\ UNCHANGED <<payload, added>>
    BY <1>4 DEF StillStep
  <2>2. EventOf(h) \in Events
    BY <1>4, <2>1, HeldType DEF PastAdd
  <2> QED BY <2>1, <2>2, PayloadType DEF EventOf, WalletOf, TimeOf, IsLate
<1>5. IsFiniteSet(added)' /\ WindowIsAdded'
  BY <1>1, <1>2 DEF BurstInv, WindowIsAdded
<1>6. AddedIsKept'
  <2>1. \A f \in added : Wal(f) \in Wallets
    BY PayloadType DEF Wal, TypeOK
  <2> QED BY <1>1, <1>2, <2>1 DEF BurstInv, AddedIsKept, StillStep
<1>7. AddedFirst'
  BY <1>1, <1>2, <1>4 DEF BurstInv, AddedFirst, StillStep
<1>8. LateIsOvertaken'
  BY <1>2, <1>4 DEF BurstInv, LateIsOvertaken, PastAdd
<1>9. CountedIsPruned'
  BY <1>2, <1>3, <1>4 DEF BurstInv, CountedIsPruned, PastAdd
<1>10. \A e \in added : Passed(e)' => Passed(e)
  BY <1>4 DEF Passed, StillStep, PastAdd
<1>11. PassedIsAlerted'
  BY <1>1, <1>2, <1>10 DEF BurstInv, PassedIsAlerted, StillStep
<1>12. AlarmIsBurst'
  <2> SUFFICES ASSUME NEW e \in Events, RapidAlert(e)', Calm(Wal(e))'
               PROVE  Cardinality(Burst(e)') > MaxWithdrawals
    BY DEF AlarmIsBurst, Calm, Wal
  <2>1. RapidAlert(e) /\ Calm(Wal(e))
    BY <1>1, <1>3 DEF StillStep
  <2>2. Cardinality(Burst(e)) > MaxWithdrawals
    BY <2>1 DEF BurstInv, AlarmIsBurst, Calm, Wal
  <2> QED BY <1>1, <2>2
<1> QED BY <1>5, <1>6, <1>7, <1>8, <1>9, <1>11, <1>12 DEF BurstInv

(* What a handler holds on its way through the checks. *)
LEMMA ExaminedType ==
  ASSUME TypeOK, NEW h \in Handlers, pc[h] \in Examining
  PROVE  /\ EventOf(h) \in Events /\ WalletOf(h) \in Wallets /\ TimeOf(h) \in Int
         /\ WalletOf(h) = Wal(EventOf(h)) /\ TimeOf(h) = Time(EventOf(h))
<1>1. EventOf(h) \in Events
  BY HeldType DEF Examining
<1> QED BY <1>1, PayloadType DEF WalletOf, TimeOf, Wal, Time

(* One handler moves on to another label. *)
LEMMA MovesOn ==
  ASSUME TypeOK, NEW h \in Handlers, NEW label, Goto(h, label), UNCHANGED <<payload, held>>
  PROVE  /\ pc'[h] = label /\ \A g \in Handlers \ {h} : pc'[g] = pc[g]
         /\ \A g \in Handlers : /\ EventOf(g)' = EventOf(g) /\ WalletOf(g)' = WalletOf(g)
                                /\ TimeOf(g)' = TimeOf(g)
         /\ \A e : /\ Wal(e)' = Wal(e) /\ Time(e)' = Time(e)
                   /\ IsWithdrawal(e)' <=> IsWithdrawal(e)
BY DEF Goto, TypeOK, EventOf, WalletOf, TimeOf, Wal, Time, IsWithdrawal

(* ZADD of an event: whoever is about to count an earlier one is overtaken, *)
(* and so is the event itself if a later one is there.                      *)
LEMMA BurstZAdd ==
  ASSUME TypeOK, BurstInv, NEW h \in Handlers, ZAdd(h)
  PROVE  BurstInv'
<1> DEFINE e0 == EventOf(h)
           w0 == WalletOf(h)
           t0 == TimeOf(h)
<1>1. pc[h] = "check" /\ IsWithdrawal(e0) /\ e0 \in Events /\ w0 \in Wallets /\ t0 \in Int
      /\ w0 = Wal(e0) /\ t0 = Time(e0)
  BY ExaminedType DEF ZAdd, Examining
<1>2. /\ pc'[h] = "prune" /\ \A g \in Handlers \ {h} : pc'[g] = pc[g]
      /\ \A g \in Handlers : /\ EventOf(g)' = EventOf(g) /\ WalletOf(g)' = WalletOf(g)
                             /\ TimeOf(g)' = TimeOf(g)
      /\ \A e : /\ Wal(e)' = Wal(e) /\ Time(e)' = Time(e)
                /\ IsWithdrawal(e)' <=> IsWithdrawal(e)
  BY MovesOn DEF ZAdd, queueVars
<1>3. /\ window'[w0] = window[w0] \cup {t0} /\ \A w \in Wallets \ {w0} : window'[w] = window[w]
      /\ added' = added \cup {e0}
      /\ overtaken \subseteq overtaken'
      /\ \A g \in Earlier(h) : EventOf(g) \in overtaken'
      /\ IsLate(h) => e0 \in overtaken'
      /\ UNCHANGED <<payload, done, blind, alerts>>
  BY <1>1 DEF ZAdd, TypeOK, queueVars, keyVars, alertVars
<1>t. \A f \in added' : f \in Events /\ Wal(f) \in Wallets /\ Time(f) \in Int
  BY <1>1, <1>3, PayloadType DEF Wal, Time, TypeOK
<1>l. \A g \in Handlers : IsLate(g) <=> \E f \in added : Wal(f) = WalletOf(g) /\ Time(f) > TimeOf(g)
  BY DEF IsLate, Wal, Time
<1>m. ASSUME NEW g \in Handlers, IsLate(g)'
      PROVE  \E f \in added' : Wal(f) = WalletOf(g) /\ Time(f) > TimeOf(g)
  BY <1>2, <1>m DEF IsLate, Wal, Time
<1> HIDE DEF e0, w0, t0
<1>4. IsFiniteSet(added)'
  BY <1>3, FS_AddElement DEF BurstInv
<1>5. WindowIsAdded'
  <2> SUFFICES ASSUME NEW w \in Wallets, NEW t \in window'[w]
               PROVE  \E f \in added' : Wal(f) = w /\ Time(f) = t
    BY <1>2 DEF WindowIsAdded
  <2>1. CASE t \in window[w]
    BY <1>3, <2>1 DEF BurstInv, WindowIsAdded
  <2>2. CASE t \notin window[w]
    BY <1>1, <1>3, <2>2
  <2> QED BY <2>1, <2>2
<1>6. AddedIsKept'
  <2> SUFFICES ASSUME NEW f \in added', Wal(f) \notin blind
               PROVE  \/ Time(f) \in window'[Wal(f)]
                      \/ \E g \in added' : Wal(g) = Wal(f) /\ Time(f) <= Time(g) - Window
    BY <1>2, <1>3 DEF AddedIsKept
  <2>1. CASE f = e0
    BY <1>1, <1>3, <2>1
  <2>2. CASE f \in added
    <3>1. window[Wal(f)] \subseteq window'[Wal(f)]
      BY <1>3, <1>t
    <3> QED BY <1>3, <2>2, <3>1 DEF BurstInv, AddedIsKept
  <2> QED BY <1>3, <2>1, <2>2
<1>7. AddedFirst'
  <2>1. \A e \in added' : IsWithdrawal(e)'
    BY <1>1, <1>2, <1>3 DEF BurstInv, AddedFirst
  <2>2. \A e \in done' : IsWithdrawal(e)' => e \in added'
    BY <1>2, <1>3 DEF BurstInv, AddedFirst
  <2>3. \A g \in Handlers : pc'[g] \in PastAdd => EventOf(g)' \in added'
    BY <1>2, <1>3 DEF BurstInv, AddedFirst, e0
  <2> QED BY <2>1, <2>2, <2>3 DEF AddedFirst
<1>8. LateIsOvertaken'
  <2> SUFFICES ASSUME NEW g \in Handlers, pc'[g] \in {"prune", "count"}, IsLate(g)'
               PROVE  EventOf(g) \in overtaken'
    BY <1>2 DEF LateIsOvertaken
  <2>1. PICK f \in added' : Wal(f) = WalletOf(g) /\ Time(f) > TimeOf(g)
    BY <1>m
  <2>2. CASE g = h
    <3>1. f # e0
      BY <1>1, <2>1, <2>2 DEF t0
    <3>2. IsLate(h)
      BY <1>3, <1>l, <2>1, <2>2, <3>1
    <3> QED BY <1>3, <2>2, <3>2 DEF e0
  <2>3. CASE g # h
    <3>1. pc[g] \in {"prune", "count"}
      BY <1>2, <2>3
    <3>2. CASE f \in added
      BY <1>3, <1>l, <2>1, <3>1, <3>2 DEF BurstInv, LateIsOvertaken
    <3>3. CASE f = e0
      <4>1. WalletOf(g) = WalletOf(h) /\ TimeOf(g) < TimeOf(h)
        <5>1. TimeOf(g) \in Int
          BY <3>1, ExaminedType DEF Examining
        <5>2. WalletOf(g) = w0 /\ t0 > TimeOf(g)
          BY <1>1, <2>1, <3>3
        <5> QED BY <1>1, <5>1, <5>2 DEF w0, t0
      <4>2. g \in Earlier(h)
        BY <3>1, <4>1 DEF Earlier
      <4> QED BY <1>3, <4>2
    <3> QED BY <1>3, <3>2, <3>3
  <2> QED BY <2>2, <2>3
<1>9. \A w : Calm(w)' => Calm(w)
  BY <1>2, <1>3 DEF Calm
<1>10. CountedIsPruned'
  <2> SUFFICES ASSUME NEW g \in Handlers, pc'[g] = "count", Calm(WalletOf(g))',
                      NEW t \in window'[WalletOf(g)]
               PROVE  t > TimeOf(g) - Window
    BY <1>2 DEF CountedIsPruned, Calm
  <2>1. g # h /\ pc[g] = "count"
    BY <1>2
  <2>2. /\ WalletOf(g) \in Wallets /\ TimeOf(g) \in Int /\ TimeOf(g) = Time(EventOf(g))
        /\ WalletOf(g) = Wal(EventOf(g)) /\ EventOf(g) \in added
    BY <2>1, ExaminedType DEF Examining, BurstInv, AddedFirst, PastAdd
  <2>3. CASE t \in window[WalletOf(g)]
    <3>1. Calm(WalletOf(g))
      BY <1>2, <1>3 DEF Calm
    <3> QED BY <2>1, <2>3, <3>1 DEF BurstInv, CountedIsPruned
  <2>4. CASE t \notin window[WalletOf(g)]
    <3>1. WalletOf(g) = w0 /\ t = t0
      BY <1>3, <2>2, <2>4
    <3>2. ~IsLate(h)
      BY <1>1, <1>2, <1>3, <3>1 DEF Calm
    <3>3. ~(TimeOf(g) > t0)
      BY <1>l, <2>2, <3>1, <3>2 DEF w0, t0
    <3> QED BY <1>1, <2>2, <3>1, <3>3, FraudAssumption
  <2> QED BY <2>3, <2>4
<1>11. PassedIsAlerted'
  <2> SUFFICES ASSUME NEW e \in added', e \notin overtaken', Passed(e)', Wal(e) \notin blind,
                      Cardinality(Burst(e)') > MaxWithdrawals
               PROVE  RapidAlert(e)
    BY <1>2, <1>3 DEF PassedIsAlerted, RapidAlert
  <2>1. Passed(e)
    BY <1>2, <1>3 DEF Passed
  <2>2. e \in added /\ e \notin overtaken
    <3>1. IsWithdrawal(e)
      BY <1>1, <1>3 DEF BurstInv, AddedFirst
    <3> QED BY <1>3, <2>1, <3>1 DEF BurstInv, AddedFirst, Passed, PastAdd
  <2>3. Burst(e)' \subseteq Burst(e)
    <3> SUFFICES ASSUME NEW f \in added', f \notin overtaken', Wal(f) = Wal(e),
                        Time(f) > Time(e) - Window, Time(f) <= Time(e)
                 PROVE  Time(f) \in Burst(e)
      BY <1>2 DEF Burst, Wal, Time
    <3>1. CASE f \in added
      BY <1>3, <3>1 DEF Burst, Wal, Time
    <3>2. CASE f = e0
      <4>1. ~(Time(e) > Time(f))
        BY <1>1, <1>3, <1>l, <2>2, <3>2 DEF w0, t0
      <4>2. Time(f) = Time(e) /\ Time(e) > Time(e) - Window
        BY <1>t, <4>1, FraudAssumption
      <4>3. Time(e) \in Burst(e)
        BY <1>t, <2>2, <4>2 DEF Burst, Wal, Time
      <4> QED BY <4>2, <4>3
    <3> QED BY <1>3, <3>1, <3>2
  <2>4. Cardinality(Burst(e)) > MaxWithdrawals
    BY <2>3, BurstFinite, MoreThan
  <2> QED BY <2>1, <2>2, <2>4 DEF BurstInv, PassedIsAlerted
<1>12. AlarmIsBurst'
  <2> SUFFICES ASSUME NEW e \in Events, RapidAlert(e)', Calm(Wal(e))'
               PROVE  Cardinality(Burst(e)') > MaxWithdrawals
    BY DEF AlarmIsBurst, Calm, Wal
  <2>1. RapidAlert(e) /\ Calm(Wal(e))
    BY <1>2, <1>3, <1>9 DEF RapidAlert
  <2>2. Cardinality(Burst(e)) > MaxWithdrawals
    BY <2>1 DEF BurstInv, AlarmIsBurst, Calm, Wal
  <2>3. \A f \in added : Wal(f) = Wal(e) => f \in added' /\ f \notin overtaken'
    BY <1>2, <1>3 DEF Calm
  <2>4. Burst(e) \subseteq Burst(e)'
    BY <1>3, <2>3 DEF Burst, Wal
  <2> QED BY <1>4, <2>2, <2>4, BurstFiniteNext, MoreThan
<1> QED BY <1>4, <1>5, <1>6, <1>7, <1>8, <1>10, <1>11, <1>12 DEF BurstInv

(* ZREMRANGEBYSCORE takes out what lies a window behind an added event. *)
LEMMA BurstPrune ==
  ASSUME TypeOK, BurstInv, NEW h \in Handlers, Prune(h)
  PROVE  BurstInv'
<1> DEFINE w0 == WalletOf(h)
<1>1. /\ pc[h] = "prune" /\ w0 \in Wallets /\ TimeOf(h) \in Int
      /\ w0 = Wal(EventOf(h)) /\ TimeOf(h) = Time(EventOf(h)) /\ EventOf(h) \in added
  BY ExaminedType DEF Prune, Examining, BurstInv, AddedFirst, PastAdd
<1>2. /\ pc'[h] = "count" /\ \A g \in Handlers \ {h} : pc'[g] = pc[g]
      /\ \A g \in Handlers : /\ EventOf(g)' = EventOf(g) /\ WalletOf(g)' = WalletOf(g)
                             /\ TimeOf(g)' = TimeOf(g)
      /\ \A e : /\ Wal(e)' = Wal(e) /\ Time(e)' = Time(e)
                /\ IsWithdrawal(e)' <=> IsWithdrawal(e)
  BY MovesOn DEF Prune, queueVars
<1>3. /\ window'[w0] = {t \in window[w0] : t > TimeOf(h) - Window}
      /\ \A w \in Wallets \ {w0} : window'[w] = window[w]
      /\ UNCHANGED <<payload, added, overtaken, done, blind, alerts>>
  BY <1>1 DEF Prune, Recent, TypeOK, queueVars, keyVars, alertVars
<1>4. /\ \A e : Burst(e)' = Burst(e) /\ (RapidAlert(e)' <=> RapidAlert(e))
      /\ \A g \in Handlers : IsLate(g)' <=> IsLate(g)
      /\ \A w : Calm(w)' <=> Calm(w)
  BY <1>2, <1>3 DEF Burst, RapidAlert, IsLate, Calm
<1> HIDE DEF w0
<1>5. \A w \in Wallets : window'[w] \subseteq window[w]
  BY <1>3
<1>6. IsFiniteSet(added)' /\ WindowIsAdded'
  BY <1>2, <1>3, <1>5 DEF BurstInv, WindowIsAdded
<1>7. AddedIsKept'
  <2> SUFFICES ASSUME NEW f \in added, Wal(f) \notin blind
               PROVE  \/ Time(f) \in window'[Wal(f)]
                      \/ \E g \in added : Wal(g) = Wal(f) /\ Time(f) <= Time(g) - Window
    BY <1>2, <1>3 DEF AddedIsKept
  <2>1. Wal(f) \in Wallets /\ Time(f) \in Int
    BY PayloadType DEF Wal, Time, TypeOK
  <2>2. CASE Time(f) \in window[Wal(f)] /\ Time(f) \notin window'[Wal(f)]
    <3>1. Wal(f) = w0 /\ ~(Time(f) > TimeOf(h) - Window)
      BY <1>3, <2>1, <2>2
    <3>2. Time(f) <= Time(EventOf(h)) - Window
      BY <1>1, <2>1, <3>1, FraudAssumption
    <3> QED BY <1>1, <3>1, <3>2
  <2> QED BY <2>2 DEF BurstInv, AddedIsKept
<1>8. AddedFirst'
  BY <1>1, <1>2, <1>3 DEF BurstInv, AddedFirst, PastAdd
<1>9. LateIsOvertaken'
  BY <1>1, <1>2, <1>3, <1>4 DEF BurstInv, LateIsOvertaken
<1>10. CountedIsPruned'
  <2> SUFFICES ASSUME NEW g \in Handlers, pc'[g] = "count", Calm(WalletOf(g)),
                      NEW t \in window'[WalletOf(g)]
               PROVE  t > TimeOf(g) - Window
    BY <1>2, <1>3 DEF CountedIsPruned, Calm
  <2>1. CASE g = h
    BY <1>3, <2>1 DEF w0
  <2>2. CASE g # h
    <3>1. pc[g] = "count" /\ WalletOf(g) \in Wallets
      BY <1>2, <2>2, ExaminedType DEF Examining
    <3> QED BY <1>5, <3>1 DEF BurstInv, CountedIsPruned
  <2> QED BY <2>1, <2>2
<1>11. PassedIsAlerted'
  <2>1. \A e : Passed(e)' => Passed(e)
    BY <1>2, <1>3 DEF Passed
  <2> QED BY <1>2, <1>3, <1>4, <2>1 DEF BurstInv, PassedIsAlerted
<1>12. AlarmIsBurst'
  BY <1>3, <1>4 DEF BurstInv, AlarmIsBurst
<1> QED BY <1>6, <1>7, <1>8, <1>9, <1>10, <1>11, <1>12 DEF BurstInv

(* The count sees the burst that ends with the event, and if no event of   *)
(* the wallet was overtaken it sees nothing else.                          *)
LEMMA CountSeesBurst ==
  ASSUME TypeOK, BurstInv, NEW h \in Handlers, pc[h] = "count"
  PROVE  /\ EventOf(h) \notin overtaken /\ WalletOf(h) \notin blind
              => Burst(EventOf(h)) \subseteq window[WalletOf(h)]
         /\ Calm(WalletOf(h)) => window[WalletOf(h)] \subseteq Burst(EventOf(h))
<1> DEFINE e0 == EventOf(h)
           w0 == WalletOf(h)
<1>1. /\ w0 \in Wallets /\ w0 = Wal(e0) /\ e0 \in added
      /\ TimeOf(h) = Time(e0) /\ Time(e0) \in Int
  BY ExaminedType DEF Examining, BurstInv, AddedFirst, PastAdd
<1>2. ASSUME e0 \notin overtaken, NEW f \in added, Wal(f) = w0
      PROVE  Time(f) <= Time(e0) /\ Time(f) \in Int
  <2>1. ~IsLate(h)
    BY <1>2 DEF BurstInv, LateIsOvertaken
  <2>2. ~(Time(f) > Time(e0))
    BY <1>1, <1>2, <2>1 DEF IsLate, Wal, Time
  <2>3. Time(f) \in Int
    BY PayloadType DEF Time, TypeOK
  <2> QED BY <1>1, <2>2, <2>3
<1>3. ASSUME e0 \notin overtaken, w0 \notin blind
      PROVE  Burst(e0) \subseteq window[w0]
  <2> SUFFICES ASSUME NEW f \in added, Wal(f) = w0, Time(f) > Time(e0) - Window
               PROVE  Time(f) \in window[w0]
    BY <1>1 DEF Burst, Wal, Time
  <2>1. ASSUME NEW g \in added, Wal(g) = w0, Time(f) <= Time(g) - Window
        PROVE  FALSE
    BY <1>1, <1>2, <1>3, <2>1, FraudAssumption
  <2> QED BY <1>3, <2>1 DEF BurstInv, AddedIsKept
<1>4. ASSUME Calm(w0)
      PROVE  window[w0] \subseteq Burst(e0)
  <2> SUFFICES ASSUME NEW t \in window[w0]
               PROVE  t \in Burst(e0)
    OBVIOUS
  <2>1. PICK f \in added : Wal(f) = w0 /\ Time(f) = t
    BY <1>1 DEF BurstInv, WindowIsAdded
  <2>2. e0 \notin overtaken /\ f \notin overtaken
    BY <1>1, <1>4, <2>1 DEF Calm
  <2>3. t > Time(e0) - Window
    BY <1>1, <1>4 DEF BurstInv, CountedIsPruned
  <2>4. Time(f) <= Time(e0)
    BY <1>2, <2>1, <2>2
  <2> QED BY <1>1, <2>1, <2>2, <2>3, <2>4 DEF Burst, Wal, Time
<1> QED BY <1>3, <1>4

(* ZCARD and the alert. *)
LEMMA BurstZCard ==
  ASSUME TypeOK, BurstInv, NEW h \in Handlers, NEW saved \in BOOLEAN, ZCard(h, saved)
  PROVE  BurstInv'
<1> DEFINE e0 == EventOf(h)
           w0 == WalletOf(h)
           raised == Cardinality(window[w0]) > MaxWithdrawals
<1>1. pc[h] = "count" /\ w0 \in Wallets /\ w0 = Wal(e0) /\ e0 \in added /\ e0 \in Events
  BY ExaminedType DEF ZCard, Examining, BurstInv, AddedFirst, PastAdd
<1>2. /\ pc'[h] = "high" /\ \A g \in Handlers \ {h} : pc'[g] = pc[g]
      /\ \A g \in Handlers : /\ EventOf(g)' = EventOf(g) /\ WalletOf(g)' = WalletOf(g)
                             /\ TimeOf(g)' = TimeOf(g)
      /\ \A e : /\ Wal(e)' = Wal(e) /\ Time(e)' = Time(e)
                /\ IsWithdrawal(e)' <=> IsWithdrawal(e)
  BY MovesOn DEF ZCard, queueVars
<1>3. /\ UNCHANGED <<payload, window, added, overtaken, done>>
      /\ blind \subseteq blind'
      /\ alerts \subseteq alerts'
      /\ \A a \in alerts' \ alerts : raised /\ a = <<e0, "rapid_withdrawals">>
      /\ raised => <<e0, "rapid_withdrawals">> \in alerts' \/ w0 \in blind'
  BY DEF ZCard, SaveFraudAlert, queueVars, keyVars, windowVars
<1> HIDE DEF e0, w0, raised
<1>4. /\ \A e : Burst(e)' = Burst(e)
      /\ \A g \in Handlers : IsLate(g)' <=> IsLate(g)
      /\ \A w : Calm(w)' <=> Calm(w)
  BY <1>2, <1>3 DEF Burst, IsLate, Calm
<1>5. IsFiniteSet(added)' /\ WindowIsAdded' /\ AddedIsKept'
  BY <1>2, <1>3 DEF BurstInv, WindowIsAdded, AddedIsKept
<1>6. AddedFirst'
  BY <1>1, <1>2, <1>3 DEF BurstInv, AddedFirst, PastAdd, e0
<1>7. LateIsOvertaken'
  BY <1>1, <1>2, <1>3, <1>4 DEF BurstInv, LateIsOvertaken
<1>8. CountedIsPruned'
  <2> SUFFICES ASSUME NEW g \in Handlers, pc'[g] = "count", Calm(WalletOf(g)),
                      NEW t \in window[WalletOf(g)]
               PROVE  t > TimeOf(g) - Window
    BY <1>2, <1>3 DEF CountedIsPruned, Calm
  <2> QED BY <1>2 DEF BurstInv, CountedIsPruned
<1>9. PassedIsAlerted'
  <2> SUFFICES ASSUME NEW e \in added, e \notin overtaken, Passed(e)', Wal(e) \notin blind',
                      Cardinality(Burst(e)) > MaxWithdrawals
               PROVE  RapidAlert(e)'
    BY <1>2, <1>3, <1>4 DEF PassedIsAlerted
  <2>1. Passed(e) \/ e = e0
    BY <1>2, <1>3 DEF Passed, e0
  <2>2. CASE Passed(e)
    BY <1>3, <2>2 DEF BurstInv, PassedIsAlerted, RapidAlert
  <2>3. CASE e = e0
    <3>1. Burst(e0) \subseteq window[w0]
      BY <1>1, <1>3, <2>3, CountSeesBurst DEF e0, w0
    <3>2. raised
      BY <1>1, <2>3, <3>1, BurstFinite, MoreThan DEF raised
    <3> QED BY <1>1, <1>3, <2>3, <3>2 DEF RapidAlert
  <2> QED BY <2>1, <2>2, <2>3
<1>10. AlarmIsBurst'
  <2> SUFFICES ASSUME NEW e \in Events, RapidAlert(e)', Calm(Wal(e))
               PROVE  Cardinality(Burst(e)) > MaxWithdrawals
    BY <1>3, <1>4 DEF AlarmIsBurst, Calm, Wal
  <2>1. CASE RapidAlert(e)
    BY <2>1 DEF BurstInv, AlarmIsBurst, Calm, Wal
  <2>2. CASE ~RapidAlert(e)
    <3>1. raised /\ e = e0
      BY <1>3, <2>2 DEF RapidAlert
    <3>2. window[w0] \subseteq Burst(e0)
      BY <1>1, <3>1, CountSeesBurst DEF e0, w0
    <3> QED BY <3>1, <3>2, BurstFinite, MoreThan DEF raised
  <2> QED BY <2>1, <2>2
<1> QED BY <1>5, <1>6, <1>7, <1>8, <1>9, <1>10 DEF BurstInv

(* A handler that returns adds and counts nothing. *)
LEMMA ReturnIsStill ==
  ASSUME TypeOK, NEW h \in Handlers, Return(h),
         UNCHANGED <<payload, windowVars, blind, alerts, done>>
  PROVE  StillStep
BY ReturnType DEF StillStep, windowVars, RapidAlert, PastAdd

(* Every step keeps the invariant. *)
LEMMA BurstNext ==
  ASSUME TypeOK, BurstInv, [Next]_vars
  PROVE  BurstInv'
<1> USE DEF queueVars, handlerVars, keyVars, windowVars, alertVars
<1>1. ASSUME NEW h \in Handlers, NEW saved \in BOOLEAN, DetectHighValueTransaction(h, saved)
      PROVE  StillStep
  <2>1. /\ pc[h] = "high" /\ pc'[h] = "ack" /\ \A g \in Handlers \ {h} : pc'[g] = pc[g]
        /\ done' = done \cup {EventOf(h)} /\ EventOf(h) \in added
        /\ UNCHANGED <<payload, held, windowVars>>
    BY <1>1 DEF DetectHighValueTransaction, Goto, TypeOK, BurstInv, AddedFirst, PastAdd
  <2>2. blind \subseteq blind' /\ \A e : RapidAlert(e)' <=> RapidAlert(e)
    BY <1>1 DEF DetectHighValueTransaction, SaveFraudAlert, RapidAlert
  <2> QED BY <2>1, <2>2 DEF StillStep, Passed, PastAdd
<1>2. ASSUME NEW h \in Handlers, Step(h) PROVE BurstInv'
  <2>1. ASSUME NEW m \in Messages, HandleMessage(h, m) PROVE StillStep
    BY <2>1 DEF HandleMessage, Goto, StillStep, PastAdd, TypeOK, RapidAlert
  <2>2. CASE AcquireLock(h)
    BY <2>2, StillKeepsBursts DEF AcquireLock, Goto, StillStep, PastAdd, TypeOK, RapidAlert
  <2>3. CASE SkipChecks(h)
    <3>1. EventOf(h) \notin added /\ ~IsWithdrawal(EventOf(h))
      BY <2>3 DEF SkipChecks, BurstInv, AddedFirst
    <3>2. StillStep
      BY <2>3, <3>1 DEF SkipChecks, Goto, StillStep, PastAdd, TypeOK, RapidAlert
    <3> QED BY <3>2, StillKeepsBursts
  <2>4. CASE Ack(h)
    BY <2>4, ReturnIsStill, StillKeepsBursts DEF Ack
  <2> QED BY <1>1, <1>2, <2>1, <2>2, <2>3, <2>4, StillKeepsBursts, BurstZAdd, BurstPrune, BurstZCard
       DEF Step
<1>3. ASSUME NEW h \in Handlers, Failure(h) PROVE BurstInv'
  <2>1. ASSUME NEW acked \in BOOLEAN, Fail(h, acked) PROVE StillStep
    BY <2>1, ReturnIsStill DEF Fail, HandleProcessingError
  <2>2. CASE Crash(h)
    BY <2>2, ReturnIsStill, StillKeepsBursts DEF Crash
  <2>3. CASE Disconnect(h)
    BY <2>3, StillKeepsBursts DEF Disconnect, StillStep, RapidAlert
  <2> QED BY <1>1, <1>3, <2>1, <2>2, <2>3, StillKeepsBursts, BurstZCard DEF Failure
<1>4. ASSUME \/ \E e \in Events : Publish(e)
             \/ \E m \in Messages : DeadLetter(m)
             \/ \E k \in keys : ExpireKey(k)
             \/ \E w \in Wallets : ExpireWindow(w)
             \/ UNCHANGED vars
      PROVE  StillStep
  <2>1. CASE \E e \in Events : Publish(e)
    BY <2>1 DEF Publish, StillStep, RapidAlert
  <2>2. CASE \E m \in Messages : DeadLetter(m)
    BY <2>2 DEF DeadLetter, StillStep, RapidAlert
  <2>3. CASE \E k \in keys : ExpireKey(k)
    BY <2>3 DEF ExpireKey, StillStep, RapidAlert
  <2>4. CASE \E w \in Wallets : ExpireWindow(w)
    BY <2>4 DEF ExpireWindow, StillStep, RapidAlert, TypeOK
  <2>5. CASE UNCHANGED vars
    BY <2>5 DEF vars, StillStep, RapidAlert
  <2> QED BY <1>4, <2>1, <2>2, <2>3, <2>4, <2>5
<1> QED BY <1>2, <1>3, <1>4, StillKeepsBursts DEF Next

(* At first nothing has been added. *)
LEMMA BurstInit ==
  ASSUME Init
  PROVE  BurstInv
<1>1. IsFiniteSet(added)
  BY FS_EmptySet DEF Init
<1> QED BY <1>1 DEF Init, BurstInv, WindowIsAdded, AddedIsKept, AddedFirst, LateIsOvertaken,
                    CountedIsPruned, PassedIsAlerted, AlarmIsBurst, PastAdd, RapidAlert

(* BurstInv holds in every state of the consumer. *)
LEMMA BurstInvariant == Spec => []BurstInv
<1>1. Init => BurstInv
  BY BurstInit
<1>2. TypeOK /\ BurstInv /\ [Next]_vars => BurstInv'
  BY BurstNext
<1> QED BY <1>1, <1>2, TypeCorrect, PTL DEF Spec

(* Too many withdrawals within the window are noticed, for any limits, any *)
(* number of handlers and any interleaving of their Redis commands: unless *)
(* its events were overtaken, the sorted set expired or the alert was not  *)
(* saved, the last event of a burst has raised the alert.                  *)
THEOREM BurstsAreAlerted == Spec => []BurstIsAlerted
<1>1. BurstInv => BurstIsAlerted
  BY DEF BurstInv, PassedIsAlerted, BurstIsAlerted, Passed, Wal
<1> QED BY <1>1, BurstInvariant, PTL

(* And the alert is no false alarm in a wallet no event of which was       *)
(* overtaken.                                                              *)
THEOREM AlarmsAreBursts == Spec => []AlarmIsBurst
<1>1. BurstInv => AlarmIsBurst
  BY DEF BurstInv
<1> QED BY <1>1, BurstInvariant, PTL
=============================================================================
