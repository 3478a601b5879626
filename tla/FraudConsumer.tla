--------------------------- MODULE FraudConsumer ---------------------------
(***************************************************************************)
(* The fraud consumer: FraudDetectionConsumer, which runs in the worker    *)
(* and in every API instance and shares one queue of RabbitMQ, one Redis   *)
(* and the table fraud_alerts.  A handler is a run of handleMessage; with  *)
(* prefetch(1) a process has one at a time, and one more for each          *)
(* connection that broke while a handler was awaiting something.           *)
(*                                                                         *)
(* A queue is a number of copies for each message.  Which message is       *)
(* delivered next is left open: the relay publishes in any order, several  *)
(* processes consume, and messages come back through the wait queues.      *)
(***************************************************************************)
EXTENDS Integers, FiniteSets

CONSTANTS
  Events,          \* the wallet events that reach the queue
  Wallets,         \* the wallets they are about
  Payloads,        \* what the events may say
  Handlers,        \* runs of handleMessage
  None,            \* no message
  MaxAttempts,     \* RETRY.MAX_ATTEMPTS
  MaxWithdrawals,  \* fraudDetectionMaxWithdrawals
  Window,          \* fraudDetectionTimeWindowMinutes
  Threshold,       \* fraudDetectionThreshold
  MaxSends,        \* bound on how often the relay publishes one event
  MaxFaults        \* bound on errors, crashes, lost connections and expired keys

(* Routing keys bound to the queue, and content that is no JSON. *)
EventTypes == {"FUNDS_WITHDRAWN", "TRANSFER_COMPLETED", "unparsable"}

WalletEventPayload ==
  [walletId : Wallets, eventType : EventTypes, timestamp : Int, amount : Nat]

ASSUME FraudAssumption ==
  /\ \A p \in Payloads : p \in [Events -> WalletEventPayload]
  /\ MaxAttempts \in Nat /\ MaxWithdrawals \in Nat /\ Threshold \in Nat
  /\ Window \in Nat \ {0}
  /\ MaxSends \in Nat /\ MaxFaults \in Nat

(* A message and its header x-retry-count. *)
Messages == [event : Events, retries : 0 .. MaxAttempts]

ASSUME NoneAssumption == None \notin Messages

VARIABLES
  payload,    \* what the events say
  sends,      \* how often the relay has published an event
  ready,      \* copies of a message in the queue
  waiting,    \* copies of a message in the wait queues
  dead,       \* events in the dead letter queue
  pc,         \* where a handler is
  held,       \* the message of a handler
  live,       \* its channel is open: the broker waits for its ack
  keys,       \* the keys processed_event:* in Redis
  window,     \* the sorted set withdrawals:* of a wallet
  alerts,     \* alerts in fraud_alerts: the event and the type
  realerted,  \* those that are there more than once
  faults,     \* errors, crashes, lost connections and expired keys so far
  done,       \* events examined to the end
  cut,        \* events whose handler set the key and did not get to the end
  expired,    \* keys whose 24 hours have passed
  added,      \* events put into the sorted set of their wallet
  overtaken,  \* events counted after a later one of the wallet was added
  blind       \* wallets whose sorted set expired or whose alert was not saved

queueVars == <<payload, sends, ready, waiting, dead>>
handlerVars == <<pc, held, live>>
keyVars == <<keys, done, cut, expired>>
windowVars == <<window, added, overtaken>>
alertVars == <<alerts, realerted, blind>>
vars == <<queueVars, handlerVars, keyVars, windowVars, alertVars, faults>>

(* A slip: the timestamp is left out of the hash. *)
KeyWithoutTime(e) == <<payload[e].walletId, payload[e].eventType, payload[e].amount>>

(* The hash of what the payload says.  The events carry no id: two of one  *)
(* wallet, type, amount and millisecond have the same key.                 *)
GenerateIdempotencyKey(e) ==
  <<payload[e].walletId, payload[e].eventType, payload[e].timestamp, payload[e].amount>>

Init ==
  /\ payload \in Payloads
  /\ sends = [e \in Events |-> 0]
  /\ ready = [m \in Messages |-> 0]
  /\ waiting = [m \in Messages |-> 0]
  /\ dead = {}
  /\ pc = [h \in Handlers |-> "idle"]
  /\ held = [h \in Handlers |-> None]
  /\ live = [h \in Handlers |-> TRUE]
  /\ keys = {} /\ done = {} /\ cut = {} /\ expired = {}
  /\ window = [w \in Wallets |-> {}]
  /\ added = {} /\ overtaken = {}
  /\ alerts = {} /\ realerted = {} /\ blind = {}
  /\ faults = 0

-----------------------------------------------------------------------------
Fault == faults < MaxFaults /\ faults' = faults + 1

Goto(h, label) == pc' = [pc EXCEPT ![h] = label]

EventOf(h) == held[h].event

KeyOf(h) == GenerateIdempotencyKey(EventOf(h))

WalletOf(h) == payload[EventOf(h)].walletId

TimeOf(h) == payload[EventOf(h)].timestamp

IsParsable(e) == payload[e].eventType # "unparsable"

IsWithdrawal(e) == payload[e].eventType = "FUNDS_WITHDRAWN"

(* A queue takes any message. *)
Put(queue, m) ==
  [n \in DOMAIN queue \cup {m} |->
     (IF n \in DOMAIN queue THEN queue[n] ELSE 0) + (IF n = m THEN 1 ELSE 0)]

Drop(queue, m) == [queue EXCEPT ![m] = @ - 1]

(* handleMessage returns. *)
Return(h) ==
  /\ Goto(h, "idle")
  /\ held' = [held EXCEPT ![h] = None]
  /\ live' = [live EXCEPT ![h] = TRUE]

-----------------------------------------------------------------------------
(* The relay publishes an event, perhaps not for the first time. *)
Publish(e) ==
  /\ sends[e] < MaxSends
  /\ sends' = [sends EXCEPT ![e] = @ + 1]
  /\ ready' = Put(ready, [event |-> e, retries |-> 0])
  /\ UNCHANGED <<payload, waiting, dead, handlerVars, keyVars, windowVars, alertVars, faults>>

(* A delivery.  Content that is no JSON is nacked and goes to the dead     *)
(* letter queue at once.                                                   *)
HandleMessage(h, m) ==
  /\ pc[h] = "idle"
  /\ ready[m] > 0
  /\ ready' = Drop(ready, m)
  /\ \/ /\ ~IsParsable(m.event)
        /\ dead' = dead \cup {m.event}
        /\ UNCHANGED handlerVars
     \/ /\ IsParsable(m.event)
        /\ Goto(h, "lock")
        /\ held' = [held EXCEPT ![h] = m]
        /\ UNCHANGED <<dead, live>>
  /\ UNCHANGED <<payload, sends, waiting, keyVars, windowVars, alertVars, faults>>

(* A slip: the answer of SET NX is not looked at. *)
NewAnyway(h) == TRUE

(* SET NX answers OK. *)
IsNew(h) == KeyOf(h) \notin keys

(* SET NX EX 24h.  If the key is there, the message is acked. *)
AcquireLock(h) ==
  /\ pc[h] = "lock"
  /\ keys' = keys \cup {KeyOf(h)}
  /\ Goto(h, IF IsNew(h) THEN "check" ELSE "ack")
  /\ UNCHANGED <<queueVars, held, live, done, cut, expired, windowVars, alertVars, faults>>

(* processFraudChecks of a transfer: there is nothing to examine. *)
SkipChecks(h) ==
  /\ pc[h] = "check"
  /\ ~IsWithdrawal(EventOf(h))
  /\ Goto(h, "ack")
  /\ done' = done \cup {EventOf(h)}
  /\ UNCHANGED <<queueVars, held, live, keys, cut, expired, windowVars, alertVars, faults>>

(* Handlers about to count an earlier event of the wallet of h. *)
Earlier(h) ==
  {g \in Handlers : /\ pc[g] \in {"prune", "count"}
                    /\ WalletOf(g) = WalletOf(h) /\ TimeOf(g) < TimeOf(h)}

(* A later event of the wallet of h is in the sorted set, or was. *)
IsLate(h) ==
  \E f \in added : payload[f].walletId = WalletOf(h) /\ payload[f].timestamp > TimeOf(h)

(* ZADD: score and member are the timestamp, so the sorted set is a set. *)
ZAdd(h) ==
  /\ pc[h] = "check"
  /\ IsWithdrawal(EventOf(h))
  /\ window' = [window EXCEPT ![WalletOf(h)] = @ \cup {TimeOf(h)}]
  /\ added' = added \cup {EventOf(h)}
  /\ overtaken' = overtaken \cup {EventOf(g) : g \in Earlier(h)}
                            \cup (IF IsLate(h) THEN {EventOf(h)} ELSE {})
  /\ Goto(h, "prune")
  /\ UNCHANGED <<queueVars, held, live, keyVars, alertVars, faults>>

(* A slip: everything before the event is removed. *)
RecentOfNow(h) == {t \in window[WalletOf(h)] : t >= TimeOf(h)}

(* A slip: nothing is removed. *)
RecentOfAll(h) == window[WalletOf(h)]

(* ZREMRANGEBYSCORE -inf cutoff leaves what is younger than the window. *)
Recent(h) == {t \in window[WalletOf(h)] : t > TimeOf(h) - Window}

(* ZREMRANGEBYSCORE, and EXPIRE, which starts the set's time to live. *)
Prune(h) ==
  /\ pc[h] = "prune"
  /\ window' = [window EXCEPT ![WalletOf(h)] = Recent(h)]
  /\ Goto(h, "count")
  /\ UNCHANGED <<queueVars, held, live, keyVars, added, overtaken, alertVars, faults>>

(* An alert, if one is raised.  An error of saveFraudAlert is logged and   *)
(* goes no further.                                                        *)
SaveFraudAlert(h, type, raised, saved) ==
  LET new == IF raised /\ saved THEN {<<EventOf(h), type>>} ELSE {} IN
  /\ alerts' = alerts \cup new
  /\ realerted' = realerted \cup (new \cap alerts)
  /\ IF saved THEN UNCHANGED <<blind, faults>>
              ELSE raised /\ blind' = blind \cup {WalletOf(h)} /\ Fault

(* ZCARD and the alert of detectRapidWithdrawals. *)
ZCard(h, saved) ==
  /\ pc[h] = "count"
  /\ SaveFraudAlert(h, "rapid_withdrawals",
                    Cardinality(window[WalletOf(h)]) > MaxWithdrawals, saved)
  /\ Goto(h, "high")
  /\ UNCHANGED <<queueVars, held, live, keyVars, windowVars>>

DetectHighValueTransaction(h, saved) ==
  /\ pc[h] = "high"
  /\ SaveFraudAlert(h, "high_value_transaction", payload[EventOf(h)].amount > Threshold, saved)
  /\ Goto(h, "ack")
  /\ done' = done \cup {EventOf(h)}
  /\ UNCHANGED <<queueVars, held, live, keys, cut, expired, windowVars>>

(* The ack.  On a channel that is gone it throws and settles nothing; the  *)
(* error may end the process, which is the Crash of its next handler.      *)
Ack(h) ==
  /\ pc[h] = "ack"
  /\ Return(h)
  /\ UNCHANGED <<queueVars, keyVars, windowVars, alertVars, faults>>

-----------------------------------------------------------------------------
(* The labels of a handler that has set its key and not yet examined all. *)
Examining == {"check", "prune", "count", "high"}

CutShort(h) == cut' = IF pc[h] \in Examining THEN cut \cup {EventOf(h)} ELSE cut

(* A slip: the retry is not counted. *)
RetryUncounted(m) == m

(* A slip: one retry too many. *)
MayRetryOnceMore(m) == m.retries <= MaxAttempts

MayRetry(m) == m.retries < MaxAttempts

(* The copy for the wait queue. *)
Retry(m) == [m EXCEPT !.retries = @ + 1]

(* handleProcessingError.  The copy is sent before the message is acked:   *)
(* when the connection breaks in between, the broker has both.  Of the     *)
(* routing keys only supported ones are bound to the queue.                *)
HandleProcessingError(h, acked) ==
  LET m == held[h] IN
  /\ \/ ~live[h] /\ acked /\ UNCHANGED <<ready, waiting, dead>>
     \/ /\ live[h] /\ MayRetry(m)
        /\ waiting' = Put(waiting, Retry(m))
        /\ ready' = IF acked THEN ready ELSE Put(ready, m)
        /\ UNCHANGED dead
     \/ /\ live[h] /\ acked /\ ~MayRetry(m)
        /\ dead' = dead \cup {m.event}
        /\ UNCHANGED <<ready, waiting>>
  /\ Return(h)

(* A Redis command fails.  If it has done its work all the same, this is   *)
(* the error of the next one.  An error before the key is set needs no     *)
(* bound: the retries bound it.                                            *)
Fail(h, acked) ==
  /\ pc[h] \in {"lock", "check", "prune", "count"}
  /\ IF pc[h] = "lock" /\ acked THEN UNCHANGED faults ELSE Fault
  /\ CutShort(h)
  /\ HandleProcessingError(h, acked)
  /\ UNCHANGED <<payload, sends, keys, done, expired, windowVars, alertVars>>

(* The broker requeues what was not acked when its channel closes. *)
Requeue(h) == ready' = IF live[h] THEN Put(ready, held[h]) ELSE ready

(* The process dies. *)
Crash(h) ==
  /\ pc[h] # "idle"
  /\ Fault
  /\ Requeue(h)
  /\ CutShort(h)
  /\ Return(h)
  /\ UNCHANGED <<payload, sends, waiting, dead, keys, done, expired, windowVars, alertVars>>

(* The connection breaks; the handler goes on. *)
Disconnect(h) ==
  /\ pc[h] # "idle"
  /\ live[h]
  /\ Fault
  /\ Requeue(h)
  /\ live' = [live EXCEPT ![h] = FALSE]
  /\ UNCHANGED <<payload, sends, waiting, dead, pc, held, keyVars, windowVars, alertVars>>

(* The time to live of a wait queue ends: back to the exchange. *)
DeadLetter(m) ==
  /\ waiting[m] > 0
  /\ waiting' = Drop(waiting, m)
  /\ ready' = Put(ready, m)
  /\ UNCHANGED <<payload, sends, dead, handlerVars, keyVars, windowVars, alertVars, faults>>

(* The 24 hours of a key end. *)
ExpireKey(k) ==
  /\ Fault
  /\ keys' = keys \ {k}
  /\ expired' = expired \cup {k}
  /\ UNCHANGED <<queueVars, handlerVars, done, cut, windowVars, alertVars>>

(* Nothing was added to a sorted set for the length of the window. *)
ExpireWindow(w) ==
  /\ window[w] # {}
  /\ Fault
  /\ window' = [window EXCEPT ![w] = {}]
  /\ blind' = blind \cup {w}
  /\ UNCHANGED <<queueVars, handlerVars, keyVars, added, overtaken, alerts, realerted>>

-----------------------------------------------------------------------------
Step(h) ==
  \/ \E m \in Messages : HandleMessage(h, m)
  \/ AcquireLock(h)
  \/ SkipChecks(h)
  \/ ZAdd(h)
  \/ Prune(h)
  \/ ZCard(h, TRUE)
  \/ DetectHighValueTransaction(h, TRUE)
  \/ Ack(h)

Failure(h) ==
  \/ \E acked \in BOOLEAN : Fail(h, acked)
  \/ ZCard(h, FALSE)
  \/ DetectHighValueTransaction(h, FALSE)
  \/ Crash(h)
  \/ Disconnect(h)

Next ==
  \/ \E e \in Events : Publish(e)
  \/ \E h \in Handlers : Step(h) \/ Failure(h)
  \/ \E m \in Messages : DeadLetter(m)
  \/ \E k \in keys : ExpireKey(k)
  \/ \E w \in Wallets : ExpireWindow(w)

Spec == Init /\ [][Next]_vars

(* Handlers run, and the wait queues' time to live ends. *)
Fairness ==
  /\ \A h \in Handlers : WF_vars(Step(h))
  /\ WF_vars(\E m \in Messages : DeadLetter(m))

FairSpec == Spec /\ Fairness

-----------------------------------------------------------------------------
EventKeys == {GenerateIdempotencyKey(e) : e \in Events}

AlertTypes == {"rapid_withdrawals", "high_value_transaction"}

(* Every variable has its type: no message is in a queue or with a handler *)
(* after more retries than MAX_ATTEMPTS.                                   *)
TypeOK ==
  /\ payload \in Payloads
  /\ sends \in [Events -> 0 .. MaxSends]
  /\ ready \in [Messages -> Nat]
  /\ waiting \in [Messages -> Nat]
  /\ dead \subseteq Events
  /\ pc \in [Handlers -> Examining \cup {"idle", "lock", "ack"}]
  /\ held \in [Handlers -> Messages \cup {None}]
  /\ live \in [Handlers -> BOOLEAN]
  /\ \A h \in Handlers : pc[h] = "idle" <=> held[h] = None
  /\ keys \subseteq EventKeys /\ expired \subseteq EventKeys
  /\ done \subseteq Events /\ cut \subseteq Events
  /\ window \in [Wallets -> SUBSET {payload[e].timestamp : e \in Events}]
  /\ added \subseteq Events /\ overtaken \subseteq Events
  /\ alerts \subseteq Events \X AlertTypes
  /\ realerted \subseteq alerts
  /\ blind \subseteq Wallets
  /\ faults \in 0 .. MaxFaults

(* The broker still has a message of the event, in a queue or unacked. *)
InBroker(e) ==
  \/ \E m \in Messages : m.event = e /\ (ready[m] > 0 \/ waiting[m] > 0)
  \/ \E h \in Handlers : pc[h] # "idle" /\ EventOf(h) = e /\ live[h]

BeingExamined == {EventOf(h) : h \in {h \in Handlers : pc[h] \in Examining}}

(* The event itself, or one with the same payload. *)
Like(e) == {f \in Events : payload[f] = payload[e]}

(* An event raises no alert twice, however often it is published,          *)
(* redelivered or retried and however handlers overlap, as long as its key *)
(* has not expired.                                                        *)
AlertedOnce == \A a \in realerted : GenerateIdempotencyKey(a[1]) \in expired

(* No event gets lost on the way: the broker has it, or it is dead, or a   *)
(* handler has examined or is examining it, or has set its key and was cut *)
(* short.  An event of the same payload may stand for it.                  *)
EventsAccounted ==
  \A e \in Events : sends[e] > 0 =>
    InBroker(e) \/ e \in dead \/ Like(e) \cap (done \cup BeingExamined \cup cut) # {}

(* Timestamps within the window that ends with event e, of events of its   *)
(* wallet that no later one has overtaken.  Withdrawals of one millisecond *)
(* count once: the sorted set has the timestamp for a member.              *)
Burst(e) ==
  {payload[f].timestamp : f \in {f \in added \ overtaken :
     /\ payload[f].walletId = payload[e].walletId
     /\ payload[f].timestamp > payload[e].timestamp - Window
     /\ payload[f].timestamp <= payload[e].timestamp}}

RapidAlert(e) == <<e, "rapid_withdrawals">> \in alerts

(* Too many withdrawals within the window are noticed although handlers    *)
(* add, remove and count in separate commands and in any order: if the     *)
(* events of a burst were not overtaken by later ones of their wallet, the *)
(* last of them raises the alert.  This does not cover a wallet whose      *)
(* sorted set has ever expired or whose alert was ever not saved: what     *)
(* Redis or the table lost is not found again.                             *)
BurstIsAlerted ==
  \A e \in (added \cap done) \ overtaken :
    payload[e].walletId \notin blind /\ Cardinality(Burst(e)) > MaxWithdrawals => RapidAlert(e)

(* An alert is no false alarm: as long as no event of the wallet has       *)
(* overtaken another, what raised it is a burst.                           *)
AlarmIsBurst ==
  \A e \in Events :
    /\ RapidAlert(e)
    /\ \A f \in overtaken : payload[f].walletId # payload[e].walletId
    => Cardinality(Burst(e)) > MaxWithdrawals

(* Every published event is examined in the end, or dead lettered after    *)
(* its retries, or its handler was cut short: no message goes round for    *)
(* ever between the queue and the wait queues.                             *)
EventuallyExamined ==
  <>[](\A e \in Events : sends[e] > 0 => e \in dead \/ Like(e) \cap (done \cup cut) # {})

(* At least once processing: an event the broker no longer has was         *)
(* examined, or it is dead or being examined.                              *)
AckedIsExamined ==
  \A e \in Events : sends[e] > 0 =>
    InBroker(e) \/ e \in dead \/ Like(e) \cap (done \cup BeingExamined) # {}
=============================================================================
