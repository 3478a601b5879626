---------------------------- MODULE OutboxRelay ----------------------------
(***************************************************************************)
(* The outbox relay: OutboxRelayService.handleCron, fired every 5 seconds  *)
(* in every API instance, and fired again while an earlier run of the same *)
(* instance is still awaiting something.  A run is a tick.  Ticks keep out *)
(* of each other's way by the flag isProcessing of their instance and by a *)
(* Redis key with a time to live, which holds no owner: SET NX takes it    *)
(* and an unconditional DEL gives it back.                                 *)
(*                                                                         *)
(* A row of outbox_events is a number, its rank by created_at.  That is    *)
(* the start of the transaction that inserts it, so rows need not become   *)
(* visible in this order.                                                  *)
(***************************************************************************)
EXTENDS Integers, FiniteSets

CONSTANTS
  Rows,         \* rows of outbox_events, ranked by created_at
  Ticks,        \* runs of handleCron
  Instances,    \* API processes
  InstanceOf,   \* the process of a tick
  Free,         \* the Redis key is not set
  Batch,        \* findUnpublished(100)
  ReadReplica,  \* configService.databaseReadHost is set
  MaxFaults     \* bound on errors and crashes

ASSUME RelayAssumption ==
  /\ Rows \subseteq Nat
  /\ InstanceOf \in [Ticks -> Instances]
  /\ Free \notin Ticks
  /\ Batch \in Nat \ {0}
  /\ ReadReplica \in BOOLEAN
  /\ MaxFaults \in Nat

VARIABLES
  table,         \* the state of a row: absent, unpublished or published
  replica,       \* what the read replica shows of the table
  sent,          \* rows whose message the broker has
  resent,        \* rows whose message it has more than once
  lock,          \* the tick that set lock:outbox-relay; nobody reads who
  isProcessing,  \* the flag of an instance
  pc,            \* where a tick is
  events,        \* rows a tick has fetched and not yet tried
  publishedIds,  \* rows a tick has published and not yet marked
  faults,        \* errors and crashes so far
  causes         \* what else has happened that may double a message

tickVars == <<pc, events, publishedIds>>
vars == <<table, replica, sent, resent, lock, isProcessing, tickVars, faults,
          causes>>

RowStates == {"absent", "unpublished", "published"}

Init ==
  /\ table = [r \in Rows |-> "absent"]
  /\ replica = table
  /\ sent = {}
  /\ resent = {}
  /\ lock = Free
  /\ isProcessing = [i \in Instances |-> FALSE]
  /\ pc = [t \in Ticks |-> "idle"]
  /\ events = [t \in Ticks |-> {}]
  /\ publishedIds = [t \in Ticks |-> {}]
  /\ faults = 0
  /\ causes = {}

-----------------------------------------------------------------------------
Fault == faults < MaxFaults /\ faults' = faults + 1

NoFault == UNCHANGED faults

Goto(t, label) == pc' = [pc EXCEPT ![t] = label]

SetProcessing(t, b) == isProcessing' = [isProcessing EXCEPT ![InstanceOf[t]] = b]

(* The finally block up to its await: whatever happened, the flag of the   *)
(* instance goes down, also the one another tick has put up.               *)
Finally(t, label) ==
  /\ Goto(t, label)
  /\ SetProcessing(t, FALSE)
  /\ events' = [events EXCEPT ![t] = {}]
  /\ publishedIds' = [publishedIds EXCEPT ![t] = {}]

View == IF ReadReplica THEN replica ELSE table

(* A slip: the query forgets published = false. *)
UnpublishedAll == {r \in Rows : View[r] # "absent"}

Unpublished == {r \in Rows : View[r] = "unpublished"}

-----------------------------------------------------------------------------
(* A transaction commits with an outbox row. *)
Insert(r) ==
  /\ table[r] = "absent"
  /\ table' = [table EXCEPT ![r] = "unpublished"]
  /\ UNCHANGED <<replica, sent, resent, lock, isProcessing, tickVars, faults,
                 causes>>

(* The cron fires.  While the flag is up handleCron returns at once. *)
HandleCron(t) ==
  /\ pc[t] = "idle"
  /\ ~isProcessing[InstanceOf[t]]
  /\ Goto(t, "acquire")
  /\ UNCHANGED <<table, replica, sent, resent, lock, isProcessing, events,
                 publishedIds, faults, causes>>

(* A slip: the answer of SET NX is not looked at. *)
AcquireAnyway(t) ==
  /\ pc[t] = "acquire"
  /\ lock' = IF lock = Free THEN t ELSE lock
  /\ SetProcessing(t, TRUE)
  /\ Goto(t, "fetch")
  /\ UNCHANGED <<table, replica, sent, resent, events, publishedIds, faults, causes>>

(* SET key NX EX 30.  A tick that does not get the key returns.  Redis may *)
(* also fail, before or after the key was set; then lockAcquired is false  *)
(* and the key stays until it expires.                                     *)
Acquire(t) ==
  /\ pc[t] = "acquire"
  /\ \/ /\ lock = Free
        /\ lock' = t
        /\ SetProcessing(t, TRUE)
        /\ Goto(t, "fetch")
        /\ UNCHANGED <<events, publishedIds>>
     \/ lock # Free /\ Finally(t, "idle") /\ UNCHANGED lock
  /\ UNCHANGED <<table, replica, sent, resent, faults, causes>>

FailAcquire(t) ==
  /\ pc[t] = "acquire"
  /\ Fault
  /\ lock' \in {lock, IF lock = Free THEN t ELSE lock}
  /\ Finally(t, "idle")
  /\ UNCHANGED <<table, replica, sent, resent, causes>>

(* The oldest Batch of the unpublished rows. *)
OldestFirst(found) ==
  /\ IF Cardinality(Unpublished) <= Batch THEN found = Unpublished
                                         ELSE Cardinality(found) = Batch
  /\ \A r \in found, q \in Unpublished \ found : r < q

(* The fetch.  A lagging replica may show rows that have been marked. *)
FindUnpublished(t) ==
  /\ pc[t] = "fetch"
  /\ \E found \in SUBSET Unpublished :
       /\ OldestFirst(found)
       /\ causes' = IF \E r \in found : View[r] # table[r] THEN causes \cup {"lag"}
                                                           ELSE causes
       /\ \/ found = {} /\ Finally(t, "release")
          \/ /\ found # {}
             /\ Goto(t, "publish")
             /\ events' = [events EXCEPT ![t] = found]
             /\ UNCHANGED <<isProcessing, publishedIds>>
  /\ UNCHANGED <<table, replica, sent, resent, lock, faults>>

FailFind(t) ==
  /\ pc[t] = "fetch"
  /\ Fault
  /\ Finally(t, "release")
  /\ UNCHANGED <<table, replica, sent, resent, lock, causes>>

(* The broker takes the message of a row. *)
Deliver(r) ==
  /\ sent' = sent \cup {r}
  /\ resent' = IF r \in sent THEN resent \cup {r} ELSE resent

(* The loop over the events, in the order of created_at.  An event that    *)
(* cannot be published is passed over; the broker may have it all the same *)
(* when only its confirm was lost.                                         *)
Publish(t, r, delivered, confirmed) ==
  /\ pc[t] = "publish"
  /\ r \in events[t] /\ \A q \in events[t] : r <= q
  /\ confirmed => delivered
  /\ IF confirmed THEN NoFault ELSE Fault
  /\ IF delivered THEN Deliver(r) ELSE UNCHANGED <<sent, resent>>
  /\ events' = [events EXCEPT ![t] = @ \ {r}]
  /\ publishedIds' = IF confirmed THEN [publishedIds EXCEPT ![t] = @ \cup {r}]
                                  ELSE publishedIds
  /\ UNCHANGED <<table, replica, lock, isProcessing, pc, causes>>

(* A slip: the UPDATE asks for unpublished rows, not for the ids. *)
MarkableAll(t) == Unpublished

(* The rows a tick is about to mark: the ids it has collected. *)
Markable(t) == publishedIds[t]

(* UPDATE of the rows by id. *)
MarkAsPublished(t, stored, acked) ==
  /\ pc[t] = "publish"
  /\ events[t] = {}
  /\ acked => stored
  /\ publishedIds[t] = {} => acked
  /\ IF acked THEN NoFault ELSE Fault
  /\ table' = IF stored
              THEN [r \in Rows |-> IF r \in Markable(t) THEN "published" ELSE table[r]]
              ELSE table
  /\ Finally(t, "release")
  /\ UNCHANGED <<replica, sent, resent, lock, causes>>

(* DEL key, whoever has set it.  If Redis fails the key stays until it     *)
(* expires.                                                                *)
ReleaseLock(t, ok) ==
  /\ pc[t] = "release"
  /\ lock' = IF ok THEN Free ELSE lock
  /\ IF ok THEN NoFault ELSE Fault
  /\ Goto(t, "idle")
  /\ UNCHANGED <<table, replica, sent, resent, isProcessing, events, publishedIds,
                 causes>>

-----------------------------------------------------------------------------
Working == {"fetch", "publish", "release"}

(* A slip: the key is set without a time to live. *)
ExpireNever == FALSE

(* The key's time to live ends, normally after the tick that set it. *)
Expire ==
  /\ lock # Free
  /\ lock' = Free
  /\ causes' = IF pc[lock] \in Working THEN causes \cup {"overrun"} ELSE causes
  /\ UNCHANGED <<table, replica, sent, resent, isProcessing, tickVars, faults>>

(* An instance dies with its ticks and starts again. *)
Crash(i) ==
  LET gone == {t \in Ticks : InstanceOf[t] = i} IN
  /\ \E t \in gone : pc[t] # "idle"
  /\ Fault
  /\ isProcessing' = [isProcessing EXCEPT ![i] = FALSE]
  /\ pc' = [t \in Ticks |-> IF t \in gone THEN "idle" ELSE pc[t]]
  /\ events' = [t \in Ticks |-> IF t \in gone THEN {} ELSE events[t]]
  /\ publishedIds' = [t \in Ticks |-> IF t \in gone THEN {} ELSE publishedIds[t]]
  /\ UNCHANGED <<table, replica, sent, resent, lock, causes>>

Replicate ==
  /\ ReadReplica
  /\ replica # table
  /\ replica' = table
  /\ UNCHANGED <<table, sent, resent, lock, isProcessing, tickVars, faults, causes>>

-----------------------------------------------------------------------------
TickStep(t) ==
  \/ HandleCron(t)
  \/ Acquire(t)
  \/ FindUnpublished(t)
  \/ \E r \in Rows : Publish(t, r, TRUE, TRUE)
  \/ MarkAsPublished(t, TRUE, TRUE)
  \/ ReleaseLock(t, TRUE)

TickError(t) ==
  \/ FailAcquire(t)
  \/ FailFind(t)
  \/ \E r \in Rows, delivered \in BOOLEAN : Publish(t, r, delivered, FALSE)
  \/ \E stored \in BOOLEAN : MarkAsPublished(t, stored, FALSE)
  \/ ReleaseLock(t, FALSE)

Next ==
  \/ \E r \in Rows : Insert(r)
  \/ \E t \in Ticks : TickStep(t) \/ TickError(t)
  \/ \E i \in Instances : Crash(i)
  \/ Expire
  \/ Replicate

Spec == Init /\ [][Next]_vars

(* The cron keeps firing and promises are resolved, Redis forgets the key  *)
(* in the end, the replica catches up.                                     *)
Fairness ==
  /\ \A t \in Ticks : WF_vars(TickStep(t))
  /\ WF_vars(Expire)
  /\ WF_vars(Replicate)

FairSpec == Spec /\ Fairness

-----------------------------------------------------------------------------
(* Every variable has its type. *)
TypeOK ==
  /\ table \in [Rows -> RowStates]
  /\ replica \in [Rows -> RowStates]
  /\ sent \subseteq Rows
  /\ resent \subseteq Rows
  /\ lock \in Ticks \cup {Free}
  /\ isProcessing \in [Instances -> BOOLEAN]
  /\ pc \in [Ticks -> Working \cup {"idle", "acquire"}]
  /\ events \in [Ticks -> SUBSET Rows]
  /\ publishedIds \in [Ticks -> SUBSET Rows]
  /\ faults \in 0 .. MaxFaults
  /\ causes \subseteq {"overrun", "lag"}

(* A row is marked published only after the broker has confirmed its       *)
(* message: no event is lost, whatever fails between publish and mark.     *)
MarkedIsSent == \A r \in Rows : table[r] = "published" => r \in sent

(* Two ticks never work at the same time, neither of one instance, where   *)
(* the flag may be down while a tick works, nor of two, as long as the key *)
(* has not expired under a tick.                                           *)
OneWorker ==
  "overrun" \notin causes =>
    \A t, u \in Ticks : pc[t] \in Working /\ pc[u] \in Working => t = u

(* The broker gets an event twice only after an error or a crash, or when  *)
(* a tick has outlived the key or has read from a lagging replica.         *)
DuplicatesHaveCauses == faults = 0 /\ causes = {} => resent = {}

(* Every event of a committed transaction is published in the end. *)
EventuallySent ==
  \A r \in Rows : table[r] = "unpublished" ~> table[r] = "published" /\ r \in sent

-----------------------------------------------------------------------------
(* The inductive invariants behind the proofs. *)

(* What a tick has collected is with the broker, and it has collected      *)
(* nothing outside its loop.                                               *)
CollectedIsSent ==
  \A t \in Ticks :
    /\ publishedIds[t] \subseteq sent
    /\ pc[t] # "publish" => events[t] = {} /\ publishedIds[t] = {}

SentInv == MarkedIsSent /\ CollectedIsSent

(* A tick that works has the key. *)
KeyHeld == \A t \in Ticks : pc[t] \in Working => lock = t

WorkerHasKey == "overrun" \notin causes => KeyHeld

(* Without a cause a row the broker has is marked or about to be, and a   *)
(* row still to be tried is not with the broker.                           *)
NoDuplicate ==
  /\ resent = {}
  /\ \A r \in sent : table[r] = "published" \/ \E t \in Ticks : r \in publishedIds[t]
  /\ \A t \in Ticks : events[t] \cap sent = {}

DuplicateInv == faults = 0 /\ causes = {} => NoDuplicate
=============================================================================
