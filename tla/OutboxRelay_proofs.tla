------------------------- MODULE OutboxRelay_proofs -------------------------
(***************************************************************************)
(* Proofs about OutboxRelay, for any number of instances, ticks and rows.  *)
(***************************************************************************)
EXTENDS OutboxRelay, TLAPS

(* The finally block keeps the types of what it touches. *)
LEMMA FinallyType ==
  ASSUME TypeOK, NEW t \in Ticks, NEW label \in {"idle", "release"}, Finally(t, label)
  PROVE  /\ pc' \in [Ticks -> Working \cup {"idle", "acquire"}]
         /\ isProcessing' \in [Instances -> BOOLEAN]
         /\ events' \in [Ticks -> SUBSET Rows]
         /\ publishedIds' \in [Ticks -> SUBSET Rows]
  BY RelayAssumption DEF TypeOK, Finally, Goto, SetProcessing, Working

(* The fault counter stays within its bound. *)
LEMMA FaultType ==
  ASSUME TypeOK, Fault \/ NoFault
  PROVE  faults' \in 0 .. MaxFaults
  BY RelayAssumption DEF TypeOK, Fault, NoFault

(* Every variable has its type in the initial state. *)
LEMMA TypeInit == Init => TypeOK
  BY RelayAssumption DEF Init, TypeOK, RowStates

(* Every step of a tick keeps the types. *)
LEMMA TickType ==
  ASSUME TypeOK, NEW t \in Ticks, TickStep(t) \/ TickError(t)
  PROVE  TypeOK'
  <1>1. CASE HandleCron(t)
    BY <1>1 DEF HandleCron, Goto, TypeOK
  <1>2. CASE Acquire(t)
    <2>1. CASE lock = Free /\ lock' = t /\ SetProcessing(t, TRUE) /\ Goto(t, "fetch")
                /\ UNCHANGED <<events, publishedIds>>
      BY <1>2, <2>1, RelayAssumption DEF Acquire, SetProcessing, Goto, TypeOK, Working
    <2>2. CASE Finally(t, "idle") /\ UNCHANGED lock
      BY <1>2, <2>2, FinallyType DEF Acquire, TypeOK
    <2> QED
      BY <1>2, <2>1, <2>2 DEF Acquire
  <1>3. CASE FailAcquire(t)
    BY <1>3, FinallyType, FaultType DEF FailAcquire, TypeOK
  <1>4. CASE FindUnpublished(t)
    <2>1. PICK found \in SUBSET Unpublished :
            \/ found = {} /\ Finally(t, "release")
            \/ /\ found # {}
               /\ Goto(t, "publish")
               /\ events' = [events EXCEPT ![t] = found]
               /\ UNCHANGED <<isProcessing, publishedIds>>
      BY <1>4 DEF FindUnpublished
    <2>2. CASE Finally(t, "release")
      BY <1>4, <2>2, FinallyType DEF FindUnpublished, TypeOK
    <2>3. CASE Goto(t, "publish") /\ events' = [events EXCEPT ![t] = found]
                /\ UNCHANGED <<isProcessing, publishedIds>>
      BY <1>4, <2>3 DEF FindUnpublished, Unpublished, Goto, TypeOK, Working
    <2> QED
      BY <2>1, <2>2, <2>3
  <1>5. CASE FailFind(t)
    BY <1>5, FinallyType, FaultType DEF FailFind, TypeOK
  <1>6. ASSUME NEW r \in Rows, NEW delivered, NEW confirmed,
               Publish(t, r, delivered, confirmed)
        PROVE  TypeOK'
    <2>1. faults' \in 0 .. MaxFaults
      BY <1>6, FaultType DEF Publish
    <2>2. sent' \subseteq Rows /\ resent' \subseteq Rows
      BY <1>6 DEF Publish, Deliver, TypeOK
    <2> QED
      BY <1>6, <2>1, <2>2 DEF Publish, TypeOK
  <1>7. ASSUME NEW stored, NEW acked, MarkAsPublished(t, stored, acked) PROVE TypeOK'
    <2>1. faults' \in 0 .. MaxFaults
      BY <1>7, FaultType DEF MarkAsPublished
    <2>2. table' \in [Rows -> RowStates]
      BY <1>7 DEF MarkAsPublished, TypeOK, RowStates
    <2> QED
      BY <1>7, <2>1, <2>2, FinallyType DEF MarkAsPublished, TypeOK
  <1>8. ASSUME NEW ok, ReleaseLock(t, ok) PROVE TypeOK'
    <2>1. faults' \in 0 .. MaxFaults
      BY <1>8, FaultType DEF ReleaseLock
    <2> QED
      BY <1>8, <2>1 DEF ReleaseLock, Goto, TypeOK
  <1> QED
    BY <1>1, <1>2, <1>3, <1>4, <1>5, <1>6, <1>7, <1>8 DEF TickStep, TickError

(* Every step keeps the types. *)
LEMMA TypeStep ==
  ASSUME TypeOK, [Next]_vars
  PROVE  TypeOK'
  <1>1. ASSUME NEW r \in Rows, Insert(r) PROVE TypeOK'
    BY <1>1 DEF Insert, TypeOK, RowStates, tickVars
  <1>2. ASSUME NEW i \in Instances, Crash(i) PROVE TypeOK'
    BY <1>2, FaultType DEF Crash, TypeOK
  <1>3. CASE Expire \/ Replicate \/ UNCHANGED vars
    BY <1>3 DEF Expire, Replicate, vars, TypeOK, tickVars
  <1> QED
    BY <1>1, <1>2, <1>3, TickType DEF Next

(* Type correctness of the relay. *)
THEOREM TypeCorrect == Spec => []TypeOK
  BY TypeInit, TypeStep, PTL DEF Spec
-----------------------------------------------------------------------------
(* The finally block empties what a tick has collected. *)
LEMMA FinallySent ==
  ASSUME TypeOK, SentInv, NEW t \in Ticks, NEW label \in {"idle", "release"},
         Finally(t, label), sent' = sent
  PROVE  CollectedIsSent'
  BY DEF TypeOK, SentInv, CollectedIsSent, Finally, Goto

(* Every step of a tick keeps marked rows with the broker. *)
LEMMA TickSent ==
  ASSUME TypeOK, SentInv, NEW t \in Ticks, TickStep(t) \/ TickError(t)
  PROVE  SentInv'
  <1>1. CASE HandleCron(t)
    BY <1>1 DEF HandleCron, Goto, TypeOK, SentInv, MarkedIsSent, CollectedIsSent
  <1>2. CASE Acquire(t)
    <2>1. CASE SetProcessing(t, TRUE) /\ Goto(t, "fetch") /\ UNCHANGED <<events, publishedIds>>
      BY <1>2, <2>1 DEF Acquire, Goto, TypeOK, SentInv, MarkedIsSent, CollectedIsSent
    <2>2. CASE Finally(t, "idle")
      BY <1>2, <2>2, FinallySent DEF Acquire, SentInv, MarkedIsSent
    <2> QED
      BY <1>2, <2>1, <2>2 DEF Acquire
  <1>3. CASE FailAcquire(t)
    BY <1>3, FinallySent DEF FailAcquire, SentInv, MarkedIsSent
  <1>4. CASE FindUnpublished(t)
    <2>1. CASE Finally(t, "release")
      BY <1>4, <2>1, FinallySent DEF FindUnpublished, SentInv, MarkedIsSent
    <2>2. ASSUME NEW found, Goto(t, "publish"), events' = [events EXCEPT ![t] = found],
                 UNCHANGED <<isProcessing, publishedIds>>
          PROVE  SentInv'
      BY <1>4, <2>2 DEF FindUnpublished, Goto, TypeOK, SentInv, MarkedIsSent, CollectedIsSent
    <2> QED
      BY <1>4, <2>1, <2>2 DEF FindUnpublished
  <1>5. CASE FailFind(t)
    BY <1>5, FinallySent DEF FailFind, SentInv, MarkedIsSent
  <1>6. ASSUME NEW r \in Rows, NEW delivered, NEW confirmed,
               Publish(t, r, delivered, confirmed)
        PROVE  SentInv'
    <2>1. sent \subseteq sent'
      BY <1>6 DEF Publish, Deliver
    <2>2. confirmed => r \in sent'
      BY <1>6 DEF Publish, Deliver
    <2> QED
      BY <1>6, <2>1, <2>2 DEF Publish, TypeOK, SentInv, MarkedIsSent, CollectedIsSent
  <1>7. ASSUME NEW stored, NEW acked, MarkAsPublished(t, stored, acked) PROVE SentInv'
    <2>1. MarkedIsSent'
      BY <1>7 DEF MarkAsPublished, Markable, SentInv, MarkedIsSent, CollectedIsSent
    <2> QED
      BY <1>7, <2>1, FinallySent DEF MarkAsPublished, SentInv
  <1>8. ASSUME NEW ok, ReleaseLock(t, ok) PROVE SentInv'
    BY <1>8 DEF ReleaseLock, Goto, TypeOK, SentInv, MarkedIsSent, CollectedIsSent
  <1> QED
    BY <1>1, <1>2, <1>3, <1>4, <1>5, <1>6, <1>7, <1>8 DEF TickStep, TickError

(* Every step does. *)
LEMMA SentStep ==
  ASSUME TypeOK, SentInv, [Next]_vars
  PROVE  SentInv'
  <1>1. ASSUME NEW r \in Rows, Insert(r) PROVE SentInv'
    BY <1>1 DEF Insert, tickVars, TypeOK, SentInv, MarkedIsSent, CollectedIsSent
  <1>2. ASSUME NEW i \in Instances, Crash(i) PROVE SentInv'
    BY <1>2 DEF Crash, TypeOK, SentInv, MarkedIsSent, CollectedIsSent
  <1>3. CASE Expire \/ Replicate \/ UNCHANGED vars
    BY <1>3 DEF Expire, Replicate, vars, tickVars, SentInv, MarkedIsSent, CollectedIsSent
  <1> QED
    BY <1>1, <1>2, <1>3, TickSent DEF Next

(* A row marked published was published, with any number of instances and  *)
(* whatever fails: no event is lost.                                       *)
THEOREM NoEventLost == Spec => []MarkedIsSent
  <1>1. Init => SentInv
    BY DEF Init, SentInv, MarkedIsSent, CollectedIsSent
  <1>2. TypeOK /\ SentInv /\ [Next]_vars => SentInv'
    BY SentStep
  <1>3. SentInv => MarkedIsSent
    BY DEF SentInv
  <1> QED
    BY <1>1, <1>2, <1>3, TypeCorrect, PTL DEF Spec
-----------------------------------------------------------------------------
(* A tick that starts to work has just set the key; one that stops working *)
(* deletes its own; the key has not expired under a working tick.          *)
LEMMA WorkerStep ==
  ASSUME TypeOK, KeyHeld, [Next]_vars, "overrun" \notin causes'
  PROVE  KeyHeld'
  <1>f. ASSUME NEW t \in Ticks, NEW label \in {"idle", "release"}, Finally(t, label),
               lock' = lock, label = "release" => pc[t] \in Working
        PROVE  KeyHeld'
    BY <1>f DEF TypeOK, KeyHeld, Finally, Goto, Working
  <1>1. ASSUME NEW t \in Ticks, HandleCron(t) PROVE KeyHeld'
    BY <1>1 DEF HandleCron, Goto, TypeOK, KeyHeld, Working
  <1>2. ASSUME NEW t \in Ticks, Acquire(t) PROVE KeyHeld'
    <2>1. CASE lock = Free /\ lock' = t /\ Goto(t, "fetch")
      BY <2>1, RelayAssumption DEF Goto, TypeOK, KeyHeld
    <2> QED
      BY <1>2, <1>f, <2>1 DEF Acquire
  <1>3. ASSUME NEW t \in Ticks, FailAcquire(t) PROVE KeyHeld'
    BY <1>3, RelayAssumption DEF FailAcquire, Finally, Goto, TypeOK, KeyHeld, Working
  <1>4. ASSUME NEW t \in Ticks, FindUnpublished(t) PROVE KeyHeld'
    <2>1. CASE Goto(t, "publish")
      BY <1>4, <2>1 DEF FindUnpublished, Goto, TypeOK, KeyHeld, Working
    <2> QED
      BY <1>4, <1>f, <2>1 DEF FindUnpublished, Working
  <1>5. ASSUME NEW t \in Ticks, FailFind(t) PROVE KeyHeld'
    BY <1>5, <1>f DEF FailFind, Working
  <1>6. ASSUME NEW t \in Ticks, NEW r, NEW delivered, NEW confirmed,
               Publish(t, r, delivered, confirmed)
        PROVE  KeyHeld'
    BY <1>6 DEF Publish, KeyHeld
  <1>7. ASSUME NEW t \in Ticks, NEW stored, NEW acked, MarkAsPublished(t, stored, acked)
        PROVE  KeyHeld'
    BY <1>7, <1>f DEF MarkAsPublished, Working
  <1>8. ASSUME NEW t \in Ticks, NEW ok, ReleaseLock(t, ok) PROVE KeyHeld'
    <2>1. lock = t
      BY <1>8 DEF ReleaseLock, KeyHeld, Working
    <2> QED
      BY <1>8, <2>1 DEF ReleaseLock, Goto, TypeOK, KeyHeld, Working
  <1>9. ASSUME NEW i \in Instances, Crash(i) PROVE KeyHeld'
    BY <1>9 DEF Crash, TypeOK, KeyHeld, Working
  <1>10. CASE Expire
    BY <1>10, RelayAssumption DEF Expire, tickVars, TypeOK, KeyHeld
  <1>11. ASSUME UNCHANGED <<lock, pc>> PROVE KeyHeld'
    BY <1>11 DEF KeyHeld
  <1> QED
    BY <1>1, <1>2, <1>3, <1>4, <1>5, <1>6, <1>7, <1>8, <1>9, <1>10, <1>11
       DEF Next, TickStep, TickError, Insert, Replicate, vars, tickVars

(* Causes are never forgotten. *)
LEMMA CausesStay ==
  ASSUME [Next]_vars
  PROVE  causes \subseteq causes'
  <1>1. ASSUME NEW t \in Ticks, TickStep(t) \/ TickError(t) PROVE causes \subseteq causes'
    BY <1>1 DEF TickStep, TickError, HandleCron, Acquire, FailAcquire, FindUnpublished, FailFind,
       Publish, MarkAsPublished, ReleaseLock
  <1> QED
    BY <1>1 DEF Next, Insert, Crash, Expire, Replicate, vars

(* The invariant of the key: as long as it has not expired under a tick, a *)
(* tick that works has it.                                                 *)
THEOREM KeyInvariant == Spec => []WorkerHasKey
  <1>1. Init => WorkerHasKey
    BY DEF Init, WorkerHasKey, KeyHeld, Working
  <1>2. TypeOK /\ WorkerHasKey /\ [Next]_vars => WorkerHasKey'
    BY WorkerStep, CausesStay DEF WorkerHasKey
  <1> QED
    BY <1>1, <1>2, TypeCorrect, PTL DEF Spec

(* No two ticks work at the same time, as long as none outlives the key,   *)
(* although the key has no owner and the flag of an instance may be down   *)
(* while one of its ticks works.                                           *)
THEOREM RelayExclusion == Spec => []OneWorker
  <1>1. WorkerHasKey => OneWorker
    BY DEF WorkerHasKey, KeyHeld, OneWorker
  <1> QED
    BY <1>1, KeyInvariant, PTL
-----------------------------------------------------------------------------
(* Without a cause no row is published twice: what one tick has published   *)
(* is marked before another tick can read the table.                       *)
LEMMA DuplicateStep ==
  ASSUME TypeOK, KeyHeld, SentInv, NoDuplicate, [Next]_vars, faults' = 0, causes' = {}
  PROVE  NoDuplicate'
  <1>0. ~Fault
    BY DEF Fault, TypeOK
  <1>f. ASSUME NEW t \in Ticks, NEW label, Finally(t, label), pc[t] # "publish",
               UNCHANGED <<table, sent, resent>>
        PROVE  NoDuplicate'
    <2>1. events' = events /\ publishedIds' = publishedIds
      BY <1>f DEF Finally, TypeOK, SentInv, CollectedIsSent
    <2> QED
      BY <1>f, <2>1 DEF NoDuplicate
  <1>1. ASSUME NEW t \in Ticks, HandleCron(t) \/ Acquire(t) PROVE NoDuplicate'
    <2>1. CASE UNCHANGED <<table, sent, resent, events, publishedIds>>
      BY <2>1 DEF NoDuplicate
    <2> QED
      BY <1>1, <1>f, <2>1 DEF HandleCron, Acquire
  <1>2. ASSUME NEW t \in Ticks, FindUnpublished(t) PROVE NoDuplicate'
    <2>1. CASE Finally(t, "release")
      BY <1>2, <1>f, <2>1 DEF FindUnpublished
    <2>2. ASSUME NEW found \in SUBSET Unpublished,
                 events' = [events EXCEPT ![t] = found], UNCHANGED publishedIds,
                 causes' = IF \E r \in found : View[r] # table[r] THEN causes \cup {"lag"}
                                                                   ELSE causes
          PROVE  NoDuplicate'
      <3>1. \A u \in Ticks : publishedIds[u] = {}
        BY <1>2 DEF FindUnpublished, KeyHeld, Working, SentInv, CollectedIsSent
      <3>2. found \cap sent = {}
        BY <2>2, <3>1 DEF Unpublished, NoDuplicate
      <3> QED
        BY <1>2, <2>2, <3>2 DEF FindUnpublished, NoDuplicate, TypeOK
    <2> QED
      BY <1>2, <2>1, <2>2 DEF FindUnpublished
  <1>3. ASSUME NEW t \in Ticks, NEW r \in Rows, NEW delivered, NEW confirmed,
               Publish(t, r, delivered, confirmed)
        PROVE  NoDuplicate'
    <2>1. confirmed /\ r \in events[t] /\ pc[t] = "publish" /\ Deliver(r)
      BY <1>0, <1>3 DEF Publish
    <2>2. r \notin sent /\ sent' = sent \cup {r} /\ resent' = {}
      BY <2>1 DEF Deliver, NoDuplicate
    <2>3. publishedIds' = [publishedIds EXCEPT ![t] = @ \cup {r}]
          /\ events' = [events EXCEPT ![t] = @ \ {r}] /\ table' = table
      BY <1>3, <2>1 DEF Publish
    <2>4. \A u \in Ticks : u # t => events[u] = {}
      BY <2>1 DEF KeyHeld, Working, SentInv, CollectedIsSent
    <2>5. \A u \in Ticks : events'[u] \cap sent' = {}
      BY <2>2, <2>3, <2>4 DEF NoDuplicate, TypeOK
    <2>6. \A q \in sent' : table'[q] = "published" \/ \E u \in Ticks : q \in publishedIds'[u]
      BY <2>2, <2>3 DEF NoDuplicate, TypeOK
    <2> QED
      BY <2>2, <2>5, <2>6 DEF NoDuplicate
  <1>4. ASSUME NEW t \in Ticks, NEW stored, NEW acked, MarkAsPublished(t, stored, acked)
        PROVE  NoDuplicate'
    <2>1. stored /\ pc[t] = "publish" /\ events[t] = {}
      BY <1>0, <1>4 DEF MarkAsPublished
    <2>2. \A u \in Ticks : u # t => events[u] = {} /\ publishedIds[u] = {}
      BY <2>1 DEF KeyHeld, Working, SentInv, CollectedIsSent
    <2>3. \A q \in sent : table[q] = "published" \/ q \in publishedIds[t]
      BY <2>2 DEF NoDuplicate
    <2>4. table' = [q \in Rows |-> IF q \in publishedIds[t] THEN "published" ELSE table[q]]
          /\ sent' = sent /\ resent' = resent
      BY <1>4, <2>1 DEF MarkAsPublished, Markable
    <2>5. \A q \in sent' : table'[q] = "published"
      BY <2>3, <2>4 DEF TypeOK
    <2>6. \A u \in Ticks : events'[u] = {}
      BY <1>4, <2>1, <2>2 DEF MarkAsPublished, Finally, TypeOK
    <2> QED
      BY <2>4, <2>5, <2>6 DEF NoDuplicate
  <1>5. ASSUME NEW t \in Ticks, NEW ok, ReleaseLock(t, ok) PROVE NoDuplicate'
    BY <1>5 DEF ReleaseLock, NoDuplicate
  <1>6. ASSUME NEW r \in Rows, Insert(r) PROVE NoDuplicate'
    <2>1. r \notin sent \/ \E t \in Ticks : r \in publishedIds[t]
      BY <1>6 DEF Insert, NoDuplicate
    <2> QED
      BY <1>6, <2>1 DEF Insert, tickVars, NoDuplicate, TypeOK
  <1>7. CASE Expire \/ Replicate \/ UNCHANGED vars
    BY <1>7 DEF Expire, Replicate, vars, tickVars, NoDuplicate
  <1> QED
    BY <1>0, <1>1, <1>2, <1>3, <1>4, <1>5, <1>6, <1>7
       DEF Next, TickStep, TickError, FailAcquire, FailFind, Crash

(* Errors are counted and never forgotten. *)
LEMMA FaultsCount ==
  ASSUME [Next]_vars
  PROVE  faults' = faults \/ faults' = faults + 1
  <1>1. ASSUME NEW t \in Ticks, TickStep(t) PROVE faults' = faults
    BY <1>1 DEF TickStep, HandleCron, Acquire, FindUnpublished, Publish, MarkAsPublished,
       ReleaseLock, NoFault
  <1>2. ASSUME NEW t \in Ticks, TickError(t) PROVE Fault
    BY <1>2 DEF TickError, FailAcquire, FailFind, Publish, MarkAsPublished, ReleaseLock
  <1> QED
    BY <1>1, <1>2 DEF Next, Insert, Crash, Expire, Replicate, vars, Fault

(* A message is doubled only by an error, a crash, a tick that outlives    *)
(* the key, or a read from a lagging replica.                              *)
THEOREM DuplicatesNeedCauses == Spec => []DuplicatesHaveCauses
  <1>1. Init => SentInv /\ DuplicateInv
    BY DEF Init, SentInv, MarkedIsSent, CollectedIsSent, DuplicateInv, NoDuplicate
  <1>2. faults' = 0 /\ [Next]_vars /\ TypeOK => faults = 0
    BY FaultsCount DEF TypeOK
  <1>3. TypeOK /\ WorkerHasKey /\ SentInv /\ DuplicateInv /\ [Next]_vars
          => SentInv' /\ DuplicateInv'
    <2>1. TypeOK /\ SentInv /\ [Next]_vars => SentInv'
      BY SentStep
    <2>2. ASSUME TypeOK, WorkerHasKey, SentInv, DuplicateInv, [Next]_vars, faults' = 0,
                 causes' = {}
          PROVE  NoDuplicate'
      <3>1. causes = {}
        BY <2>2, CausesStay
      <3>2. KeyHeld /\ NoDuplicate
        BY <1>2, <2>2, <3>1 DEF WorkerHasKey, DuplicateInv
      <3> QED
        BY <2>2, <3>2, DuplicateStep
    <2> QED
      BY <2>1, <2>2 DEF DuplicateInv
  <1>4. DuplicateInv => DuplicatesHaveCauses
    BY DEF DuplicateInv, NoDuplicate, DuplicatesHaveCauses
  <1> QED
    BY <1>1, <1>3, <1>4, TypeCorrect, KeyInvariant, PTL DEF Spec
=============================================================================
