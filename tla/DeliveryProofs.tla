--------------------------- MODULE DeliveryProofs ---------------------------
(***************************************************************************)
(* Proofs about Delivery, for every capacity, size of log, batch size and  *)
(* number of events.                                                       *)
(*                                                                         *)
(* In every behaviour (DeliverySpec) the batch SyncTask works from stays   *)
(* current and the server never stores an event twice.  In a steady        *)
(* environment (DeliverySteadySpec) what the device takes for acknowledged *)
(* is at the server, in the order it was made.                             *)
(***************************************************************************)
EXTENDS Delivery, EventQueueProofs

USE QueueAssumption, RecordLimitAssumption, BatchAssumption

\* The place of an entry tells it apart, and no later append gets it.
PlacesInv ==
  /\ \A p, q \in queue : p.pos = q.pos => p = q
  /\ \A q \in queue : q.pos < nextRecordId

\* The copies of events in RAM (SyncTask's batch is among them) and in storage...
Stored == {q.ev : q \in queue} \cup {r.data : r \in logs[LOG_EVENTS]}

\* ...and at the server.
AtServer == {received[i] : i \in 1..Len(received)}

Copies == Stored \cup AtServer

\* A tag has one event id, and no copy is older than its event.
OneIdPerTag ==
  /\ \A e, f \in Copies : e.tag = f.tag => e.event_id = f.event_id
  /\ \A e \in Copies : e.tag <= made

\* The server tells events apart by their event id.
OneReceiptPerId ==
  \A i, j \in 1..Len(received) : received[i].event_id = received[j].event_id => i = j

\* The inductive invariant of DeliverySpec.
DeliveryInv ==
  /\ Inv
  /\ DeliveryTypeOK
  /\ PlacesInv
  /\ BatchNotStale
  /\ OneIdPerTag
  /\ OneReceiptPerId

-----------------------------------------------------------------------------
\* In a steady environment an event id is never given out again either.
OneTagPerId ==
  /\ \A e, f \in Copies : e.event_id = f.event_id => e.tag = f.tag
  /\ \A e \in Copies : e.event_id < nextRecordId

\* SyncTask's batch is the front of what is pending.
BatchIsFront ==
  \A b \in batch, q \in Pending : q.pos < b.pos => q \in batch

\* What the server has was made no later than what is still to be acknowledged.
ReceivedIsBehind ==
  \A r \in AtServer, q \in Pending : r.tag <= q.ev.tag

\* Between the server's answer and the commit, the server has the event.
PostedWasReceived ==
  sync = "commit" => \A b \in batch : IsHead(b) => b.ev.tag \in ReceivedTags

\* The inductive invariant of DeliverySteadySpec.
DeliveryInStepInv ==
  /\ DeliveryInv
  /\ InStepInv
  /\ OneTagPerId
  /\ BatchIsFront
  /\ ReceivedIsBehind
  /\ PostedWasReceived
  /\ AckedWasReceived
  /\ ReceivedInOrder

-----------------------------------------------------------------------------
\* A copy after a step is a copy from before it, or the event just made.
OldOrNew(e) ==
  \/ \E f \in Stored : f.tag = e.tag /\ f.event_id = e.event_id
  \/ /\ made' = made + 1 /\ e.tag = made'
     /\ nextEventId' = nextEventId + 1 /\ e.event_id = nextEventId
     /\ nextRecordId' = nextRecordId + 1

\* What a step of the queue does, as far as delivery is concerned.
QueueStep ==
  /\ PlacesInv'
  /\ \A e \in Stored' : OldOrNew(e)
  /\ made' \in Nat /\ made <= made'
  /\ nextRecordId <= nextRecordId'

(* Copies are events.                                                      *)
LEMMA CopiesType ==
  ASSUME TypeOK
  PROVE  \A e \in Stored : e \in Event /\ e.tag \in Nat /\ e.event_id \in Nat
<1>1. \A q \in queue : q.ev \in Event
  BY EntryType DEF TypeOK
<1>2. \A r \in logs[LOG_EVENTS] : r.data \in Event
  BY DEF TypeOK, Record
<1>3. \A e \in Event : e.tag \in Nat /\ e.event_id \in Nat
  BY DEF Event
<1> QED
  BY <1>1, <1>2, <1>3 DEF Stored

(* enqueue adds at most the new event, at a place of its own.              *)
LEMMA EnqueueStep ==
  ASSUME Inv, PlacesInv, NEW fits \in BOOLEAN, Enqueue(fits)
  PROVE  QueueStep /\ queue \subseteq queue'
<1>0. /\ StorageInv /\ TypeOK /\ LOG_EVENTS \in LogIds
      /\ made \in Nat /\ nextRecordId \in Nat /\ made' = made + 1
  BY DEF Inv, TypeOK, Enqueue, LogIds
<1>1. CASE ~HasRoom
  <2>1. UNCHANGED <<logs, nextRecordId, queue>>
    BY <1>1 DEF Enqueue, storageVars, ramVars
  <2>2. Stored' = Stored /\ PlacesInv'
    BY <2>1 DEF Stored, PlacesInv
  <2> QED
    BY <1>0, <2>1, <2>2 DEF QueueStep, OldOrNew
<1>2. CASE HasRoom
  <2>0. nextEventId' = nextEventId + 1
    BY <1>2 DEF Enqueue
  <2>1. PICK ev \in Event, s \in Status :
           /\ AppendRecord(LOG_EVENTS, ev, fits, s)
           /\ ev.tag = made' /\ ev.event_id = nextEventId
           /\ ev.sequence_number = nextSequence /\ ~ev.committed
           /\ s = "OK" =>
                /\ queue' = queue \cup {[pos |-> nextRecordId, ev |-> ev]}
                /\ accepted' = accepted \cup {made'}
           /\ s # "OK" => UNCHANGED <<queue, accepted>>
    BY <1>2, EnqueueShape
  <2>9. StorageInv /\ AppendRecord(LOG_EVENTS, ev, fits, s)
    BY <1>0, <2>1
  <2>2. \A r \in logs'[LOG_EVENTS] : r \in logs[LOG_EVENTS] \/ (s = "OK" /\ r.data = ev)
    <3>1. logs'[LOG_EVENTS] \subseteq logs[LOG_EVENTS] \cup {Appended(ev)}
      BY <1>0, <2>9, AppendScanned
    <3>2. Appended(ev).data = ev
      BY DEF Appended
    <3>3. ASSUME s # "OK" PROVE \A r \in logs'[LOG_EVENTS] : r \in logs[LOG_EVENTS]
      BY <1>0, <2>9, <3>3, AppendFailed
    <3> QED
      BY <3>1, <3>2, <3>3
  <2>3. \A q \in queue' : q \in queue \/ (s = "OK" /\ q.pos = nextRecordId /\ q.ev = ev)
    BY <2>1
  <2>4. \A e \in Stored' : e \in Stored \/ (s = "OK" /\ e = ev)
    BY <2>2, <2>3 DEF Stored
  <2>6. nextRecordId' = IF s = "OK" THEN nextRecordId + 1 ELSE nextRecordId
    BY <1>0, <2>1, AppendShape, AppendFailed
  <2>5. \A e \in Stored' : OldOrNew(e)
    BY <1>0, <2>0, <2>1, <2>4, <2>6 DEF OldOrNew
  <2>7. \A q \in queue : q.pos \in Nat
    BY <1>0, EntryType DEF TypeOK
  <2>8. PlacesInv'
    BY <1>0, <2>1, <2>3, <2>6, <2>7 DEF PlacesInv
  <2> QED
    BY <1>0, <2>1, <2>5, <2>6, <2>8 DEF QueueStep
<1> QED
  BY <1>1, <1>2

(* mark_committed: an entry not found by its id is left as it was.         *)
LEMMA MarkStep ==
  ASSUME Inv, PlacesInv, NEW id, MarkCommitted(id)
  PROVE  /\ QueueStep
         /\ \A p \in queue : p \in queue' \/ FirstWithId(p, id)
<1>0. /\ StorageInv /\ TypeOK /\ LOG_EVENTS \in LogIds
      /\ made \in Nat /\ made' = made /\ nextRecordId \in Nat
  BY DEF Inv, TypeOK, MarkCommitted, LogIds
<1>1. CASE UNCHANGED <<storageVars, queue, acked>>
  <2>1. UNCHANGED <<logs, nextRecordId, queue>>
    BY <1>1 DEF storageVars
  <2>2. Stored' = Stored /\ PlacesInv'
    BY <2>1 DEF Stored, PlacesInv
  <2> QED
    BY <1>0, <2>1, <2>2 DEF QueueStep, OldOrNew
<1>2. CASE \E q \in queue, s \in Status :
             /\ FirstWithId(q, id)
             /\ MarkRecordCommitted(LOG_EVENTS, id, s)
             /\ Acknowledge(q, s)
  <2>1. PICK q \in queue, s \in Status :
             /\ FirstWithId(q, id)
             /\ MarkRecordCommitted(LOG_EVENTS, id, s)
             /\ Acknowledge(q, s)
    BY <1>2
  <2> DEFINE done == [q EXCEPT !.ev.committed = TRUE]
  <2>2. q \in Entry
    BY <1>0 DEF TypeOK
  <2>3. done.pos = q.pos /\ done.ev.tag = q.ev.tag /\ done.ev.event_id = q.ev.event_id
    BY <2>2, MarkedEntry
  <2>4. queue' = queue \/ queue' = (queue \ {q}) \cup {done}
    BY <2>1 DEF Acknowledge
  <2> HIDE DEF done
  <2>5. nextRecordId' = nextRecordId
    BY <1>0, <2>1, MarkFacts
  <2>6. PlacesInv'
    BY <2>1, <2>3, <2>4, <2>5 DEF PlacesInv
  <2>7. \A r \in logs'[LOG_EVENTS] :
          \E t \in logs[LOG_EVENTS] : t.data = r.data
    BY <1>0, <2>1, MarkFacts
  <2>8. \A p \in queue' :
          \E t \in queue : t.ev.tag = p.ev.tag /\ t.ev.event_id = p.ev.event_id
    BY <2>1, <2>3, <2>4
  <2>9. \A e \in Stored' : OldOrNew(e)
    BY <2>7, <2>8 DEF Stored, OldOrNew
  <2> QED
    BY <1>0, <2>1, <2>4, <2>5, <2>6, <2>9 DEF QueueStep
<1> QED
  BY <1>1, <1>2 DEF MarkCommitted

(* recover: what is rebuilt is in storage, a record to a place.            *)
LEMMA RecoverStep ==
  ASSUME Inv, Recover
  PROVE  QueueStep
<1>0. /\ StorageInv /\ TypeOK /\ LOG_EVENTS \in LogIds
      /\ made \in Nat /\ nextRecordId \in Nat /\ UNCHANGED <<logs, nextRecordId, made>>
  BY DEF Inv, TypeOK, Recover, LogIds, storageVars, historyVars
<1>1. queue' \subseteq Recoverable
  BY DEF Recover, FirstUpTo
<1>2. \A q \in queue' : \E r \in logs[LOG_EVENTS] : q = [pos |-> r.id, ev |-> r.data]
  BY <1>0, <1>1, RecoverableType DEF Scanned
<1>3. \A r, t \in logs[LOG_EVENTS] : r.id = t.id => r = t
  BY <1>0 DEF StorageInv, LogInv
<1>4. \A r \in logs[LOG_EVENTS] : r.id < nextRecordId
  BY <1>0 DEF StorageInv, LogInv
<1>5. PlacesInv'
  BY <1>0, <1>2, <1>3, <1>4 DEF PlacesInv
<1>6. \A e \in Stored' : e \in Stored
  BY <1>0, <1>2 DEF Stored
<1> QED
  BY <1>0, <1>5, <1>6 DEF QueueStep, OldOrNew

(* A step that adds nothing to the queue or to the log of events.          *)
LEMMA QuietStep ==
  ASSUME Inv, PlacesInv, Compact \/ ArmWriteFault \/ UNCHANGED vars
  PROVE  QueueStep /\ Pending \subseteq queue'
<1>1. /\ UNCHANGED <<logs, nextRecordId, made>> /\ made \in Nat /\ nextRecordId \in Nat
      /\ queue' = queue \/ queue' = Pending
  BY DEF Inv, TypeOK, Compact, ArmWriteFault, InjectCorruption, vars, storageVars,
         ramVars, historyVars
<1>2. Pending \subseteq queue
  BY DEF Pending
<1>3. PlacesInv'
  BY <1>1, <1>2 DEF PlacesInv
<1>4. Stored' \subseteq Stored
  BY <1>1, <1>2 DEF Stored
<1> QED
  BY <1>1, <1>2, <1>3, <1>4 DEF QueueStep, OldOrNew

-----------------------------------------------------------------------------
LEMMA ServerType ==
  ASSUME received \in Seq(Event)
  PROVE  \A e \in AtServer : e \in Event /\ e.tag \in Nat /\ e.event_id \in Nat
<1>1. \A i \in 1..Len(received) : received[i] \in Event
  OBVIOUS
<1>2. \A e \in Event : e.tag \in Nat /\ e.event_id \in Nat
  BY DEF Event
<1> QED
  BY <1>1, <1>2 DEF AtServer

(* What the server's answer to a post does to what it has received.        *)
LEMMA TelemetryShape ==
  ASSUME received \in Seq(Event), NEW ev \in Event, Telemetry(ev)
  PROVE  /\ received' \in Seq(Event)
         /\ \/ /\ received' = received
               /\ \E e \in AtServer : e.event_id = ev.event_id
            \/ /\ received' = Append(received, ev)
               /\ \A e \in AtServer : e.event_id # ev.event_id
         /\ \A e \in AtServer' : e \in AtServer \/ e = ev
         /\ AtServer \subseteq AtServer'
<1>1. CASE IsDuplicate(ev) /\ received' = received
  BY <1>1 DEF IsDuplicate, AtServer
<1>2. CASE ~IsDuplicate(ev) /\ received' = Append(received, ev)
  <2>1. /\ Len(received) \in Nat
        /\ received' \in Seq(Event)
        /\ Len(received') = Len(received) + 1
        /\ \A i \in 1..Len(received) : received'[i] = received[i]
        /\ received'[Len(received) + 1] = ev
    BY <1>2
  <2>2. \A i \in 1..Len(received') : i \in 1..Len(received) \/ i = Len(received) + 1
    BY <2>1
  <2>3. \A i \in 1..Len(received) : i \in 1..Len(received')
    BY <2>1
  <2>4. \A e \in AtServer : e.event_id # ev.event_id
    BY <1>2 DEF IsDuplicate, AtServer
  <2>5. \A e \in AtServer' : e \in AtServer \/ e = ev
    BY <2>1, <2>2 DEF AtServer
  <2>6. AtServer \subseteq AtServer'
    BY <2>1, <2>3 DEF AtServer
  <2> QED
    BY <1>2, <2>1, <2>4, <2>5, <2>6
<1> QED
  BY <1>1, <1>2 DEF Telemetry

(* The queue moved on and nothing reached the server.                      *)
LEMMA CopiesAfterQueue ==
  ASSUME DeliveryInv, QueueStep, received' = received
  PROVE  OneIdPerTag' /\ OneReceiptPerId'
<1>1. AtServer' = AtServer
  BY DEF AtServer
<1>2. \A e \in Copies : e.tag \in Nat /\ e.tag <= made
  BY CopiesType, ServerType DEF DeliveryInv, DeliveryTypeOK, Inv, OneIdPerTag, Copies
<1>3. made \in Nat /\ made' \in Nat /\ made <= made'
  BY DEF DeliveryInv, Inv, TypeOK, QueueStep
<1>4. \A e \in Copies' :
        \/ \E f \in Copies : f.tag = e.tag /\ f.event_id = e.event_id
        \/ /\ made' = made + 1 /\ e.tag = made'
           /\ nextEventId' = nextEventId + 1 /\ e.event_id = nextEventId
  BY <1>1 DEF Copies, QueueStep, OldOrNew
<1>5. \A e \in Copies' : e.tag \in Nat /\ e.tag <= made'
  BY <1>2, <1>3, <1>4
<1>6. ASSUME NEW e \in Copies', NEW f \in Copies', e.tag = f.tag
      PROVE  e.event_id = f.event_id
  BY <1>2, <1>3, <1>4, <1>6 DEF DeliveryInv, OneIdPerTag
<1> QED
  BY <1>5, <1>6 DEF OneIdPerTag, OneReceiptPerId, DeliveryInv

(* A copy reached the server and the queue stayed.                         *)
LEMMA CopiesAfterPost ==
  ASSUME DeliveryInv, NEW ev \in Stored, Telemetry(ev), UNCHANGED queueVars
  PROVE  OneIdPerTag' /\ OneReceiptPerId' /\ received' \in Seq(Event)
<1>1. received \in Seq(Event) /\ ev \in Event
  BY CopiesType DEF DeliveryInv, Inv, DeliveryTypeOK
<1>2. UNCHANGED <<logs, queue, made>> /\ Stored' = Stored
  BY DEF queueVars, storageVars, ramVars, historyVars, Stored
<1>3. \A e \in Copies' : e \in Copies
  BY <1>1, <1>2, TelemetryShape DEF Copies
<1>4. OneIdPerTag'
  BY <1>2, <1>3 DEF DeliveryInv, OneIdPerTag
<1>5. OneReceiptPerId'
  <2>1. CASE received' = received
    BY <2>1 DEF DeliveryInv, OneReceiptPerId
  <2>2. CASE /\ received' = Append(received, ev)
             /\ \A e \in AtServer : e.event_id # ev.event_id
    <3>1. /\ Len(received) \in Nat
          /\ Len(received') = Len(received) + 1
          /\ \A i \in 1..Len(received) : received'[i] = received[i]
          /\ received'[Len(received) + 1] = ev
      BY <1>1, <2>2
    <3>2. \A i \in 1..Len(received') : i \in 1..Len(received) \/ i = Len(received) + 1
      BY <3>1
    <3>3. \A i \in 1..Len(received) : received[i].event_id # ev.event_id
      BY <2>2 DEF AtServer
    <3>4. ASSUME NEW i \in 1..Len(received'), NEW j \in 1..Len(received'),
                 received'[i].event_id = received'[j].event_id
          PROVE  i = j
      BY <3>1, <3>2, <3>3, <3>4 DEF DeliveryInv, OneReceiptPerId
    <3> QED
      BY <3>4 DEF OneReceiptPerId
  <2> QED
    BY <1>1, <2>1, <2>2, TelemetryShape
<1> QED
  BY <1>1, <1>4, <1>5, TelemetryShape

-----------------------------------------------------------------------------
(* Every step of Delivery is a step of the queue, or leaves it alone: that *)
(* SyncTask commits an event of its batch is what makes it one.            *)
LEMMA DeliveryStepsQueue ==
  ASSUME BatchNotStale, [DeliveryNext]_deliveryVars
  PROVE  [Next]_vars
<1>1. TRUE \in BOOLEAN
  OBVIOUS
<1>2. CASE Reboot
  BY <1>2 DEF Reboot, Next
<1>3. CASE FinishBoot \/ TaskEnqueues
  BY <1>1, <1>3 DEF FinishBoot, TaskEnqueues, Next
<1>4. CASE TakeBatch \/ PostDelivered \/ PostFailed \/ LinkChanges \/ UNCHANGED deliveryVars
  BY <1>4 DEF TakeBatch, PostDelivered, PostFailed, LinkChanges, deliveryVars, queueVars, vars
<1>5. CASE Commit
  <2>1. PICK b \in batch : MarkCommitted(b.ev.event_id)
    BY <1>5 DEF Commit
  <2>2. b \in queue
    BY <2>1 DEF BatchNotStale, Pending
  <2> QED
    BY <2>1, <2>2 DEF Next
<1>6. CASE CompactBatch \/ WriteFault
  BY <1>6 DEF CompactBatch, WriteFault, Next
<1> QED
  BY <1>2, <1>3, <1>4, <1>5, <1>6 DEF DeliveryNext, SyncTask

(* A steady environment does nothing that any other may not...             *)
LEMMA SteadyIsDelivery ==
  ASSUME [SteadyDeliveryNext]_deliveryVars
  PROVE  [DeliveryNext]_deliveryVars
BY DEF SteadyDeliveryNext, DeliveryNext

(* ...and a steady environment of the device is one of its queue.          *)
LEMMA SteadyStepsQueue ==
  ASSUME BatchNotStale, [SteadyDeliveryNext]_deliveryVars
  PROVE  [SteadyNext]_vars
<1>1. TRUE \in BOOLEAN
  OBVIOUS
<1>2. CASE NewestIsOwed /\ Reboot
  BY <1>2 DEF Reboot, SteadyNext
<1>3. CASE ~appendFailed /\ (FinishBoot \/ TaskEnqueues)
  BY <1>1, <1>3 DEF FinishBoot, TaskEnqueues, SteadyNext
<1>4. CASE TakeBatch \/ PostDelivered \/ PostFailed \/ LinkChanges \/ UNCHANGED deliveryVars
  BY <1>4 DEF TakeBatch, PostDelivered, PostFailed, LinkChanges, deliveryVars, queueVars, vars
<1>5. CASE Commit
  <2>1. PICK b \in batch : MarkCommitted(b.ev.event_id)
    BY <1>5 DEF Commit
  <2>2. b \in queue
    BY <2>1 DEF BatchNotStale, Pending
  <2> QED
    BY <2>1, <2>2 DEF SteadyNext
<1>6. CASE CompactBatch \/ WriteFault
  BY <1>6 DEF CompactBatch, WriteFault, SteadyNext
<1> QED
  BY <1>2, <1>3, <1>4, <1>5, <1>6 DEF SteadyDeliveryNext, SyncTask

LEMMA DeliveryInitInv == DeliveryInit => DeliveryInv
<1> SUFFICES ASSUME DeliveryInit PROVE DeliveryInv
  OBVIOUS
<1>1. Inv
  BY InitInv DEF DeliveryInit
<1>2. /\ logs[LOG_EVENTS] = {} /\ queue = {} /\ received = <<>> /\ batch = {}
      /\ sync = "boot" /\ connected = FALSE
      /\ netState = "DISCONNECTED" /\ forceDisconnect = FALSE
  BY DEF DeliveryInit, Init, StorageInit, LogIds, ServerInit, NetworkInit
<1>3. DeliveryTypeOK
  <2>1. NetworkTypeOK /\ connected \in BOOLEAN
    BY <1>2, Zenon DEF NetworkTypeOK
  <2>2. received \in Seq(Event) /\ batch \subseteq Entry
    BY <1>2
  <2>3. /\ sync \in {"boot", "top", "upload", "commit", "compact"}
        /\ sync \in {"upload", "commit"} <=> batch # {}
    BY <1>2
  <2> QED
    BY <1>1, <2>1, <2>2, <2>3 DEF DeliveryTypeOK, Inv
<1>4. Copies = {} /\ \A i \in 1..Len(received) : FALSE
  BY <1>2 DEF Copies, Stored, AtServer
<1>5. PlacesInv /\ BatchNotStale /\ OneIdPerTag /\ OneReceiptPerId
  BY <1>2, <1>4 DEF PlacesInv, BatchNotStale, OneIdPerTag, OneReceiptPerId
<1> QED
  BY <1>1, <1>3, <1>5 DEF DeliveryInv

LEMMA NetworkNext ==
  ASSUME DeliveryTypeOK, [DeliveryNext]_deliveryVars
  PROVE  NetworkTypeOK' /\ connected' \in BOOLEAN
<1>1. NetworkTypeOK /\ connected \in BOOLEAN
  BY DEF DeliveryTypeOK
<1>2. CASE UNCHANGED <<networkVars, connected>>
  BY <1>1, <1>2, Zenon DEF NetworkTypeOK, networkVars
<1>3. CASE Reboot
  BY <1>1, <1>3, Zenon DEF Reboot, NetworkTypeOK, networkVars
<1>4. CASE FinishBoot
  <2>1. PICK status \in {"OK", "ERR_TIMEOUT"} :
          Connect(status) /\ connected' = (status = "OK")
    BY <1>4 DEF FinishBoot
  <2>2. connected' \in BOOLEAN
    BY <2>1, Zenon
  <2>3. NetworkTypeOK'
    BY <1>1, <2>1, Zenon DEF Connect, NetworkTypeOK, networkVars
  <2> QED
    BY <2>2, <2>3
<1>5. CASE LinkChanges
  <2>1. connected' = connected
    BY <1>5 DEF LinkChanges, syncVars
  <2>2. NetworkTypeOK'
    BY <1>1, <1>5, Zenon
    DEF LinkChanges, ForceDisconnect, ForceConnect, SetFaultProfile, NetworkTypeOK
  <2> QED
    BY <1>1, <2>1, <2>2
<1>6. CASE TaskEnqueues \/ SyncTask \/ WriteFault \/ UNCHANGED deliveryVars
  <2>1. UNCHANGED <<networkVars, connected>>
    BY <1>6 DEF TaskEnqueues, SyncTask, TakeBatch, PostDelivered, PostFailed, Commit,
                CompactBatch, WriteFault, deliveryVars, syncVars
  <2> QED
    BY <1>2, <2>1
<1> QED
  BY <1>3, <1>4, <1>5, <1>6 DEF DeliveryNext

(* A batch is the front of what is pending, and never empty.               *)
LEMMA BatchTaken ==
  ASSUME Pending # {}, batch' \in GetPending(BatchSize)
  PROVE  /\ batch' \subseteq Pending /\ batch' # {}
         /\ \A b \in batch', q \in Pending : q.pos < b.pos => q \in batch'
<1>1. /\ batch' \subseteq Pending
      /\ \A b \in batch', q \in Pending : q.pos < b.pos => q \in batch'
      /\ batch' # Pending => Cardinality(batch') = BatchSize
  BY DEF GetPending, FirstUpTo
<1>2. batch' # {}
  BY <1>1, FS_EmptySet
<1> QED
  BY <1>1, <1>2

(* SyncTask's own variables stay well typed, and its batch current.        *)
LEMMA BatchNext ==
  ASSUME DeliveryInv, [DeliveryNext]_deliveryVars
  PROVE  /\ batch' \subseteq Pending'
         /\ sync' \in {"boot", "top", "upload", "commit", "compact"}
         /\ sync' \in {"upload", "commit"} <=> batch' # {}
<1>0. /\ Inv /\ PlacesInv /\ batch \subseteq Pending
      /\ sync \in {"boot", "top", "upload", "commit", "compact"}
      /\ sync \in {"upload", "commit"} <=> batch # {}
  BY DEF DeliveryInv, DeliveryTypeOK, BatchNotStale
<1>1. CASE Reboot
  BY <1>1 DEF Reboot
<1>2. CASE FinishBoot
  BY <1>0, <1>2 DEF FinishBoot
<1>3. CASE TaskEnqueues
  <2>1. queue \subseteq queue'
    BY <1>0, <1>3, EnqueueStep DEF TaskEnqueues
  <2> QED
    BY <1>0, <1>3, <2>1 DEF TaskEnqueues, Pending, syncVars
<1>4. CASE TakeBatch
  BY <1>4, BatchTaken DEF TakeBatch, Pending, queueVars, ramVars
<1>5. CASE PostDelivered
  BY <1>0, <1>5 DEF PostDelivered, Pending, queueVars, ramVars
<1>6. CASE PostFailed
  BY <1>6 DEF PostFailed
<1>7. CASE Commit
  <2>1. PICK b \in batch :
          IsHead(b) /\ MarkCommitted(b.ev.event_id) /\ batch' = batch \ {b}
    BY <1>7 DEF Commit
  <2>2. /\ sync' \in {"boot", "top", "upload", "commit", "compact"}
        /\ sync' \in {"upload", "commit"} <=> batch' # {}
    BY <1>7 DEF Commit
  <2>3. \A p \in queue : p \in queue' \/ FirstWithId(p, b.ev.event_id)
    BY <1>0, <2>1, MarkStep
  <2>4. ASSUME NEW c \in batch', FirstWithId(c, b.ev.event_id) PROVE FALSE
    <3>1. c \in queue /\ b \in queue /\ c \in batch /\ c # b
      BY <1>0, <2>1 DEF Pending
    <3>2. c.pos <= b.pos /\ b.pos <= c.pos
      BY <2>1, <2>4, <3>1 DEF FirstWithId, IsHead
    <3>3. c.pos \in Nat /\ b.pos \in Nat
      BY <1>0, <3>1, EntryType DEF Inv, TypeOK
    <3> QED
      BY <1>0, <3>1, <3>2, <3>3 DEF PlacesInv
  <2>5. batch' \subseteq Pending'
    BY <1>0, <2>1, <2>3, <2>4 DEF Pending
  <2> QED
    BY <2>2, <2>5
<1>8. CASE CompactBatch
  BY <1>0, <1>8 DEF CompactBatch
<1>9. CASE LinkChanges \/ WriteFault \/ UNCHANGED deliveryVars
  <2>1. UNCHANGED <<queue, sync, batch>>
    BY <1>9 DEF LinkChanges, WriteFault, ArmWriteFault, deliveryVars, queueVars,
                ramVars, syncVars
  <2> QED
    BY <1>0, <2>1 DEF Pending
<1> QED
  BY <1>1, <1>2, <1>3, <1>4, <1>5, <1>6, <1>7, <1>8, <1>9 DEF DeliveryNext, SyncTask

(* The queue's part of a step, whoever makes it.                           *)
LEMMA QueuePart ==
  ASSUME DeliveryInv, [DeliveryNext]_deliveryVars
  PROVE  QueueStep
<1>0. Inv /\ PlacesInv /\ TRUE \in BOOLEAN
  BY DEF DeliveryInv
<1>1. CASE Reboot
  BY <1>0, <1>1, RecoverStep DEF Reboot
<1>2. CASE FinishBoot \/ TaskEnqueues
  BY <1>0, <1>2, EnqueueStep DEF FinishBoot, TaskEnqueues
<1>3. CASE TakeBatch \/ PostDelivered \/ PostFailed \/ LinkChanges \/ UNCHANGED deliveryVars
  <2>1. UNCHANGED vars
    BY <1>3 DEF TakeBatch, PostDelivered, PostFailed, LinkChanges, deliveryVars,
                queueVars, vars
  <2> QED
    BY <1>0, <2>1, QuietStep
<1>4. CASE Commit
  BY <1>0, <1>4, MarkStep DEF Commit
<1>5. CASE CompactBatch \/ WriteFault
  BY <1>0, <1>5, QuietStep DEF CompactBatch, WriteFault
<1> QED
  BY <1>1, <1>2, <1>3, <1>4, <1>5 DEF DeliveryNext, SyncTask

LEMMA DeliveryNextInv ==
  ASSUME DeliveryInv, [DeliveryNext]_deliveryVars
  PROVE  DeliveryInv'
<1>0. Inv /\ DeliveryTypeOK /\ BatchNotStale
  BY DEF DeliveryInv
<1>1. Inv'
  BY <1>0, DeliveryStepsQueue, NextInv
<1>2. QueueStep /\ PlacesInv'
  BY QueuePart DEF QueueStep
<1>3. OneIdPerTag' /\ OneReceiptPerId' /\ received' \in Seq(Event)
  <2>1. CASE received' = received
    BY <1>0, <1>2, <2>1, CopiesAfterQueue DEF DeliveryTypeOK
  <2>2. CASE PostDelivered
    <3>1. PICK b \in batch : Telemetry(b.ev)
      BY <2>2 DEF PostDelivered
    <3>2. b.ev \in Stored /\ UNCHANGED queueVars
      BY <1>0, <2>2 DEF PostDelivered, BatchNotStale, Pending, Stored
    <3> QED
      BY <3>1, <3>2, CopiesAfterPost
  <2>3. received' = received \/ PostDelivered
    BY DEF DeliveryNext, SyncTask, Reboot, FinishBoot, TaskEnqueues, TakeBatch, PostFailed,
           Commit, CompactBatch, LinkChanges, WriteFault, deliveryVars
  <2> QED
    BY <2>1, <2>2, <2>3
<1>4. batch' \subseteq Entry
  BY <1>1, BatchNext DEF Pending, Inv, TypeOK
<1>5. DeliveryTypeOK'
  BY <1>0, <1>1, <1>3, <1>4, BatchNext, NetworkNext DEF DeliveryTypeOK, Inv
<1>6. BatchNotStale'
  BY BatchNext DEF BatchNotStale
<1> QED
  BY <1>1, <1>2, <1>3, <1>5, <1>6 DEF DeliveryInv

THEOREM DeliveryInvariance == DeliverySpec => []DeliveryInv
<1>1. DeliveryInit => DeliveryInv
  BY DeliveryInitInv
<1>2. DeliveryInv /\ [DeliveryNext]_deliveryVars => DeliveryInv'
  BY DeliveryNextInv
<1> QED
  BY <1>1, <1>2, PTL DEF DeliverySpec

(* The device, the radio and the server keep their types.                  *)
THEOREM DeliveryTypeCorrect == DeliverySpec => []DeliveryTypeOK
<1>1. DeliveryInv => DeliveryTypeOK
  BY DEF DeliveryInv
<1> QED
  BY <1>1, DeliveryInvariance, PTL

(* What SyncTask is about to post or commit is unacknowledged in RAM,      *)
(* whatever the other tasks do between its calls.                          *)
THEOREM BatchStaysCurrent == DeliverySpec => []BatchNotStale
<1>1. DeliveryInv => BatchNotStale
  BY DEF DeliveryInv
<1> QED
  BY <1>1, DeliveryInvariance, PTL

(* The server never stores an event twice, although the device may post it *)
(* any number of times and may give its event id to a later event.         *)
THEOREM NoDuplicateAtServer == DeliverySpec => []NoDuplicateReceipt
<1>1. DeliveryInv => NoDuplicateReceipt
  <2> SUFFICES ASSUME DeliveryInv,
                      NEW i \in 1..Len(received), NEW j \in 1..Len(received),
                      received[i].tag = received[j].tag
               PROVE  i = j
    BY DEF NoDuplicateReceipt
  <2>1. received[i] \in Copies /\ received[j] \in Copies
    BY DEF Copies, AtServer
  <2> QED
    BY <2>1 DEF DeliveryInv, OneIdPerTag, OneReceiptPerId
<1> QED
  BY <1>1, DeliveryInvariance, PTL

(* The queue keeps its own guarantees under SyncTask, the reboots and the  *)
(* other tasks: Delivery uses it only through its methods.                 *)
THEOREM DeliveryRunsTheQueue == DeliverySpec => Spec
<1>1. DeliveryInit => Init
  BY DEF DeliveryInit
<1>2. DeliveryInv /\ [DeliveryNext]_deliveryVars => [Next]_vars
  BY DeliveryStepsQueue DEF DeliveryInv
<1> QED
  BY <1>1, <1>2, DeliveryInvariance, PTL DEF DeliverySpec, Spec

-----------------------------------------------------------------------------
(* A steady environment.  What the steps of the queue add to or take from  *)
(* what is pending: a new event comes last.                                *)
LEMMA PendingStep ==
  ASSUME DeliveryInv, InStepInv, [SteadyNext]_vars
  PROVE  \A q \in Pending' : q \in Pending \/ (q.pos = nextRecordId /\ q.ev.tag = made')
<1>1. Stays \/ (\E new \in Entry : Owes(new)) \/ (\E q \in Pending : Settles(q))
  BY StepShape
<1>2. CASE Stays
  BY <1>2 DEF Stays
<1>3. ASSUME NEW new \in Entry, Owes(new)
      PROVE  \A q \in Pending' : q \in Pending \/ (q.pos = nextRecordId /\ q.ev.tag = made')
  BY <1>3 DEF Owes
<1>4. ASSUME NEW q \in Pending, Settles(q)
      PROVE  Pending' \subseteq Pending
  BY <1>4 DEF Settles
<1> QED
  BY <1>1, <1>2, <1>3, <1>4

(* An event is made only while the next event has the next record's number. *)
LEMMA MadeInStep ==
  ASSUME InStepInv, [SteadyNext]_vars, made' = made + 1
  PROVE  nextEventId = nextRecordId
<1>1. made \in Nat
  BY DEF InStepInv, Inv, TypeOK
<1>2. \/ made' = made
      \/ ~appendFailed
  BY DEF SteadyNext, MarkCommitted, Compact, Recover, ArmWriteFault, vars, historyVars
<1> QED
  BY <1>1, <1>2 DEF InStepInv, InStep

(* The event SyncTask commits is the one that is acknowledged.             *)
LEMMA CommitSettles ==
  ASSUME DeliveryInv, InStepInv, NEW b \in Pending, MarkCommitted(b.ev.event_id)
  PROVE  Pending' = Pending \ {b} /\ acked' = acked \cup {b.ev.tag}
<1> DEFINE id == b.ev.event_id
<1>1. /\ StorageInv /\ TypeOK /\ SameNumbers /\ PlacesInv /\ LOG_EVENTS \in LogIds
      /\ b \in queue /\ ~b.ev.committed
  BY DEF DeliveryInv, InStepInv, Inv, LogIds, Pending
<1>2. \A q \in queue : FirstWithId(q, id) => q = b
  BY <1>1 DEF FirstWithId, SameNumbers, PlacesInv
<1>3. PICK s \in Status : MarkRecordCommitted(LOG_EVENTS, id, s) /\ Acknowledge(b, s)
  BY <1>1, <1>2 DEF MarkCommitted
<1>4. \E r \in logs[LOG_EVENTS] : r.id = id
  BY <1>1, OwedFacts, RecoverableFacts DEF Scanned
<1>5. s = "OK"
  BY <1>1, <1>3, <1>4, MarkFacts
<1> DEFINE done == [b EXCEPT !.ev.committed = TRUE]
<1>6. b \in Entry
  BY <1>1 DEF TypeOK
<1>7. done.ev.committed
  BY <1>6, MarkedEntry
<1>8. queue' = (queue \ {b}) \cup {done} /\ acked' = acked \cup {b.ev.tag}
  BY <1>3, <1>5 DEF Acknowledge
<1> HIDE DEF done
<1>9. Pending' = Pending \ {b}
  BY <1>7, <1>8 DEF Pending
<1> QED
  BY <1>8, <1>9

(* The head of the batch is the head of what is pending.                   *)
LEMMA HeadIsFirst ==
  ASSUME DeliveryInv, InStepInv, BatchIsFront, NEW b, IsHead(b)
  PROVE  /\ b \in Pending
         /\ \A q \in Pending : b.ev.tag <= q.ev.tag
         /\ \A c \in batch : IsHead(c) => c = b
<1>1. /\ b \in Pending /\ b \in batch /\ batch \subseteq Pending /\ Pending \subseteq Entry
  BY OwedFacts DEF IsHead, DeliveryInv, BatchNotStale
<1>2. \A q \in Pending : q.pos \in Nat /\ q.ev.tag \in Nat
  BY <1>1, EntryType
<1>3. \A p, q \in Pending : p.pos = q.pos => p = q
  BY OwedFacts
<1>4. \A q \in Pending : b.pos <= q.pos
  BY <1>1, <1>2 DEF BatchIsFront, IsHead
<1>5. \A q \in Pending : b.ev.tag <= q.ev.tag
  <2> SUFFICES ASSUME NEW q \in Pending PROVE b.ev.tag <= q.ev.tag
    OBVIOUS
  <2>1. CASE b.pos = q.pos
    BY <1>1, <1>2, <1>3, <2>1
  <2>2. CASE b.pos < q.pos
    BY <1>1, <1>2, <2>2 DEF InStepInv, UploadOrder
  <2> QED
    BY <1>1, <1>2, <1>4, <2>1, <2>2
<1>6. \A c \in batch : IsHead(c) => c = b
  BY <1>1, <1>2, <1>3 DEF IsHead
<1> QED
  BY <1>1, <1>5, <1>6

(* One tag to an event id, over every copy, after any step.                *)
LEMMA IdsNext ==
  ASSUME DeliveryInv, InStepInv, OneTagPerId, QueueStep, Inv', [SteadyNext]_vars,
         \A e \in AtServer' : e \in Copies
  PROVE  OneTagPerId'
<1>1. /\ nextRecordId \in Nat /\ nextRecordId' \in Nat /\ nextRecordId <= nextRecordId'
      /\ made' = made + 1 => nextEventId = nextRecordId
  BY MadeInStep DEF InStepInv, Inv, TypeOK, QueueStep
<1>2. \A e \in Copies : e.event_id \in Nat /\ e.event_id < nextRecordId
  BY CopiesType, ServerType
  DEF DeliveryInv, DeliveryTypeOK, Inv, OneTagPerId, Copies
<1>3. \A e \in Copies' :
        \/ \E f \in Copies : f.tag = e.tag /\ f.event_id = e.event_id
        \/ /\ made' = made + 1 /\ e.tag = made'
           /\ nextRecordId' = nextRecordId + 1 /\ e.event_id = nextRecordId
  BY <1>1 DEF Copies, QueueStep, OldOrNew
<1>4. \A e \in Copies' : e.event_id \in Nat /\ e.event_id < nextRecordId'
  BY <1>1, <1>2, <1>3
<1>5. ASSUME NEW e \in Copies', NEW f \in Copies', e.event_id = f.event_id
      PROVE  e.tag = f.tag
  BY <1>1, <1>2, <1>3, <1>5 DEF OneTagPerId
<1> QED
  BY <1>4, <1>5 DEF OneTagPerId

LEMMA ReceivedTagsAre == ReceivedTags = {e.tag : e \in AtServer}
BY DEF ReceivedTags, AtServer

(* The server answered a post: what it has is in order, is behind what is  *)
(* pending, and includes the event posted.                                 *)
LEMMA PostInStep ==
  ASSUME DeliveryInStepInv, PostDelivered
  PROVE  /\ \A e \in AtServer' : e \in Copies
         /\ AtServer \subseteq AtServer'
         /\ ReceivedIsBehind' /\ PostedWasReceived' /\ ReceivedInOrder'
<1>0. /\ DeliveryInv /\ InStepInv /\ BatchIsFront /\ OneTagPerId /\ ReceivedIsBehind
      /\ ReceivedInOrder /\ received \in Seq(Event) /\ TypeOK
  BY DEF DeliveryInStepInv, DeliveryInv, DeliveryTypeOK, Inv
<1>1. /\ UNCHANGED <<queue, batch>> /\ sync' = "commit"
      /\ Pending' = Pending
  BY DEF PostDelivered, queueVars, ramVars, Pending
<1>2. PICK b \in batch : IsHead(b) /\ Telemetry(b.ev)
  BY DEF PostDelivered
<1>3. /\ b \in Pending /\ b.ev \in Stored
      /\ \A q \in Pending : b.ev.tag <= q.ev.tag
      /\ \A c \in batch : IsHead(c) => c = b
  BY <1>0, <1>2, HeadIsFirst DEF Pending, Stored
<1>4. b.ev \in Event /\ b.ev.tag \in Nat
  BY <1>0, <1>3, CopiesType
<1>5. \A e \in AtServer : e.tag \in Nat
  BY <1>0, ServerType
<1>6. /\ received' \in Seq(Event)
      /\ \/ /\ received' = received
            /\ \E e \in AtServer : e.event_id = b.ev.event_id
         \/ /\ received' = Append(received, b.ev)
            /\ \A e \in AtServer : e.event_id # b.ev.event_id
      /\ \A e \in AtServer' : e \in AtServer \/ e = b.ev
      /\ AtServer \subseteq AtServer'
  BY <1>0, <1>2, <1>4, TelemetryShape
<1>7. \A e \in AtServer' : e \in Copies
  BY <1>3, <1>6 DEF Copies
<1>8. ReceivedIsBehind'
  BY <1>0, <1>1, <1>3, <1>6 DEF ReceivedIsBehind
<1>9. b.ev.tag \in {e.tag : e \in AtServer'}
  <2>1. CASE \E e \in AtServer : e.event_id = b.ev.event_id
    BY <1>0, <1>3, <1>6, <2>1 DEF OneTagPerId, Copies
  <2>2. CASE received' = Append(received, b.ev)
    <3>1. received'[Len(received) + 1] = b.ev /\ Len(received) + 1 \in 1..Len(received')
      BY <1>0, <1>4, <2>2
    <3> QED
      BY <3>1 DEF AtServer
  <2> QED
    BY <1>6, <2>1, <2>2
<1>10. PostedWasReceived'
  <2>1. ReceivedTags' = {e.tag : e \in AtServer'}
    BY DEF ReceivedTags, AtServer
  <2>2. \A c \in batch' : IsHead(c)' => c = b
    BY <1>1, <1>3 DEF IsHead
  <2> QED
    BY <1>9, <2>1, <2>2 DEF PostedWasReceived
<1>11. ReceivedInOrder'
  <2>1. CASE received' = received
    BY <1>0, <2>1 DEF ReceivedInOrder
  <2>2. CASE /\ received' = Append(received, b.ev)
             /\ \A e \in AtServer : e.event_id # b.ev.event_id
    <3>1. \A e \in AtServer : e.tag < b.ev.tag
      <4>1. \A e \in AtServer : e.tag # b.ev.tag
        BY <1>0, <1>3, <2>2 DEF DeliveryInv, OneIdPerTag, Copies
      <4>2. \A e \in AtServer : e.tag <= b.ev.tag
        BY <1>0, <1>3 DEF ReceivedIsBehind
      <4> QED
        BY <1>4, <1>5, <4>1, <4>2
    <3>2. /\ Len(received) \in Nat
          /\ Len(received') = Len(received) + 1
          /\ \A i \in 1..Len(received) : received'[i] = received[i]
          /\ received'[Len(received) + 1] = b.ev
      BY <1>0, <1>4, <2>2
    <3>3. \A i \in 1..Len(received) : received[i].tag < b.ev.tag
      BY <3>1 DEF AtServer
    <3>4. ASSUME NEW i \in 1..Len(received'), NEW j \in 1..Len(received'), i < j
          PROVE  received'[i].tag < received'[j].tag
      <4>1. i \in 1..Len(received) /\ (j \in 1..Len(received) \/ j = Len(received) + 1)
        BY <3>2, <3>4
      <4> QED
        BY <1>0, <3>2, <3>3, <3>4, <4>1 DEF ReceivedInOrder
    <3> QED
      BY <3>4 DEF ReceivedInOrder
  <2> QED
    BY <1>6, <2>1, <2>2
<1> QED
  BY <1>6, <1>7, <1>8, <1>10, <1>11

(* Nothing reached the server: what it has stays behind what is pending.   *)
LEMMA BehindNext ==
  ASSUME DeliveryInStepInv, [SteadyNext]_vars, QueueStep, received' = received
  PROVE  ReceivedIsBehind' /\ ReceivedInOrder'
<1>0. /\ DeliveryInv /\ InStepInv /\ ReceivedIsBehind /\ ReceivedInOrder
      /\ received \in Seq(Event) /\ made \in Nat /\ made' \in Nat /\ made <= made'
  BY DEF DeliveryInStepInv, DeliveryInv, DeliveryTypeOK, Inv, TypeOK, QueueStep
<1>1. AtServer' = AtServer
  BY DEF AtServer
<1>2. \A r \in AtServer : r.tag \in Nat /\ r.tag <= made
  BY <1>0, ServerType DEF DeliveryInv, OneIdPerTag, Copies
<1>3. ReceivedIsBehind'
  BY <1>0, <1>1, <1>2, PendingStep DEF ReceivedIsBehind
<1>4. ReceivedInOrder'
  BY <1>0 DEF ReceivedInOrder
<1> QED
  BY <1>3, <1>4

(* The batch stays the front, and what is acknowledged stays received.     *)
LEMMA BatchInStep ==
  ASSUME DeliveryInStepInv, DeliveryInv', [SteadyNext]_vars,
         [DeliveryNext]_deliveryVars
  PROVE  BatchIsFront' /\ acked' \subseteq ReceivedTags
<1>0. /\ DeliveryInv /\ InStepInv /\ BatchIsFront /\ acked \subseteq ReceivedTags
      /\ batch \subseteq Pending /\ PlacesInv /\ Pending \subseteq queue
      /\ PostedWasReceived /\ nextRecordId \in Nat
  BY DEF DeliveryInStepInv, DeliveryInv, BatchNotStale, AckedWasReceived, Inv, TypeOK, Pending
<1>1. \A b \in batch : b.pos \in Nat /\ b.pos < nextRecordId
  BY <1>0, EntryType DEF PlacesInv, DeliveryInv, DeliveryTypeOK
<1>2. ASSUME batch' = {} PROVE BatchIsFront'
  BY <1>2 DEF BatchIsFront
<1>3. ASSUME batch' = batch PROVE BatchIsFront'
  <2> SUFFICES ASSUME NEW b \in batch, NEW q \in Pending', q.pos < b.pos
               PROVE  q \in batch
    BY <1>3 DEF BatchIsFront
  <2>1. q \in Pending \/ q.pos = nextRecordId
    BY <1>0, PendingStep
  <2> QED
    BY <1>0, <1>1, <2>1 DEF BatchIsFront
<1>4. ASSUME TakeBatch PROVE BatchIsFront' /\ acked' = acked
  <2>1. Pending' = Pending /\ acked' = acked
    BY <1>4 DEF TakeBatch, Pending, queueVars, ramVars, historyVars
  <2> QED
    BY <1>4, <2>1, BatchTaken DEF TakeBatch, BatchIsFront
<1>5. ASSUME Commit
      PROVE  BatchIsFront' /\ acked' \subseteq ReceivedTags
  <2>1. PICK b \in batch :
          IsHead(b) /\ MarkCommitted(b.ev.event_id) /\ batch' = batch \ {b}
    BY <1>5 DEF Commit
  <2>2. Pending' = Pending \ {b} /\ acked' = acked \cup {b.ev.tag}
    BY <1>0, <2>1, CommitSettles
  <2>3. BatchIsFront'
    BY <1>0, <2>1, <2>2 DEF BatchIsFront
  <2>4. b.ev.tag \in ReceivedTags
    BY <1>0, <1>5, <2>1 DEF PostedWasReceived, Commit
  <2> QED
    BY <1>0, <2>2, <2>3, <2>4
<1>6. ASSUME Reboot \/ PostFailed
      PROVE  batch' = {} /\ acked' = acked
  BY <1>6 DEF Reboot, PostFailed, Recover, historyVars, queueVars
<1>7. ASSUME \/ FinishBoot \/ TaskEnqueues \/ PostDelivered \/ CompactBatch
             \/ LinkChanges \/ WriteFault \/ UNCHANGED deliveryVars
      PROVE  batch' = batch /\ acked' = acked
  BY <1>7 DEF FinishBoot, TaskEnqueues, PostDelivered, CompactBatch, LinkChanges, WriteFault,
              Enqueue, Compact, ArmWriteFault, deliveryVars, syncVars, queueVars, historyVars
<1> QED
  BY <1>0, <1>2, <1>3, <1>4, <1>5, <1>6, <1>7 DEF DeliveryNext, SyncTask

(* SyncTask is about to commit only what it posted.                        *)
LEMMA PostedNext ==
  ASSUME DeliveryInStepInv, [DeliveryNext]_deliveryVars, received' = received, ~PostDelivered
  PROVE  PostedWasReceived'
<1>1. sync' = "commit" => sync = "commit" /\ batch' = batch
  BY DEF DeliveryNext, SyncTask, Reboot, FinishBoot, TaskEnqueues, TakeBatch, PostFailed,
         Commit, CompactBatch, LinkChanges, WriteFault, deliveryVars, syncVars
<1>2. ReceivedTags' = ReceivedTags
  BY DEF ReceivedTags
<1>3. batch' = batch => \A b \in batch : IsHead(b)' => IsHead(b)
  BY DEF IsHead
<1> QED
  BY <1>1, <1>2, <1>3 DEF DeliveryInStepInv, PostedWasReceived

LEMMA DeliveryInStepInit == DeliveryInit => DeliveryInStepInv
<1> SUFFICES ASSUME DeliveryInit PROVE DeliveryInStepInv
  OBVIOUS
<1>1. DeliveryInv /\ InStepInv
  BY DeliveryInitInv, InStepInit DEF DeliveryInit
<1>2. /\ logs[LOG_EVENTS] = {} /\ queue = {} /\ received = <<>> /\ batch = {}
      /\ sync = "boot" /\ acked = {}
  BY DEF DeliveryInit, Init, StorageInit, LogIds, ServerInit
<1>3. Copies = {} /\ AtServer = {} /\ \A i \in 1..Len(received) : FALSE
  BY <1>2 DEF Copies, Stored, AtServer
<1>4. /\ OneTagPerId /\ BatchIsFront /\ ReceivedIsBehind /\ PostedWasReceived
      /\ AckedWasReceived /\ ReceivedInOrder
  BY <1>2, <1>3 DEF OneTagPerId, BatchIsFront, ReceivedIsBehind, PostedWasReceived,
                    AckedWasReceived, ReceivedInOrder
<1> QED
  BY <1>1, <1>4 DEF DeliveryInStepInv

LEMMA DeliveryInStepNext ==
  ASSUME DeliveryInStepInv, [SteadyDeliveryNext]_deliveryVars
  PROVE  DeliveryInStepInv'
<1>0. DeliveryInv /\ InStepInv /\ BatchNotStale /\ [DeliveryNext]_deliveryVars
  BY SteadyIsDelivery DEF DeliveryInStepInv, DeliveryInv
<1>1. [SteadyNext]_vars
  BY <1>0, SteadyStepsQueue
<1>2. DeliveryInv' /\ InStepInv' /\ QueueStep
  BY <1>0, <1>1, DeliveryNextInv, InStepNext, QueuePart
<1>6. OneTagPerId /\ Inv'
  BY <1>2 DEF DeliveryInStepInv, DeliveryInv
<1>3. BatchIsFront' /\ acked' \subseteq ReceivedTags
  BY <1>0, <1>1, <1>2, BatchInStep
<1>4. CASE PostDelivered
  <2>1. /\ \A e \in AtServer' : e \in Copies
        /\ AtServer \subseteq AtServer'
        /\ ReceivedIsBehind' /\ PostedWasReceived' /\ ReceivedInOrder'
    BY <1>4, PostInStep
  <2>2. OneTagPerId'
    BY <1>0, <1>1, <1>2, <1>6, <2>1, IdsNext
  <2>3. AckedWasReceived'
    <3>1. ReceivedTags' = {e.tag : e \in AtServer'}
      BY DEF ReceivedTags, AtServer
    <3>2. ReceivedTags \subseteq ReceivedTags'
      BY <2>1, <3>1, ReceivedTagsAre
    <3> QED
      BY <1>3, <3>2 DEF AckedWasReceived
  <2> QED
    BY <1>2, <1>3, <2>1, <2>2, <2>3 DEF DeliveryInStepInv
<1>5. CASE ~PostDelivered
  <2>1. received' = received
    BY <1>0, <1>5 DEF DeliveryNext, SyncTask, Reboot, FinishBoot, TaskEnqueues, TakeBatch,
           PostFailed, Commit, CompactBatch, LinkChanges, WriteFault, deliveryVars
  <2>2. ReceivedIsBehind' /\ ReceivedInOrder'
    BY <1>1, <1>2, <2>1, BehindNext
  <2>3. PostedWasReceived'
    BY <1>0, <1>5, <2>1, PostedNext
  <2>4. OneTagPerId'
    <3>1. \A e \in AtServer' : e \in Copies
      BY <2>1 DEF AtServer, Copies
    <3> QED
      BY <1>0, <1>1, <1>2, <1>6, <3>1, IdsNext
  <2>5. AckedWasReceived'
    BY <1>3, <2>1 DEF AckedWasReceived, ReceivedTags
  <2> QED
    BY <1>2, <1>3, <2>2, <2>3, <2>4, <2>5 DEF DeliveryInStepInv
<1> QED
  BY <1>4, <1>5

THEOREM DeliveryInStepInvariance == DeliverySteadySpec => []DeliveryInStepInv
<1>1. DeliveryInit => DeliveryInStepInv
  BY DeliveryInStepInit
<1>2. DeliveryInStepInv /\ [SteadyDeliveryNext]_deliveryVars => DeliveryInStepInv'
  BY DeliveryInStepNext
<1> QED
  BY <1>1, <1>2, PTL DEF DeliverySteadySpec

(* What the device takes for acknowledged, the server has.                 *)
THEOREM AcknowledgedIsAtServer == DeliverySteadySpec => []AckedWasReceived
<1>1. DeliveryInStepInv => AckedWasReceived
  BY DEF DeliveryInStepInv
<1> QED
  BY <1>1, DeliveryInStepInvariance, PTL

(* The server gets the events in the order they were made.                 *)
THEOREM ReceiptIsOrdered == DeliverySteadySpec => []ReceivedInOrder
<1>1. DeliveryInStepInv => ReceivedInOrder
  BY DEF DeliveryInStepInv
<1> QED
  BY <1>1, DeliveryInStepInvariance, PTL

(* The whole device with its radio and server is still a durable outbox:   *)
(* every accepted event is owed until it is acknowledged.                  *)
THEOREM DeliveryImplementsOutbox == DeliverySteadySpec => OutboxSpec
<1>1. DeliveryInit => Init
  BY DEF DeliveryInit
<1>2. DeliveryInStepInv /\ [SteadyDeliveryNext]_deliveryVars => [SteadyNext]_vars
  BY SteadyStepsQueue DEF DeliveryInStepInv, DeliveryInv
<1>3. DeliverySteadySpec => SteadySpec
  BY <1>1, <1>2, DeliveryInStepInvariance, PTL DEF DeliverySteadySpec, SteadySpec
<1> QED
  BY <1>3, ImplementsOutbox, PTL
=============================================================================
