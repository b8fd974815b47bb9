-------------------------- MODULE EventQueueProofs --------------------------
(***************************************************************************)
(* Proofs about EventQueue, for every capacity, size of log and number of  *)
(* events: the safety properties of every behaviour (Spec), with the       *)
(* invariant that makes them inductive; and those of a steady environment  *)
(* (SteadySpec), in which event ids and record ids are proved to stay in   *)
(* step and the queue to implement the abstract outbox.                    *)
(***************************************************************************)
EXTENDS EventQueue, SimStorageProofs

\* RAM is finite, and an acknowledged entry has an id whose record is in the
\* past: no later append can be given that number.
RamInv ==
  /\ IsFiniteSet(queue)
  /\ Cardinality(queue) <= MAX_QUEUE_SIZE
  /\ \A q \in queue : q.ev.committed => q.ev.event_id < nextRecordId

\* The inductive invariant of Spec.
Inv ==
  /\ TypeOK
  /\ StorageInv
  /\ RamInv
  /\ RejectedLeavesNoTrace
  /\ AckPersistedFirst

USE QueueAssumption, RecordLimitAssumption

-----------------------------------------------------------------------------
(* The type invariant, action by action.                                   *)
LEMMA EntryType ==
  ASSUME NEW q \in Entry
  PROVE  /\ q.pos \in Nat
         /\ q.ev \in Event
         /\ q.ev.event_id \in Nat \ {0}
         /\ q.ev.sequence_number \in Nat \ {0}
         /\ q.ev.committed \in BOOLEAN
         /\ q.ev.tag \in Nat \ {0}
         /\ q = [pos |-> q.pos, ev |-> q.ev]
BY DEF Entry, Event

(* Every recoverable entry is well typed, and comes from a record.         *)
LEMMA RecoverableType ==
  ASSUME TypeOK
  PROVE  /\ Recoverable \subseteq Entry
         /\ \A q \in Recoverable :
              /\ ~q.ev.committed
              /\ \E r \in Scanned(LOG_EVENTS) : q = [pos |-> r.id, ev |-> r.data]
BY DEF TypeOK, Recoverable, Scanned, Record, Entry, Event

LEMMA NewEventType ==
  ASSUME TypeOK, made' = made + 1
  PROVE  /\ NewEvent \in Event
         /\ NewEvent.tag = made'
         /\ NewEvent.event_id = nextEventId
         /\ NewEvent.sequence_number = nextSequence
         /\ ~NewEvent.committed
BY DEF TypeOK, NewEvent, Event

-----------------------------------------------------------------------------
LEMMA InitInv == Init => Inv
<1> SUFFICES ASSUME Init PROVE Inv
  OBVIOUS
<1>1. /\ StorageInv
      /\ logs = [log \in LogIds |-> {}]
      /\ nextRecordId = 1
      /\ corruptNextWrite = FALSE
  BY StorageInitInv DEF Init, StorageInit
<1>2. TypeOK
  BY <1>1 DEF Init, TypeOK, StorageInv, LogIds
<1>3. RamInv
  BY FS_EmptySet DEF Init, RamInv
<1>4. RejectedLeavesNoTrace /\ AckPersistedFirst
  BY <1>1 DEF Init, RejectedLeavesNoTrace, AckPersistedFirst, TagsOf, LogIds
<1> QED
  BY <1>1, <1>2, <1>3, <1>4 DEF Inv

(* Storage and the two ends of the queue as they were: so is the invariant. *)
LEMMA SameInv ==
  ASSUME Inv, UNCHANGED storageVars,
         UNCHANGED <<queue, nextEventId, nextSequence, accepted, acked, appendFailed>>,
         made' \in Nat
  PROVE  Inv'
<1>1. UNCHANGED <<logs, nextRecordId, corruptNextWrite>>
  BY DEF storageVars
<1>2. StorageInv'
  BY <1>1 DEF Inv, StorageInv, LogInv
<1>3. TypeOK'
  BY <1>1 DEF Inv, TypeOK
<1>4. RamInv' /\ RejectedLeavesNoTrace' /\ AckPersistedFirst'
  BY <1>1 DEF Inv, RamInv, RejectedLeavesNoTrace, AckPersistedFirst, TagsOf, Scanned
<1> QED
  BY <1>2, <1>3, <1>4 DEF Inv

(* What a step of enqueue that finds room does to the log of events and to *)
(* RAM, with the event written named.                                      *)
LEMMA EnqueueShape ==
  ASSUME Inv, NEW fits \in BOOLEAN, Enqueue(fits), HasRoom
  PROVE  \E ev \in Event, s \in Status :
           /\ AppendRecord(LOG_EVENTS, ev, fits, s)
           /\ ev.tag = made' /\ ev.event_id = nextEventId
           /\ ev.sequence_number = nextSequence /\ ~ev.committed
           /\ s = "OK" =>
                /\ queue' = queue \cup {[pos |-> nextRecordId, ev |-> ev]}
                /\ accepted' = accepted \cup {made'}
                /\ appendFailed' = appendFailed
           /\ s # "OK" => UNCHANGED <<queue, accepted>> /\ appendFailed' = TRUE
<1>1. PICK s \in Status : /\ AppendRecord(LOG_EVENTS, NewEvent, fits, s) /\ Push(s)
                          /\ appendFailed' = (appendFailed \/ s # "OK")
  BY DEF Enqueue
<1>6. /\ s = "OK" => appendFailed' = appendFailed
      /\ s # "OK" => appendFailed' = TRUE
  BY <1>1 DEF Inv, TypeOK
<1>2. /\ NewEvent \in Event
      /\ NewEvent.tag = made' /\ NewEvent.event_id = nextEventId
      /\ NewEvent.sequence_number = nextSequence /\ ~NewEvent.committed
  BY NewEventType DEF Enqueue, Inv
<1>3. PICK ev \in Event : ev = NewEvent
  BY <1>2
<1>4. AppendRecord(LOG_EVENTS, ev, fits, s) /\ Push(s)
  BY <1>1, <1>3
<1>5. WITNESS ev \in Event, s \in Status
<1> QED
  BY <1>2, <1>3, <1>4, <1>6 DEF Push

LEMMA EnqueueInv ==
  ASSUME Inv, NEW fits \in BOOLEAN, Enqueue(fits)
  PROVE  Inv'
<1>0. made \in Nat /\ made' = made + 1 /\ acked' = acked
  BY DEF Enqueue, Inv, TypeOK
<1>1. CASE ~HasRoom
  <2>1. /\ UNCHANGED storageVars
        /\ UNCHANGED <<queue, nextEventId, nextSequence, accepted, acked, appendFailed>>
    BY <1>0, <1>1 DEF Enqueue, ramVars
  <2> QED
    BY <1>0, <2>1, SameInv DEF Inv, TypeOK
<1>2. CASE HasRoom
  <2>1. PICK ev \in Event, s \in Status :
           /\ AppendRecord(LOG_EVENTS, ev, fits, s)
           /\ ev.tag = made' /\ ev.event_id = nextEventId
           /\ ev.sequence_number = nextSequence /\ ~ev.committed
           /\ s = "OK" =>
                /\ queue' = queue \cup {[pos |-> nextRecordId, ev |-> ev]}
                /\ accepted' = accepted \cup {made'}
                /\ appendFailed' = appendFailed
           /\ s # "OK" => UNCHANGED <<queue, accepted>> /\ appendFailed' = TRUE
    BY <1>2, EnqueueShape
  <2>2. LOG_EVENTS \in LogIds /\ LOG_DIAGNOSTICS \in LogIds /\ LOG_EVENTS # LOG_DIAGNOSTICS
    BY DEF LogIds, LOG_EVENTS, LOG_DIAGNOSTICS
  <2>3. StorageInv' /\ nextRecordId \in Nat \ {0}
    BY <2>1, <2>2, AppendInv DEF Inv, StorageInv
  <2>4. /\ logs'[LOG_EVENTS] \subseteq logs[LOG_EVENTS] \cup {Appended(ev)}
        /\ s # "OK" => logs'[LOG_EVENTS] \subseteq logs[LOG_EVENTS]
        /\ logs'[LOG_DIAGNOSTICS] = logs[LOG_DIAGNOSTICS]
        /\ s = "OK" => Scanned(LOG_EVENTS)' = Scanned(LOG_EVENTS) \cup {Appended(ev)}
        /\ s # "OK" => Scanned(LOG_EVENTS)' = Scanned(LOG_EVENTS)
    <3>1. StorageInv /\ AppendRecord(LOG_EVENTS, ev, fits, s)
      BY <2>1 DEF Inv
    <3>2. logs'[LOG_EVENTS] \subseteq logs[LOG_EVENTS] \cup {Appended(ev)}
      BY <2>2, <3>1, AppendScanned
    <3>6. s # "OK" => logs'[LOG_EVENTS] \subseteq logs[LOG_EVENTS]
      <4> SUFFICES ASSUME s # "OK" PROVE \A r \in logs'[LOG_EVENTS] : r \in logs[LOG_EVENTS]
        OBVIOUS
      <4> QED
        BY <2>2, <3>1, AppendFailed
    <3>5. logs'[LOG_DIAGNOSTICS] = logs[LOG_DIAGNOSTICS]
      BY <2>2, <3>1, AppendScanned
    <3>3. s = "OK" => Scanned(LOG_EVENTS)' = Scanned(LOG_EVENTS) \cup {Appended(ev)}
      BY <2>2, <3>1, AppendScanned
    <3>4. s # "OK" => Scanned(LOG_EVENTS)' = Scanned(LOG_EVENTS)
      BY <2>2, <3>1, AppendScanned
    <3> QED
      BY <3>2, <3>3, <3>4, <3>5, <3>6
  <2>5. nextRecordId' = nextRecordId \/ nextRecordId' = nextRecordId + 1
    BY <2>1, <2>2, AppendShape DEF Inv
  <2> DEFINE new == [pos |-> nextRecordId, ev |-> ev]
  <2>6. new \in Entry /\ new.ev = ev /\ Appended(ev) \in Record(Event)
        /\ Appended(ev).data = ev /\ Appended(ev).id = nextRecordId
    BY <2>3 DEF Entry, Record, Appended
  <2>7. queue' \subseteq queue \cup {new}
    BY <2>1
  <2> HIDE DEF new
  <2>8. TypeOK'
    <3>1. /\ logs'[LOG_EVENTS] \subseteq Record(Event)
          /\ logs'[LOG_DIAGNOSTICS] \subseteq Record({"diagnostics"})
          /\ queue' \subseteq Entry
      BY <2>4, <2>6, <2>7 DEF Inv, TypeOK
    <3>2. /\ nextEventId' \in Nat \ {0}
          /\ nextSequence' \in Nat \ {0}
          /\ made' \in Nat
          /\ accepted' \subseteq Nat
          /\ acked' \subseteq Nat
      BY <1>0, <1>2, <2>1 DEF Enqueue, Inv, TypeOK
    <3>3. appendFailed' \in BOOLEAN
      BY <2>1 DEF Inv, TypeOK
    <3> QED
      BY <2>3, <3>1, <3>2, <3>3 DEF TypeOK, StorageInv
  <2>9. RamInv'
    <3>1. /\ IsFiniteSet(queue)
          /\ Cardinality(queue) \in Nat
          /\ Cardinality(queue) < MAX_QUEUE_SIZE
      BY <1>2, FS_CardinalityType DEF Inv, RamInv, HasRoom
    <3>2. /\ IsFiniteSet(queue')
          /\ \/ Cardinality(queue') = Cardinality(queue)
             \/ Cardinality(queue') = Cardinality(queue) + 1
      <4>1. /\ IsFiniteSet(queue \cup {new})
            /\ \/ Cardinality(queue \cup {new}) = Cardinality(queue)
               \/ Cardinality(queue \cup {new}) = Cardinality(queue) + 1
        BY <3>1, FS_AddElement
      <4>2. queue' = queue \cup {new} \/ queue' = queue
        BY <2>1 DEF new
      <4> QED
        BY <3>1, <4>1, <4>2
    <3>3. \A q \in queue' : q.ev.committed => q.ev.event_id < nextRecordId'
      <4>1. \A q \in queue : q.ev.committed => q.ev.event_id < nextRecordId
        BY DEF Inv, RamInv
      <4>2. \A q \in queue : q.ev.event_id \in Nat
        BY EntryType DEF Inv, TypeOK
      <4>3. ~new.ev.committed
        BY <2>1, <2>6
      <4> QED
        BY <2>3, <2>5, <2>7, <4>1, <4>2, <4>3
    <3> QED
      BY <3>1, <3>2, <3>3 DEF RamInv
  <2>10. RejectedLeavesNoTrace'
    BY <1>0, <2>1, <2>4, <2>6, <2>7 DEF Inv, RejectedLeavesNoTrace, TagsOf
  <2>11. AckPersistedFirst'
    <3> SUFFICES ASSUME NEW q \in queue', q.ev.committed,
                        NEW r \in Scanned(LOG_EVENTS)'
                 PROVE  r.id # q.ev.event_id
      BY DEF AckPersistedFirst
    <3>1. q \in queue
      BY <2>1, <2>6, <2>7
    <3>2. q.ev.event_id < nextRecordId /\ q.ev.event_id \in Nat
      BY <3>1, EntryType DEF Inv, RamInv, TypeOK
    <3>3. CASE r \in Scanned(LOG_EVENTS)
      BY <3>1, <3>3 DEF Inv, AckPersistedFirst
    <3>4. CASE r = Appended(ev)
      BY <2>3, <2>6, <3>2, <3>4
    <3> QED
      BY <2>4, <3>3, <3>4
  <2> QED
    BY <2>3, <2>8, <2>9, <2>10, <2>11 DEF Inv
<1> QED
  BY <1>1, <1>2
-----------------------------------------------------------------------------
(* What a call of mark_committed that reaches storage does.                *)
LEMMA MarkedEntry ==
  ASSUME NEW q \in Entry
  PROVE  /\ [q EXCEPT !.ev.committed = TRUE] \in Entry
         /\ [q EXCEPT !.ev.committed = TRUE].ev.committed
         /\ [q EXCEPT !.ev.committed = TRUE].pos = q.pos
         /\ [q EXCEPT !.ev.committed = TRUE].ev.event_id = q.ev.event_id
         /\ [q EXCEPT !.ev.committed = TRUE].ev.tag = q.ev.tag
BY DEF Entry, Event

LEMMA MarkCommittedInv ==
  ASSUME Inv, NEW id \in Nat, MarkCommitted(id)
  PROVE  Inv'
<1>0. /\ UNCHANGED <<nextEventId, nextSequence, made, accepted, appendFailed>>
      /\ made \in Nat
  BY DEF MarkCommitted, Inv, TypeOK
<1>1. CASE UNCHANGED <<storageVars, queue, acked>>
  BY <1>0, <1>1, SameInv
<1>2. CASE \E q \in queue, s \in Status :
             /\ q.ev.event_id = id
             /\ MarkRecordCommitted(LOG_EVENTS, id, s)
             /\ Acknowledge(q, s)
  <2>1. PICK q \in queue, s \in Status :
             /\ q.ev.event_id = id
             /\ MarkRecordCommitted(LOG_EVENTS, id, s)
             /\ Acknowledge(q, s)
    BY <1>2
  <2>2. LOG_EVENTS \in LogIds /\ LOG_DIAGNOSTICS \in LogIds /\ LOG_EVENTS # LOG_DIAGNOSTICS
    BY DEF LogIds, LOG_EVENTS, LOG_DIAGNOSTICS
  <2>3. StorageInv /\ q \in Entry
    BY DEF Inv, TypeOK
  <2>4. /\ StorageInv'
        /\ nextRecordId' = nextRecordId
        /\ Scanned(LOG_EVENTS)' = {r \in Scanned(LOG_EVENTS) : r.id # id}
    BY <2>1, <2>2, <2>3, MarkFacts
  <2>5. /\ \A r \in logs'[LOG_EVENTS] :
             \E t \in logs[LOG_EVENTS] : t.id = r.id /\ t.data = r.data
        /\ logs'[LOG_DIAGNOSTICS] = logs[LOG_DIAGNOSTICS]
    BY <2>1, <2>2, <2>3, MarkFacts
  <2>6. s = "OK" => \E r \in logs[LOG_EVENTS] : r.id = id
    BY <2>1, <2>2, <2>3, MarkFacts
  <2> DEFINE done == [q EXCEPT !.ev.committed = TRUE]
  <2>7. /\ done \in Entry
        /\ done.ev.event_id = id
        /\ done.ev.tag = q.ev.tag
    BY <2>1, <2>3, MarkedEntry
  <2>8. \/ /\ s = "OK"
           /\ queue' = (queue \ {q}) \cup {done}
           /\ acked' = acked \cup {q.ev.tag}
        \/ queue' = queue /\ acked' = acked
    BY <2>1 DEF Acknowledge
  <2> HIDE DEF done
  <2>9. TypeOK'
    <3>1. logs'[LOG_EVENTS] \subseteq Record(Event)
      <4>1. \A r \in logs'[LOG_EVENTS] : IsRecord(r)
        BY <2>2, <2>4 DEF StorageInv, LogInv, IsRecord, Record
      <4>2. \A r \in logs'[LOG_EVENTS] : r.data \in Event
        BY <2>5 DEF Inv, TypeOK, Record
      <4> QED
        BY <4>1, <4>2 DEF IsRecord, Record
    <3>2. queue' \subseteq Entry /\ acked' \subseteq Nat
      BY <2>3, <2>7, <2>8, EntryType DEF Inv, TypeOK
    <3> QED
      BY <1>0, <2>4, <2>5, <3>1, <3>2 DEF Inv, TypeOK, StorageInv
  <2>10. RamInv'
    <3>1. IsFiniteSet(queue) /\ Cardinality(queue) \in Nat
      BY FS_CardinalityType DEF Inv, RamInv
    <3> DEFINE rest == queue \ {q}
    <3>2. IsFiniteSet(rest) /\ Cardinality(rest) = Cardinality(queue) - 1
      BY <3>1, FS_RemoveElement
    <3>3. queue' = rest \cup {done} \/ queue' = queue
      BY <2>8
    <3> HIDE DEF rest
    <3>4. IsFiniteSet(queue') /\ Cardinality(queue') <= Cardinality(queue)
      <4>1. /\ IsFiniteSet(rest \cup {done})
            /\ \/ Cardinality(rest \cup {done}) = Cardinality(rest)
               \/ Cardinality(rest \cup {done}) = Cardinality(rest) + 1
        BY <3>2, FS_AddElement
      <4> QED
        BY <3>1, <3>2, <3>3, <4>1
    <3>5. Cardinality(queue') \in Nat
      BY <3>4, FS_CardinalityType
    <3>6. s = "OK" => id < nextRecordId
      BY <2>2, <2>3, <2>6 DEF StorageInv, LogInv
    <3>7. \A p \in queue' : p.ev.committed => p.ev.event_id < nextRecordId'
      BY <2>4, <2>7, <2>8, <3>6 DEF Inv, RamInv
    <3> QED
      BY <3>1, <3>4, <3>5, <3>7 DEF Inv, RamInv
  <2>11. RejectedLeavesNoTrace'
    <3>1. TagsOf(queue)' \subseteq TagsOf(queue)
      BY <2>7, <2>8 DEF TagsOf
    <3>2. {r.data.tag : r \in logs[LOG_EVENTS]}' \subseteq {r.data.tag : r \in logs[LOG_EVENTS]}
      BY <2>5
    <3> QED
      BY <1>0, <3>1, <3>2 DEF Inv, RejectedLeavesNoTrace
  <2>12. AckPersistedFirst'
    BY <2>4, <2>7, <2>8 DEF Inv, AckPersistedFirst
  <2> QED
    BY <2>4, <2>9, <2>10, <2>11, <2>12 DEF Inv
<1> QED
  BY <1>1, <1>2 DEF MarkCommitted, FirstWithId

LEMMA CompactInv ==
  ASSUME Inv, Compact
  PROVE  Inv'
<1>1. /\ queue' \subseteq queue
      /\ UNCHANGED <<logs, nextRecordId, corruptNextWrite>>
      /\ UNCHANGED <<nextEventId, nextSequence, made, accepted, acked, appendFailed>>
  BY DEF Compact, Pending, storageVars, historyVars
<1>2. TypeOK'
  BY <1>1 DEF Inv, TypeOK
<1>3. StorageInv'
  BY <1>1 DEF Inv, StorageInv, LogInv
<1>4. RamInv'
  <2>1. IsFiniteSet(queue) /\ Cardinality(queue) \in Nat
    BY FS_CardinalityType DEF Inv, RamInv
  <2>2. IsFiniteSet(queue') /\ Cardinality(queue') <= Cardinality(queue)
    BY <1>1, <2>1, FS_Subset
  <2>3. Cardinality(queue') \in Nat
    BY <2>2, FS_CardinalityType
  <2> QED
    BY <1>1, <2>1, <2>2, <2>3 DEF Inv, RamInv
<1>5. RejectedLeavesNoTrace' /\ AckPersistedFirst'
  BY <1>1 DEF Inv, RejectedLeavesNoTrace, AckPersistedFirst, TagsOf, Scanned
<1> QED
  BY <1>2, <1>3, <1>4, <1>5 DEF Inv

(* Any set of recovered entries is finite: an entry is a record without its *)
(* flag, and the log is finite.                                            *)
LEMMA RecoveredFinite ==
  ASSUME NEW R, IsFiniteSet(R), NEW Q,
         \A q \in Q : \E r \in R : q = [pos |-> r.id, ev |-> r.data]
  PROVE  IsFiniteSet(Q)
<1> DEFINE f == [r \in R |-> [pos |-> r.id, ev |-> r.data]]
<1> DEFINE T == {f[r] : r \in R}
<1>1. f \in Surjection(R, T)
  BY DEF Surjection
<1>2. IsFiniteSet(T)
  BY <1>1, FS_Surjection
<1>3. Q \subseteq T
  OBVIOUS
<1> QED
  BY <1>2, <1>3, FS_Subset

LEMMA RecoverInv ==
  ASSUME Inv, Recover
  PROVE  Inv'
<1>1. /\ queue' \subseteq Recoverable
      /\ Cardinality(queue') <= MAX_QUEUE_SIZE
      /\ UNCHANGED <<logs, nextRecordId, corruptNextWrite>>
      /\ UNCHANGED <<made, accepted, acked>> /\ appendFailed' = FALSE
  BY DEF Recover, FirstUpTo, storageVars, historyVars
<1>2. /\ queue' \subseteq Entry
      /\ \A q \in queue' :
           /\ ~q.ev.committed
           /\ \E r \in Scanned(LOG_EVENTS) : q = [pos |-> r.id, ev |-> r.data]
  BY <1>1, RecoverableType DEF Inv
<1>3. nextEventId' \in Nat \ {0}
  BY <1>2, EntryType DEF Recover, PastIds
<1>4. nextSequence' \in Nat \ {0}
  BY <1>2, EntryType DEF Recover, PastSequences
<1>5. TypeOK'
  BY <1>1, <1>2, <1>3, <1>4 DEF Inv, TypeOK
<1>6. StorageInv'
  BY <1>1 DEF Inv, StorageInv, LogInv
<1>7. RamInv'
  <2>1. IsFiniteSet(logs[LOG_EVENTS])
    BY DEF Inv, StorageInv, LogInv, LogIds
  <2>2. \A q \in queue' : \E r \in logs[LOG_EVENTS] : q = [pos |-> r.id, ev |-> r.data]
    BY <1>2 DEF Scanned
  <2>3. IsFiniteSet(queue')
    BY <2>1, <2>2, RecoveredFinite
  <2> QED
    BY <1>1, <1>2, <2>3 DEF RamInv
<1>8. RejectedLeavesNoTrace'
  <2>1. TagsOf(queue') \subseteq {r.data.tag : r \in logs[LOG_EVENTS]}
    BY <1>2 DEF TagsOf, Scanned
  <2> QED
    BY <1>1, <2>1 DEF Inv, RejectedLeavesNoTrace, TagsOf
<1>9. AckPersistedFirst'
  BY <1>2 DEF AckPersistedFirst
<1> QED
  BY <1>5, <1>6, <1>7, <1>8, <1>9 DEF Inv

(* The two steps of the environment.                                       *)
LEMMA EnvironmentInv ==
  ASSUME Inv, OtherClientAppends \/ ArmWriteFault
  PROVE  Inv'
<1>0. UNCHANGED <<queue, nextEventId, nextSequence, made, accepted, acked, appendFailed>>
  BY DEF OtherClientAppends, ArmWriteFault, ramVars, historyVars
<1>1. LOG_EVENTS \in LogIds /\ LOG_DIAGNOSTICS \in LogIds /\ LOG_EVENTS # LOG_DIAGNOSTICS
  BY DEF LogIds, LOG_EVENTS, LOG_DIAGNOSTICS
<1>2. /\ StorageInv'
      /\ logs'[LOG_EVENTS] = logs[LOG_EVENTS]
      /\ logs'[LOG_DIAGNOSTICS] \subseteq Record({"diagnostics"})
      /\ nextRecordId \in Nat /\ nextRecordId' \in Nat
      /\ nextRecordId <= nextRecordId'
  <2>1. CASE OtherClientAppends
    <3>1. PICK s \in Status : AppendRecord(LOG_DIAGNOSTICS, "diagnostics", TRUE, s)
      BY <2>1 DEF OtherClientAppends
    <3>2. StorageInv /\ TRUE \in BOOLEAN /\ nextRecordId \in Nat
      BY DEF Inv, StorageInv
    <3>3. StorageInv'
      BY <1>1, <3>1, <3>2, AppendInv
    <3>4. nextRecordId' = nextRecordId \/ nextRecordId' = nextRecordId + 1
      BY <1>1, <3>1, <3>2, AppendShape
    <3>5. logs'[LOG_EVENTS] = logs[LOG_EVENTS]
      BY <1>1, <3>1, <3>2, AppendScanned
    <3>6. logs'[LOG_DIAGNOSTICS] \subseteq logs[LOG_DIAGNOSTICS] \cup {Appended("diagnostics")}
      BY <1>1, <3>1, <3>2, AppendScanned
    <3>7. Appended("diagnostics") \in Record({"diagnostics"})
      BY <3>2 DEF Appended, Record
    <3> QED
      BY <3>2, <3>3, <3>4, <3>5, <3>6, <3>7 DEF Inv, TypeOK
  <2>2. CASE ArmWriteFault
    <3>1. UNCHANGED <<logs, nextRecordId>> /\ corruptNextWrite' = TRUE
      BY <2>2 DEF ArmWriteFault, InjectCorruption
    <3>2. corruptNextWrite' \in BOOLEAN
      BY <3>1, Zenon
    <3> QED
      BY <3>1, <3>2 DEF Inv, TypeOK, StorageInv, LogInv
  <2> QED
    BY <2>1, <2>2
<1>3. TypeOK'
  BY <1>0, <1>2 DEF Inv, TypeOK, StorageInv
<1>4. RamInv'
  BY <1>0, <1>2, EntryType DEF Inv, RamInv, TypeOK
<1>5. RejectedLeavesNoTrace' /\ AckPersistedFirst'
  BY <1>0, <1>2 DEF Inv, RejectedLeavesNoTrace, AckPersistedFirst, TagsOf, Scanned
<1> QED
  BY <1>2, <1>3, <1>4, <1>5 DEF Inv
-----------------------------------------------------------------------------
LEMMA NextInv ==
  ASSUME Inv, [Next]_vars
  PROVE  Inv'
<1>1. ASSUME NEW fits \in BOOLEAN, Enqueue(fits) PROVE Inv'
  BY <1>1, EnqueueInv
<1>2. ASSUME NEW q \in queue, MarkCommitted(q.ev.event_id) PROVE Inv'
  <2>1. q.ev.event_id \in Nat
    BY EntryType DEF Inv, TypeOK
  <2> QED
    BY <1>2, <2>1, MarkCommittedInv
<1>3. CASE MarkCommitted(0)
  BY <1>3, MarkCommittedInv
<1>4. CASE Compact
  BY <1>4, CompactInv
<1>5. CASE Recover
  BY <1>5, RecoverInv
<1>6. CASE OtherClientAppends \/ ArmWriteFault
  BY <1>6, EnvironmentInv
<1>7. CASE UNCHANGED vars
  BY <1>7, SameInv DEF vars, ramVars, historyVars, Inv, TypeOK
<1> QED
  BY <1>1, <1>2, <1>3, <1>4, <1>5, <1>6, <1>7 DEF Next

(* Inv is an invariant of every behaviour.                                 *)
THEOREM Invariance == Spec => []Inv
<1>1. Init => Inv
  BY InitInv
<1>2. Inv /\ [Next]_vars => Inv'
  BY NextInv
<1> QED
  BY <1>1, <1>2, PTL DEF Spec

(* Type correctness of the queue and of the log under it.                  *)
THEOREM TypeCorrect == Spec => []TypeOK
<1>1. Inv => TypeOK
  BY DEF Inv
<1> QED
  BY <1>1, Invariance, PTL

(* Neither RAM nor a log ever outgrows its capacity.                       *)
THEOREM CapacityRespected == Spec => []Bounded
<1>1. Inv => Bounded
  BY DEF Inv, RamInv, StorageInv, LogInv, Bounded
<1> QED
  BY <1>1, Invariance, PTL

(* An event whose enqueue failed is never in RAM and never in storage.     *)
THEOREM RejectedNeverAppears == Spec => []RejectedLeavesNoTrace
<1>1. Inv => RejectedLeavesNoTrace
  BY DEF Inv
<1> QED
  BY <1>1, Invariance, PTL

(* No acknowledgement in RAM without the one in storage.                   *)
THEOREM AckIsPersistedFirst == Spec => []AckPersistedFirst
<1>1. Inv => AckPersistedFirst
  BY DEF Inv
<1> QED
  BY <1>1, Invariance, PTL
(* Reclaiming room takes acknowledged records only, and an acknowledgement *)
(* in storage is never taken back.                                         *)
THEOREM RecordsAreKept == Spec => UnacknowledgedRecordsKept
<1>1. ASSUME Inv, [Next]_vars, NEW log \in LogIds PROVE RecordsKept(log)
  <2>1. StorageInv
    BY <1>1 DEF Inv
  <2>2. LOG_EVENTS \in LogIds /\ LOG_DIAGNOSTICS \in LogIds
    BY DEF LogIds
  <2>3. CASE UNCHANGED logs
    BY <2>3, SameRecordsKept
  <2>4. ASSUME NEW fits \in BOOLEAN, Enqueue(fits) PROVE RecordsKept(log)
    <3>1. CASE ~HasRoom
      BY <2>3, <2>4, <3>1 DEF Enqueue, storageVars
    <3>2. CASE HasRoom
      <4>1. \E ev \in Event, s \in Status : AppendRecord(LOG_EVENTS, ev, fits, s)
        BY <1>1, <2>4, <3>2, EnqueueShape
      <4> QED
        BY <2>1, <2>2, <4>1, AppendKeeps
    <3> QED
      BY <3>1, <3>2
  <2>5. ASSUME NEW id, MarkCommitted(id) PROVE RecordsKept(log)
    <3>1. \/ UNCHANGED logs
          \/ \E s \in Status : MarkRecordCommitted(LOG_EVENTS, id, s)
      BY <2>5 DEF MarkCommitted, storageVars
    <3> QED
      BY <2>1, <2>2, <2>3, <3>1, MarkKeeps
  <2>6. ASSUME OtherClientAppends PROVE RecordsKept(log)
    <3>1. \E s \in Status : AppendRecord(LOG_DIAGNOSTICS, "diagnostics", TRUE, s)
      BY <2>6 DEF OtherClientAppends
    <3>2. TRUE \in BOOLEAN
      OBVIOUS
    <3> QED
      BY <2>1, <2>2, <3>1, <3>2, AppendKeeps
  <2>7. Compact \/ Recover \/ ArmWriteFault \/ UNCHANGED vars => UNCHANGED logs
    BY DEF Compact, Recover, ArmWriteFault, InjectCorruption, vars, storageVars
  <2> QED
    BY <1>1, <2>3, <2>4, <2>5, <2>6, <2>7 DEF Next
<1>2. Inv /\ [Next]_vars => [\A log \in LogIds : RecordsKept(log)]_vars
  BY <1>1
<1> QED
  BY <1>2, Invariance, PTL DEF Spec, UnacknowledgedRecordsKept

-----------------------------------------------------------------------------
(***************************************************************************)
(* A steady environment (SteadySpec): the event ids and the record ids     *)
(* stay in step, nothing accepted is lost, nothing acknowledged comes      *)
(* back, and the queue with its storage is a DurableOutbox.                *)
(***************************************************************************)

\* The next event gets the number its record will get.  An append that fails
\* consumes an event id and no record id: the two are apart until the next boot.
InStep ==
  nextEventId = IF appendFailed THEN nextRecordId + 1 ELSE nextRecordId

\* Event ids, record ids and places in RAM are one numbering.
SameNumbers ==
  /\ \A r \in logs[LOG_EVENTS] : r.data.event_id = r.id /\ ~r.data.committed
  /\ \A q \in queue : q.ev.event_id = q.pos

\* What the counters and the history are ahead of.
Counters ==
  /\ made <= MaxEvents
  /\ \A q \in Pending :
       /\ q.ev.tag <= made
       /\ q.ev.sequence_number < nextSequence
  /\ \A t \in acked : t <= made

\* The inductive invariant of SteadySpec.
InStepInv ==
  /\ Inv
  /\ InStep
  /\ SameNumbers
  /\ Counters
  /\ RamMatchesFlash
  /\ UploadOrder
  /\ NoLoss
  /\ NoReplay
\* The three things a step may do to what is owed.
Stays ==
  /\ Pending' = Pending
  /\ Recoverable' = Recoverable
  /\ UNCHANGED <<accepted, acked>>
  /\ made <= made' /\ made' <= MaxEvents
  /\ \A q \in Pending : q.ev.sequence_number < nextSequence'

Owes(new) ==
  /\ Cardinality(queue) < MAX_QUEUE_SIZE
  /\ new.pos = nextRecordId /\ new.ev.tag = made'
  /\ new.ev.sequence_number = nextSequence /\ nextSequence' = nextSequence + 1
  /\ Pending' = Pending \cup {new}
  /\ Recoverable' = Recoverable \cup {new}
  /\ accepted' = accepted \cup {made'} /\ acked' = acked
  /\ made < MaxEvents /\ made' = made + 1

Settles(q) ==
  /\ Pending' = Pending \ {q}
  /\ Recoverable' = Recoverable \ {q}
  /\ acked' = acked \cup {q.ev.tag}
  /\ UNCHANGED <<accepted, made, nextSequence>>

-----------------------------------------------------------------------------
(* With one numbering the recoverable entries are the unacknowledged       *)
(* records, and a place determines the entry.                              *)
LEMMA RecoverableFacts ==
  ASSUME StorageInv, SameNumbers
  PROVE  /\ Recoverable = {[pos |-> r.id, ev |-> r.data] : r \in Scanned(LOG_EVENTS)}
         /\ \A p, q \in Recoverable : p.pos = q.pos => p = q
         /\ \A p \in Recoverable : p.pos < nextRecordId
<1>1. LOG_EVENTS \in LogIds
  BY DEF LogIds
<1>2. \A r \in Scanned(LOG_EVENTS) : r \in logs[LOG_EVENTS] /\ ~r.data.committed
  BY DEF Scanned, SameNumbers
<1>3. Recoverable = {[pos |-> r.id, ev |-> r.data] : r \in Scanned(LOG_EVENTS)}
  BY <1>2 DEF Recoverable
<1>4. \A r, s \in Scanned(LOG_EVENTS) : r.id = s.id => r = s
  BY <1>1, <1>2 DEF StorageInv, LogInv
<1>5. \A r \in Scanned(LOG_EVENTS) : r.id < nextRecordId
  BY <1>1, <1>2 DEF StorageInv, LogInv
<1> QED
  BY <1>3, <1>4, <1>5

(* What is owed is told apart by its tags.                                 *)
LEMMA OwedFacts ==
  ASSUME InStepInv
  PROVE  /\ Pending = Recoverable
         /\ Pending \subseteq Entry
         /\ \A p, q \in Pending : p.pos = q.pos => p = q
         /\ \A p, q \in Pending : p.ev.tag = q.ev.tag => p = q
         /\ \A p \in Pending : p.ev.event_id = p.pos /\ p.pos < nextRecordId
<1>1. /\ Pending = Recoverable
      /\ Pending \subseteq Entry
      /\ StorageInv
      /\ SameNumbers
  BY DEF InStepInv, RamMatchesFlash, Pending, Inv, TypeOK
<1>2. \A p, q \in Pending : p.pos = q.pos => p = q
  BY <1>1, RecoverableFacts
<1>3. \A p, q \in Pending : p.pos < q.pos => p.ev.tag < q.ev.tag
  BY DEF InStepInv, UploadOrder
<1>4. \A p \in Pending : p.pos \in Nat /\ p.ev.tag \in Nat
  BY <1>1, EntryType
<1>5. \A p, q \in Pending : p.ev.tag = q.ev.tag => p = q
  BY <1>2, <1>3, <1>4
<1>6. \A p \in Pending : p.ev.event_id = p.pos
  BY <1>1 DEF SameNumbers, Pending
<1>7. \A p \in Pending : p.pos < nextRecordId
  BY <1>1, RecoverableFacts
<1> QED
  BY <1>1, <1>2, <1>5, <1>6, <1>7

LEMMA InStepInit == Init => InStepInv
<1> SUFFICES ASSUME Init PROVE InStepInv
  OBVIOUS
<1>1. Inv
  BY InitInv
<1>2. /\ logs[LOG_EVENTS] = {} /\ queue = {} /\ acked = {} /\ accepted = {}
      /\ nextEventId = 1 /\ nextRecordId = 1 /\ made = 0
  BY DEF Init, StorageInit, LogIds
<1>3. Pending = {} /\ Scanned(LOG_EVENTS) = {}
  BY <1>2 DEF Pending, Scanned
<1>4. Recoverable = {}
  BY <1>3 DEF Recoverable
<1>5. SameNumbers /\ Counters
  BY <1>2, <1>3 DEF SameNumbers, Counters
<1>6. InStep /\ RamMatchesFlash /\ UploadOrder /\ NoLoss /\ NoReplay
  BY <1>2, <1>3, <1>4 DEF Init, InStep, RamMatchesFlash, UploadOrder, NoLoss, NoReplay
<1> QED
  BY <1>1, <1>5, <1>6 DEF InStepInv

-----------------------------------------------------------------------------
(* enqueue: rejected, or the new event is owed in RAM and in storage alike. *)
LEMMA EnqueueOwes ==
  ASSUME InStepInv, ~appendFailed, NEW fits \in BOOLEAN, Enqueue(fits)
  PROVE  InStep' /\ SameNumbers' /\ (Stays \/ \E new \in Entry : Owes(new))
<1>0. /\ Inv /\ StorageInv /\ TypeOK /\ SameNumbers
      /\ made < MaxEvents /\ made' = made + 1 /\ acked' = acked /\ made \in Nat
      /\ LOG_EVENTS \in LogIds
      /\ nextEventId = nextRecordId /\ nextEventId \in Nat /\ nextSequence \in Nat
  BY DEF InStepInv, InStep, Inv, TypeOK, Enqueue, LogIds
<1>1. CASE ~HasRoom
  <2>1. UNCHANGED <<logs, queue, accepted, nextSequence>>
    BY <1>1 DEF Enqueue, storageVars, ramVars
  <2>0. InStep'
    BY <1>1 DEF Enqueue, storageVars, ramVars, InStepInv, InStep
  <2>2. Pending' = Pending /\ Recoverable' = Recoverable /\ SameNumbers'
    BY <1>0, <2>1 DEF Pending, Recoverable, Scanned, SameNumbers
  <2>3. made <= made' /\ made' <= MaxEvents
    BY <1>0
  <2> QED
    BY <1>0, <2>0, <2>1, <2>2, <2>3 DEF Stays, InStepInv, Counters
<1>2. CASE HasRoom
  <2>1. PICK ev \in Event, s \in Status :
           /\ AppendRecord(LOG_EVENTS, ev, fits, s)
           /\ ev.tag = made' /\ ev.event_id = nextEventId
           /\ ev.sequence_number = nextSequence /\ ~ev.committed
           /\ s = "OK" =>
                /\ queue' = queue \cup {[pos |-> nextRecordId, ev |-> ev]}
                /\ accepted' = accepted \cup {made'}
                /\ appendFailed' = appendFailed
           /\ s # "OK" => UNCHANGED <<queue, accepted>> /\ appendFailed' = TRUE
    BY <1>0, <1>2, EnqueueShape
  <2>2. /\ Cardinality(queue) < MAX_QUEUE_SIZE
        /\ nextEventId' = nextEventId + 1 /\ nextSequence' = nextSequence + 1
    BY <1>2 DEF Enqueue, HasRoom
  <2>3. Pending \subseteq Entry /\ \A q \in Pending : q.ev.sequence_number < nextSequence'
    <3>1. \A q \in Pending : q.ev.sequence_number \in Nat /\ q.ev.sequence_number < nextSequence
      BY <1>0, EntryType, OwedFacts DEF InStepInv, Counters
    <3> QED
      BY <1>0, <2>2, <3>1, OwedFacts
  <2>4. CASE s # "OK"
    <3>1. /\ nextRecordId' = nextRecordId
          /\ Scanned(LOG_EVENTS)' = Scanned(LOG_EVENTS)
          /\ \A r \in logs'[LOG_EVENTS] : r \in logs[LOG_EVENTS]
      <4>1. /\ StorageInv /\ LOG_EVENTS \in LogIds
            /\ AppendRecord(LOG_EVENTS, ev, fits, s)
        BY <1>0, <2>1
      <4>2. s # "OK" => Scanned(LOG_EVENTS)' = Scanned(LOG_EVENTS)
        BY <4>1, AppendScanned
      <4>3. nextRecordId' = nextRecordId
        BY <2>4, <4>1, AppendFailed
      <4>4. \A r \in logs'[LOG_EVENTS] : r \in logs[LOG_EVENTS]
        BY <2>4, <4>1, AppendFailed
      <4> QED
        BY <2>4, <4>2, <4>3, <4>4
    <3>2. UNCHANGED <<queue, accepted>> /\ appendFailed' = TRUE
      BY <2>1, <2>4
    <3>3. InStep'
      BY <1>0, <2>2, <3>1, <3>2 DEF InStep
    <3>4. Pending' = Pending
      BY <3>2 DEF Pending
    <3>5. Recoverable' = Recoverable
      BY <3>1 DEF Recoverable
    <3>6. SameNumbers'
      BY <1>0, <3>1, <3>2 DEF SameNumbers
    <3> QED
      BY <1>0, <2>3, <3>2, <3>3, <3>4, <3>5, <3>6 DEF Stays
  <2>5. CASE s = "OK"
    <3> DEFINE new == [pos |-> nextRecordId, ev |-> ev]
    <3>1. Scanned(LOG_EVENTS)' = Scanned(LOG_EVENTS) \cup {Appended(ev)}
      BY <1>0, <2>1, <2>5, AppendScanned
    <3>2. /\ new = [pos |-> Appended(ev).id, ev |-> Appended(ev).data]
          /\ Appended(ev).id = nextRecordId /\ Appended(ev).data = ev
      BY DEF Appended
    <3>3. new \in Entry /\ new.pos = nextRecordId /\ new.ev = ev
      BY <1>0 DEF Entry
    <3>4. nextRecordId' = nextRecordId + 1 /\ appendFailed' = appendFailed
      BY <1>0, <2>1, <2>5, AppendShape
    <3>5. InStep'
      BY <1>0, <2>2, <3>4 DEF InStep
    <3>6. SameNumbers'
      <4>1. logs'[LOG_EVENTS] \subseteq logs[LOG_EVENTS] \cup {Appended(ev)}
        BY <1>0, <2>1, AppendScanned
      <4>2. queue' = queue \cup {new}
        BY <2>1, <2>5
      <4> QED
        BY <1>0, <2>1, <3>2, <3>3, <4>1, <4>2 DEF SameNumbers
    <3>7. Recoverable' = Recoverable \cup {new}
      <4>1. Recoverable' = {[pos |-> r.id, ev |-> r.data] : r \in Scanned(LOG_EVENTS)'}
        BY <3>1, <3>2, <3>6 DEF Recoverable, SameNumbers, Scanned
      <4>2. Recoverable = {[pos |-> r.id, ev |-> r.data] : r \in Scanned(LOG_EVENTS)}
        BY <1>0, RecoverableFacts
      <4> HIDE DEF new
      <4> QED
        BY <3>1, <3>2, <4>1, <4>2
    <3>8. Pending' = Pending \cup {new}
      BY <2>1, <2>5, <3>3 DEF Pending
    <3> HIDE DEF new
    <3> QED
      BY <1>0, <2>1, <2>2, <2>5, <3>3, <3>5, <3>6, <3>7, <3>8 DEF Owes
  <2> QED
    BY <2>4, <2>5
<1> QED
  BY <1>1, <1>2

(* mark_committed: an event owed is settled in RAM and in storage alike.   *)
LEMMA MarkSettles ==
  ASSUME InStepInv, NEW id, MarkCommitted(id)
  PROVE  InStep' /\ SameNumbers' /\ (Stays \/ \E q \in Pending : Settles(q))
<1>0. /\ StorageInv /\ TypeOK /\ SameNumbers /\ LOG_EVENTS \in LogIds /\ made \in Nat
      /\ UNCHANGED <<nextEventId, nextSequence, made, accepted, appendFailed>> /\ InStep
  BY DEF InStepInv, Inv, TypeOK, MarkCommitted, LogIds
<1>1. CASE UNCHANGED <<storageVars, queue, acked>>
  <2>1. UNCHANGED <<logs, queue, nextRecordId>>
    BY <1>1 DEF storageVars
  <2>2. /\ Pending' = Pending /\ Recoverable' = Recoverable
        /\ SameNumbers' /\ InStep'
    BY <1>0, <2>1 DEF Pending, Recoverable, Scanned, SameNumbers, InStep
  <2>3. made <= made' /\ made' <= MaxEvents
    BY <1>0 DEF InStepInv, Counters
  <2> QED
    BY <1>0, <1>1, <2>2, <2>3 DEF Stays, InStepInv, Counters
<1>2. CASE \E q \in Pending, s \in Status :
             /\ q.ev.event_id = id
             /\ MarkRecordCommitted(LOG_EVENTS, id, s)
             /\ Acknowledge(q, s)
  <2>1. PICK q \in Pending, s \in Status :
             /\ q.ev.event_id = id
             /\ MarkRecordCommitted(LOG_EVENTS, id, s)
             /\ Acknowledge(q, s)
    BY <1>2
  <2>2. q.pos = id /\ q \in Entry /\ q \in queue /\ q \in Recoverable
    BY <2>1, OwedFacts DEF Pending
  <2>3. \E r \in logs[LOG_EVENTS] : r.id = id
    BY <1>0, <2>2, RecoverableFacts DEF Scanned
  <2>4. s = "OK"
    BY <1>0, <2>1, <2>3, MarkFacts
  <2> DEFINE done == [q EXCEPT !.ev.committed = TRUE]
  <2>5. done.ev.committed /\ done.ev.event_id = id /\ done.pos = id
    BY <2>1, <2>2, MarkedEntry
  <2>6. queue' = (queue \ {q}) \cup {done} /\ acked' = acked \cup {q.ev.tag}
    BY <2>1, <2>4 DEF Acknowledge
  <2> HIDE DEF done
  <2>7. SameNumbers'
    <3>1. \A r \in logs'[LOG_EVENTS] :
             \E t \in logs[LOG_EVENTS] : t.id = r.id /\ t.data = r.data
      BY <1>0, <2>1, MarkFacts
    <3> QED
      BY <1>0, <2>5, <2>6, <3>1 DEF SameNumbers
  <2>8. Pending' = Pending \ {q}
    BY <2>5, <2>6 DEF Pending
  <2>9. Recoverable' = Recoverable \ {q}
    <3>1. Scanned(LOG_EVENTS)' = {r \in Scanned(LOG_EVENTS) : r.id # id}
      BY <1>0, <2>1, MarkFacts
    <3>2. Recoverable' = {[pos |-> r.id, ev |-> r.data] : r \in Scanned(LOG_EVENTS)'}
      BY <2>7 DEF Recoverable, SameNumbers, Scanned
    <3>3. Recoverable = {[pos |-> r.id, ev |-> r.data] : r \in Scanned(LOG_EVENTS)}
      BY <1>0, RecoverableFacts
    <3>4. Recoverable' = {p \in Recoverable : p.pos # id}
      BY <3>1, <3>2, <3>3
    <3>5. \A p \in Recoverable : p.pos = id => p = q
      BY <1>0, <2>2, RecoverableFacts
    <3> QED
      BY <2>2, <3>4, <3>5
  <2>10. InStep'
    BY <1>0, <2>1, MarkFacts DEF InStep
  <2> QED
    BY <1>0, <2>6, <2>7, <2>8, <2>9, <2>10 DEF Settles
<1> QED
  BY <1>1, <1>2 DEF MarkCommitted, FirstWithId, Pending

(* recover: RAM held every recoverable entry, so the capacity does not cut *)
(* the recovery short and every one of them is back.                       *)
LEMMA RecoversAll ==
  ASSUME InStepInv, Recover
  PROVE  queue' = Recoverable
<1>1. /\ queue' \subseteq Recoverable
      /\ Cardinality(queue') <= MAX_QUEUE_SIZE
      /\ queue' # Recoverable => Cardinality(queue') = MAX_QUEUE_SIZE
  BY DEF Recover, FirstUpTo
<1>2. /\ IsFiniteSet(Recoverable)
      /\ Cardinality(Recoverable) \in Nat
      /\ Cardinality(Recoverable) <= MAX_QUEUE_SIZE
  <2>1. IsFiniteSet(queue) /\ Cardinality(queue) <= MAX_QUEUE_SIZE
    BY DEF InStepInv, Inv, RamInv
  <2>2. Recoverable \subseteq queue
    BY OwedFacts DEF Pending
  <2>3. IsFiniteSet(Recoverable) /\ Cardinality(Recoverable) <= Cardinality(queue)
    BY <2>1, <2>2, FS_Subset
  <2>4. Cardinality(queue) \in Nat /\ Cardinality(Recoverable) \in Nat
    BY <2>1, <2>3, FS_CardinalityType
  <2> QED
    BY <2>1, <2>3, <2>4
<1> SUFFICES ASSUME queue' # Recoverable PROVE FALSE
  OBVIOUS
<1>3. /\ Cardinality(queue') <= Cardinality(Recoverable)
      /\ Cardinality(Recoverable) # Cardinality(queue')
  BY <1>1, <1>2, FS_Subset
<1> QED
  BY <1>1, <1>2, <1>3

(* With the newest record still owed, the event counter recover restarts   *)
(* comes to the record that is next.                                       *)
LEMMA RecoverInStep ==
  ASSUME InStepInv, Recover, NewestIsOwed
  PROVE  InStep'
<1>1. /\ StorageInv /\ SameNumbers /\ nextRecordId \in Nat \ {0}
      /\ appendFailed' = FALSE /\ nextRecordId' = nextRecordId
  BY DEF InStepInv, Inv, StorageInv, Recover, storageVars
<1>2. /\ nextEventId' \in PastIds(Recoverable)
      /\ \A m \in PastIds(Recoverable) : m <= nextEventId'
  BY RecoversAll DEF Recover, IsGreatest
<1>3. \A q \in Recoverable : /\ q.ev.event_id = q.pos /\ q.pos < nextRecordId
                              /\ q.ev.event_id \in Nat \ {0}
  BY OwedFacts, EntryType
<1>4. \A m \in PastIds(Recoverable) : m \in Nat /\ m <= nextRecordId
  BY <1>1, <1>3 DEF PastIds
<1>5. nextRecordId \in PastIds(Recoverable)
  <2>1. CASE nextRecordId = 1
    BY <2>1 DEF PastIds
  <2>2. ASSUME NEW r \in Scanned(LOG_EVENTS), r.id + 1 = nextRecordId
        PROVE  nextRecordId \in PastIds(Recoverable)
    <3>1. PICK q \in Recoverable : q = [pos |-> r.id, ev |-> r.data]
      BY <1>1, RecoverableFacts
    <3>2. q.ev.event_id + 1 = nextRecordId
      BY <1>3, <2>2, <3>1
    <3> QED
      BY <3>2 DEF PastIds
  <2> QED
    BY <2>1, <2>2 DEF NewestIsOwed
<1>6. nextEventId' = nextRecordId
  BY <1>1, <1>2, <1>4, <1>5
<1> QED
  BY <1>1, <1>6 DEF InStep

LEMMA RecoverStays ==
  ASSUME InStepInv, Recover
  PROVE  SameNumbers' /\ Stays
<1>1. /\ StorageInv /\ TypeOK /\ SameNumbers /\ made \in Nat
      /\ UNCHANGED <<logs, made, accepted, acked>>
  BY DEF InStepInv, Inv, TypeOK, Recover, storageVars
<1>2. queue' = Recoverable
  BY RecoversAll
<1>3. \A q \in Recoverable : ~q.ev.committed /\ q.ev.event_id = q.pos
  BY <1>1, OwedFacts DEF Pending
<1>4. Pending' = Pending
  BY <1>2, <1>3, OwedFacts DEF Pending
<1>5. Recoverable' = Recoverable /\ SameNumbers'
  BY <1>1, <1>2, <1>3 DEF Recoverable, Scanned, SameNumbers
<1>6. \A q \in Pending : q.ev.sequence_number < nextSequence'
  <2>1. IsGreatest(nextSequence', PastSequences(queue'))
    BY DEF Recover
  <2>2. \A m \in PastSequences(queue') : m <= nextSequence'
    BY <2>1 DEF IsGreatest
  <2>3. \A q \in Pending : q.ev.sequence_number + 1 <= nextSequence'
    BY <1>2, <2>2, OwedFacts DEF PastSequences
  <2>4. \A q \in Pending : q.ev.sequence_number \in Nat
    BY OwedFacts, EntryType
  <2>5. nextSequence' \in Nat
    BY RecoverInv DEF InStepInv, Inv, TypeOK
  <2> QED
    BY <2>3, <2>4, <2>5
<1>7. made <= made' /\ made' <= MaxEvents
  BY <1>1 DEF InStepInv, Counters
<1> QED
  BY <1>1, <1>4, <1>5, <1>6, <1>7 DEF Stays

(* A step that leaves the log of events, and the unacknowledged entries.   *)
LEMMA OtherStays ==
  ASSUME InStepInv, Compact \/ ArmWriteFault \/ UNCHANGED vars
  PROVE  InStep' /\ SameNumbers' /\ Stays
<1>1. /\ SameNumbers /\ InStep /\ made \in Nat
      /\ UNCHANGED <<nextEventId, nextSequence, made, accepted, acked, appendFailed>>
      /\ UNCHANGED <<logs, nextRecordId>>
  BY DEF InStepInv, Inv, TypeOK, Compact, ArmWriteFault, InjectCorruption, vars,
     storageVars, ramVars, historyVars
<1>2. queue' = queue \/ queue' = Pending
  BY DEF Compact, ArmWriteFault, vars, ramVars
<1>3. Pending' = Pending /\ Recoverable' = Recoverable /\ SameNumbers' /\ InStep'
  BY <1>1, <1>2 DEF Pending, Recoverable, Scanned, SameNumbers, InStep
<1>4. made <= made' /\ made' <= MaxEvents
  BY <1>1 DEF InStepInv, Counters
<1> QED
  BY <1>1, <1>3, <1>4 DEF Stays, InStepInv, Counters

LEMMA StepShape ==
  ASSUME InStepInv, [SteadyNext]_vars
  PROVE  /\ InStep' /\ SameNumbers'
         /\ Stays \/ (\E new \in Entry : Owes(new)) \/ (\E q \in Pending : Settles(q))
<1>1. CASE Compact \/ ArmWriteFault \/ UNCHANGED vars
  BY <1>1, OtherStays
<1>2. CASE NewestIsOwed /\ Recover
  BY <1>2, RecoverInStep, RecoverStays
<1>3. ASSUME ~appendFailed, NEW fits \in BOOLEAN, Enqueue(fits)
      PROVE  InStep' /\ SameNumbers' /\ (Stays \/ \E new \in Entry : Owes(new))
  BY <1>3, EnqueueOwes
<1>4. ASSUME NEW id, MarkCommitted(id)
      PROVE  InStep' /\ SameNumbers' /\ (Stays \/ \E q \in Pending : Settles(q))
  BY <1>4, MarkSettles
<1> QED
  BY <1>1, <1>2, <1>3, <1>4 DEF SteadyNext

(* A steady environment does nothing that any other may not.               *)
LEMMA SteadyIsNext ==
  ASSUME [SteadyNext]_vars
  PROVE  [Next]_vars
BY DEF SteadyNext, Next

-----------------------------------------------------------------------------
LEMMA InStepNext ==
  ASSUME InStepInv, [SteadyNext]_vars
  PROVE  InStepInv'
<1>1. Inv' /\ InStep'
  BY NextInv, SteadyIsNext, StepShape DEF InStepInv
<1>2. /\ Pending = Recoverable /\ Pending \subseteq Entry
      /\ made \in Nat /\ nextSequence \in Nat /\ acked \subseteq Nat
      /\ Counters /\ UploadOrder /\ NoLoss /\ NoReplay
  BY OwedFacts DEF InStepInv, Inv, TypeOK
<1>3. \A p \in Pending : /\ p.pos \in Nat /\ p.ev.tag \in Nat
                         /\ p.ev.sequence_number \in Nat
                         /\ p.pos < nextRecordId
                         /\ p.ev.tag <= made /\ p.ev.sequence_number < nextSequence
  BY <1>2, OwedFacts, EntryType DEF Counters
<1>4. CASE Stays
  <2>1. Counters'
    BY <1>1, <1>2, <1>3, <1>4 DEF Stays, Counters, Inv, TypeOK
  <2>2. RamMatchesFlash' /\ UploadOrder' /\ NoLoss' /\ NoReplay'
    BY <1>2, <1>4 DEF Stays, RamMatchesFlash, UploadOrder, NoLoss, NoReplay, TagsOf
  <2> QED
    BY <1>1, <2>1, <2>2, StepShape DEF InStepInv
<1>5. ASSUME NEW new \in Entry, Owes(new) PROVE InStepInv'
  <2>1. /\ new.pos = nextRecordId /\ new.ev.tag = made + 1
        /\ new.ev.sequence_number = nextSequence
        /\ nextSequence' = nextSequence + 1 /\ made' = made + 1 /\ made < MaxEvents
        /\ Pending' = Pending \cup {new} /\ Recoverable' = Recoverable \cup {new}
        /\ acked' = acked /\ accepted' = accepted \cup {made + 1}
    BY <1>5 DEF Owes
  <2>2. Counters'
    BY <1>2, <1>3, <2>1 DEF Counters
  <2>3. UploadOrder'
    <3> SUFFICES ASSUME NEW p \in Pending', NEW q \in Pending', p.pos < q.pos
                 PROVE  p.ev.tag < q.ev.tag /\ p.ev.sequence_number < q.ev.sequence_number
      BY DEF UploadOrder
    <3>1. CASE p \in Pending /\ q \in Pending
      BY <1>2, <3>1 DEF UploadOrder
    <3>2. CASE p \in Pending /\ q = new
      BY <1>2, <1>3, <2>1, <3>2
    <3>3. CASE p = new
      <4>1. nextRecordId \in Nat
        BY DEF InStepInv, Inv, TypeOK
      <4>2. FALSE
        BY <1>3, <2>1, <3>3, <4>1
      <4> QED
        BY <4>2
    <3> QED
      BY <2>1, <3>1, <3>2, <3>3
  <2>4. RamMatchesFlash'
    BY <1>2, <2>1 DEF RamMatchesFlash
  <2>5. TagsOf(Recoverable') = TagsOf(Recoverable) \cup {made + 1}
    BY <2>1 DEF TagsOf
  <2>6. NoLoss'
    BY <1>2, <2>1, <2>5 DEF NoLoss, TagsOf
  <2>7. NoReplay'
    BY <1>2, <2>1, <2>5 DEF NoReplay, TagsOf, Counters
  <2> QED
    BY <1>1, <2>2, <2>3, <2>4, <2>6, <2>7, StepShape DEF InStepInv
<1>6. ASSUME NEW q \in Pending, Settles(q) PROVE InStepInv'
  <2>1. /\ Pending' = Pending \ {q} /\ Recoverable' = Recoverable \ {q}
        /\ acked' = acked \cup {q.ev.tag}
        /\ UNCHANGED <<accepted, made, nextSequence>>
    BY <1>6 DEF Settles
  <2>2. Counters'
    BY <1>2, <1>3, <2>1 DEF Counters
  <2>3. RamMatchesFlash' /\ UploadOrder'
    BY <1>2, <2>1 DEF RamMatchesFlash, UploadOrder
  <2>4. TagsOf(Recoverable') = TagsOf(Recoverable) \ {q.ev.tag}
    BY <1>2, <2>1, OwedFacts DEF TagsOf
  <2>5. NoLoss' /\ NoReplay'
    BY <1>2, <2>1, <2>4 DEF NoLoss, NoReplay, TagsOf
  <2> QED
    BY <1>1, <2>2, <2>3, <2>5, StepShape DEF InStepInv
<1> QED
  BY <1>4, <1>5, <1>6, StepShape

THEOREM InStepInvariance == SteadySpec => []InStepInv
<1>1. Init => InStepInv
  BY InStepInit
<1>2. InStepInv /\ [SteadyNext]_vars => InStepInv'
  BY InStepNext
<1> QED
  BY <1>1, <1>2, PTL DEF SteadySpec

(* A reboot rebuilds exactly the unacknowledged entries RAM holds.         *)
THEOREM RebootChangesNothing == SteadySpec => []RamMatchesFlash
<1>1. InStepInv => RamMatchesFlash
  BY DEF InStepInv
<1> QED
  BY <1>1, InStepInvariance, PTL

(* No accepted event is lost.                                              *)
THEOREM NothingLost == SteadySpec => []NoLoss
<1>1. InStepInv => NoLoss
  BY DEF InStepInv
<1> QED
  BY <1>1, InStepInvariance, PTL

(* No acknowledged event is replayed.                                      *)
THEOREM NothingReplayed == SteadySpec => []NoReplay
<1>1. InStepInv => NoReplay
  BY DEF InStepInv
<1> QED
  BY <1>1, InStepInvariance, PTL

(* No two events in storage share an event id, and the counter is past     *)
(* every one of them, through failed appends and boots: that it comes to   *)
(* the next record's number at a boot is RecoverInStep.                    *)
THEOREM IdsAreStable == SteadySpec => []StableIds
<1>1. InStepInv => StableIds
  <2> SUFFICES ASSUME InStepInv PROVE StableIds
    OBVIOUS
  <2>1. /\ \A r \in logs[LOG_EVENTS] : r.data.event_id = r.id /\ r.id < nextRecordId
        /\ \A r \in logs[LOG_EVENTS] : r.id \in Nat
        /\ \A r, s \in logs[LOG_EVENTS] : r.id = s.id => r = s
    BY DEF InStepInv, SameNumbers, Inv, StorageInv, LogInv, TypeOK, LogIds, Record
  <2>2. nextRecordId \in Nat /\ nextEventId \in Nat /\ nextRecordId <= nextEventId
    BY DEF InStepInv, InStep, Inv, TypeOK
  <2> QED
    BY <2>1, <2>2 DEF StableIds
<1> QED
  BY <1>1, InStepInvariance, PTL

(* The queue gives events out in the order they were made.                 *)
THEOREM OrderKept == SteadySpec => []UploadOrder
<1>1. InStepInv => UploadOrder
  BY DEF InStepInv
<1> QED
  BY <1>1, InStepInvariance, PTL

-----------------------------------------------------------------------------
(* The tags owed are no more than the entries in RAM.                      *)
LEMMA OwedCapacity ==
  ASSUME InStepInv, Cardinality(queue) < MAX_QUEUE_SIZE
  PROVE  Cardinality(TagsOf(Recoverable)) < MAX_QUEUE_SIZE
<1>1. IsFiniteSet(queue) /\ Recoverable \subseteq queue
  BY OwedFacts DEF InStepInv, Inv, RamInv, Pending
<1>2. IsFiniteSet(Recoverable) /\ Cardinality(Recoverable) <= Cardinality(queue)
  BY <1>1, FS_Subset
<1> DEFINE f == [q \in Recoverable |-> q.ev.tag]
<1>3. f \in Surjection(Recoverable, TagsOf(Recoverable))
  BY DEF Surjection, TagsOf
<1>4. /\ IsFiniteSet(TagsOf(Recoverable))
      /\ Cardinality(TagsOf(Recoverable)) <= Cardinality(Recoverable)
  BY <1>2, <1>3, FS_Surjection
<1>5. /\ Cardinality(queue) \in Nat
      /\ Cardinality(Recoverable) \in Nat
      /\ Cardinality(TagsOf(Recoverable)) \in Nat
  BY <1>1, <1>2, <1>4, FS_CardinalityType
<1> QED
  BY <1>2, <1>4, <1>5

(* The queue with its storage implements the durable outbox.               *)
THEOREM ImplementsOutbox == SteadySpec => OutboxSpec
<1>1. Init => Outbox!Init
  <2> SUFFICES ASSUME Init PROVE Outbox!Init
    OBVIOUS
  <2>1. logs[LOG_EVENTS] = {} /\ acked = {}
    BY DEF Init, StorageInit, LogIds
  <2>2. TagsOf(Recoverable) = {}
    BY <2>1 DEF Recoverable, Scanned, TagsOf
  <2> QED
    BY <2>1, <2>2 DEF Outbox!Init
<1>2. InStepInv /\ [SteadyNext]_vars
        => [Outbox!Next]_<<TagsOf(Recoverable), acked>>
  <2> SUFFICES ASSUME InStepInv, [SteadyNext]_vars
               PROVE  [Outbox!Next]_<<TagsOf(Recoverable), acked>>
    OBVIOUS
  <2>1. /\ Pending = Recoverable /\ Pending \subseteq Entry
        /\ made \in Nat /\ acked \subseteq Nat /\ Counters
    BY OwedFacts DEF InStepInv, Inv, TypeOK
  <2>2. CASE Stays
    BY <2>2 DEF Stays, TagsOf
  <2>3. ASSUME NEW new \in Entry, Owes(new) PROVE Outbox!Next
    <3>1. TagsOf(Recoverable)' = TagsOf(Recoverable) \cup {made + 1} /\ acked' = acked
      BY <2>3 DEF Owes, TagsOf
    <3>2. Cardinality(TagsOf(Recoverable)) < MAX_QUEUE_SIZE
      BY <2>3, OwedCapacity DEF Owes
    <3>3. \A u \in TagsOf(Recoverable) \cup acked : u < made + 1
      BY <2>1, EntryType DEF TagsOf, Counters
    <3>4. made + 1 \in 1..MaxEvents
      BY <2>1, <2>3 DEF Owes
    <3>5. Outbox!Cardinality(TagsOf(Recoverable)) = Cardinality(TagsOf(Recoverable))
      BY DEF Outbox!Cardinality, Cardinality
    <3> QED
      BY <3>1, <3>2, <3>3, <3>4, <3>5 DEF Outbox!Next, Outbox!Accept
  <2>4. ASSUME NEW q \in Pending, Settles(q) PROVE Outbox!Next
    <3>1. TagsOf(Recoverable)' = TagsOf(Recoverable) \ {q.ev.tag}
      BY <2>1, <2>4, OwedFacts DEF Settles, TagsOf
    <3>2. acked' = acked \cup {q.ev.tag} /\ q.ev.tag \in TagsOf(Recoverable)
      BY <2>1, <2>4 DEF Settles, TagsOf
    <3>3. q.ev.tag \in 1..MaxEvents
      <4>1. q.ev.tag \in Nat \ {0} /\ q.ev.tag <= made /\ made <= MaxEvents
        BY <2>1, EntryType DEF Counters
      <4> QED
        BY <2>1, <4>1
    <3> QED
      BY <3>1, <3>2, <3>3 DEF Outbox!Next, Outbox!Acknowledge
  <2> QED
    BY <2>2, <2>3, <2>4, StepShape
<1> QED
  BY <1>1, <1>2, InStepInvariance, PTL DEF SteadySpec, OutboxSpec, Outbox!Spec
=============================================================================
