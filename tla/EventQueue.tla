----------------------------- MODULE EventQueue -----------------------------
(***************************************************************************)
(* The durable event queue, src/firmware/event_runtime/event_queue.cpp,    *)
(* over the append log of module SimStorage.                               *)
(*                                                                         *)
(* Every public method holds EventQueue::mutex_ from its first line to its *)
(* last, so one method is one action.  Any task may call enqueue at any    *)
(* time; Recover is the logical reboot the tests perform: a new EventQueue *)
(* over the same storage followed by recover().                            *)
(*                                                                         *)
(* The vector queue_ is a set of entries.  An entry's `pos' is the id of   *)
(* the record append_record wrote for the event: the code does not keep    *)
(* it, but both enqueue and recover push entries in exactly that order, so *)
(* it stands for the place in the vector.                                  *)
(*                                                                         *)
(* A definition called "Mutant..." is a plausible bug in the definition    *)
(* after it and is used by no other: each property below has one it finds. *)
(***************************************************************************)
EXTENDS SimStorage

CONSTANTS
  MAX_QUEUE_SIZE,     \* 100 in event_queue.h
  MaxEvents           \* bound on the calls of enqueue

ASSUME QueueAssumption == MAX_QUEUE_SIZE \in Nat \ {0} /\ MaxEvents \in Nat

VARIABLES
  queue,              \* queue_: the entries in RAM
  nextEventId,        \* next_event_id_
  nextSequence,       \* next_sequence_
  made,               \* history: how many events were handed to enqueue
  accepted,           \* history: tags of the events enqueue returned OK for
  acked,              \* history: tags mark_committed has acknowledged
  appendFailed        \* history: has an append failed since the last boot?

ramVars     == <<queue, nextEventId, nextSequence>>
historyVars == <<made, accepted, acked, appendFailed>>
vars        == <<storageVars, ramVars, historyVars>>

\* struct Event.  `tag' numbers the events in the order they are handed to
\* enqueue; it stands for the rest of the struct (type, timestamps, payload,
\* diagnostics snapshot), which nothing here reads.  0 is an id not assigned.
Event == [event_id : Nat \ {0}, sequence_number : Nat \ {0},
          committed : BOOLEAN, tag : Nat \ {0}]

Entry == [pos : Nat, ev : Event]

Init ==
  /\ StorageInit
  /\ queue = {}
  /\ nextEventId = 1
  /\ nextSequence = 1
  /\ made = 0
  /\ accepted = {}
  /\ acked = {}
  /\ appendFailed = FALSE

-----------------------------------------------------------------------------
\* The loops of get_pending and of the recovery visitor take elements from the
\* front of S until n are taken: the one prefix of S of that size, or all of S.
FirstUpTo(S, n) ==
  {F \in SUBSET S :
     /\ \A x \in F, y \in S : y.pos < x.pos => y \in F
     /\ Cardinality(F) <= n
     /\ F # S => Cardinality(F) = n}

Pending == {q \in queue : ~q.ev.committed}

GetPending(n) == FirstUpTo(Pending, n)

MutantNewEvent == [event_id |-> 0, sequence_number |-> nextSequence,
                   committed |-> FALSE, tag |-> made']

\* What serialize writes for the event being enqueued.
NewEvent == [event_id |-> nextEventId, sequence_number |-> nextSequence,
             committed |-> FALSE, tag |-> made']

MutantHasRoom == Cardinality(queue) <= MAX_QUEUE_SIZE

HasRoom == Cardinality(queue) < MAX_QUEUE_SIZE

MutantPush(status) ==
  /\ queue' = queue \cup {[pos |-> nextRecordId, ev |-> NewEvent]}
  /\ accepted' = IF status = "OK" THEN accepted \cup {made'} ELSE accepted

\* After append_record: the event enters RAM only when it is in storage.
Push(status) ==
  \/ /\ status = "OK"
     /\ queue' = queue \cup {[pos |-> nextRecordId, ev |-> NewEvent]}
     /\ accepted' = accepted \cup {made'}
  \/ /\ status # "OK"
     /\ UNCHANGED <<queue, accepted>>

\* enqueue(event).  The ids are consumed before the append is tried, and they
\* stay consumed when it fails.
Enqueue(fits) ==
  /\ made < MaxEvents
  /\ made' = made + 1
  /\ UNCHANGED acked
  /\ \/ /\ ~HasRoom                                   \* ERR_FULL: backpressure
        /\ UNCHANGED <<storageVars, ramVars, accepted, appendFailed>>
     \/ /\ HasRoom
        /\ nextEventId' = nextEventId + 1
        /\ nextSequence' = nextSequence + 1
        /\ \E s \in Status :
             /\ AppendRecord(LOG_EVENTS, NewEvent, fits, s)
             /\ Push(s)
             /\ appendFailed' = (appendFailed \/ s # "OK")

-----------------------------------------------------------------------------
\* mark_committed looks an event up in RAM: the first entry with that event id.
FirstWithId(q, id) ==
  /\ q.ev.event_id = id
  /\ \A p \in queue : p.ev.event_id = id => q.pos <= p.pos

MutantAcknowledge(q, status) ==
  /\ queue' = (queue \ {q}) \cup {[q EXCEPT !.ev.committed = TRUE]}
  /\ acked' = acked \cup {q.ev.tag}

\* After mark_record_committed: the entry is acknowledged in RAM only when its
\* acknowledgement is in storage.
Acknowledge(q, status) ==
  \/ /\ status = "OK"
     /\ queue' = (queue \ {q}) \cup {[q EXCEPT !.ev.committed = TRUE]}
     /\ acked' = acked \cup {q.ev.tag}
  \/ /\ status # "OK"
     /\ UNCHANGED <<queue, acked>>

\* mark_committed(event_id).  The EVENT id found in RAM is passed to storage as
\* a RECORD id.
MarkCommitted(id) ==
  /\ UNCHANGED <<nextEventId, nextSequence, made, accepted, appendFailed>>
  /\ \/ /\ \A q \in queue : q.ev.event_id # id        \* ERR_NOT_FOUND
        /\ UNCHANGED <<storageVars, queue, acked>>
     \/ \E q \in queue :
          /\ FirstWithId(q, id)
          /\ \/ /\ q.ev.committed                     \* OK, nothing to do
                /\ UNCHANGED <<storageVars, queue, acked>>
             \/ /\ ~q.ev.committed
                /\ \E s \in Status :
                     MarkRecordCommitted(LOG_EVENTS, id, s) /\ Acknowledge(q, s)

MutantCompact ==
  /\ queue' = queue \ Pending
  /\ UNCHANGED <<storageVars, nextEventId, nextSequence, historyVars>>

\* compact(): drops the acknowledged entries from RAM (not from storage).
Compact ==
  /\ queue' = Pending
  /\ UNCHANGED <<storageVars, nextEventId, nextSequence, historyVars>>

-----------------------------------------------------------------------------
\* The entries the recovery visitor would push if RAM were unbounded.
Recoverable ==
  {[pos |-> r.id, ev |-> r.data] :
     r \in {s \in Scanned(LOG_EVENTS) : ~s.data.committed}}

MutantPastIds(F)       == {1} \cup {q.ev.event_id : q \in F}
MutantPastSequences(F) == {1} \cup {q.ev.sequence_number : q \in F}

\* The values recover tries for its counters; it keeps the greatest.
PastIds(F)       == {1} \cup {q.ev.event_id + 1 : q \in F}
PastSequences(F) == {1} \cup {q.ev.sequence_number + 1 : q \in F}

IsGreatest(n, S) == n \in S /\ \A m \in S : m <= n

\* recover(): RAM is rebuilt from the uncommitted records, up to the capacity;
\* the counters restart at 1 and move past the events recovered, no further.
Recover ==
  /\ queue' \in FirstUpTo(Recoverable, MAX_QUEUE_SIZE)
  /\ \E n \in PastIds(queue') : IsGreatest(n, PastIds(queue')) /\ nextEventId' = n
  /\ \E n \in PastSequences(queue') :
       IsGreatest(n, PastSequences(queue')) /\ nextSequence' = n
  /\ appendFailed' = FALSE
  /\ UNCHANGED <<storageVars, made, accepted, acked>>

-----------------------------------------------------------------------------
\* The environment: another client of the same storage appends to its own log,
\* as DiagnosticsFramework::log_error does, and a test arms the write fault.
OtherClientAppends ==
  /\ \E s \in Status : AppendRecord(LOG_DIAGNOSTICS, "diagnostics", TRUE, s)
  /\ UNCHANGED <<ramVars, historyVars>>

ArmWriteFault == InjectCorruption /\ UNCHANGED <<ramVars, historyVars>>

Next ==
  \/ \E fits \in BOOLEAN : Enqueue(fits)
  \/ \E q \in queue : MarkCommitted(q.ev.event_id)
  \/ MarkCommitted(0)                                 \* an id nobody has
  \/ Compact
  \/ Recover
  \/ OtherClientAppends
  \/ ArmWriteFault

Spec == Init /\ [][Next]_vars

\* The newest record there has been is still to be acknowledged; or there has
\* been none.
NewestIsOwed ==
  \/ nextRecordId = 1
  \/ \E r \in Scanned(LOG_EVENTS) : r.id + 1 = nextRecordId

\* mark_committed uses the event id as the record id, and nothing in the code
\* keeps the two counters together.  A steady environment is one that does not
\* drive them apart: the queue has the storage to itself, no event is made
\* between a failed append and the next boot, and the power is not lost while
\* the newest record is an acknowledged one.
SteadyNext ==
  \/ ~appendFailed /\ \E fits \in BOOLEAN : Enqueue(fits)
  \/ \E q \in queue : MarkCommitted(q.ev.event_id)
  \/ MarkCommitted(0)
  \/ Compact
  \/ NewestIsOwed /\ Recover
  \/ ArmWriteFault

SteadySpec == Init /\ [][SteadyNext]_vars

-----------------------------------------------------------------------------
(***************************************************************************)
(* Properties of every behaviour (Spec).                                   *)
(***************************************************************************)

\* The variables have their types; what is in the log of events is events.
TypeOK ==
  /\ logs = [log \in LogIds |-> logs[log]]
  /\ logs[LOG_EVENTS] \subseteq Record(Event)
  /\ logs[LOG_DIAGNOSTICS] \subseteq Record({"diagnostics"})
  /\ nextRecordId \in Nat
  /\ corruptNextWrite \in BOOLEAN
  /\ queue \subseteq Entry
  /\ nextEventId \in Nat \ {0}
  /\ nextSequence \in Nat \ {0}
  /\ made \in Nat
  /\ accepted \subseteq Nat
  /\ acked \subseteq Nat
  /\ appendFailed \in BOOLEAN

\* The RAM queue stays within its capacity through every mix of enqueues,
\* acknowledgements and recoveries, and so does every log.
Bounded ==
  /\ Cardinality(queue) <= MAX_QUEUE_SIZE
  /\ \A log \in LogIds : Cardinality(logs[log]) <= MAX_RECORDS_PER_LOG

TagsOf(S) == {q.ev.tag : q \in S}

\* An event whose enqueue failed (queue full, record too long, storage full or
\* the write failed) is nowhere: not in RAM now, not after any later reboot.
RejectedLeavesNoTrace ==
  /\ TagsOf(queue) \subseteq accepted
  /\ {r.data.tag : r \in logs[LOG_EVENTS]} \subseteq accepted

\* "Persist the acknowledgement first" (mark_committed): RAM never takes an
\* acknowledgement storage does not have under the number RAM used for it.
AckPersistedFirst ==
  \A q \in queue : q.ev.committed =>
    \A r \in Scanned(LOG_EVENTS) : r.id # q.ev.event_id

\* Reclaiming room in a full log takes acknowledged records only, and an
\* acknowledgement in storage is never taken back.
UnacknowledgedRecordsKept == [][\A log \in LogIds : RecordsKept(log)]_vars

-----------------------------------------------------------------------------
(***************************************************************************)
(* Properties of the queue in a steady environment (SteadySpec).  Under    *)
(* Spec each of them fails: README, "Findings".                            *)
(***************************************************************************)

\* A reboot changes nothing: the unacknowledged entries in RAM are exactly the
\* ones recover() would rebuild from storage, in the same order.
RamMatchesFlash == Pending = Recoverable

\* No accepted event is lost: it is acknowledged, or a reboot brings it back.
NoLoss == accepted \subseteq acked \cup TagsOf(Recoverable)

\* "Acknowledged events are not replayed during recovery" (docs/GAPS.md).
NoReplay == acked \cap TagsOf(Recoverable) = {}

\* "stable ID" (event.h): an event in storage keeps its event id to itself.  No
\* other record has it, and no later event will get it: the counter is past
\* every id in storage, also when a boot has just set it back to what it found.
StableIds ==
  /\ \A r, s \in logs[LOG_EVENTS] : r.data.event_id = s.data.event_id => r = s
  /\ \A r \in logs[LOG_EVENTS] : r.data.event_id < nextEventId

\* "upload order" (event.h): the queue gives events out in the order they were
\* made, and sequence numbers, across reboots, tell that order.
UploadOrder ==
  \A p, q \in Pending : p.pos < q.pos =>
    /\ p.ev.tag < q.ev.tag
    /\ p.ev.sequence_number < q.ev.sequence_number

\* The queue with its storage is a durable outbox: what is owed is what a
\* reboot would recover.
Outbox == INSTANCE DurableOutbox
  WITH Tags <- 1..MaxEvents, Capacity <- MAX_QUEUE_SIZE,
       pending <- TagsOf(Recoverable), acked <- acked

OutboxSpec == Outbox!Spec
=============================================================================
