----------------------------- MODULE SimStorage -----------------------------
(***************************************************************************)
(* The append-log half of the simulated flash,                             *)
(* src/firmware/hal/sim/hal_sim.cpp (SimStorage): append_record,     *)
(* scan_records, mark_record_committed and the one-shot write fault.       *)
(* Every operation holds SimStorage::mutex_ for its whole body, so each    *)
(* one is a single atomic action.                                          *)
(*                                                                         *)
(* A log is a vector<Record> whose ids come from one counter and only ever *)
(* grow along the vector (push_back at the end, erase keeps the order), so *)
(* it is modelled as the set of its records; "earlier in the log" is       *)
(* "smaller id".  The record's bytes are a value `data' of the client.     *)
(*                                                                         *)
(* The actions take the Status the C++ call returns as a parameter: the    *)
(* call returns s exactly when the action with status s is taken.          *)
(*                                                                         *)
(* "Mutant..." is a plausible bug in the definition after it and is used   *)
(* by no other definition.                                                 *)
(***************************************************************************)
EXTENDS Naturals, FiniteSets

CONSTANT MAX_RECORDS_PER_LOG        \* 5000 in hal_sim.h

ASSUME RecordLimitAssumption == MAX_RECORDS_PER_LOG \in Nat \ {0}

VARIABLES
  logs,               \* logs_: for each log, the set of its records
  nextRecordId,       \* next_id_: ONE counter shared by all the logs
  corruptNextWrite    \* corrupt_next_write: the next write is to fail

storageVars == <<logs, nextRecordId, corruptNextWrite>>

\* The two logs something writes.  LOG_OTA and LOG_CRASH have no writer, so the
\* limit of MAX_LOGS = 8 logs cannot be met and is left out.
LOG_EVENTS      == "LOG_EVENTS"
LOG_DIAGNOSTICS == "LOG_DIAGNOSTICS"
LogIds          == {LOG_EVENTS, LOG_DIAGNOSTICS}

Status == {"OK", "ERR_FULL", "ERR_CORRUPT", "ERR_NOT_FOUND"}

Record(Data) == [id : Nat, data : Data, committed : BOOLEAN]

StorageInit ==
  /\ logs = [log \in LogIds |-> {}]
  /\ nextRecordId = 1
  /\ corruptNextWrite = FALSE

-----------------------------------------------------------------------------
MutantScanned(log) == logs[log]

\* scan_records: what the visitor is shown, in order of id.
Scanned(log) == {r \in logs[log] : ~r.committed}

MutantReclaimed(log) ==
  IF Cardinality(logs[log]) >= MAX_RECORDS_PER_LOG THEN {} ELSE logs[log]

\* The log as append_record leaves it before it looks for room: at the limit
\* the acknowledged records are erased.
Reclaimed(log) ==
  IF Cardinality(logs[log]) >= MAX_RECORDS_PER_LOG
  THEN Scanned(log)
  ELSE logs[log]

\* append_record(log, data).  `fits' is FALSE for a record longer than
\* MAX_RECORD_BYTES.  Space reclaimed for a write that then fails stays
\* reclaimed, and the one-shot fault is spent only by a write that gets as far
\* as finding room.  A failed append consumes no record id.
AppendRecord(log, data, fits, status) ==
  \/ /\ ~fits
     /\ status = "ERR_FULL"
     /\ UNCHANGED storageVars
  \/ /\ fits
     /\ Cardinality(Reclaimed(log)) >= MAX_RECORDS_PER_LOG
     /\ status = "ERR_FULL"
     /\ logs' = [logs EXCEPT ![log] = Reclaimed(log)]
     /\ UNCHANGED <<nextRecordId, corruptNextWrite>>
  \/ /\ fits
     /\ Cardinality(Reclaimed(log)) < MAX_RECORDS_PER_LOG
     /\ corruptNextWrite
     /\ status = "ERR_CORRUPT"
     /\ logs' = [logs EXCEPT ![log] = Reclaimed(log)]
     /\ corruptNextWrite' = FALSE
     /\ UNCHANGED nextRecordId
  \/ /\ fits
     /\ Cardinality(Reclaimed(log)) < MAX_RECORDS_PER_LOG
     /\ ~corruptNextWrite
     /\ status = "OK"
     /\ logs' = [logs EXCEPT ![log] = Reclaimed(log) \cup
                   {[id |-> nextRecordId, data |-> data, committed |-> FALSE]}]
     /\ nextRecordId' = nextRecordId + 1
     /\ UNCHANGED corruptNextWrite

\* mark_record_committed(log, id): the record is found by its RECORD id.
MarkRecordCommitted(log, id, status) ==
  /\ \/ /\ status = "OK"
        /\ \E r \in logs[log] :
             /\ r.id = id
             /\ logs' = [logs EXCEPT ![log] =
                           (@ \ {r}) \cup {[r EXCEPT !.committed = TRUE]}]
     \/ /\ status = "ERR_NOT_FOUND"
        /\ \A r \in logs[log] : r.id # id
        /\ UNCHANGED logs
  /\ UNCHANGED <<nextRecordId, corruptNextWrite>>

\* inject_corruption_for_test: arms the one-shot fault, whatever key is given.
InjectCorruption ==
  /\ corruptNextWrite' = TRUE
  /\ UNCHANGED <<logs, nextRecordId>>
-----------------------------------------------------------------------------
\* What any operation may do to a log: an unacknowledged record stays (it may
\* become acknowledged), no acknowledgement is taken back, and a new record has
\* an id not given out before.
RecordsKept(log) ==
  /\ \A r \in Scanned(log) :
       \E s \in logs'[log] : s.id = r.id /\ s.data = r.data
  /\ \A s \in logs'[log] :
       ~s.committed => s \in logs[log] \/ s.id >= nextRecordId
=============================================================================
