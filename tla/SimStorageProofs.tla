-------------------------- MODULE SimStorageProofs --------------------------
(***************************************************************************)
(* What every client of SimStorage may rely on, for every size of log and  *)
(* every kind of data: an invariant of the append logs that each operation *)
(* preserves, and what an append and a commit do to the records a recovery *)
(* would be shown.                                                         *)
(***************************************************************************)
EXTENDS SimStorage, FiniteSetTheorems, TLAPS

IsRecord(r) == r \in Record({r.data})

\* A log is a finite set of at most MAX_RECORDS_PER_LOG records with different
\* ids, all of them handed out already.
LogInv(log) ==
  /\ IsFiniteSet(logs[log])
  /\ Cardinality(logs[log]) <= MAX_RECORDS_PER_LOG
  /\ \A r \in logs[log] : IsRecord(r) /\ r.id < nextRecordId
  /\ \A r, s \in logs[log] : r.id = s.id => r = s

StorageInv ==
  /\ logs = [log \in LogIds |-> logs[log]]
  /\ nextRecordId \in Nat \ {0}
  /\ corruptNextWrite \in BOOLEAN
  /\ \A log \in LogIds : LogInv(log)

\* The record an append of `data' writes.
Appended(data) == [id |-> nextRecordId, data |-> data, committed |-> FALSE]

-----------------------------------------------------------------------------
(* The empty storage satisfies the invariant.                              *)
LEMMA StorageInitInv == StorageInit => StorageInv
<1> SUFFICES ASSUME StorageInit PROVE StorageInv
  OBVIOUS
<1>1. ASSUME NEW log \in LogIds PROVE LogInv(log)
  BY RecordLimitAssumption, FS_EmptySet DEF StorageInit, LogInv
<1>2. logs = [log \in LogIds |-> logs[log]]
  BY DEF StorageInit
<1>3. nextRecordId \in Nat \ {0}
  BY DEF StorageInit
<1>4. corruptNextWrite \in BOOLEAN
  BY Zenon DEF StorageInit
<1> QED
  BY <1>1, <1>2, <1>3, <1>4 DEF StorageInv

(* Reclaiming keeps the invariant of a log, shrinks it and keeps every     *)
(* record that is not acknowledged.                                        *)
LEMMA ReclaimedFacts ==
  ASSUME NEW log \in LogIds, StorageInv
  PROVE  /\ Reclaimed(log) \subseteq logs[log]
         /\ Scanned(log) \subseteq Reclaimed(log)
         /\ IsFiniteSet(Reclaimed(log))
         /\ Cardinality(Reclaimed(log)) \in Nat
         /\ Cardinality(Reclaimed(log)) <= MAX_RECORDS_PER_LOG
<1>1. /\ Reclaimed(log) \subseteq logs[log]
      /\ Scanned(log) \subseteq Reclaimed(log)
  BY DEF Reclaimed, Scanned
<1>2. /\ IsFiniteSet(logs[log])
      /\ Cardinality(logs[log]) \in Nat
      /\ Cardinality(logs[log]) <= MAX_RECORDS_PER_LOG
  BY FS_CardinalityType DEF StorageInv, LogInv
<1>3. /\ IsFiniteSet(Reclaimed(log))
      /\ Cardinality(Reclaimed(log)) <= Cardinality(logs[log])
  BY <1>1, <1>2, FS_Subset
<1>4. Cardinality(Reclaimed(log)) \in Nat
  BY <1>3, FS_CardinalityType
<1> QED
  BY <1>1, <1>2, <1>3, <1>4, RecordLimitAssumption

(* What a log holds after an append, whatever status the call returns.     *)
LEMMA AppendShape ==
  ASSUME NEW log \in LogIds, NEW data, NEW fits \in BOOLEAN, NEW status,
         StorageInv, AppendRecord(log, data, fits, status)
  PROVE  /\ status = "OK" =>
              /\ Cardinality(Reclaimed(log)) < MAX_RECORDS_PER_LOG
              /\ logs' = [logs EXCEPT ![log] = Reclaimed(log) \cup {Appended(data)}]
              /\ nextRecordId' = nextRecordId + 1
         /\ status # "OK" => nextRecordId' = nextRecordId
         /\ status # "OK" => \E kept \in {logs[log], Reclaimed(log)} :
                               logs' = [logs EXCEPT ![log] = kept]
         /\ corruptNextWrite' \in BOOLEAN
<1>1. logs = [logs EXCEPT ![log] = logs[log]]
  BY DEF StorageInv
<1> QED
  BY <1>1 DEF AppendRecord, storageVars, Appended, StorageInv

(* An append keeps the invariant.                                          *)
LEMMA AppendInv ==
  ASSUME NEW log \in LogIds, NEW data, NEW fits \in BOOLEAN, NEW status,
         StorageInv, AppendRecord(log, data, fits, status)
  PROVE  StorageInv'
<1>0. corruptNextWrite' \in BOOLEAN
  BY AppendShape, Zenon
<1>1. CASE status = "OK"
  <2>1. /\ Cardinality(Reclaimed(log)) < MAX_RECORDS_PER_LOG
        /\ logs' = [logs EXCEPT ![log] = Reclaimed(log) \cup {Appended(data)}]
        /\ nextRecordId' = nextRecordId + 1
    BY <1>1 DEF AppendRecord, Appended
  <2>2. nextRecordId \in Nat \ {0} /\ nextRecordId' \in Nat \ {0}
    BY <2>1 DEF StorageInv
  <2>3. logs' = [l \in LogIds |-> logs'[l]]
    BY <2>1 DEF StorageInv
  <2>4. ASSUME NEW l \in LogIds PROVE LogInv(l)'
    <3>1. CASE l # log
      BY <2>1, <2>2, <3>1 DEF StorageInv, LogInv, IsRecord, Record
    <3>2. CASE l = log
      <4>1. logs'[l] = Reclaimed(log) \cup {Appended(data)}
        BY <2>1, <3>2 DEF StorageInv
      <4>2. IsFiniteSet(logs'[l]) /\ Cardinality(logs'[l]) <= MAX_RECORDS_PER_LOG
        <5>1. /\ IsFiniteSet(Reclaimed(log))
              /\ Cardinality(Reclaimed(log)) \in Nat
          BY ReclaimedFacts
        <5>2. /\ IsFiniteSet(logs'[l])
              /\ \/ Cardinality(logs'[l]) = Cardinality(Reclaimed(log))
                 \/ Cardinality(logs'[l]) = Cardinality(Reclaimed(log)) + 1
          BY <4>1, <5>1, FS_AddElement
        <5> QED
          BY <2>1, <5>1, <5>2, RecordLimitAssumption
      <4>3. \A r \in Reclaimed(log) : IsRecord(r) /\ r.id < nextRecordId
        BY ReclaimedFacts DEF StorageInv, LogInv
      <4>4. IsRecord(Appended(data)) /\ Appended(data).id = nextRecordId
        BY <2>2 DEF IsRecord, Record, Appended
      <4>5. \A r \in logs'[l] : IsRecord(r) /\ r.id < nextRecordId'
        BY <2>1, <2>2, <4>1, <4>3, <4>4 DEF IsRecord, Record
      <4>6. \A r, s \in logs'[l] : r.id = s.id => r = s
        <5>1. \A r, s \in Reclaimed(log) : r.id = s.id => r = s
          BY ReclaimedFacts DEF StorageInv, LogInv
        <5>2. \A r \in Reclaimed(log) : r.id # nextRecordId
          BY <2>2, <4>3 DEF IsRecord, Record
        <5> QED
          BY <4>1, <4>4, <5>1, <5>2
      <4> QED
        BY <4>2, <4>5, <4>6 DEF LogInv, IsRecord, Record
    <3> QED
      BY <3>1, <3>2
  <2> QED
    BY <1>0, <2>2, <2>3, <2>4 DEF StorageInv
<1>2. CASE status # "OK"
  <2>1. nextRecordId' = nextRecordId
    BY <1>2, AppendShape
  <2>2. PICK kept \in {logs[log], Reclaimed(log)} :
          logs' = [logs EXCEPT ![log] = kept]
    BY <1>2, AppendShape
  <2>3. /\ kept \subseteq logs[log]
        /\ IsFiniteSet(kept)
        /\ Cardinality(kept) <= MAX_RECORDS_PER_LOG
    BY ReclaimedFacts DEF StorageInv, LogInv
  <2>4. logs' = [l \in LogIds |-> logs'[l]]
    BY <2>2 DEF StorageInv
  <2>5. ASSUME NEW l \in LogIds PROVE LogInv(l)'
    BY <2>1, <2>2, <2>3 DEF StorageInv, LogInv, IsRecord, Record
  <2> QED
    BY <1>0, <2>1, <2>4, <2>5 DEF StorageInv
<1> QED
  BY <1>1, <1>2

(* An append that succeeds adds one record to what a recovery is shown; an *)
(* append that fails, with or without reclaiming room, adds and removes    *)
(* nothing.  The other logs are left alone.                                *)
LEMMA AppendScanned ==
  ASSUME NEW log \in LogIds, NEW data, NEW fits \in BOOLEAN, NEW status,
         StorageInv, AppendRecord(log, data, fits, status)
  PROVE  /\ status = "OK" => Scanned(log)' = Scanned(log) \cup {Appended(data)}
         /\ status # "OK" => Scanned(log)' = Scanned(log)
         /\ logs'[log] \subseteq logs[log] \cup {Appended(data)}
         /\ status # "OK" => logs'[log] \subseteq logs[log]
         /\ \A l \in LogIds : l # log => logs'[l] = logs[l]
<1>1. CASE status = "OK"
  <2>1. logs' = [logs EXCEPT ![log] = Reclaimed(log) \cup {Appended(data)}]
    BY <1>1, AppendShape
  <2>2. logs'[log] = Reclaimed(log) \cup {Appended(data)}
    BY <2>1 DEF StorageInv
  <2>3. ~Appended(data).committed
    BY DEF Appended
  <2>4. Scanned(log)' = Scanned(log) \cup {Appended(data)}
    BY <2>2, <2>3, ReclaimedFacts DEF Scanned
  <2> QED
    BY <1>1, <2>1, <2>2, <2>4, ReclaimedFacts DEF StorageInv
<1>2. CASE status # "OK"
  <2>1. PICK kept \in {logs[log], Reclaimed(log)} :
          logs' = [logs EXCEPT ![log] = kept]
    BY <1>2, AppendShape
  <2>2. logs'[log] = kept
    BY <2>1 DEF StorageInv
  <2>3. kept \subseteq logs[log] /\ Scanned(log) \subseteq kept
    BY ReclaimedFacts DEF Scanned
  <2>4. Scanned(log)' = Scanned(log)
    BY <2>2, <2>3 DEF Scanned
  <2> QED
    BY <1>2, <2>1, <2>2, <2>3, <2>4 DEF StorageInv
<1> QED
  BY <1>1, <1>2

(* An append that fails writes no record and uses no id.                   *)
LEMMA AppendFailed ==
  ASSUME NEW log \in LogIds, NEW data, NEW fits \in BOOLEAN, NEW status,
         StorageInv, AppendRecord(log, data, fits, status), status # "OK"
  PROVE  /\ \A r \in logs'[log] : r \in logs[log]
         /\ nextRecordId' = nextRecordId
<1>1. \A r \in logs'[log] : r \in logs[log]
  BY AppendScanned
<1>2. nextRecordId' = nextRecordId
  BY AppendShape
<1> QED
  BY <1>1, <1>2

(* A commit keeps the invariant.  It takes the one record of that id, if   *)
(* there is one, out of what a recovery is shown, and nothing else.        *)
LEMMA MarkFacts ==
  ASSUME NEW log \in LogIds, NEW id, NEW status,
         StorageInv, MarkRecordCommitted(log, id, status)
  PROVE  /\ StorageInv'
         /\ nextRecordId' = nextRecordId
         /\ Scanned(log)' = {r \in Scanned(log) : r.id # id}
         /\ \A r \in logs'[log] :
              \E s \in logs[log] : s.id = r.id /\ s.data = r.data
         /\ \A s \in logs[log] :
              \E r \in logs'[log] : s.id = r.id /\ s.data = r.data
         /\ \A l \in LogIds : l # log => logs'[l] = logs[l]
         /\ status = "OK" <=> \E r \in logs[log] : r.id = id
         /\ status # "OK" => logs' = logs
<1>1. CASE \A r \in logs[log] : r.id # id
  BY <1>1 DEF MarkRecordCommitted, StorageInv, LogInv, IsRecord, Record, Scanned
<1>2. CASE \E r \in logs[log] : r.id = id
  <2>1. PICK r \in logs[log] :
          /\ r.id = id
          /\ logs' = [logs EXCEPT ![log] =
                        (@ \ {r}) \cup {[r EXCEPT !.committed = TRUE]}]
    BY <1>2 DEF MarkRecordCommitted
  <2> DEFINE marked == [r EXCEPT !.committed = TRUE]
  <2>2. /\ UNCHANGED <<nextRecordId, corruptNextWrite>>
        /\ status = "OK"
    BY <1>2 DEF MarkRecordCommitted
  <2>3. /\ logs'[log] = (logs[log] \ {r}) \cup {marked}
        /\ logs' = [l \in LogIds |-> logs'[l]]
        /\ \A l \in LogIds : l # log => logs'[l] = logs[l]
    BY <2>1 DEF StorageInv
  <2>4. IsRecord(r) /\ r.id < nextRecordId
    BY DEF StorageInv, LogInv
  <2>5. /\ marked.id = id
        /\ marked.data = r.data
        /\ marked.committed
        /\ IsRecord(marked)
    <3>1. marked \in Record({r.data})
      BY <2>4 DEF IsRecord, Record
    <3>2. marked.data = r.data /\ marked.id = id /\ marked.committed
      BY <2>1, <2>4 DEF IsRecord, Record
    <3> QED
      BY <3>1, <3>2 DEF IsRecord, Record
  <2>6. \A s \in logs[log] : s.id = id => s = r
    BY <2>1 DEF StorageInv, LogInv
  <2> HIDE DEF marked
  <2>7. Scanned(log)' = {s \in Scanned(log) : s.id # id}
    BY <2>1, <2>3, <2>5, <2>6 DEF Scanned
  <2>8. LogInv(log)'
    <3>1. IsFiniteSet(logs[log]) /\ Cardinality(logs[log]) \in Nat
      BY FS_CardinalityType DEF StorageInv, LogInv
    <3>2. /\ IsFiniteSet(logs[log] \ {r})
          /\ Cardinality(logs[log] \ {r}) = Cardinality(logs[log]) - 1
      BY <3>1, FS_RemoveElement
    <3>3. /\ IsFiniteSet(logs'[log])
          /\ Cardinality(logs'[log]) <= Cardinality(logs[log])
      <4> DEFINE rest == logs[log] \ {r}
      <4>1. IsFiniteSet(rest) /\ Cardinality(rest) = Cardinality(logs[log]) - 1
        BY <3>2
      <4>2. logs'[log] = rest \cup {marked}
        BY <2>3
      <4> HIDE DEF rest
      <4>3. /\ IsFiniteSet(logs'[log])
            /\ \/ Cardinality(logs'[log]) = Cardinality(rest)
               \/ Cardinality(logs'[log]) = Cardinality(rest) + 1
        BY <4>1, <4>2, FS_AddElement
      <4> QED
        BY <3>1, <4>1, <4>3
    <3>4. Cardinality(logs'[log]) \in Nat
      BY <3>3, FS_CardinalityType
    <3>5. Cardinality(logs'[log]) <= MAX_RECORDS_PER_LOG
      BY <3>1, <3>3, <3>4, RecordLimitAssumption DEF StorageInv, LogInv
    <3>6. \A s \in logs'[log] : IsRecord(s) /\ s.id < nextRecordId'
      BY <2>1, <2>2, <2>3, <2>4, <2>5 DEF StorageInv, LogInv
    <3>7. \A s, t \in logs'[log] : s.id = t.id => s = t
      BY <2>1, <2>3, <2>5, <2>6 DEF StorageInv, LogInv
    <3> QED
      BY <3>3, <3>5, <3>6, <3>7 DEF LogInv, IsRecord, Record
  <2>9. StorageInv'
    BY <2>2, <2>3, <2>8 DEF StorageInv, LogInv, IsRecord, Record
  <2> QED
    BY <2>1, <2>2, <2>3, <2>5, <2>7, <2>9
<1> QED
  BY <1>1, <1>2
-----------------------------------------------------------------------------
(* A log that does not change is kept.                                     *)
LEMMA SameRecordsKept ==
  ASSUME NEW log \in LogIds, logs'[log] = logs[log]
  PROVE  RecordsKept(log)
BY DEF RecordsKept, Scanned

(* An append, succeeding or not, keeps the unacknowledged records.         *)
LEMMA AppendKeeps ==
  ASSUME NEW log \in LogIds, NEW data, NEW fits \in BOOLEAN, NEW status,
         StorageInv, AppendRecord(log, data, fits, status),
         NEW l \in LogIds
  PROVE  RecordsKept(l)
<1>1. CASE l # log
  <2>1. logs'[l] = logs[l]
    BY <1>1, AppendScanned
  <2> QED
    BY <2>1, SameRecordsKept
<1>2. CASE l = log
  <2>1. Scanned(log) \subseteq Scanned(log)'
    <3>1. status = "OK" => Scanned(log)' = Scanned(log) \cup {Appended(data)}
      BY AppendScanned
    <3>2. status # "OK" => Scanned(log)' = Scanned(log)
      BY AppendScanned
    <3> QED
      BY <3>1, <3>2
  <2>2. logs'[log] \subseteq logs[log] \cup {Appended(data)}
    BY AppendScanned
  <2>3. Appended(data).id >= nextRecordId
    BY DEF Appended, StorageInv
  <2> QED
    BY <1>2, <2>1, <2>2, <2>3 DEF RecordsKept, Scanned
<1> QED
  BY <1>1, <1>2

(* A commit keeps every record, and un-acknowledges none.                  *)
LEMMA MarkKeeps ==
  ASSUME NEW log \in LogIds, NEW id, NEW status,
         StorageInv, MarkRecordCommitted(log, id, status),
         NEW l \in LogIds
  PROVE  RecordsKept(l)
<1>1. CASE l # log
  <2>1. logs'[l] = logs[l]
    BY <1>1, MarkFacts
  <2> QED
    BY <2>1, SameRecordsKept
<1>2. CASE l = log
  <2>1. \A s \in logs[log] : \E r \in logs'[log] : s.id = r.id /\ s.data = r.data
    BY MarkFacts
  <2>2. Scanned(log)' = {r \in Scanned(log) : r.id # id}
    BY MarkFacts
  <2> QED
    BY <1>2, <2>1, <2>2 DEF RecordsKept, Scanned
<1> QED
  BY <1>1, <1>2
=============================================================================
