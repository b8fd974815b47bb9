------------------------- MODULE DiagnosticsProofs -------------------------
(***************************************************************************)
(* Proofs about Diagnostics, for any callers, any size of ring and of log  *)
(* and any number of errors: every error traced is stored, and the ring    *)
(* exported implements a TraceWindow.                                      *)
(***************************************************************************)
EXTENDS Diagnostics, SimStorageProofs, SequenceTheorems

USE RecordLimitAssumption, DiagnosticsAssumption

\* Types, and how full the ring is: it wraps around only when it is full.
RingInv ==
  /\ ring \in Seq(Entry)
  /\ Len(ring) <= RING_BUFFER_MAX
  /\ ringIndex \in 0..(RING_BUFFER_MAX - 1)
  /\ Len(ring) < RING_BUFFER_MAX => ringIndex = 0

CallInv ==
  /\ stage \in [Callers -> {"idle", "stamp", "insert"}]
  /\ entry \in [Callers -> Entry]
  /\ clock \in Nat
  /\ errors \in Nat

\* Nobody acknowledges a record of the error log, so nothing of it is reclaimed.
LogKept == \A r \in logs[LOG_DIAGNOSTICS] : ~r.committed

\* A task adds its own entries, one at a time: the one it has stamped is the
\* latest of the task.
StampInv ==
  /\ \A i \in 1..Len(ring) : ring[i].time <= clock
  /\ \A c \in Callers :
       /\ entry[c].task = c
       /\ stage[c] = "insert" =>
            /\ entry[c].time <= clock
            /\ \A i \in 1..Len(ring) :
                 ring[i].task = c => ring[i].time <= entry[c].time

\* The inductive invariant.
DiagnosticsInv ==
  /\ StorageInv
  /\ RingInv
  /\ CallInv
  /\ LogKept
  /\ StampInv
  /\ TracedErrorsAreStored

-----------------------------------------------------------------------------
\* The record of an error is in the log; 0 is no error.
IsStored(error) == error # 0 => \E r \in logs[LOG_DIAGNOSTICS] : r.data = error

(* What is shown, and about to be shown, entry by entry.                   *)
LEMMA TracedIs ==
  ASSUME ring \in Seq(Entry)
  PROVE  TracedErrorsAreStored <=>
           /\ \A i \in 1..Len(ring) : IsStored(ring[i].error)
           /\ \A c \in Callers : IsStored(entry[c].error)
<1>1. DOMAIN ring = 1..Len(ring)
  OBVIOUS
<1> QED
  BY <1>1 DEF TracedErrorsAreStored, IsStored

LEMMA EntryFacts ==
  /\ \A e \in Entry : e.task \in Callers /\ e.error \in Nat /\ e.time \in Nat
  /\ \A c \in Callers, n \in Nat :
       /\ Blank(c, n) \in Entry /\ Blank(c, n).task = c
       /\ Blank(c, n).error = n /\ Blank(c, n).time = 0
BY DEF Entry, Blank

(* A write to the error log that nobody acknowledges only adds to it.      *)
LEMMA LogErrorAppends ==
  ASSUME StorageInv, LogKept, NEW data, NEW s, AppendRecord(LOG_DIAGNOSTICS, data, TRUE, s)
  PROVE  /\ StorageInv' /\ LogKept'
         /\ \A r \in logs[LOG_DIAGNOSTICS] : r \in logs'[LOG_DIAGNOSTICS]
         /\ s = "OK" => \E r \in logs'[LOG_DIAGNOSTICS] : r.data = data
<1>1. PICK log \in LogIds, fits \in BOOLEAN :
        log = LOG_DIAGNOSTICS /\ AppendRecord(log, data, fits, s)
  BY DEF LogIds
<1>2. StorageInv'
  BY <1>1, AppendInv
<1>3. /\ s = "OK" => Scanned(log)' = Scanned(log) \cup {Appended(data)}
      /\ s # "OK" => Scanned(log)' = Scanned(log)
      /\ logs'[log] \subseteq logs[log] \cup {Appended(data)}
  BY <1>1, AppendScanned
<1>4. Scanned(log) = logs[log]
  BY <1>1 DEF LogKept, Scanned
<1>5. Scanned(log)' \subseteq logs'[log]
  BY DEF Scanned
<1>6. ~Appended(data).committed /\ Appended(data).data = data
  BY DEF Appended
<1>7. LogKept'
  BY <1>1, <1>3, <1>6 DEF LogKept
<1> QED
  BY <1>1, <1>2, <1>3, <1>4, <1>5, <1>6, <1>7

(* Every step keeps the log, and what was stored stays stored.             *)
LEMMA LogNext ==
  ASSUME StorageInv, LogKept, [DiagnosticsNext]_diagnosticsVars
  PROVE  /\ StorageInv' /\ LogKept'
         /\ \A n : IsStored(n) => IsStored(n)'
<1>1. CASE \E c \in Callers : LogError(c)
  <2>1. PICK s \in Status : AppendRecord(LOG_DIAGNOSTICS, errors', TRUE, s)
    BY <1>1 DEF LogError
  <2> QED
    BY <2>1, LogErrorAppends DEF IsStored
<1>2. CASE UNCHANGED <<logs, nextRecordId>> /\ corruptNextWrite' \in BOOLEAN
  BY <1>2 DEF StorageInv, LogInv, LogKept, IsStored
<1>3. CASE \E c \in Callers : RecordCrash(c)
  <2>1. PICK c \in Callers, s \in Status : Blobs!WriteBlob("last_crash", c, s)
    BY <1>3 DEF RecordCrash
  <2>2. corruptNextWrite' \in BOOLEAN
    BY <2>1 DEF Blobs!WriteBlob, StorageInv
  <2> QED
    BY <1>2, <1>3, <2>2 DEF RecordCrash
<1>4. CASE WriteFault
  BY <1>2, <1>4 DEF WriteFault, InjectCorruption
<1>5. CASE \/ \E c \in Callers : BeginTrace(c) \/ Stamp(c) \/ Insert(c)
           \/ Restart \/ UNCHANGED diagnosticsVars
  <2>1. UNCHANGED <<logs, nextRecordId, corruptNextWrite>>
    BY <1>5 DEF BeginTrace, Stamp, Insert, Restart, diagnosticsVars, storageVars
  <2> QED
    BY <1>2, <2>1 DEF StorageInv
<1> QED
  BY <1>1, <1>3, <1>4, <1>5 DEF DiagnosticsNext, SomeCall, Call

-----------------------------------------------------------------------------
LEMMA DiagnosticsInitInv == DiagnosticsInit => DiagnosticsInv
<1> SUFFICES ASSUME DiagnosticsInit PROVE DiagnosticsInv
  OBVIOUS
<1>1. StorageInv /\ logs[LOG_DIAGNOSTICS] = {}
  BY StorageInitInv DEF DiagnosticsInit, StorageInit, LogIds
<1>2. /\ ring = <<>> /\ ringIndex = 0 /\ clock = 0 /\ errors = 0
      /\ stage = NoStage /\ entry = NoEntry
  BY DEF DiagnosticsInit
<1>3. RingInv
  BY <1>2 DEF RingInv
<1>4. CallInv
  BY <1>2, EntryFacts DEF CallInv, NoStage, NoEntry
<1>5. \A c \in Callers : entry[c].task = c /\ entry[c].error = 0 /\ stage[c] = "idle"
  BY <1>2, EntryFacts DEF NoStage, NoEntry
<1>6. LogKept /\ StampInv
  BY <1>1, <1>2, <1>5 DEF LogKept, StampInv
<1>7. TracedErrorsAreStored
  <2>1. ring \in Seq(Entry) /\ Len(ring) = 0
    BY <1>2
  <2> QED
    BY <1>5, <2>1, TracedIs DEF IsStored
<1> QED
  BY <1>1, <1>3, <1>4, <1>6, <1>7 DEF DiagnosticsInv

(* What an insertion does to the ring: one entry more, or one replaced.    *)
LEMMA InsertShape ==
  ASSUME RingInv, CallInv, NEW c \in Callers, Insert(c)
  PROVE  /\ RingInv'
         /\ \A i \in 1..Len(ring') : \/ i \in 1..Len(ring) /\ ring'[i] = ring[i]
                                     \/ ring'[i] = entry[c]
<1>0. entry[c] \in Entry /\ RING_BUFFER_MAX \in Nat \ {0} /\ Len(ring) \in Nat
  BY DEF CallInv, RingInv
<1>1. CASE Len(ring) < RING_BUFFER_MAX
  <2>1. ring' = Append(ring, entry[c]) /\ ringIndex' = ringIndex
    BY <1>1 DEF Insert
  <2>2. /\ ring' \in Seq(Entry) /\ Len(ring') = Len(ring) + 1
        /\ \A i \in 1..Len(ring) : ring'[i] = ring[i]
        /\ ring'[Len(ring) + 1] = entry[c]
    BY <1>0, <2>1 DEF RingInv
  <2>3. RingInv'
    BY <1>0, <1>1, <2>1, <2>2 DEF RingInv
  <2>4. \A i \in 1..Len(ring') : i \in 1..Len(ring) \/ i = Len(ring) + 1
    BY <1>0, <2>2
  <2> QED
    BY <2>2, <2>3, <2>4
<1>2. CASE ~(Len(ring) < RING_BUFFER_MAX)
  <2>1. /\ ring' = [ring EXCEPT ![ringIndex + 1] = entry[c]]
        /\ ringIndex' = (ringIndex + 1) % RING_BUFFER_MAX
    BY <1>2 DEF Insert
  <2>2. /\ ring' \in Seq(Entry) /\ Len(ring') = Len(ring)
        /\ \A i \in 1..Len(ring) : ring'[i] = ring[i] \/ ring'[i] = entry[c]
    <3>1. ring \in Seq(Entry) /\ ringIndex + 1 \in 1..Len(ring)
      BY <1>0, <1>2 DEF RingInv
    <3> QED
      BY <1>0, <2>1, <3>1, ExceptSeq
  <2>3. ringIndex' \in 0..(RING_BUFFER_MAX - 1)
    BY <1>0, <2>1 DEF RingInv
  <2>4. RingInv'
    BY <1>0, <1>2, <2>2, <2>3 DEF RingInv
  <2> QED
    BY <2>2, <2>4
<1> QED
  BY <1>1, <1>2

(* The calls in progress stay well typed.                                  *)
LEMMA CallNext ==
  ASSUME CallInv, RingInv, [DiagnosticsNext]_diagnosticsVars
  PROVE  CallInv' /\ RingInv'
<1>1. ASSUME NEW c \in Callers, LogError(c) PROVE CallInv' /\ RingInv'
  <2>1. errors' \in Nat /\ UNCHANGED <<ring, ringIndex, clock>>
    BY <1>1 DEF LogError, CallInv, ringVars
  <2>2. Blank(c, errors') \in Entry
    BY <2>1, EntryFacts
  <2>3. /\ stage' \in [Callers -> {"idle", "stamp", "insert"}]
        /\ entry' \in [Callers -> Entry]
    BY <1>1, <2>2 DEF LogError, CallInv, callVars
  <2> QED
    BY <2>1, <2>3 DEF CallInv, RingInv
<1>2. ASSUME NEW c \in Callers, BeginTrace(c) PROVE CallInv' /\ RingInv'
  <2>1. Blank(c, 0) \in Entry
    BY EntryFacts
  <2> QED
    BY <1>2, <2>1 DEF BeginTrace, CallInv, RingInv, ringVars
<1>3. ASSUME NEW c \in Callers, Stamp(c) PROVE CallInv' /\ RingInv'
  <2>1. clock' \in Nat
    BY <1>3 DEF Stamp, CallInv
  <2>2. [entry[c] EXCEPT !.time = clock'] \in Entry
    BY <2>1 DEF CallInv, Entry
  <2>3. entry' \in [Callers -> Entry]
    BY <1>3, <2>2 DEF Stamp, CallInv
  <2> QED
    BY <1>3, <2>1, <2>3 DEF Stamp, CallInv, RingInv, ringVars
<1>4. ASSUME NEW c \in Callers, Insert(c) PROVE CallInv' /\ RingInv'
  <2>1. Blank(c, 0) \in Entry
    BY EntryFacts
  <2> QED
    BY <1>4, <2>1, InsertShape DEF Insert, CallInv
<1>5. CASE Restart
  <2>1. \A c \in Callers : Blank(c, 0) \in Entry
    BY EntryFacts
  <2> QED
    BY <1>5, <2>1 DEF Restart, CallInv, RingInv, NoStage, NoEntry
<1>6. CASE WriteFault \/ (\E c \in Callers : RecordCrash(c)) \/ UNCHANGED diagnosticsVars
  BY <1>6 DEF WriteFault, RecordCrash, diagnosticsVars, ringVars, callVars, CallInv, RingInv
<1> QED
  BY <1>1, <1>2, <1>3, <1>4, <1>5, <1>6 DEF DiagnosticsNext, SomeCall, Call

(* The stamps: only a task's own steps touch what it is adding.            *)
LEMMA StampNext ==
  ASSUME CallInv, RingInv, StampInv, [DiagnosticsNext]_diagnosticsVars
  PROVE  StampInv'
<1>0. /\ clock \in Nat /\ Len(ring) \in Nat
      /\ \A i \in 1..Len(ring) : ring[i] \in Entry
      /\ \A c \in Callers : entry[c] \in Entry
      /\ \A e \in Entry : e.time \in Nat
  BY EntryFacts DEF CallInv, RingInv
<1>1. ASSUME NEW c \in Callers, LogError(c) \/ BeginTrace(c) PROVE StampInv'
  <2>1. UNCHANGED <<ring, clock>>
    BY <1>1 DEF LogError, BeginTrace, ringVars
  <2>2. \/ UNCHANGED <<stage, entry>>
        \/ /\ stage' = [stage EXCEPT ![c] = "stamp"]
           /\ \E n \in Nat : entry' = [entry EXCEPT ![c] = Blank(c, n)]
    <3>1. CASE LogError(c)
      <4>1. errors' \in Nat
        BY <3>1 DEF LogError, CallInv
      <4>2. \/ UNCHANGED <<stage, entry>>
            \/ /\ stage' = [stage EXCEPT ![c] = "stamp"]
               /\ entry' = [entry EXCEPT ![c] = Blank(c, errors')]
        BY <3>1 DEF LogError, callVars
      <4> QED
        BY <4>1, <4>2
    <3>2. CASE BeginTrace(c)
      BY <3>2 DEF BeginTrace
    <3> QED
      BY <1>1, <3>1, <3>2
  <2>3. \A d \in Callers :
          /\ entry'[d].task = d
          /\ stage'[d] = "insert" => stage[d] = "insert" /\ entry'[d] = entry[d]
    BY <2>2, EntryFacts DEF CallInv, StampInv
  <2> QED
    BY <2>1, <2>3 DEF StampInv
<1>2. ASSUME NEW c \in Callers, Stamp(c) PROVE StampInv'
  <2>1. /\ clock' \in Nat /\ clock <= clock' /\ ring' = ring
        /\ stage' = [stage EXCEPT ![c] = "insert"]
        /\ entry' = [entry EXCEPT ![c].time = clock']
    BY <1>0, <1>2 DEF Stamp, ringVars
  <2>2. /\ entry'[c].task = c /\ entry'[c].time = clock'
        /\ \A d \in Callers : d # c => entry'[d] = entry[d] /\ stage'[d] = stage[d]
    BY <1>0, <2>1 DEF CallInv, StampInv, Entry
  <2>3. \A i \in 1..Len(ring) : ring[i].time <= clock'
    BY <1>0, <2>1 DEF StampInv
  <2>4. ASSUME NEW d \in Callers, d # c, stage'[d] = "insert"
        PROVE  entry'[d].time <= clock'
    BY <1>0, <2>1, <2>2, <2>4 DEF StampInv
  <2> QED
    BY <2>1, <2>2, <2>3, <2>4 DEF StampInv
<1>3. ASSUME NEW c \in Callers, Insert(c) PROVE StampInv'
  <2>1. /\ clock' = clock /\ stage[c] = "insert"
        /\ stage' = [stage EXCEPT ![c] = "idle"]
        /\ entry' = [entry EXCEPT ![c] = Blank(c, 0)]
    BY <1>3 DEF Insert
  <2>2. \A i \in 1..Len(ring') : \/ i \in 1..Len(ring) /\ ring'[i] = ring[i]
                                 \/ ring'[i] = entry[c]
    BY <1>3, InsertShape
  <2>3. \A i \in 1..Len(ring') : ring'[i].time <= clock
    BY <1>0, <2>1, <2>2 DEF StampInv
  <2>4. entry'[c].task = c /\ stage'[c] = "idle"
    BY <2>1, EntryFacts DEF CallInv
  <2>5. \A d \in Callers : d # c => entry'[d] = entry[d] /\ stage'[d] = stage[d]
    BY <2>1 DEF CallInv
  <2>6. ASSUME NEW d \in Callers, d # c, stage'[d] = "insert",
               NEW i \in 1..Len(ring'), ring'[i].task = d
        PROVE  ring'[i].time <= entry'[d].time
    BY <2>2, <2>5, <2>6 DEF StampInv
  <2> QED
    BY <2>1, <2>3, <2>4, <2>5, <2>6 DEF StampInv
<1>4. CASE Restart
  <2>1. ring' = <<>> /\ \A c \in Callers : entry'[c].task = c /\ stage'[c] = "idle"
    BY <1>4, EntryFacts DEF Restart, NoStage, NoEntry
  <2> QED
    BY <2>1 DEF StampInv
<1>5. CASE WriteFault \/ (\E c \in Callers : RecordCrash(c)) \/ UNCHANGED diagnosticsVars
  BY <1>5 DEF WriteFault, RecordCrash, diagnosticsVars, ringVars, callVars, StampInv
<1> QED
  BY <1>1, <1>2, <1>3, <1>4, <1>5 DEF DiagnosticsNext, SomeCall, Call

(* What is shown has its record: an entry that reports an error is made    *)
(* after the append, and the log loses nothing.                            *)
LEMMA TracedNext ==
  ASSUME DiagnosticsInv, [DiagnosticsNext]_diagnosticsVars
  PROVE  TracedErrorsAreStored'
<1> DEFINE After(n) == n # 0 => \E r \in logs'[LOG_DIAGNOSTICS] : r.data = n
<1>0. /\ StorageInv /\ LogKept /\ CallInv /\ RingInv
      /\ \A i \in 1..Len(ring) : IsStored(ring[i].error)
      /\ \A c \in Callers : IsStored(entry[c].error)
  BY TracedIs DEF DiagnosticsInv, RingInv
<1>1. \A n : IsStored(n) => After(n)
  BY <1>0, LogNext DEF IsStored
<1>2. RingInv' /\ CallInv'
  BY <1>0, CallNext
<1> SUFFICES /\ \A i \in 1..Len(ring') : After(ring'[i].error)
             /\ \A c \in Callers : After(entry'[c].error)
  <2>1. DOMAIN ring' = 1..Len(ring')
    BY <1>2 DEF RingInv
  <2> QED
    BY <2>1 DEF TracedErrorsAreStored
<1>3. After(0)
  OBVIOUS
<1> HIDE DEF After
<1>4. ASSUME NEW c \in Callers, LogError(c)
      PROVE  /\ ring' = ring
             /\ \A d \in Callers : After(entry'[d].error)
  <2>1. PICK s \in Status :
          /\ AppendRecord(LOG_DIAGNOSTICS, errors', TRUE, s)
          /\ IF s = "OK" THEN entry' = [entry EXCEPT ![c] = Blank(c, errors')]
                         ELSE entry' = entry
    BY <1>4 DEF LogError, callVars
  <2>2. s = "OK" => After(errors')
    BY <1>0, <2>1, LogErrorAppends DEF After
  <2>3. errors' \in Nat
    BY <1>2 DEF CallInv
  <2>4. Blank(c, errors').error = errors'
    BY <2>3, EntryFacts
  <2> QED
    BY <1>0, <1>1, <1>4, <2>1, <2>2, <2>4 DEF LogError, ringVars, CallInv
<1>5. ASSUME NEW c \in Callers, BeginTrace(c) \/ Stamp(c)
      PROVE  /\ ring' = ring
             /\ \A d \in Callers : entry'[d].error \in {0, entry[d].error}
  <2>1. Blank(c, 0).error = 0
    BY EntryFacts
  <2>2. \A d \in Callers : entry[d] \in Entry
    BY <1>0 DEF CallInv
  <2>3. CASE BeginTrace(c)
    BY <1>0, <2>1, <2>3 DEF BeginTrace, ringVars, CallInv
  <2>4. CASE Stamp(c)
    <3>1. ring' = ring /\ entry' = [entry EXCEPT ![c].time = clock']
      BY <2>4 DEF Stamp, ringVars
    <3>2. [entry[c] EXCEPT !.time = clock'].error = entry[c].error
      BY <2>2 DEF Entry
    <3> QED
      BY <1>0, <3>1, <3>2 DEF CallInv
  <2> QED
    BY <1>5, <2>3, <2>4
<1>6. ASSUME NEW c \in Callers, Insert(c)
      PROVE  /\ \A i \in 1..Len(ring') : IsStored(ring'[i].error)
             /\ \A d \in Callers : entry'[d].error \in {0, entry[d].error}
  <2>1. Blank(c, 0).error = 0
    BY EntryFacts
  <2>2. \A i \in 1..Len(ring') : \/ i \in 1..Len(ring) /\ ring'[i] = ring[i]
                                 \/ ring'[i] = entry[c]
    BY <1>0, <1>6, InsertShape
  <2>3. \A i \in 1..Len(ring') : IsStored(ring'[i].error)
    BY <1>0, <2>2
  <2>4. entry' = [entry EXCEPT ![c] = Blank(c, 0)]
    BY <1>6 DEF Insert
  <2> QED
    BY <1>0, <2>1, <2>3, <2>4 DEF CallInv
<1>7. ASSUME Restart
      PROVE  /\ Len(ring') = 0
             /\ \A d \in Callers : entry'[d].error = 0
  BY <1>7, EntryFacts DEF Restart, NoEntry
<1>8. CASE WriteFault \/ (\E c \in Callers : RecordCrash(c)) \/ UNCHANGED diagnosticsVars
  <2>1. ring' = ring /\ entry' = entry
    BY <1>8 DEF WriteFault, RecordCrash, diagnosticsVars, ringVars, callVars
  <2> QED
    BY <1>0, <1>1, <2>1
<1> QED
  <2>1. ASSUME ring' = ring, \A d \in Callers : entry'[d].error \in {0, entry[d].error}
        PROVE  /\ \A i \in 1..Len(ring') : After(ring'[i].error)
               /\ \A c \in Callers : After(entry'[c].error)
    BY <1>0, <1>1, <1>3, <2>1
  <2>2. CASE Restart
    BY <1>2, <1>3, <1>7, <2>2 DEF RingInv
  <2>3. CASE \E c \in Callers : LogError(c)
    BY <1>0, <1>1, <1>4, <2>3
  <2>4. CASE \E c \in Callers : BeginTrace(c) \/ Stamp(c)
    BY <1>5, <2>1, <2>4
  <2>5. CASE \E c \in Callers : Insert(c)
    BY <1>0, <1>1, <1>3, <1>6, <2>5
  <2> QED
    BY <1>8, <2>2, <2>3, <2>4, <2>5 DEF DiagnosticsNext, SomeCall, Call

LEMMA DiagnosticsNextInv ==
  DiagnosticsInv /\ [DiagnosticsNext]_diagnosticsVars => DiagnosticsInv'
BY LogNext, CallNext, StampNext, TracedNext DEF DiagnosticsInv

(* DiagnosticsInv holds in every reachable state.                          *)
THEOREM DiagnosticsInvariance == DiagnosticsSpec => []DiagnosticsInv
BY DiagnosticsInitInv, DiagnosticsNextInv, PTL DEF DiagnosticsSpec

(* log_error traces an error only after its record is stored, and nothing  *)
(* reclaims the error log: a reader of the exported trace finds the record *)
(* of every error in it, for any callers, writes that fail and restarts.   *)
THEOREM TracedErrorsStored == DiagnosticsSpec => []TracedErrorsAreStored
<1>1. DiagnosticsInv => TracedErrorsAreStored
  BY DEF DiagnosticsInv
<1> QED
  BY <1>1, DiagnosticsInvariance, PTL

-----------------------------------------------------------------------------
\* The ring r as it is exported when the next insertion is at k.
ExportOf(r, k) ==
  [i \in 1..Len(r) |-> r[1 + (IF Len(r) < RING_BUFFER_MAX THEN i - 1
                              ELSE (k + i - 1) % RING_BUFFER_MAX)]]

(* The exported trace is as long as the ring; a ring that has not wrapped  *)
(* around is exported as it is.                                            *)
LEMMA ExportOfShape ==
  ASSUME NEW r \in Seq(Entry), Len(r) <= RING_BUFFER_MAX,
         NEW k \in 0..(RING_BUFFER_MAX - 1), Len(r) < RING_BUFFER_MAX => k = 0
  PROVE  /\ ExportOf(r, k) \in Seq(Entry)
         /\ Len(ExportOf(r, k)) = Len(r)
         /\ k = 0 => ExportOf(r, k) = r
         /\ Len(r) = RING_BUFFER_MAX =>
              \A i \in 1..Len(r) :
                ExportOf(r, k)[i] = IF k + i <= RING_BUFFER_MAX
                              THEN r[k + i]
                              ELSE r[k + i - RING_BUFFER_MAX]
         /\ \A i \in 1..Len(r) : \E j \in 1..Len(r) : ExportOf(r, k)[i] = r[j]
<1> DEFINE N == RING_BUFFER_MAX
           place(i) == 1 + (IF Len(r) < N THEN i - 1 ELSE (k + i - 1) % N)
<1>0. /\ N \in Nat \ {0} /\ Len(r) \in Nat /\ k \in 0..(N - 1)
      /\ Len(r) <= N /\ (Len(r) < N => k = 0)
  OBVIOUS
<1>1. ExportOf(r, k) = [i \in 1..Len(r) |-> r[place(i)]]
  BY DEF ExportOf
<1>2. ASSUME Len(r) = N, NEW i \in 1..Len(r)
      PROVE  place(i) = IF k + i <= N THEN k + i ELSE k + i - N
  <2>1. CASE k + i <= N
    <3>1. (k + i - 1) % N = k + i - 1
      BY <1>0, <1>2, <2>1
    <3> QED
      BY <1>0, <1>2, <2>1, <3>1
  <2>2. CASE k + i > N
    <3>1. (k + i - 1) % N = k + i - 1 - N
      <4> DEFINE q == k + i - 1 - N
      <4>1. q \in 0..(N - 1) /\ k + i - 1 = q + N
        BY <1>0, <1>2, <2>2
      <4> QED
        BY <1>0, <4>1
    <3> QED
      BY <1>0, <1>2, <2>2, <3>1
  <2> QED
    BY <1>0, <1>2, <2>1, <2>2
<1>3. ASSUME NEW i \in 1..Len(r)
      PROVE  place(i) \in 1..Len(r) /\ (k = 0 => place(i) = i)
  <2>1. CASE Len(r) < N
    BY <1>0, <2>1
  <2>2. CASE Len(r) = N
    BY <1>0, <1>2, <2>2
  <2> QED
    BY <1>0, <2>1, <2>2
<1> HIDE DEF place
<1>4. ExportOf(r, k) \in Seq(Entry) /\ Len(ExportOf(r, k)) = Len(r)
  BY <1>0, <1>1, <1>3
<1>5. k = 0 => ExportOf(r, k) = r
  BY <1>0, <1>1, <1>3, <1>4
<1>6. \A i \in 1..Len(r) : ExportOf(r, k)[i] = r[place(i)]
  BY <1>1
<1> QED
  BY <1>2, <1>3, <1>4, <1>5, <1>6

LEMMA ExportedIs ==
  /\ Exported = ExportOf(ring, ringIndex)
  /\ Exported' = ExportOf(ring', ringIndex')
BY DEF Exported, ExportOf

(* An insertion adds the entry after the last one exported, and drops the  *)
(* first one when the ring is full.                                        *)
LEMMA InsertExported ==
  ASSUME RingInv, CallInv, NEW c \in Callers, Insert(c)
  PROVE  Exported' = IF Len(Exported) < RING_BUFFER_MAX
                     THEN Append(Exported, entry[c])
                     ELSE Append(Tail(Exported), entry[c])
<1> DEFINE N == RING_BUFFER_MAX
<1>0. /\ N \in Nat \ {0} /\ Len(ring) \in Nat /\ ringIndex \in 0..(N - 1)
      /\ ring \in Seq(Entry) /\ Len(ring) <= N /\ entry[c] \in Entry
      /\ Len(ring) < N => ringIndex = 0
  BY DEF RingInv, CallInv
<1>1. /\ ring' \in Seq(Entry) /\ Len(ring') <= N
      /\ ringIndex' \in 0..(N - 1)
      /\ Len(ring') < N => ringIndex' = 0
  BY InsertShape DEF RingInv
<1>2. /\ Exported \in Seq(Entry) /\ Len(Exported) = Len(ring)
      /\ ringIndex = 0 => Exported = ring
      /\ Len(ring) = N =>
           \A i \in 1..N : Exported[i] = IF ringIndex + i <= N THEN ring[ringIndex + i]
                                         ELSE ring[ringIndex + i - N]
  BY <1>0, ExportedIs, ExportOfShape
<1>3. /\ Exported' \in Seq(Entry) /\ Len(Exported') = Len(ring')
      /\ ringIndex' = 0 => Exported' = ring'
      /\ Len(ring') = N =>
           \A i \in 1..N : Exported'[i] = IF ringIndex' + i <= N THEN ring'[ringIndex' + i]
                                          ELSE ring'[ringIndex' + i - N]
  BY <1>0, <1>1, ExportedIs, ExportOfShape
<1>4. CASE Len(ring) < N
  <2>1. ring' = Append(ring, entry[c]) /\ ringIndex' = 0
    BY <1>0, <1>4 DEF Insert
  <2> QED
    BY <1>0, <1>2, <1>3, <1>4, <2>1
<1>5. CASE Len(ring) = N
  <2>1. /\ ring' = [ring EXCEPT ![ringIndex + 1] = entry[c]]
        /\ ringIndex' = (ringIndex + 1) % N
    BY <1>0, <1>5 DEF Insert
  <2>2. ringIndex' = IF ringIndex + 1 = N THEN 0 ELSE ringIndex + 1
    BY <1>0, <2>1
  <2>3. /\ Len(ring') = N
        /\ ring'[ringIndex + 1] = entry[c]
        /\ \A i \in 1..N : i # ringIndex + 1 => ring'[i] = ring[i]
    BY <1>0, <1>5, <2>1
  <2>4. Exported'[N] = entry[c]
    BY <1>0, <1>3, <2>2, <2>3
  <2>5. ASSUME NEW i \in 1..(N - 1) PROVE Exported'[i] = Exported[i + 1]
    <3>1. i \in 1..N /\ i + 1 \in 1..N
      BY <1>0
    <3>2. CASE ringIndex + 1 + i <= N
      <4>1. Exported[i + 1] = ring[ringIndex + 1 + i]
        BY <1>0, <1>2, <1>5, <3>1, <3>2
      <4>2. Exported'[i] = ring'[ringIndex + 1 + i]
        BY <1>0, <1>3, <2>2, <2>3, <3>1, <3>2
      <4> QED
        BY <1>0, <2>3, <3>2, <4>1, <4>2
    <3>3. CASE ringIndex + 1 + i > N
      <4>1. Exported[i + 1] = ring[ringIndex + 1 + i - N]
        BY <1>0, <1>2, <1>5, <3>1, <3>3
      <4>2. Exported'[i] = ring'[ringIndex + 1 + i - N]
        <5>1. CASE ringIndex + 1 = N
          BY <1>0, <1>3, <2>2, <2>3, <3>1, <5>1
        <5>2. CASE ringIndex + 1 # N
          BY <1>0, <1>3, <2>2, <2>3, <3>1, <3>3, <5>2
        <5> QED
          BY <5>1, <5>2
      <4> QED
        BY <1>0, <2>3, <3>1, <3>3, <4>1, <4>2
    <3> QED
      BY <1>0, <3>2, <3>3
  <2> DEFINE new == Append(Tail(Exported), entry[c])
  <2>6. Exported # <<>>
    BY <1>0, <1>2, <1>5
  <2>7. /\ Tail(Exported) \in Seq(Entry) /\ Len(Tail(Exported)) = N - 1
        /\ \A i \in 1..(N - 1) : Tail(Exported)[i] = Exported[i + 1]
    BY <1>0, <1>2, <1>5, <2>6, HeadTailProperties
  <2>8. /\ new \in Seq(Entry) /\ Len(new) = N /\ new[N] = entry[c]
        /\ \A i \in 1..(N - 1) : new[i] = Exported[i + 1]
    BY <1>0, <2>7, AppendProperties
  <2>9. \A i \in 1..N : Exported'[i] = new[i]
    BY <1>0, <2>4, <2>5, <2>8
  <2>10. Exported' \in Seq(Entry) /\ Len(Exported') = N
    BY <1>3, <2>3
  <2> HIDE DEF new
  <2>11. Exported' = new
    BY <2>8, <2>9, <2>10, SeqEqual
  <2> QED
    BY <1>2, <1>5, <2>11 DEF new
<1> QED
  BY <1>0, <1>4, <1>5

(* The trace exported is a window of the last entries, each task's in the  *)
(* order of their times, empty at every boot: whoever adds to it, between  *)
(* whichever steps, and however often the ring has wrapped around.         *)
THEOREM ExportsTraceWindow == DiagnosticsSpec => TraceSpec
<1>1. DiagnosticsInit => Trace!TraceInit
  BY DEF DiagnosticsInit, Trace!TraceInit, Exported
<1>2. DiagnosticsInv /\ [DiagnosticsNext]_diagnosticsVars
        => [Trace!Add \/ Trace!Clear]_Exported
  <2> SUFFICES ASSUME DiagnosticsInv, [DiagnosticsNext]_diagnosticsVars
               PROVE  [Trace!Add \/ Trace!Clear]_Exported
    OBVIOUS
  <2>0. RingInv /\ CallInv /\ StampInv
    BY DEF DiagnosticsInv
  <2>1. ASSUME NEW c \in Callers, Insert(c) PROVE Trace!Add
    <3>1. /\ Exported \in Seq(Entry) /\ Len(Exported) = Len(ring)
          /\ \A i \in 1..Len(Exported) : \E j \in 1..Len(ring) : Exported[i] = ring[j]
      <4>1. /\ ring \in Seq(Entry) /\ Len(ring) <= RING_BUFFER_MAX
            /\ ringIndex \in 0..(RING_BUFFER_MAX - 1)
            /\ Len(ring) < RING_BUFFER_MAX => ringIndex = 0
        BY <2>0 DEF RingInv
      <4>2. Exported = ExportOf(ring, ringIndex)
        BY ExportedIs
      <4> DEFINE out == ExportOf(ring, ringIndex)
      <4>3. /\ out \in Seq(Entry) /\ Len(out) = Len(ring)
            /\ \A i \in 1..Len(ring) : \E j \in 1..Len(ring) : out[i] = ring[j]
        BY <4>1, ExportOfShape
      <4> HIDE DEF out
      <4> QED
        BY <4>2, <4>3 DEF out
    <3>2. /\ Exported' = IF Len(Exported) < RING_BUFFER_MAX
                         THEN Append(Exported, entry[c])
                         ELSE Append(Tail(Exported), entry[c])
          /\ entry[c] \in Entry
      BY <2>0, <2>1, InsertExported DEF CallInv
    <3>3. Exported' # <<>> /\ Exported'[Len(Exported')] = entry[c]
      <4>1. CASE Len(Exported) < RING_BUFFER_MAX
        BY <3>1, <3>2, <4>1, AppendProperties
      <4>2. CASE ~(Len(Exported) < RING_BUFFER_MAX)
        <5>1. Exported # <<>>
          BY <3>1, <4>2
        <5>2. Tail(Exported) \in Seq(Entry)
          BY <3>1, <5>1, HeadTailProperties
        <5> QED
          BY <3>2, <4>2, <5>2, AppendProperties
      <4> QED
        BY <4>1, <4>2
    <3>4. Trace!Newest = entry[c]
      BY <3>3 DEF Trace!Newest
    <3>5. Trace!InTaskOrder(entry[c])
      <4>1. \A j \in 1..Len(ring) : ring[j].task = entry[c].task
                                      => ring[j].time <= entry[c].time
        BY <2>0, <2>1 DEF StampInv, Insert
      <4>2. DOMAIN Exported = 1..Len(Exported)
        BY <3>1
      <4> QED
        BY <3>1, <4>1, <4>2 DEF Trace!InTaskOrder
    <3> QED
      BY <3>2, <3>3, <3>4, <3>5 DEF Trace!Add
  <2>2. CASE Restart
    BY <2>2 DEF Restart, Exported, Trace!Clear
  <2>3. CASE ring' = ring /\ ringIndex' = ringIndex
    BY <2>3 DEF Exported
  <2>4. ASSUME NEW c \in Callers,
               LogError(c) \/ BeginTrace(c) \/ Stamp(c) \/ RecordCrash(c)
        PROVE  ring' = ring /\ ringIndex' = ringIndex
    BY <2>4 DEF LogError, BeginTrace, Stamp, RecordCrash, ringVars
  <2>5. ASSUME WriteFault \/ UNCHANGED diagnosticsVars
        PROVE  ring' = ring /\ ringIndex' = ringIndex
    BY <2>5 DEF WriteFault, diagnosticsVars, ringVars
  <2> QED
    BY <2>1, <2>2, <2>3, <2>4, <2>5 DEF DiagnosticsNext, SomeCall, Call
<1> QED
  BY <1>1, <1>2, DiagnosticsInvariance, PTL DEF DiagnosticsSpec, TraceSpec, Trace!TraceSpec
=============================================================================
