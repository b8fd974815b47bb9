---------------------------- MODULE Diagnostics ----------------------------
(***************************************************************************)
(* DiagnosticsFramework, src/firmware/diagnostics/diagnostics.cpp, over    *)
(* the simulated flash: an error log, the record of the last crash and a   *)
(* trace ring in RAM.                                                      *)
(*                                                                         *)
(* Any task may call it.  Storage and ring have a mutex each and nothing   *)
(* covers both: log_error appends, then reads the clock, then takes the    *)
(* ring's lock, and other callers may come between any two of these.       *)
(*                                                                         *)
(* An error is a number, `0' in an entry that reports none.  The clock is  *)
(* in milliseconds: two readings may well be equal.                        *)
(*                                                                         *)
(* A definition called "Mutant..." is a plausible bug in the definition    *)
(* after it and is used by no other.                                       *)
(***************************************************************************)
EXTENDS SimStorage, Sequences

CONSTANTS
  Callers,              \* the tasks that use the framework
  RING_BUFFER_MAX,      \* 100 in diagnostics.h
  MaxTime,              \* bound on the clock
  MaxErrors             \* bound on the errors logged

ASSUME DiagnosticsAssumption ==
  /\ RING_BUFFER_MAX \in Nat \ {0}
  /\ {MaxTime, MaxErrors} \subseteq Nat

VARIABLES
  blobs,        \* the blobs of the same storage
  ring,         \* trace_ring_buffer_
  ringIndex,    \* current_ring_index_
  stage,        \* of each caller: "idle", about to "stamp" or to "insert"
  entry,        \* of each caller: the entry it is adding
  clock,        \* steady_clock, as last read
  errors        \* history: errors so far

Blobs == INSTANCE SimBlobs WITH blobWriteFails <- corruptNextWrite

ringVars        == <<ring, ringIndex>>
callVars        == <<stage, entry>>
diagnosticsVars == <<storageVars, blobs, ringVars, callVars, clock, errors>>

Entry == [task : Callers, error : Nat, time : Nat]

Blank(c, e) == [task |-> c, error |-> e, time |-> 0]

\* The calls in progress of a program that makes none.
NoStage == [c \in Callers |-> "idle"]
NoEntry == [c \in Callers |-> Blank(c, 0)]

DiagnosticsInit ==
  /\ StorageInit
  /\ Blobs!BlobInit
  /\ ring = <<>> /\ ringIndex = 0
  /\ stage = NoStage /\ entry = NoEntry
  /\ clock = 0 /\ errors = 0

-----------------------------------------------------------------------------
MutantLogError(c) ==
  /\ stage[c] = "idle"
  /\ errors < MaxErrors
  /\ errors' = errors + 1
  /\ \E s \in Status : AppendRecord(LOG_DIAGNOSTICS, errors', TRUE, s)
  /\ stage' = [stage EXCEPT ![c] = "stamp"]
  /\ entry' = [entry EXCEPT ![c] = Blank(c, errors')]
  /\ UNCHANGED <<blobs, ringVars, clock>>

\* log_error: append the record, and only if that succeeds go on to the trace.
\* Error records are short, so they always fit.
LogError(c) ==
  /\ stage[c] = "idle"
  /\ errors < MaxErrors
  /\ errors' = errors + 1
  /\ \E s \in Status :
       /\ AppendRecord(LOG_DIAGNOSTICS, errors', TRUE, s)
       /\ IF s = "OK"
          THEN /\ stage' = [stage EXCEPT ![c] = "stamp"]
               /\ entry' = [entry EXCEPT ![c] = Blank(c, errors')]
          ELSE UNCHANGED callVars
  /\ UNCHANGED <<blobs, ringVars, clock>>

\* add_trace_entry called by itself.
BeginTrace(c) ==
  /\ stage[c] = "idle"
  /\ stage' = [stage EXCEPT ![c] = "stamp"]
  /\ entry' = [entry EXCEPT ![c] = Blank(c, 0)]
  /\ UNCHANGED <<storageVars, blobs, ringVars, clock, errors>>

\* add_trace_entry reads the clock before it takes the lock.
Stamp(c) ==
  /\ stage[c] = "stamp"
  /\ clock' \in {clock, clock + 1}
  /\ clock' <= MaxTime
  /\ stage' = [stage EXCEPT ![c] = "insert"]
  /\ entry' = [entry EXCEPT ![c].time = clock']
  /\ UNCHANGED <<storageVars, blobs, ringVars, errors>>

MutantInsert(c) ==
  /\ stage[c] = "insert"
  /\ IF Len(ring) < RING_BUFFER_MAX
     THEN ring' = Append(ring, entry[c]) /\ UNCHANGED ringIndex
     ELSE /\ ring' = [ring EXCEPT ![ringIndex + 1] = entry[c]]
          /\ ringIndex' = (ringIndex + 1) % (RING_BUFFER_MAX - 1)
  /\ stage' = [stage EXCEPT ![c] = "idle"]
  /\ entry' = [entry EXCEPT ![c] = Blank(c, 0)]
  /\ UNCHANGED <<storageVars, blobs, clock, errors>>

\* The rest of add_trace_entry: push_back until the ring is full, then over the
\* oldest entry.  (The vector's index 0 is the sequence's 1.)
Insert(c) ==
  /\ stage[c] = "insert"
  /\ IF Len(ring) < RING_BUFFER_MAX
     THEN ring' = Append(ring, entry[c]) /\ UNCHANGED ringIndex
     ELSE /\ ring' = [ring EXCEPT ![ringIndex + 1] = entry[c]]
          /\ ringIndex' = (ringIndex + 1) % RING_BUFFER_MAX
  /\ stage' = [stage EXCEPT ![c] = "idle"]
  /\ entry' = [entry EXCEPT ![c] = Blank(c, 0)]
  /\ UNCHANGED <<storageVars, blobs, clock, errors>>

\* record_crash
RecordCrash(c) ==
  /\ stage[c] = "idle"
  /\ \E s \in Status : Blobs!WriteBlob("last_crash", c, s)
  /\ UNCHANGED <<logs, nextRecordId, ringVars, callVars, clock, errors>>

-----------------------------------------------------------------------------
\* The device starts again, in the middle of calls: a new object over the same storage.
Restart ==
  /\ ring' = <<>> /\ ringIndex' = 0
  /\ stage' = NoStage /\ entry' = NoEntry
  /\ UNCHANGED <<storageVars, blobs, clock, errors>>

WriteFault ==
  /\ InjectCorruption
  /\ UNCHANGED <<blobs, ringVars, callVars, clock, errors>>

Call(c) ==
  LogError(c) \/ BeginTrace(c) \/ Stamp(c) \/ Insert(c) \/ RecordCrash(c)

SomeCall == \E c \in Callers : Call(c)

DiagnosticsNext == SomeCall \/ Restart \/ WriteFault

DiagnosticsSpec == DiagnosticsInit /\ [][DiagnosticsNext]_diagnosticsVars

-----------------------------------------------------------------------------
\* export_compact_json: the entries in the order they are written out.
Exported ==
  [i \in 1..Len(ring) |->
     ring[1 + (IF Len(ring) < RING_BUFFER_MAX THEN i - 1
               ELSE (ringIndex + i - 1) % RING_BUFFER_MAX)]]

\* Every error the trace shows, or is about to show, is in the error log, for a
\* log that fills up (nobody acknowledges its records, so it stays full), writes
\* that fail and restarts: a reader of the trace finds each error's record.
TracedErrorsAreStored ==
  LET Shown == {ring[i] : i \in DOMAIN ring} \cup {entry[c] : c \in Callers}
  IN  \A e \in Shown :
        e.error # 0 => \E r \in logs[LOG_DIAGNOSTICS] : r.data = e.error

\* The exported trace is the last entries in order, whoever adds them, however
\* the ring wraps around.
Trace == INSTANCE TraceWindow
           WITH Size <- RING_BUFFER_MAX, trace <- Exported
TraceSpec == Trace!TraceSpec
=============================================================================
