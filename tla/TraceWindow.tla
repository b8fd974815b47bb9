---------------------------- MODULE TraceWindow ----------------------------
(***************************************************************************)
(* What the trace of the diagnostics framework promises: it shows the last *)
(* `Size' entries in the order they were added, each task's in the order   *)
(* of their times, and starts empty at every boot.                         *)
(***************************************************************************)
EXTENDS Naturals, Sequences

CONSTANT Size

VARIABLE trace

Newest == trace'[Len(trace')]

\* Entries of one task are added in the order of their times.
InTaskOrder(entry) ==
  \A i \in DOMAIN trace :
    trace[i].task = entry.task => trace[i].time <= entry.time

Add ==
  /\ trace' # <<>>
  /\ InTaskOrder(Newest)
  /\ trace' = IF Len(trace) < Size THEN Append(trace, Newest)
              ELSE Append(Tail(trace), Newest)

Clear == trace' = <<>>

TraceInit == trace = <<>>

TraceSpec == TraceInit /\ [][Add \/ Clear]_trace
=============================================================================
