----------------------------- MODULE MockServer -----------------------------
(***************************************************************************)
(* The telemetry endpoint of src/tools/mock_server.py, for one device.     *)
(* received_event_keys always holds the ids of received_events, so it is   *)
(* read off the sequence instead of being a variable of its own.           *)
(* MutantIsDuplicate is a plausible bug, used by no other definition.      *)
(***************************************************************************)
EXTENDS Naturals, Sequences

VARIABLE received     \* received_events

ServerInit == received = <<>>

MutantIsDuplicate(event) == FALSE

\* key in received_event_keys
IsDuplicate(event) ==
  \E i \in 1..Len(received) : received[i].event_id = event.event_id

\* telemetry(): an event with a new key is stored; 200 "committed" either way.
Telemetry(event) ==
  \/ IsDuplicate(event) /\ UNCHANGED received
  \/ ~IsDuplicate(event) /\ received' = Append(received, event)
=============================================================================
