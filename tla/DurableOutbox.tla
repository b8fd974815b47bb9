---------------------------- MODULE DurableOutbox ----------------------------
(***************************************************************************)
(* What the durable event queue promises, and nothing of how: an event the *)
(* queue has accepted is owed until it is acknowledged, exactly once, and  *)
(* neither a full store, a failed write nor a reboot adds, drops or        *)
(* revives one.                                                            *)
(*                                                                         *)
(* The promise of docs/ARCHITECTURE.md ("Survives power loss via flash     *)
(* append log.  Recovery replays uncommitted events on boot") and of       *)
(* docs/GAPS.md ("Acknowledged events are not replayed during recovery").  *)
(* Event tags are numbers and grow in the order the events are made.       *)
(***************************************************************************)
EXTENDS Naturals, FiniteSets

CONSTANTS
  Tags,       \* the events there may be
  Capacity    \* how many accepted events may be owed at once

VARIABLES
  pending,    \* the events accepted and not yet acknowledged
  acked       \* the events acknowledged

Init == pending = {} /\ acked = {}

Accept(t) ==
  /\ \A u \in pending \cup acked : u < t
  /\ Cardinality(pending) < Capacity
  /\ pending' = pending \cup {t}
  /\ UNCHANGED acked

Acknowledge(t) ==
  /\ t \in pending
  /\ pending' = pending \ {t}
  /\ acked' = acked \cup {t}

Next == \E t \in Tags : Accept(t) \/ Acknowledge(t)

Spec == Init /\ [][Next]_<<pending, acked>>
=============================================================================
