---------------------------- MODULE RulesEngine ----------------------------
(***************************************************************************)
(* The rules engine, src/firmware/rules_engine/rules_engine.cpp: derived   *)
(* events from the primary events of a session.  It has no lock and one    *)
(* caller at a time; each public method is one action, a formula over the  *)
(* event it is given.                                                      *)
(*                                                                         *)
(* Of an event the rules use its type and monotonic_ms, and a derived      *)
(* event copies the rest, for which its session stands.                    *)
(*                                                                         *)
(* A definition called "Mutant..." is a plausible bug in the definition    *)
(* after it and is used by no other.                                       *)
(***************************************************************************)
EXTENDS Naturals, Sequences

CONSTANTS
  HelpWindow,           \* HELP_WINDOW_MS
  InactivityThreshold   \* INACTIVITY_THRESHOLD_MS

ASSUME RulesAssumption ==
  HelpWindow \in Nat /\ InactivityThreshold \in Nat \ {0}

VARIABLES
  helpTimes,            \* help_request_times_
  lastPress,            \* last_press_time_ms_
  repeatedEmitted,      \* repeated_help_emitted_
  dropEmitted,          \* engagement_drop_emitted_
  derived               \* derived_events_queue_

rulesVars == <<helpTimes, lastPress, repeatedEmitted, dropEmitted, derived>>

DerivedType == {"REPEATED_HELP_REQUESTS", "ENGAGEMENT_DROP",
                "STRUGGLE_DETECTED"}

RulesInit ==
  /\ helpTimes = <<>>
  /\ lastPress = 0
  /\ repeatedEmitted = FALSE
  /\ dropEmitted = FALSE
  /\ derived = <<>>

DerivedFrom(event, type) == [type |-> type, session |-> event.session]

-----------------------------------------------------------------------------
\* SESSION_STARTED forgets the session before, but not the derived events of it
\* that nobody has fetched.
SessionStarted(event) ==
  /\ helpTimes' = <<>>
  /\ repeatedEmitted' = FALSE
  /\ dropEmitted' = FALSE
  /\ lastPress' = event.time
  /\ UNCHANGED derived

MutantInWindow(times, now) == times

\* The requests not older than the window, which does not start before time 0.
InWindow(times, now) ==
  LET cutoff == IF now > HelpWindow THEN now - HelpWindow ELSE 0
      kept[n \in 0..Len(times)] ==
        IF n = 0 THEN <<>>
        ELSE IF times[n] >= cutoff THEN Append(kept[n - 1], times[n])
        ELSE kept[n - 1]
  IN  kept[Len(times)]

\* HELP_REQUESTED: the third request in the window is reported, once a session.
HelpRequested(event) ==
  LET repeated == Len(helpTimes') >= 3 /\ ~repeatedEmitted
  IN  /\ lastPress' = event.time
      /\ helpTimes' = InWindow(Append(helpTimes, event.time), event.time)
      /\ repeatedEmitted' = (repeatedEmitted \/ repeated)
      /\ derived' = IF repeated
                    THEN Append(derived,
                           DerivedFrom(event, "REPEATED_HELP_REQUESTS"))
                    ELSE derived
      /\ UNCHANGED dropEmitted

MutantStrugglesAgain(event) ==
  LET dropped == event.time - lastPress >= InactivityThreshold /\ ~dropEmitted
  IN  /\ dropEmitted' = (dropEmitted \/ dropped)
      /\ derived' = derived
           \o (IF dropped THEN <<DerivedFrom(event, "ENGAGEMENT_DROP")>>
               ELSE <<>>)
           \o (IF repeatedEmitted
               THEN <<DerivedFrom(event, "STRUGGLE_DETECTED")>> ELSE <<>>)
      /\ UNCHANGED <<helpTimes, lastPress, repeatedEmitted>>

MutantCountsAsPress(event) ==
  LET dropped == event.time - lastPress >= InactivityThreshold /\ ~dropEmitted
  IN  /\ lastPress' = event.time
      /\ dropEmitted' = (dropEmitted \/ dropped)
      /\ derived' = IF dropped
                    THEN Append(derived, DerivedFrom(event, "ENGAGEMENT_DROP"))
                    ELSE derived
      /\ UNCHANGED <<helpTimes, repeatedEmitted>>

\* INACTIVITY_DETECTED: a long enough silence is reported, once a session, and
\* with it a struggle if repeated requests were reported before.
InactivityDetected(event) ==
  LET inactiveFor == IF event.time >= lastPress
                     THEN event.time - lastPress ELSE 0
      dropped == inactiveFor >= InactivityThreshold /\ ~dropEmitted
  IN  /\ dropEmitted' = (dropEmitted \/ dropped)
      /\ derived' = derived
           \o (IF dropped THEN <<DerivedFrom(event, "ENGAGEMENT_DROP")>>
               ELSE <<>>)
           \o (IF dropped /\ repeatedEmitted
               THEN <<DerivedFrom(event, "STRUGGLE_DETECTED")>> ELSE <<>>)
      /\ UNCHANGED <<helpTimes, lastPress, repeatedEmitted>>

\* get_and_clear_derived_events, which returns `derived'.
GetAndClearDerivedEvents ==
  /\ derived' = <<>>
  /\ UNCHANGED <<helpTimes, lastPress, repeatedEmitted, dropEmitted>>
=============================================================================
