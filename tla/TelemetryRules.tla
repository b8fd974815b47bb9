--------------------------- MODULE TelemetryRules ---------------------------
(***************************************************************************)
(* TelemetryTask of src/firmware/app_runtime/main.cpp with its own rules   *)
(* for repeated help and inactivity, and the rules engine fed with the     *)
(* primary events the task makes.  The task does not call the engine (its  *)
(* comment "Rules engine - repeated help requests?" marks the place); here *)
(* it is the reference the inline rule is compared with.  In the code a    *)
(* session is a run of the process; the engine is written to outlive a     *)
(* session, so here it does.                                               *)
(*                                                                         *)
(* An iteration of the loop is a step, at one time of the clock: a unit is *)
(* far longer than the 100 ms the task sleeps, so while it runs it polls   *)
(* at least once a unit.                                                   *)
(*                                                                         *)
(* A definition called "Mutant..." is a plausible bug in the definition    *)
(* after it and is used by no other.                                       *)
(***************************************************************************)
EXTENDS RulesEngine

CONSTANTS
  IdlePeriod,       \* 10000 in TelemetryTask
  MaxTime,          \* bound on the clock
  MaxPresses,       \* bound on the presses of a session
  MaxSessions       \* bound on the sessions

ASSUME TelemetryAssumption ==
  {IdlePeriod, MaxTime, MaxPresses, MaxSessions} \subseteq Nat

VARIABLES
  clock,            \* monotonic_now()
  button,           \* SimIO::button_states_[HELP_BUTTON]
  active,           \* g_session_active: the task is in its loop
  session,          \* student_session_id
  lastState,        \* last_state
  lastActivity,     \* last_activity_ms
  helpCount,        \* help_count
  helpWindowStart,  \* help_window_start
  polled,           \* history: the task has polled since the last tick
  presses,          \* history: when the session's presses were seen
  inlineFired,      \* history: the inline rule reported repeated help
  handed            \* history: all the derived events the engine handed out

taskVars   == <<active, session, lastState, lastActivity, helpCount,
                helpWindowStart>>
ghostVars  == <<polled, presses, inlineFired, handed>>
helpVars   == <<rulesVars, clock, button, taskVars, ghostVars>>

ButtonState == {"RELEASED", "PRESSED", "LONG_PRESSED"}

HelpInit ==
  /\ RulesInit
  /\ clock = 0
  /\ button = "RELEASED"
  /\ active = FALSE
  /\ session = 0
  /\ lastState = "RELEASED"
  /\ lastActivity = 0 /\ helpCount = 0 /\ helpWindowStart = 0
  /\ polled = FALSE /\ presses = <<>> /\ inlineFired = FALSE
  /\ handed = <<>>

-----------------------------------------------------------------------------
\* The task starts: SESSION_STARTED and its locals.
StartSession ==
  /\ ~active
  /\ session < MaxSessions
  /\ session' = session + 1
  /\ SessionStarted([session |-> session', time |-> clock])
  /\ active' = TRUE
  /\ lastState' = "RELEASED"
  /\ lastActivity' = clock /\ helpCount' = 0 /\ helpWindowStart' = clock
  /\ polled' = TRUE /\ presses' = <<>> /\ inlineFired' = FALSE
  /\ UNCHANGED <<clock, button, handed>>

IsPress == button = "PRESSED" /\ lastState = "RELEASED"

IsIdle == clock - lastActivity > IdlePeriod

MutantInlineRule == helpCount' >= 3

\* The rule of the loop: three presses or more, this one not later than the
\* window after the task started.
InlineRule == helpCount' >= 3 /\ clock - helpWindowStart <= HelpWindow

\* An iteration that sees a press: HELP_REQUESTED, perhaps the task's own
\* REPEATED_HELP_REQUESTS, BUTTON_PRESSED.  The activity is new, so the
\* iteration finds no inactivity.
PollPress ==
  /\ active
  /\ IsPress
  /\ HelpRequested([session |-> session, time |-> clock])
  /\ helpCount' = helpCount + 1
  /\ lastActivity' = clock
  /\ lastState' = button
  /\ polled' = TRUE
  /\ presses' = Append(presses, clock)
  /\ inlineFired' = (inlineFired \/ InlineRule)
  /\ UNCHANGED <<clock, button, active, session, helpWindowStart, handed>>

\* An iteration that finds the child idle: INACTIVITY_DETECTED and the task's own
\* ENGAGEMENT_DROP, and the idle period starts anew.
PollIdle ==
  /\ active
  /\ ~IsPress
  /\ IsIdle
  /\ InactivityDetected([session |-> session, time |-> clock])
  /\ lastActivity' = clock
  /\ lastState' = button
  /\ polled' = TRUE
  /\ UNCHANGED <<clock, button, active, session, helpCount, helpWindowStart,
                 presses, inlineFired, handed>>

\* An iteration that finds neither.
PollQuiet ==
  /\ active
  /\ ~IsPress
  /\ ~IsIdle
  /\ lastState' = button
  /\ polled' = TRUE
  /\ UNCHANGED <<rulesVars, clock, button, active, session, lastActivity,
                 helpCount, helpWindowStart, presses, inlineFired, handed>>

\* g_running is cleared: SESSION_ENDED.
EndSession ==
  /\ active
  /\ active' = FALSE
  /\ UNCHANGED <<rulesVars, clock, button, session, lastState, lastActivity,
                 helpCount, helpWindowStart, ghostVars>>

\* Somebody asks the engine for its derived events.
FetchDerived ==
  /\ GetAndClearDerivedEvents
  /\ handed' = handed \o derived
  /\ UNCHANGED <<clock, button, taskVars, polled, presses, inlineFired>>

-----------------------------------------------------------------------------
\* The child.  MaxPresses bounds the presses, not what the task does of them.
MoveButton ==
  /\ button' \in ButtonState \ {button}
  /\ button' = "PRESSED" => helpCount < MaxPresses
  /\ UNCHANGED <<rulesVars, clock, taskVars, ghostVars>>

Tick ==
  /\ clock < MaxTime
  /\ active => polled
  /\ clock' = clock + 1
  /\ polled' = FALSE
  /\ UNCHANGED <<rulesVars, button, taskVars, presses, inlineFired, handed>>

HelpNext ==
  StartSession \/ PollPress \/ PollIdle \/ PollQuiet \/ EndSession
    \/ FetchDerived \/ MoveButton \/ Tick

HelpSpec == HelpInit /\ [][HelpNext]_helpVars

-----------------------------------------------------------------------------
DerivedEvent == [type : DerivedType, session : 1..MaxSessions]

\* Everything the engine derived, in order.
AllDerived == handed \o derived

\* Fields of the engine and the task have their types, and the engine's times
\* are presses of the session.
RulesTypeOK ==
  /\ helpTimes \in Seq(0..clock)
  /\ presses \in Seq(0..clock)
  /\ {lastPress, lastActivity, helpWindowStart} \subseteq 0..clock
  /\ AllDerived \in Seq(DerivedEvent)
  /\ {repeatedEmitted, dropEmitted, active, polled, inlineFired}
       \subseteq BOOLEAN
  /\ {button, lastState} \subseteq ButtonState
  /\ clock \in 0..MaxTime
  /\ session \in 0..MaxSessions
  /\ Len(helpTimes) <= helpCount
  /\ helpCount = Len(presses)

\* The engine reports repeated help exactly when three presses of the session
\* lie within the window, wherever in the session, for presses aged out of the
\* list one by one.
RepeatedHelpExact ==
  repeatedEmitted <=>
    \E i \in DOMAIN presses :
      i + 2 \in DOMAIN presses /\ presses[i + 2] - presses[i] <= HelpWindow

\* What the task's own rule reports the engine reports too.  (Not the other way
\* round: its window starts with the task and never moves.)
InlineSound == inlineFired => repeatedEmitted

LastSign ==
  IF presses = <<>> THEN helpWindowStart ELSE presses[Len(presses)]

\* A silent child is noticed: the task samples inactivity in periods of its
\* own, and a silence as long as the engine's threshold is reported at most one
\* period late, unless a drop was reported in this session before.
DropTimely ==
  active /\ polled /\ clock - LastSign >= InactivityThreshold + IdlePeriod
    => dropEmitted

\* The places of an event of a session among all that were derived.
Places(s, type) ==
  {i \in DOMAIN AllDerived : AllDerived[i] = [type |-> type, session |-> s]}

\* What a session derives, fetched early or late: each type at most once, and a
\* struggle right behind a drop that a report of repeated help came before, and
\* behind every such drop.
DerivedPerSession ==
  \A s \in 1..MaxSessions :
    /\ \A type \in DerivedType : \A i, j \in Places(s, type) : i = j
    /\ Places(s, "STRUGGLE_DETECTED") =
         {d + 1 : d \in {i \in Places(s, "ENGAGEMENT_DROP") :
                    \E r \in Places(s, "REPEATED_HELP_REQUESTS") : r < i}}
=============================================================================
