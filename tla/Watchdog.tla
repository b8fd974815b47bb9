------------------------------ MODULE Watchdog ------------------------------
(***************************************************************************)
(* The task watchdog of src/firmware/app_runtime/main.cpp: watchdog_kick,  *)
(* watchdog_overdue_tasks and the loop of DiagnosticsTask that calls it.   *)
(*                                                                         *)
(* Both functions hold g_watchdog_mutex, so a kick and a check are one     *)
(* step each.  But DiagnosticsTask reads the clock before it takes the     *)
(* lock (main.cpp:298 and 308), and any task may kick in between.  Times   *)
(* are unsigned: a difference is taken modulo `Modulus', 2^64 in the code. *)
(*                                                                         *)
(* A definition called "Mutant..." is a plausible bug in the definition    *)
(* after it and is used by no other.                                       *)
(***************************************************************************)
EXTENDS Integers

CONSTANTS
  Tasks,          \* the names that have a deadline
  Deadline,       \* deadlines: for each task, in units of the clock
  Modulus,        \* 2^64: times are below it
  MaxTime         \* bound on the clock

DiagnosticsTask == "DiagnosticsTask"

ASSUME TasksAssumption ==
  DiagnosticsTask \in Tasks /\ Deadline \in [Tasks -> Nat]

\* A device does not run for 2^64 ms, and no deadline comes near that.
ASSUME TimeAssumption ==
  /\ MaxTime \in Nat /\ Modulus \in Nat
  /\ \A t \in Tasks : MaxTime + Deadline[t] < Modulus

VARIABLES
  clock,          \* monotonic_now()
  heartbeats,     \* g_watchdog_timestamps: a time for each task that kicked
  hung,           \* the tasks that will not take another step
  diag,           \* DiagnosticsTask: what it does next
  uptime,         \* the time it read
  overdue,        \* what the last call of watchdog_overdue_tasks returned
  silent,         \* history: tasks silent for too long at the last reading
  kickedSince,    \* history: tasks that kicked between reading and check
  kickedLater     \* history: those of them at a later time than was read

readingVars  == <<silent, kickedSince, kickedLater>>
watchdogVars == <<clock, heartbeats, hung, diag, uptime, overdue, readingVars>>

Kicked == DOMAIN heartbeats

WatchdogInit ==
  /\ clock = 0
  /\ heartbeats = [t \in {} |-> 0]
  /\ hung = {}
  /\ diag = "kick"
  /\ uptime = 0
  /\ overdue = {}
  /\ silent = {} /\ kickedSince = {} /\ kickedLater = {}

-----------------------------------------------------------------------------
MutantKick(t) ==
  heartbeats' = [u \in Kicked \cup {t} |->
                   IF u = t THEN clock + Deadline[t] ELSE heartbeats[u]]

\* watchdog_kick(t): the time is read with the lock held.
Kick(t) ==
  heartbeats' = [u \in Kicked \cup {t} |->
                   IF u = t THEN clock ELSE heartbeats[u]]

\* Another task comes to the top of its loop.
TaskKicks(t) ==
  /\ t \notin hung
  /\ t # DiagnosticsTask
  /\ Kick(t)
  /\ kickedSince' = IF diag = "check" THEN kickedSince \cup {t}
                    ELSE kickedSince
  /\ kickedLater' = IF diag = "check" /\ clock > uptime
                    THEN kickedLater \cup {t} ELSE kickedLater
  /\ UNCHANGED <<clock, hung, diag, uptime, overdue, silent>>

-----------------------------------------------------------------------------
\* DiagnosticsTask kicks for itself, ...
DiagnosticsKicks ==
  /\ diag = "kick"
  /\ Kick(DiagnosticsTask)
  /\ diag' = "read"
  /\ UNCHANGED <<clock, hung, uptime, overdue, readingVars>>

MutantReadUptime ==
  /\ diag = "read"
  /\ diag' = "check"
  /\ silent' = {t \in Kicked : clock - heartbeats[t] > Deadline[t]}
  /\ kickedSince' = {} /\ kickedLater' = {}
  /\ UNCHANGED <<clock, heartbeats, hung, uptime, overdue>>

\* ... reads the clock for its report, ...
ReadUptime ==
  /\ diag = "read"
  /\ uptime' = clock
  /\ diag' = "check"
  /\ silent' = {t \in Kicked : clock - heartbeats[t] > Deadline[t]}
  /\ kickedSince' = {} /\ kickedLater' = {}
  /\ UNCHANGED <<clock, heartbeats, hung, overdue>>

MutantIsOverdue(t) == (uptime - heartbeats[t]) % Modulus >= Deadline[t]

\* current_ms - heartbeat->second > deadline, all of them uint64_t.
IsOverdue(t) == (uptime - heartbeats[t]) % Modulus > Deadline[t]

\* ... and asks with that time which tasks are overdue.  A task that has never
\* kicked is not looked at.
CheckDeadlines ==
  /\ diag = "check"
  /\ overdue' = {t \in Kicked : IsOverdue(t)}
  /\ diag' = "kick"
  /\ UNCHANGED <<clock, heartbeats, hung, uptime, readingVars>>

DiagnosticsStep ==
  /\ DiagnosticsTask \notin hung
  /\ DiagnosticsKicks \/ ReadUptime \/ CheckDeadlines

-----------------------------------------------------------------------------
Tick ==
  /\ clock < MaxTime
  /\ clock' = clock + 1
  /\ UNCHANGED <<heartbeats, hung, diag, uptime, overdue, readingVars>>

\* A task gets stuck somewhere in its loop.
Hang(t) ==
  /\ t \notin hung
  /\ hung' = hung \cup {t}
  /\ UNCHANGED <<clock, heartbeats, diag, uptime, overdue, readingVars>>

SomeTaskKicks == \E t \in Tasks : TaskKicks(t)
SomeTaskHangs == \E t \in Tasks : Hang(t)

WatchdogNext == SomeTaskKicks \/ DiagnosticsStep \/ Tick \/ SomeTaskHangs

\* Time passes, and DiagnosticsTask is scheduled as long as it is not stuck.
\* Nothing is assumed of the tasks it watches.
WatchdogFairness ==
  WF_watchdogVars(Tick) /\ WF_watchdogVars(DiagnosticsStep)

WatchdogSpec ==
  WatchdogInit /\ [][WatchdogNext]_watchdogVars /\ WatchdogFairness

-----------------------------------------------------------------------------
\* Times are times, and none is in the future.
WatchdogTypeOK ==
  /\ clock \in 0..MaxTime
  /\ Kicked \subseteq Tasks
  /\ \A t \in Kicked : heartbeats[t] \in 0..clock
  /\ hung \subseteq Tasks
  /\ diag \in {"kick", "read", "check"}
  /\ uptime \in 0..clock
  /\ {overdue, silent, kickedSince} \subseteq SUBSET Tasks
  /\ kickedLater \subseteq kickedSince

\* What the check reports, exactly: the tasks that had been silent for longer
\* than their deadline when the clock was read and have not kicked since, and,
\* the difference wrapping around, those that kicked later than that.  So every
\* false alarm comes from a kick between the reading and the check, and no
\* silent task is missed.
AlarmsExplained ==
  diag # "check" => overdue = (silent \ kickedSince) \cup kickedLater

\* t is stuck for good, and the bounded clock leaves time to notice it.
StuckInTime(t) ==
  IF t \in hung \cap Kicked
  THEN heartbeats[t] + Deadline[t] < MaxTime
  ELSE FALSE

\* A task that has kicked once and then hangs is reported by every check from
\* some time on, unless DiagnosticsTask hangs too: nobody watches the watchdog.
HungTaskReported ==
  \A t \in Tasks :
    StuckInTime(t) ~> [](t \in overdue \/ DiagnosticsTask \in hung)
=============================================================================
