-------------------------- MODULE AppRuntimeProofs --------------------------
(***************************************************************************)
(* Proofs about AppRuntime: what the tasks of main.cpp leave behind at a   *)
(* shutdown, and how many updates a low battery can see begin, for every   *)
(* interleaving of their steps and any number of iterations; and about     *)
(* Watchdog, which reports the tasks that have stalled.  The proofs use no *)
(* fairness.                                                               *)
(***************************************************************************)
EXTENDS AppRuntime, Watchdog, TLAPS

\* The session is open exactly between the steps that open and close it.
SessionInv == sessionActive <=> telemetry \in {"top", "press", "end"}

\* main ends only when every task has.
JoinedInv == main = "done" => AllJoined

\* An update begins after a test that found the battery not low.  When that is
\* no longer so by then, it is the first to begin since.
BegunInv ==
  /\ ~lowBattery => begunWhileLow = 0
  /\ ota = "check" => begunWhileLow = 0
  /\ begunWhileLow \in 0..1

\* The inductive invariant.
AppInv == AppTypeOK /\ SessionInv /\ JoinedInv /\ BegunInv

\* The conjuncts of AppTypeOK: the flags, what else the tasks share, and where
\* each task is.
FlagsOK ==
  {running, connected, lowBattery, otaInProgress, sessionActive,
   wasReleased, batteryLow, updateOpen} \subseteq BOOLEAN

SharedOK ==
  /\ button \in ButtonState
  /\ {led, pattern} \subseteq LedPattern
  /\ begunWhileLow \in 0..2
  /\ pattern = "OFF" <=> ui # "write"
  /\ otaInProgress <=> ota \in {"verify", "finish"}
  /\ updateOpen <=> ota = "verify"

PlacesOK ==
  /\ telemetry \in {"start", "top", "press", "end", "stopped"}
  /\ {sync, diagnostics} \subseteq {"looping", "stopped"}
  /\ power \in {"top", "low", "normal", "warn", "stopped"}
  /\ ui \in {"top", "low", "rest", "write", "stopped"}
  /\ ota \in {"top", "low", "check", "verify", "finish", "stopped"}
  /\ main \in {"waiting", "joining", "done"}

LEMMA TypeParts == AppTypeOK <=> FlagsOK /\ SharedOK /\ PlacesOK
BY DEF AppTypeOK, FlagsOK, SharedOK, PlacesOK

LEMMA AppInitInv == AppInit => AppInv
<1> SUFFICES ASSUME AppInit PROVE AppInv
  OBVIOUS
<1>1. FlagsOK
  BY Zenon DEF AppInit, FlagsOK
<1>2. SharedOK /\ PlacesOK
  BY DEF AppInit, SharedOK, PlacesOK, ButtonState, LedPattern
<1>3. SessionInv /\ JoinedInv /\ BegunInv
  BY DEF AppInit, SessionInv, JoinedInv, BegunInv
<1> QED
  BY <1>1, <1>2, <1>3, TypeParts DEF AppInv

(* The flags are only ever set to truth values.                            *)
LEMMA FlagsNext ==
  ASSUME FlagsOK, [AppNext]_appVars
  PROVE  FlagsOK'
<1> USE DEF flagVars, worldVars, telemetryVars, loopVars, historyVars
<1>1. CASE StartSession
  BY <1>1, Zenon DEF StartSession, FlagsOK
<1>2. CASE TelemetryTop
  BY <1>2, Zenon DEF TelemetryTop, LoopTest, FlagsOK
<1>3. CASE SyncStops
  BY <1>3, Zenon DEF SyncStops, FlagsOK
<1>4. CASE ShowPress
  BY <1>4, Zenon DEF ShowPress, FlagsOK
<1>5. CASE EndSession
  BY <1>5, Zenon DEF EndSession, FlagsOK
<1>6. CASE PowerTop
  BY <1>6, Zenon DEF PowerTop, FlagsOK
<1>7. CASE DiagnosticsStops
  BY <1>7, Zenon DEF DiagnosticsStops, FlagsOK
<1>8. CASE NoticeLow
  BY <1>8, Zenon DEF NoticeLow, FlagsOK
<1>9. CASE WarnLow
  BY <1>9, Zenon DEF WarnLow, FlagsOK
<1>10. CASE NoticeRecovery
  BY <1>10, Zenon DEF NoticeRecovery, FlagsOK
<1>11. CASE UiTop
  BY <1>11, Zenon DEF UiTop, FlagsOK
<1>12. CASE UiTestLow
  BY <1>12, Zenon DEF UiTestLow, FlagsOK
<1>13. CASE UiTestRest
  BY <1>13, Zenon DEF UiTestRest, FlagsOK
<1>14. CASE UiWrite
  BY <1>14, Zenon DEF UiWrite, FlagsOK
<1>15. CASE OtaTop
  BY <1>15, Zenon DEF OtaTop, FlagsOK
<1>16. CASE OtaTestLow
  BY <1>16, Zenon DEF OtaTestLow, FlagsOK
<1>17. CASE CheckLost
  BY <1>17, Zenon DEF CheckLost, FlagsOK
<1>18. CASE BeginUpdate
  BY <1>18, Zenon DEF BeginUpdate, FlagsOK
<1>19. CASE VerifyUpdate
  BY <1>19, Zenon DEF VerifyUpdate, FlagsOK
<1>20. CASE FinishUpdate
  BY <1>20, Zenon DEF FinishUpdate, FlagsOK
<1>21. CASE Shutdown
  BY <1>21, Zenon DEF Shutdown, FlagsOK
<1>22. CASE Join
  BY <1>22, Zenon DEF Join, FlagsOK
<1>23. CASE MoveButton
  BY <1>23, Zenon DEF MoveButton, FlagsOK
<1>24. CASE SetBattery
  BY <1>24, Zenon DEF SetBattery, FlagsOK
<1>25. CASE UNCHANGED appVars
  BY <1>25, Zenon DEF appVars, FlagsOK
<1> QED
  BY <1>1, <1>2, <1>3, <1>4, <1>5, <1>6, <1>7, <1>8, <1>9, <1>10, <1>11, <1>12, <1>13, <1>14, <1>15, <1>16, <1>17, <1>18, <1>19, <1>20, <1>21, <1>22, <1>23, <1>24, <1>25
  DEF AppNext, TelemetryTask, PowerTask, UiTask, OtaTask

(* The rest of the invariant, action by action.                            *)
LEMMA AppNextInv ==
  ASSUME AppInv, [AppNext]_appVars
  PROVE  AppInv'
<1> DEFINE Rest == SharedOK /\ PlacesOK /\ SessionInv /\ JoinedInv /\ BegunInv
<1>0. FlagsOK /\ Rest
  BY TypeParts DEF AppInv
<1> USE DEF SharedOK, PlacesOK, SessionInv, JoinedInv, BegunInv, AllJoined, LoopTest,
        ButtonState, LedPattern, flagVars, worldVars, telemetryVars, loopVars, uiVars, historyVars
<1>1. ASSUME StartSession
      PROVE  Rest'
  BY <1>0, <1>1 DEF StartSession
<1>2. ASSUME TelemetryTop
      PROVE  Rest'
  BY <1>0, <1>2 DEF TelemetryTop
<1>3. ASSUME SyncStops
      PROVE  Rest'
  BY <1>0, <1>3 DEF SyncStops
<1>4. ASSUME ShowPress
      PROVE  Rest'
  BY <1>0, <1>4 DEF ShowPress
<1>5. ASSUME EndSession
      PROVE  Rest'
  BY <1>0, <1>5 DEF EndSession
<1>6. ASSUME PowerTop
      PROVE  Rest'
  BY <1>0, <1>6 DEF PowerTop
<1>7. ASSUME DiagnosticsStops
      PROVE  Rest'
  BY <1>0, <1>7 DEF DiagnosticsStops
<1>8. ASSUME NoticeLow
      PROVE  Rest'
  BY <1>0, <1>8 DEF NoticeLow
<1>9. ASSUME WarnLow
      PROVE  Rest'
  BY <1>0, <1>9 DEF WarnLow
<1>10. ASSUME NoticeRecovery
      PROVE  Rest'
  BY <1>0, <1>10 DEF NoticeRecovery
<1>11. ASSUME UiTop
      PROVE  Rest'
  BY <1>0, <1>11 DEF UiTop
<1>12. ASSUME UiTestLow
      PROVE  Rest'
  BY <1>0, <1>12 DEF UiTestLow
<1>13. ASSUME UiTestRest
      PROVE  Rest'
  BY <1>0, <1>13 DEF UiTestRest
<1>14. ASSUME UiWrite
      PROVE  Rest'
  BY <1>0, <1>14 DEF UiWrite
<1>15. ASSUME OtaTop
      PROVE  Rest'
  BY <1>0, <1>15 DEF OtaTop
<1>16. ASSUME OtaTestLow
      PROVE  Rest'
  BY <1>0, <1>16 DEF OtaTestLow
<1>17. ASSUME CheckLost
      PROVE  Rest'
  BY <1>0, <1>17 DEF CheckLost
<1>18. ASSUME BeginUpdate
      PROVE  Rest'
  BY <1>0, <1>18 DEF BeginUpdate
<1>19. ASSUME VerifyUpdate
      PROVE  Rest'
  BY <1>0, <1>19 DEF VerifyUpdate
<1>20. ASSUME FinishUpdate
      PROVE  Rest'
  BY <1>0, <1>20 DEF FinishUpdate
<1>21. ASSUME Shutdown
      PROVE  Rest'
  BY <1>0, <1>21 DEF Shutdown
<1>22. ASSUME Join
      PROVE  Rest'
  BY <1>0, <1>22 DEF Join
<1>23. ASSUME MoveButton
      PROVE  Rest'
  BY <1>0, <1>23 DEF MoveButton
<1>24. ASSUME SetBattery
      PROVE  Rest'
  BY <1>0, <1>24 DEF SetBattery
<1>25. ASSUME UNCHANGED appVars
      PROVE  Rest'
  BY <1>0, <1>25 DEF appVars
<1> HIDE DEF Rest
<1>26. Rest'
  BY <1>1, <1>2, <1>3, <1>4, <1>5, <1>6, <1>7, <1>8, <1>9, <1>10, <1>11, <1>12, <1>13, <1>14, <1>15, <1>16, <1>17, <1>18, <1>19, <1>20, <1>21, <1>22, <1>23, <1>24, <1>25
  DEF AppNext, TelemetryTask, PowerTask, UiTask, OtaTask
<1>27. FlagsOK'
  BY <1>0, FlagsNext
<1>28. AppTypeOK'
  BY <1>26, <1>27 DEF AppTypeOK, FlagsOK, Rest
<1> QED
  BY <1>26, <1>28 DEF AppInv, Rest

THEOREM AppInvariance == AppSpec => []AppInv
<1>1. AppInit => AppInv
  BY AppInitInv
<1>2. AppInv /\ [AppNext]_appVars => AppInv'
  BY AppNextInv
<1> QED
  BY <1>1, <1>2, PTL DEF AppSpec

(* The flags, the LED and the places of the tasks have their types, and    *)
(* g_ota_in_progress is set exactly while OtaTask is inside an update.     *)
THEOREM AppTypeCorrect == AppSpec => []AppTypeOK
<1>1. AppInv => AppTypeOK
  BY DEF AppInv
<1> QED
  BY <1>1, AppInvariance, PTL

(* A process whose threads are joined leaves no session and no update open. *)
THEOREM ShutdownClosesAll == AppSpec => []NothingLeftOpen
<1>1. AppInv => NothingLeftOpen
  <2> SUFFICES ASSUME AppInv, main = "done"
               PROVE  ~sessionActive /\ ~otaInProgress /\ ~updateOpen
    BY DEF NothingLeftOpen
  <2>1. telemetry = "stopped" /\ ota = "stopped"
    BY DEF AppInv, JoinedInv, AllJoined
  <2>2. ~sessionActive
    BY <2>1 DEF AppInv, SessionInv
  <2>3. ~otaInProgress /\ ~updateOpen
    BY <2>1 DEF AppInv, AppTypeOK
  <2> QED
    BY <2>2, <2>3
<1> QED
  BY <1>1, AppInvariance, PTL

(* Low battery stops updates, but for the one whose test came before it.   *)
THEOREM OneUpdateWhileLow == AppSpec => []AtMostOneUpdateWhileLow
<1>1. AppInv => AtMostOneUpdateWhileLow
  BY DEF AppInv, BegunInv, AtMostOneUpdateWhileLow
<1> QED
  BY <1>1, AppInvariance, PTL

-----------------------------------------------------------------------------
(* The watchdog: what a check of the heartbeats reports, for any tasks     *)
(* with any deadlines, any modulus the clock and the deadlines stay below, *)
(* and any interleaving of kicks and checks.                               *)

\* Between the reading of the clock and the check: the histories tell, for each
\* task that ever kicked, on which side of the reading its last kick lies.
ReadingInv ==
  diag = "check" =>
    /\ silent \subseteq Kicked /\ kickedSince \subseteq Kicked
    /\ \A t \in Kicked :
         /\ t \in kickedLater <=> heartbeats[t] > uptime
         /\ t \in kickedSince => heartbeats[t] >= uptime
         /\ t \notin kickedSince =>
              /\ heartbeats[t] <= uptime
              /\ t \in silent <=> uptime - heartbeats[t] > Deadline[t]

\* The inductive invariant.
WatchdogInv == WatchdogTypeOK /\ ReadingInv /\ AlarmsExplained

-----------------------------------------------------------------------------
(* The unsigned difference of two times of the clock: a heartbeat after    *)
(* the reading wraps around, past every deadline.                          *)
LEMMA WrappedDifference ==
  ASSUME NEW m \in Nat, NEW M \in Nat, NEW d \in Nat, m + d < M,
         NEW u \in 0..m, NEW h \in 0..m
  PROVE  (u - h) % M > d <=> h > u \/ u - h > d
<1>1. CASE h <= u
  <2>1. (u - h) % M = u - h
    BY <1>1
  <2> QED
    BY <1>1, <2>1
<1>2. CASE h > u
  <2>1. (u - h) % M = u - h + M
    BY <1>2
  <2> QED
    BY <1>2, <2>1
<1> QED
  BY <1>1, <1>2

(* A kick changes one heartbeat, to the time it is.                        *)
LEMMA KickFacts ==
  ASSUME NEW t, Kick(t)
  PROVE  /\ Kicked' = Kicked \cup {t}
         /\ heartbeats'[t] = clock
         /\ \A u \in Kicked : u # t => heartbeats'[u] = heartbeats[u]
BY DEF Kick, Kicked

LEMMA WatchdogInitInv == WatchdogInit => WatchdogInv
<1> SUFFICES ASSUME WatchdogInit PROVE WatchdogInv
  OBVIOUS
<1>1. /\ Kicked = {} /\ diag = "kick" /\ clock = 0 /\ uptime = 0 /\ hung = {}
      /\ overdue = {} /\ silent = {} /\ kickedSince = {} /\ kickedLater = {}
  BY DEF WatchdogInit, Kicked
<1>2. WatchdogTypeOK
  BY <1>1, TimeAssumption DEF WatchdogTypeOK
<1> QED
  BY <1>1, <1>2 DEF WatchdogInv, ReadingInv, AlarmsExplained

-----------------------------------------------------------------------------
LEMMA TaskKicksInv ==
  ASSUME WatchdogInv, NEW t \in Tasks, TaskKicks(t)
  PROVE  WatchdogInv'
<1>1. /\ Kick(t) /\ UNCHANGED <<clock, hung, diag, uptime, overdue, silent>>
      /\ kickedSince' = IF diag = "check" THEN kickedSince \cup {t} ELSE kickedSince
      /\ kickedLater' = IF diag = "check" /\ clock > uptime
                        THEN kickedLater \cup {t} ELSE kickedLater
  BY DEF TaskKicks
<1>2. WatchdogTypeOK'
  BY <1>1, KickFacts DEF WatchdogInv, WatchdogTypeOK
<1>3. ReadingInv'
  BY <1>1, KickFacts DEF WatchdogInv, WatchdogTypeOK, ReadingInv
<1>4. AlarmsExplained'
  BY <1>1 DEF WatchdogInv, AlarmsExplained
<1> QED
  BY <1>2, <1>3, <1>4 DEF WatchdogInv

LEMMA DiagnosticsKicksInv ==
  ASSUME WatchdogInv, DiagnosticsKicks
  PROVE  WatchdogInv'
<1>1. /\ Kick(DiagnosticsTask) /\ diag = "kick" /\ diag' = "read"
      /\ UNCHANGED <<clock, hung, uptime, overdue, silent, kickedSince, kickedLater>>
  BY DEF DiagnosticsKicks, readingVars
<1>2. WatchdogTypeOK'
  BY <1>1, KickFacts, TasksAssumption DEF WatchdogInv, WatchdogTypeOK
<1>3. ReadingInv' /\ AlarmsExplained'
  BY <1>1 DEF WatchdogInv, ReadingInv, AlarmsExplained
<1> QED
  BY <1>2, <1>3 DEF WatchdogInv

LEMMA ReadUptimeInv ==
  ASSUME WatchdogInv, ReadUptime
  PROVE  WatchdogInv'
<1>1. /\ uptime' = clock /\ diag' = "check"
      /\ silent' = {t \in Kicked : clock - heartbeats[t] > Deadline[t]}
      /\ kickedSince' = {} /\ kickedLater' = {}
      /\ UNCHANGED <<clock, heartbeats, hung, overdue>> /\ Kicked' = Kicked
  BY DEF ReadUptime, Kicked
<1>2. WatchdogTypeOK'
  BY <1>1 DEF WatchdogInv, WatchdogTypeOK
<1>3. ReadingInv'
  BY <1>1 DEF WatchdogInv, WatchdogTypeOK, ReadingInv
<1>4. AlarmsExplained'
  BY <1>1 DEF AlarmsExplained
<1> QED
  BY <1>2, <1>3, <1>4 DEF WatchdogInv

(* The check: the unsigned difference is what the reading tells.           *)
LEMMA CheckDeadlinesInv ==
  ASSUME WatchdogInv, CheckDeadlines
  PROVE  WatchdogInv'
<1>1. /\ diag = "check" /\ diag' = "kick"
      /\ overdue' = {t \in Kicked : IsOverdue(t)}
      /\ UNCHANGED <<clock, heartbeats, hung, uptime, silent, kickedSince, kickedLater>>
      /\ Kicked' = Kicked
  BY DEF CheckDeadlines, Kicked, readingVars
<1>2. WatchdogTypeOK'
  BY <1>1 DEF WatchdogInv, WatchdogTypeOK
<1>3. ASSUME NEW t \in Kicked
      PROVE  IsOverdue(t) <=> heartbeats[t] > uptime \/ uptime - heartbeats[t] > Deadline[t]
  <2>1. t \in Tasks /\ uptime \in 0..MaxTime /\ heartbeats[t] \in 0..MaxTime
    BY TimeAssumption DEF WatchdogInv, WatchdogTypeOK
  <2>2. /\ MaxTime \in Nat /\ Modulus \in Nat /\ Deadline[t] \in Nat
        /\ MaxTime + Deadline[t] < Modulus
    BY <2>1, TimeAssumption, TasksAssumption
  <2> QED
    BY <2>1, <2>2, WrappedDifference DEF IsOverdue
<1>4. \A t \in Kicked : IsOverdue(t) <=> t \in (silent \ kickedSince) \cup kickedLater
  <2> SUFFICES ASSUME NEW t \in Kicked
               PROVE  IsOverdue(t) <=> t \in (silent \ kickedSince) \cup kickedLater
    OBVIOUS
  <2>1. /\ heartbeats[t] \in Nat /\ uptime \in Nat /\ Deadline[t] \in Nat
        /\ kickedLater \subseteq kickedSince
    BY TasksAssumption DEF WatchdogInv, WatchdogTypeOK
  <2>2. /\ t \in kickedLater <=> heartbeats[t] > uptime
        /\ t \in kickedSince => heartbeats[t] >= uptime
        /\ t \notin kickedSince =>
             /\ heartbeats[t] <= uptime
             /\ t \in silent <=> uptime - heartbeats[t] > Deadline[t]
    BY <1>1 DEF WatchdogInv, ReadingInv
  <2> QED
    BY <1>3, <2>1, <2>2
<1>5. (silent \ kickedSince) \cup kickedLater \subseteq Kicked
  BY <1>1 DEF WatchdogInv, ReadingInv, WatchdogTypeOK
<1>6. AlarmsExplained'
  BY <1>1, <1>4, <1>5 DEF AlarmsExplained
<1>7. ReadingInv'
  BY <1>1 DEF ReadingInv
<1> QED
  BY <1>2, <1>6, <1>7 DEF WatchdogInv

LEMMA TickOrHangInv ==
  ASSUME WatchdogInv, Tick \/ SomeTaskHangs \/ UNCHANGED watchdogVars
  PROVE  WatchdogInv'
<1>1. /\ UNCHANGED <<heartbeats, diag, uptime, overdue, silent, kickedSince, kickedLater>>
      /\ Kicked' = Kicked
  BY DEF Tick, SomeTaskHangs, Hang, watchdogVars, readingVars, Kicked
<1>2. hung' \subseteq Tasks /\ clock' \in 0..MaxTime /\ clock <= clock'
  BY TimeAssumption
  DEF WatchdogInv, WatchdogTypeOK, Tick, SomeTaskHangs, Hang, watchdogVars
<1>3. WatchdogTypeOK'
  BY <1>1, <1>2, TimeAssumption DEF WatchdogInv, WatchdogTypeOK
<1>4. ReadingInv' /\ AlarmsExplained'
  BY <1>1 DEF WatchdogInv, ReadingInv, AlarmsExplained
<1> QED
  BY <1>3, <1>4 DEF WatchdogInv

THEOREM WatchdogInvariance == WatchdogSpec => []WatchdogInv
<1>1. WatchdogInit => WatchdogInv
  BY WatchdogInitInv
<1>2. WatchdogInv /\ [WatchdogNext]_watchdogVars => WatchdogInv'
  BY TaskKicksInv, DiagnosticsKicksInv, ReadUptimeInv, CheckDeadlinesInv, TickOrHangInv
  DEF WatchdogNext, SomeTaskKicks, DiagnosticsStep
<1> QED
  BY <1>1, <1>2, PTL DEF WatchdogSpec

(* Times are times, and none is in the future.                             *)
THEOREM WatchdogTypeCorrect == WatchdogSpec => []WatchdogTypeOK
<1>1. WatchdogInv => WatchdogTypeOK
  BY DEF WatchdogInv
<1> QED
  BY <1>1, WatchdogInvariance, PTL

(* A check reports the tasks silent at the reading that have not kicked    *)
(* since, and those that kicked later than it: no silent task is missed.   *)
THEOREM AlarmsAreExplained == WatchdogSpec => []AlarmsExplained
<1>1. WatchdogInv => AlarmsExplained
  BY DEF WatchdogInv
<1> QED
  BY <1>1, WatchdogInvariance, PTL
=============================================================================
