----------------------------- MODULE AppRuntime -----------------------------
(***************************************************************************)
(* The tasks of src/firmware/app_runtime/main.cpp and what they share      *)
(* without a lock: the atomic flags, the LED of SimIO, the button and the  *)
(* battery.  A task reads or writes one of these in a step; between two    *)
(* steps of a task any other task may run.  What they enqueue is in module *)
(* Delivery, and no status of those calls is read here: an event is        *)
(* recorded only where a property needs it.                                *)
(*                                                                         *)
(* Sleeps are left out: a task may take its next step at any time.  Of the *)
(* battery only "at most 20 %" matters.  The button is pressed or released *)
(* (nothing calls SimIO::long_press_button).  SyncTask and DiagnosticsTask *)
(* change nothing the tasks share here, so of them only the loop is here:  *)
(* what they do in it is in modules Delivery and Watchdog.                 *)
(*                                                                         *)
(* A definition called "Mutant..." is a plausible bug in the definition    *)
(* after it and is used by no other.                                       *)
(***************************************************************************)
EXTENDS Naturals

VARIABLES
  running,              \* g_running
  connected,            \* g_connected, constant once the tasks run
  lowBattery,           \* g_low_battery
  otaInProgress,        \* g_ota_in_progress
  sessionActive,        \* g_session_active
  button,               \* SimIO::button_states_[HELP_BUTTON]
  batteryLow,           \* SimPower::battery_pct_ <= 20
  led,                  \* SimIO::current_led
  telemetry,            \* TelemetryTask: what it does next
  wasReleased,          \* last_state == RELEASED
  sync, diagnostics,    \* SyncTask, DiagnosticsTask: "looping" or "stopped"
  power,                \* PowerTask: what it does next
  ui, pattern,          \* UiTask: what it does next, and the pattern chosen
  ota,                  \* OtaTask: what it does next
  main,                 \* main(): "waiting" for Enter, "joining" or "done"
  updateOpen,           \* history: OTA_STARTED enqueued, its result not yet
  begunWhileLow         \* history: updates begun since g_low_battery was set

flagVars      == <<running, connected, lowBattery, otaInProgress,
                   sessionActive>>
worldVars     == <<button, batteryLow>>
telemetryVars == <<telemetry, wasReleased>>
loopVars      == <<sync, diagnostics>>
uiVars        == <<ui, pattern>>
historyVars   == <<updateOpen, begunWhileLow>>
appVars == <<flagVars, worldVars, led, telemetryVars, loopVars, power, uiVars,
             ota, main, historyVars>>

ButtonState == {"RELEASED", "PRESSED"}
LedPattern  == {"OFF", "SOLID_GREEN", "SOLID_ORANGE", "SOLID_BLUE",
                "BLINK_SLOW", "BLINK_FAST"}

\* main() starts the tasks after boot_sequence, which sets g_connected or not.
AppInit ==
  /\ running = TRUE /\ connected \in BOOLEAN
  /\ lowBattery = FALSE /\ otaInProgress = FALSE /\ sessionActive = FALSE
  /\ button = "RELEASED" /\ batteryLow = FALSE
  /\ led = "OFF"
  /\ telemetry = "start" /\ wasReleased = TRUE
  /\ sync = "looping" /\ diagnostics = "looping"
  /\ power = "top"
  /\ ui = "top" /\ pattern = "OFF"
  /\ ota = "top"
  /\ main = "waiting"
  /\ updateOpen = FALSE /\ begunWhileLow = 0

\* while (g_running): into the loop's body, or past it.
LoopTest(body, after) == IF running THEN body ELSE after

-----------------------------------------------------------------------------
\* TelemetryTask: SESSION_STARTED before the loop, SESSION_ENDED after it.
StartSession ==
  /\ telemetry = "start"
  /\ sessionActive' = TRUE
  /\ telemetry' = "top"
  /\ UNCHANGED <<running, connected, lowBattery, otaInProgress, worldVars, led,
                 wasReleased, loopVars, power, uiVars, ota, main, historyVars>>

\* The loop's test, and read_button: a press is PRESSED after RELEASED.  No
\* other task reads the button, so the two are one step.
TelemetryTop ==
  /\ telemetry = "top"
  /\ telemetry' = LoopTest(IF button = "PRESSED" /\ wasReleased
                             THEN "press" ELSE "top", "end")
  /\ wasReleased' = LoopTest(button = "RELEASED", wasReleased)
  /\ UNCHANGED <<flagVars, worldVars, led, loopVars, power, uiVars, ota, main,
                 historyVars>>

\* HELP_REQUESTED is enqueued and the press shown; BUTTON_PRESSED follows.
ShowPress ==
  /\ telemetry = "press"
  /\ led' = "BLINK_FAST"
  /\ telemetry' = "top"
  /\ UNCHANGED <<flagVars, worldVars, wasReleased, loopVars, power, uiVars,
                 ota, main, historyVars>>

EndSession ==
  /\ telemetry = "end"
  /\ sessionActive' = FALSE
  /\ telemetry' = "stopped"
  /\ UNCHANGED <<running, connected, lowBattery, otaInProgress, worldVars, led,
                 wasReleased, loopVars, power, uiVars, ota, main, historyVars>>

TelemetryTask == StartSession \/ TelemetryTop \/ ShowPress \/ EndSession

-----------------------------------------------------------------------------
\* PowerTask reads the battery once an iteration and judges by that reading.
\* No other task acts on it: the loop's test and the reading are one step.
PowerTop ==
  /\ power = "top"
  /\ power' = LoopTest(IF batteryLow THEN "low" ELSE "normal", "stopped")
  /\ UNCHANGED <<flagVars, worldVars, led, telemetryVars, loopVars, uiVars, ota,
                 main, historyVars>>

\* At most 20 %, and not known yet: the flag first, then POWER_LOW (whose
\* status nobody reads) and the LED.  A running update is only remarked on.
NoticeLow ==
  /\ power = "low"
  /\ power' = IF lowBattery THEN "top" ELSE "warn"
  /\ lowBattery' = TRUE
  /\ UNCHANGED <<running, connected, otaInProgress, sessionActive, worldVars,
                 led, telemetryVars, loopVars, uiVars, ota, main, historyVars>>

WarnLow ==
  /\ power = "warn"
  /\ led' = "BLINK_SLOW"
  /\ power' = "top"
  /\ UNCHANGED <<flagVars, worldVars, telemetryVars, loopVars, uiVars, ota,
                 main, historyVars>>

MutantNoticeRecovery ==
  /\ power = "normal"
  /\ power' = "top"
  /\ UNCHANGED <<flagVars, worldVars, led, telemetryVars, loopVars, uiVars,
                 ota, main, historyVars>>

NoticeRecovery ==
  /\ power = "normal"
  /\ power' = "top"
  /\ lowBattery' = FALSE
  /\ begunWhileLow' = 0
  /\ UNCHANGED <<running, connected, otaInProgress, sessionActive, worldVars,
                 led, telemetryVars, loopVars, uiVars, ota, main, updateOpen>>

PowerTask == PowerTop \/ NoticeLow \/ WarnLow \/ NoticeRecovery

-----------------------------------------------------------------------------
\* UiTask tests the flags one after the other, then writes the LED.
UiTop ==
  /\ ui = "top"
  /\ ui' = LoopTest("low", "stopped")
  /\ UNCHANGED <<flagVars, worldVars, led, telemetryVars, loopVars, power,
                 pattern, ota, main, historyVars>>

UiTestLow ==
  /\ ui = "low"
  /\ IF lowBattery
     THEN ui' = "write" /\ pattern' = "BLINK_SLOW"
     ELSE ui' = "rest" /\ UNCHANGED pattern
  /\ UNCHANGED <<flagVars, worldVars, led, telemetryVars, loopVars, power, ota,
                 main, historyVars>>

UiTestRest ==
  /\ ui = "rest"
  /\ ui' = "write"
  /\ pattern' = CASE otaInProgress -> "SOLID_BLUE"
                  [] ~otaInProgress /\ connected -> "SOLID_GREEN"
                  [] OTHER -> "SOLID_ORANGE"
  /\ UNCHANGED <<flagVars, worldVars, led, telemetryVars, loopVars, power, ota,
                 main, historyVars>>

UiWrite ==
  /\ ui = "write"
  /\ led' = pattern
  /\ ui' = "top"
  /\ pattern' = "OFF"
  /\ UNCHANGED <<flagVars, worldVars, telemetryVars, loopVars, power, ota,
                 main, historyVars>>

UiTask == UiTop \/ UiTestLow \/ UiTestRest \/ UiWrite

-----------------------------------------------------------------------------
MutantOtaTop ==
  /\ ota = "top"
  /\ ota' = "low"
  /\ UNCHANGED <<flagVars, worldVars, led, telemetryVars, loopVars, power,
                 uiVars, main, historyVars>>

OtaTop ==
  /\ ota = "top"
  /\ ota' = LoopTest("low", "stopped")
  /\ UNCHANGED <<flagVars, worldVars, led, telemetryVars, loopVars, power,
                 uiVars, main, historyVars>>

MutantOtaTestLow ==
  /\ ota = "low"
  /\ ota' = IF connected THEN "check" ELSE "top"
  /\ UNCHANGED <<flagVars, worldVars, led, telemetryVars, loopVars, power,
                 uiVars, main, historyVars>>

\* Low battery, or no connection: not now.
OtaTestLow ==
  /\ ota = "low"
  /\ ota' = IF ~lowBattery /\ connected THEN "check" ELSE "top"
  /\ UNCHANGED <<flagVars, worldVars, led, telemetryVars, loopVars, power,
                 uiVars, main, historyVars>>

\* post_json to /ota/check is lost: the next iteration asks again.
CheckLost ==
  /\ ota = "check"
  /\ ota' = "top"
  /\ UNCHANGED <<flagVars, worldVars, led, telemetryVars, loopVars, power,
                 uiVars, main, historyVars>>

\* The check is answered 200.  The radio's answer never says "no_update", so it
\* is an update: the flag is set, OTA_STARTED enqueued and the download begins.
\* The count is capped at 2, one more than the property allows.
BeginUpdate ==
  /\ ota = "check"
  /\ otaInProgress' = TRUE
  /\ updateOpen' = TRUE
  /\ begunWhileLow' = IF lowBattery /\ begunWhileLow < 2
                      THEN begunWhileLow + 1 ELSE begunWhileLow
  /\ ota' = "verify"
  /\ UNCHANGED <<running, connected, lowBattery, sessionActive, worldVars, led,
                 telemetryVars, loopVars, power, uiVars, main>>

\* OTA_SUCCEEDED or OTA_FAILED: either way the update has its result.
VerifyUpdate ==
  /\ ota = "verify"
  /\ updateOpen' = FALSE
  /\ ota' = "finish"
  /\ UNCHANGED <<flagVars, worldVars, led, telemetryVars, loopVars, power,
                 uiVars, main, begunWhileLow>>

MutantFinishUpdate ==
  /\ ota = "finish"
  /\ otaInProgress' = (otaInProgress /\ lowBattery)
  /\ ota' = "top"
  /\ UNCHANGED <<running, connected, lowBattery, sessionActive, worldVars, led,
                 telemetryVars, loopVars, power, uiVars, main, historyVars>>

FinishUpdate ==
  /\ ota = "finish"
  /\ otaInProgress' = FALSE
  /\ ota' = "top"
  /\ UNCHANGED <<running, connected, lowBattery, sessionActive, worldVars, led,
                 telemetryVars, loopVars, power, uiVars, main, historyVars>>

OtaTask == OtaTop \/ OtaTestLow \/ CheckLost \/ BeginUpdate \/ VerifyUpdate
             \/ FinishUpdate

-----------------------------------------------------------------------------
\* SyncTask and DiagnosticsTask end the iteration they are in, which no other
\* task can hold up, and leave their loops.
SyncStops ==
  /\ sync = "looping"
  /\ ~running
  /\ sync' = "stopped"
  /\ UNCHANGED <<flagVars, worldVars, led, telemetryVars, diagnostics, power,
                 uiVars, ota, main, historyVars>>

DiagnosticsStops ==
  /\ diagnostics = "looping"
  /\ ~running
  /\ diagnostics' = "stopped"
  /\ UNCHANGED <<flagVars, worldVars, led, telemetryVars, sync, power, uiVars,
                 ota, main, historyVars>>

-----------------------------------------------------------------------------
\* Enter: main clears g_running, and then joins the threads.
Shutdown ==
  /\ main = "waiting"
  /\ running' = FALSE
  /\ main' = "joining"
  /\ UNCHANGED <<connected, lowBattery, otaInProgress, sessionActive,
                 worldVars, led, telemetryVars, loopVars, power, uiVars, ota,
                 historyVars>>

MutantAllJoined ==
  {telemetry, sync, diagnostics, power, ui} = {"stopped"}

\* t1.join() to t6.join(), in whatever order the threads end.
AllJoined ==
  {telemetry, sync, diagnostics, power, ui, ota} = {"stopped"}

Join ==
  /\ main = "joining"
  /\ AllJoined
  /\ main' = "done"
  /\ UNCHANGED <<flagVars, worldVars, led, telemetryVars, loopVars, power,
                 uiVars, ota, historyVars>>

-----------------------------------------------------------------------------
\* The child and the battery.
MoveButton ==
  /\ button' \in ButtonState \ {button}
  /\ UNCHANGED <<flagVars, batteryLow, led, telemetryVars, loopVars, power,
                 uiVars, ota, main, historyVars>>

SetBattery ==
  /\ batteryLow' = ~batteryLow
  /\ UNCHANGED <<flagVars, button, led, telemetryVars, loopVars, power, uiVars,
                 ota, main, historyVars>>

AppNext ==
  TelemetryTask \/ SyncStops \/ DiagnosticsStops \/ PowerTask \/ UiTask \/ OtaTask
    \/ Shutdown \/ Join \/ MoveButton \/ SetBattery

\* std::thread: every task is scheduled, and join waits.  The last three actions
\* happen once each and none disables another, so one condition is fair to each.
\* Nothing makes anyone press Enter or the button, or charges the battery.
AppFairness ==
  /\ WF_appVars(TelemetryTask)
  /\ WF_appVars(PowerTask)
  /\ WF_appVars(UiTask)
  /\ WF_appVars(OtaTask)
  /\ WF_appVars(SyncStops \/ DiagnosticsStops \/ Join)

AppSpec == AppInit /\ [][AppNext]_appVars /\ AppFairness

-----------------------------------------------------------------------------
\* Flags, LED and program counters have their types, and the update flag is set
\* exactly while OtaTask is inside an update.
AppTypeOK ==
  /\ {running, connected, lowBattery, otaInProgress, sessionActive,
      wasReleased, batteryLow, updateOpen} \subseteq BOOLEAN
  /\ button \in ButtonState
  /\ {led, pattern} \subseteq LedPattern
  /\ telemetry \in {"start", "top", "press", "end", "stopped"}
  /\ {sync, diagnostics} \subseteq {"looping", "stopped"}
  /\ power \in {"top", "low", "normal", "warn", "stopped"}
  /\ ui \in {"top", "low", "rest", "write", "stopped"}
  /\ ota \in {"top", "low", "check", "verify", "finish", "stopped"}
  /\ main \in {"waiting", "joining", "done"}
  /\ begunWhileLow \in 0..2
  /\ pattern = "OFF" <=> ui # "write"
  /\ otaInProgress <=> ota \in {"verify", "finish"}
  /\ updateOpen <=> ota = "verify"

\* However the shutdown falls between the tasks' steps, a process that has
\* joined them leaves nothing half done: the session is closed, no update is
\* marked as in progress, and the one reported as started has its result.
NothingLeftOpen ==
  main = "done" => ~sessionActive /\ ~otaInProgress /\ ~updateOpen

\* OtaTask's low-battery test and its update are separate steps, so an update
\* may begin on a low battery: the one whose test came first, and no second.
AtMostOneUpdateWhileLow == begunWhileLow <= 1

\* Three tasks write the LED, each from flags it read earlier.  When the battery
\* and the button come to rest the LED still settles: on the slow blink if the
\* battery is low, whatever OtaTask and UiTask were doing, and off it if not.
LedFollowsBattery ==
  \A low \in BOOLEAN :
    <>[](running /\ batteryLow = low) /\ <>[][button' = button]_appVars
      => <>[](led = "BLINK_SLOW" <=> low)

\* Once Enter is pressed all six tasks return and main ends, whatever each of
\* them was doing.
ShutdownEnds == ~running ~> main = "done"
=============================================================================
