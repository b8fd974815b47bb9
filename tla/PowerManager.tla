---------------------------- MODULE PowerManager ----------------------------
(***************************************************************************)
(* PowerManager, src/firmware/power/power_manager.cpp, over the battery of *)
(* SimPower.  Of the battery "at most 20 %" and the brownout risk matter;  *)
(* a brownout, once injected, is never taken back.                         *)
(*                                                                         *)
(* A definition called "Mutant..." is a plausible bug in the definition    *)
(* after it and is used by no other.                                       *)
(***************************************************************************)
VARIABLES
  batteryLow,       \* battery_pct_ <= 20
  brownout,         \* brownout_
  powerState,       \* current_state_
  brownoutSeen      \* history: evaluate_state has seen the brownout

batteryVars == <<batteryLow, brownout>>
powerVars   == <<batteryVars, powerState, brownoutSeen>>

SystemPowerState == {"ACTIVE", "CONNECTED_IDLE", "DISCONNECTED_BUFFERING",
                     "LOW_BATTERY", "SLEEP", "RECOVERY"}

PowerInit ==
  /\ batteryLow = FALSE /\ brownout = FALSE
  /\ powerState = "ACTIVE"
  /\ brownoutSeen = FALSE

MutantNextState(idle, connected) ==
  CASE batteryLow   -> "LOW_BATTERY"
    [] ~batteryLow /\ brownout -> "RECOVERY"
    [] OTHER -> IF ~connected THEN "DISCONNECTED_BUFFERING"
                ELSE IF idle THEN "CONNECTED_IDLE" ELSE "ACTIVE"

\* The first of the conditions that holds; `idle': for 600000 ms or more.
NextState(idle, connected) ==
  IF brownout THEN "RECOVERY"
  ELSE IF batteryLow THEN "LOW_BATTERY"
  ELSE IF ~connected THEN "DISCONNECTED_BUFFERING"
  ELSE IF idle THEN "CONNECTED_IDLE"
  ELSE "ACTIVE"

\* evaluate_state(idle_time_ms, is_connected)
EvaluateState(idle, connected) ==
  /\ powerState' = NextState(idle, connected)
  /\ brownoutSeen' = brownout
  /\ UNCHANGED batteryVars

\* enter_sleep: the state stays SLEEP after the wake-up, until the next
\* evaluation.
EnterSleep == powerState' = "SLEEP" /\ UNCHANGED <<batteryVars, brownoutSeen>>

\* The harness: set_battery_percent and inject_brownout.
SetBatteryPercent ==
  batteryLow' = ~batteryLow /\ UNCHANGED <<brownout, powerState, brownoutSeen>>

InjectBrownout ==
  /\ ~brownout
  /\ brownout' = TRUE
  /\ UNCHANGED <<batteryLow, powerState, brownoutSeen>>

\* A device that has seen the risk of a brownout stays locked, asleep at most,
\* whatever battery, link and idle time do afterwards.
BrownoutLocksOut == brownoutSeen => powerState \in {"RECOVERY", "SLEEP"}
=============================================================================
