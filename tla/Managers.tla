------------------------------ MODULE Managers ------------------------------
(***************************************************************************)
(* The connectivity manager and the power manager side by side: the power  *)
(* manager is told whether the device is connected, which its caller asks  *)
(* the connectivity manager (get_current_state).  The tasks use neither;   *)
(* the caller here makes any call at any time, as the tests do.            *)
(***************************************************************************)
EXTENDS Connectivity, PowerManager

managersVars == <<connectivityVars, powerVars>>

ManagersInit == ConnectivityInit /\ PowerInit

Connecting == ConnectivityNext /\ UNCHANGED powerVars

\* get_current_state, and with it evaluate_state, by another thread while the
\* connectivity manager may be asleep in a call.
Evaluate ==
  /\ \E idle \in BOOLEAN : EvaluateState(idle, netState = "CONNECTED")
  /\ UNCHANGED connectivityVars

Battery ==
  EnterSleep \/ SetBatteryPercent \/ InjectBrownout

Powering == Battery /\ UNCHANGED connectivityVars

ManagersNext == Connecting \/ Evaluate \/ Powering

ManagersSpec == ManagersInit /\ [][ManagersNext]_managersVars
=============================================================================
