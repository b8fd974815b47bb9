----------------------------- MODULE SimNetwork -----------------------------
(***************************************************************************)
(* The simulated radio, class SimNetwork of                                *)
(* src/firmware/hal/sim/hal_sim.cpp.  Its two fields are independent: a    *)
(* test that clears the fault through set_fault_profile does not bring the *)
(* link back, force_connect does.  post_json's packet loss, a rate         *)
(* strictly between 0 and 1, is a choice of the caller.                    *)
(***************************************************************************)
VARIABLES
  netState,           \* state_
  forceDisconnect     \* fault_.force_disconnect

networkVars == <<netState, forceDisconnect>>

NetworkTypeOK ==
  /\ netState \in {"CONNECTED", "DISCONNECTED"}
  /\ forceDisconnect \in BOOLEAN

NetworkInit == netState = "DISCONNECTED" /\ forceDisconnect = FALSE

\* Does a post reach the server when no packet is lost?
LinkUp == netState = "CONNECTED" /\ ~forceDisconnect

\* connect(credentials)
Connect(status) ==
  \/ /\ forceDisconnect
     /\ status = "ERR_TIMEOUT"
     /\ UNCHANGED networkVars
  \/ /\ ~forceDisconnect
     /\ status = "OK"
     /\ netState' = "CONNECTED"
     /\ UNCHANGED forceDisconnect

\* The harness: force_disconnect, force_connect and set_fault_profile.
ForceDisconnect == netState' = "DISCONNECTED" /\ forceDisconnect' = TRUE
ForceConnect    == netState' = "CONNECTED" /\ forceDisconnect' = FALSE

SetFaultProfile(force) == forceDisconnect' = force /\ UNCHANGED netState
=============================================================================
