------------------------------ MODULE AbUpdate ------------------------------
(***************************************************************************)
(* What an A/B firmware update promises: a trial of the other slot starts  *)
(* only from an image that was checked, the slot in use changes only when  *)
(* the trial is confirmed, and a trial rolled back leaves it alone         *)
(* ("Active slot unchanged until boot confirmation.  Rollback if health    *)
(* checks fail", docs/ARCHITECTURE.md, ota/).                              *)
(*                                                                         *)
(* The promise is made by a device that knows its slot.  This one takes    *)
(* the first slot for the one in use after every restart, so on the second *)
(* slot it keeps less of it, until it confirms again: installing starts no *)
(* trial, and rolling back starts one of the first slot.  Even then only a *)
(* confirmation changes the slot in use.                                   *)
(***************************************************************************)
CONSTANTS Slots, First

VARIABLES
  active,     \* the slot in use
  trial,      \* the slot the next boot is to try; the active one for none
  checked,    \* is the stored image a checked one?
  known       \* does the device know which slot is in use?

Init == active = First /\ trial = active /\ checked = FALSE /\ known = TRUE

Download == checked' = FALSE /\ UNCHANGED <<active, trial, known>>

Check == checked' = TRUE /\ UNCHANGED <<active, trial, known>>

Install ==
  /\ known
  /\ checked
  /\ trial = active
  /\ trial' \in Slots \ {active}
  /\ UNCHANGED <<active, checked, known>>

Confirm == active' = trial /\ known' = TRUE /\ UNCHANGED <<trial, checked>>

RollBack == known /\ trial' = active /\ UNCHANGED <<active, checked, known>>

Restart == known' = (active = First) /\ UNCHANGED <<active, trial, checked>>

InstallAstray ==
  ~known /\ checked /\ trial' = active /\ UNCHANGED <<active, checked, known>>

RollBackAstray ==
  ~known /\ trial' = First /\ UNCHANGED <<active, checked, known>>

Next ==
  Download \/ Check \/ Install \/ Confirm \/ RollBack \/ Restart
    \/ InstallAstray \/ RollBackAstray

Spec == Init /\ [][Next]_<<active, trial, checked, known>>
=============================================================================
