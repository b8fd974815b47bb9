----------------------------- MODULE OtaManager -----------------------------
(***************************************************************************)
(* The A/B update manager, src/firmware/ota/ota.cpp, over the blobs of     *)
(* module SimBlobs.  The manager locks nothing and starts nothing itself:  *)
(* each method runs to its end in its caller, so one method is one action, *)
(* and the calls may come in any order.  Reboot may come between any two.  *)
(*                                                                         *)
(* OtaManager restores none of its fields at a reboot but `state', and     *)
(* that only when validate_current_boot is called.                         *)
(*                                                                         *)
(* A definition called "Mutant..." is a plausible bug in the definition    *)
(* after it and is used by no other.                                       *)
(***************************************************************************)
EXTENDS Naturals, SimBlobs

CONSTANT Images                 \* what update URLs lead to

VARIABLES
  state,              \* current_state_
  downloaded,         \* downloaded_bytes_ # 0
  activeSlot,         \* current_active_slot_
  signatureFails,     \* SimSecurity::force_signature_fail
  verified,           \* history: the image in storage passed verification
  slotKnown           \* history: no reboot since the second slot was confirmed

managerVars == <<state, downloaded, activeSlot>>
historyVars == <<verified, slotKnown>>
otaVars     == <<blobVars, managerVars, signatureFails, historyVars>>

IMAGE   == "ota_inactive_image"
PENDING == "ota_pending_slot"
ACTIVE  == "ota_active_slot"

Slot == {0, 1}

\* APPLYING is declared and never set.
OtaState == {"IDLE", "DOWNLOADING", "VERIFYING", "PENDING_REBOOT",
             "PENDING_CONFIRM", "CONFIRMED", "FAILED", "ROLLBACK"}

\* A constructed OtaManager.
PowerOn == state' = "IDLE" /\ downloaded' = FALSE /\ activeSlot' = 0

OtaInit ==
  /\ BlobInit
  /\ state = "IDLE"
  /\ downloaded = FALSE
  /\ activeSlot = 0
  /\ signatureFails = FALSE
  /\ verified = FALSE
  /\ slotKnown = TRUE

\* The slot storage says is in use; the first slot until one is confirmed.
SlotInUse == IF Present(ACTIVE) THEN blobs[ACTIVE] ELSE 0

-----------------------------------------------------------------------------
ValidateCurrentBoot ==
  /\ state' = IF Present(PENDING) THEN "PENDING_CONFIRM" ELSE state
  /\ UNCHANGED <<blobVars, downloaded, activeSlot, signatureFails, historyVars>>

\* begin_download(url): the whole image is written at once, over whatever is
\* there; no state forbids it.  check_for_updates changes nothing here.
BeginDownload(image) ==
  \E s \in {"OK", "ERR_CORRUPT"} :
    /\ WriteBlob(IMAGE, image, s)
    /\ downloaded' = (s = "OK")
    /\ state' = IF s = "OK" THEN "DOWNLOADING" ELSE "FAILED"
    /\ verified' = (s # "OK" /\ verified)
    /\ UNCHANGED <<activeSlot, signatureFails, slotKnown>>

MutantVerifySignature ==
  /\ state' = "VERIFYING"
  /\ verified' = (verified \/ (downloaded /\ Present(IMAGE) /\ ~signatureFails))
  /\ UNCHANGED <<blobVars, downloaded, activeSlot, signatureFails, slotKnown>>

\* verify_signature(key): without a download in this boot, without an image or
\* with a bad signature the update has failed.
VerifySignature ==
  /\ \/ /\ downloaded /\ Present(IMAGE) /\ ~signatureFails
        /\ state' = "VERIFYING"
        /\ verified' = TRUE
     \/ /\ ~(downloaded /\ Present(IMAGE) /\ ~signatureFails)
        /\ state' = "FAILED"
        /\ UNCHANGED verified
  /\ UNCHANGED <<blobVars, downloaded, activeSlot, signatureFails, slotKnown>>

MutantInactiveSlot == activeSlot
MutantNextSlot     == activeSlot + 1

InactiveSlot == 1 - activeSlot

\* mark_slot_active_and_reboot; in any other state ERR_INVALID, no change.
MarkSlotActive ==
  /\ state = "VERIFYING"
  /\ \E s \in {"OK", "ERR_CORRUPT"} :
       /\ WriteBlob(PENDING, InactiveSlot, s)
       /\ state' = IF s = "OK" THEN "PENDING_REBOOT" ELSE state
  /\ UNCHANGED <<downloaded, activeSlot, signatureFails, historyVars>>

MutantTrialSlot == InactiveSlot

\* What confirm_boot reads back from storage.
TrialSlot == blobs[PENDING]

MutantConfirmBoot ==
  /\ state \in {"PENDING_CONFIRM", "PENDING_REBOOT"}
  /\ Present(PENDING)
  /\ \E s \in {"OK", "ERR_CORRUPT"} : WriteBlob(ACTIVE, TrialSlot, s)
  /\ activeSlot' = TrialSlot
  /\ state' = "CONFIRMED"
  /\ slotKnown' = TRUE
  /\ UNCHANGED <<downloaded, signatureFails, verified>>

\* confirm_boot; in any other state, or with nothing pending, no change.
ConfirmBoot ==
  /\ state \in {"PENDING_CONFIRM", "PENDING_REBOOT"}
  /\ Present(PENDING)
  /\ \E s \in {"OK", "ERR_CORRUPT"} :
       /\ WriteBlob(ACTIVE, TrialSlot, s)
       /\ activeSlot' = IF s = "OK" THEN TrialSlot ELSE activeSlot
       /\ state' = IF s = "OK" THEN "CONFIRMED" ELSE state
       /\ slotKnown' = (s = "OK" \/ slotKnown)
  /\ UNCHANGED <<downloaded, signatureFails, verified>>

\* trigger_rollback: the state moves even when the write fails.
TriggerRollback ==
  /\ \E s \in {"OK", "ERR_CORRUPT"} : WriteBlob(PENDING, activeSlot, s)
  /\ state' = "ROLLBACK"
  /\ UNCHANGED <<downloaded, activeSlot, signatureFails, historyVars>>

-----------------------------------------------------------------------------
\* The manager starts on the first slot, whichever storage says is in use.
Reboot ==
  /\ PowerOn
  /\ slotKnown' = (SlotInUse = 0)
  /\ UNCHANGED <<blobVars, signatureFails, verified>>

Faults ==
  /\ \/ ArmBlobFault /\ UNCHANGED signatureFails
     \/ signatureFails' \in BOOLEAN /\ UNCHANGED blobVars
  /\ UNCHANGED <<managerVars, historyVars>>

OtaNext ==
  \/ ValidateCurrentBoot
  \/ \E image \in Images : BeginDownload(image)
  \/ VerifySignature
  \/ MarkSlotActive
  \/ ConfirmBoot
  \/ TriggerRollback
  \/ Reboot
  \/ Faults

OtaSpec == OtaInit /\ [][OtaNext]_otaVars

-----------------------------------------------------------------------------
\* The fields and the blobs have their types; a slot blob holds a slot.
OtaTypeOK ==
  /\ blobs = [key \in DOMAIN blobs |-> blobs[key]]
  /\ DOMAIN blobs \subseteq {IMAGE, PENDING, ACTIVE}
  /\ Present(IMAGE) => blobs[IMAGE] \in Images
  /\ \A key \in {PENDING, ACTIVE} : Present(key) => blobs[key] \in Slot
  /\ state \in OtaState
  /\ activeSlot \in Slot
  /\ downloaded \in BOOLEAN /\ verified \in BOOLEAN /\ slotKnown \in BOOLEAN
  /\ signatureFails \in BOOLEAN /\ blobWriteFails \in BOOLEAN

\* An update announced as ready to boot has a pending slot in storage and an
\* image whose signature was verified, whatever failed and was retried before.
ReadyImageVerified ==
  state = "PENDING_REBOOT" => Present(PENDING) /\ Present(IMAGE) /\ verified

\* A slot reported confirmed is the slot storage has as active: a confirmation
\* that could not be written is not reported, and is not undone by anything but
\* the next one.
ConfirmedIsStored ==
  state = "CONFIRMED" => Present(ACTIVE) /\ activeSlot = blobs[ACTIVE]

\* "Inactive slot written during download.  Active slot unchanged until boot
\* confirmation" (docs/ARCHITECTURE.md): the slot an update is to boot into is
\* not the one in use, over any number of updates, rollbacks and failed writes,
\* unless the device rebooted after the second slot was confirmed and nothing
\* has been confirmed since.  Then, and only then, it is the one in use: README,
\* "Findings".
TrialSlotExplained ==
  state = "PENDING_REBOOT" => (blobs[PENDING] # SlotInUse <=> slotKnown)

\* Only an image with a valid signature is prepared for boot (docs/STATE_OTA.md,
\* Transitions): while the other slot is due to boot its image is the verified
\* one.
PendingImageVerified ==
  Present(PENDING) /\ blobs[PENDING] # SlotInUse => verified

\* The manager implements the A/B promise, in every order of calls.
AB == INSTANCE AbUpdate
  WITH Slots <- Slot, First <- 0,
       active <- SlotInUse, checked <- verified, known <- slotKnown,
       trial <- IF Present(PENDING) THEN blobs[PENDING] ELSE SlotInUse

AbSpec == AB!Spec
=============================================================================
