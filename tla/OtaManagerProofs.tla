-------------------------- MODULE OtaManagerProofs --------------------------
(***************************************************************************)
(* Proofs about the A/B update manager, for every order of calls with      *)
(* write faults and reboots anywhere: what it announces and reports, when  *)
(* exactly an update is to boot into the slot in use, and that it          *)
(* implements the A/B promise.                                             *)
(***************************************************************************)
EXTENDS OtaManager, TLAPS

-----------------------------------------------------------------------------
\* What a write does to the key written and to the others.
LEMMA WriteLemma ==
  ASSUME NEW key, NEW value, NEW s, WriteBlob(key, value, s)
  PROVE  /\ s = "OK" => /\ DOMAIN blobs' = DOMAIN blobs \cup {key}
                        /\ blobs'[key] = value
                        /\ \A k \in DOMAIN blobs : k # key => blobs'[k] = blobs[k]
                        /\ blobs' = [k \in DOMAIN blobs' |-> blobs'[k]]
         /\ s # "OK" => blobs' = blobs
         /\ blobWriteFails \in BOOLEAN => blobWriteFails' \in BOOLEAN
  BY DEF WriteBlob

\* A write of the right kind of value keeps the types of the blobs.
BlobsTyped ==
  /\ blobs = [key \in DOMAIN blobs |-> blobs[key]]
  /\ DOMAIN blobs \subseteq {IMAGE, PENDING, ACTIVE}
  /\ Present(IMAGE) => blobs[IMAGE] \in Images
  /\ \A key \in {PENDING, ACTIVE} : Present(key) => blobs[key] \in Slot
  /\ blobWriteFails \in BOOLEAN

LEMMA WriteTyped ==
  ASSUME BlobsTyped, NEW key \in {IMAGE, PENDING, ACTIVE}, NEW value, NEW s,
         WriteBlob(key, value, s),
         key = IMAGE => value \in Images,
         key # IMAGE => value \in Slot
  PROVE  BlobsTyped'
<1> USE DEF IMAGE, PENDING, ACTIVE
<1>1. CASE s = "OK"
  <2>1. /\ DOMAIN blobs' = DOMAIN blobs \cup {key}
        /\ blobs'[key] = value
        /\ \A k \in DOMAIN blobs : k # key => blobs'[k] = blobs[k]
        /\ blobs' = [k \in DOMAIN blobs' |-> blobs'[k]]
    BY <1>1, WriteLemma
  <2>2. DOMAIN blobs' \subseteq {IMAGE, PENDING, ACTIVE}
    BY <2>1 DEF BlobsTyped
  <2>3. (Present(IMAGE) => blobs[IMAGE] \in Images)'
    BY <2>1 DEF BlobsTyped, Present
  <2>4. (\A k \in {PENDING, ACTIVE} : Present(k) => blobs[k] \in Slot)'
    BY <2>1 DEF BlobsTyped, Present
  <2>5. blobWriteFails' \in BOOLEAN
    BY WriteLemma DEF BlobsTyped
  <2>6. QED
    BY <2>1, <2>2, <2>3, <2>4, <2>5 DEF BlobsTyped
<1>2. CASE s # "OK"
  <2>1. blobs' = blobs /\ blobWriteFails' \in BOOLEAN
    BY <1>2, WriteLemma DEF BlobsTyped
  <2>2. QED
    BY <2>1 DEF BlobsTyped, Present
<1>3. QED
  BY <1>1, <1>2

LEMMA TypeSplit ==
  OtaTypeOK <=>
    /\ BlobsTyped
    /\ state \in OtaState /\ activeSlot \in Slot
    /\ downloaded \in BOOLEAN /\ verified \in BOOLEAN
    /\ signatureFails \in BOOLEAN /\ slotKnown \in BOOLEAN
  BY DEF OtaTypeOK, BlobsTyped

LEMMA TypeSplitNext ==
  OtaTypeOK' <=>
    /\ BlobsTyped'
    /\ state' \in OtaState /\ activeSlot' \in Slot
    /\ downloaded' \in BOOLEAN /\ verified' \in BOOLEAN
    /\ signatureFails' \in BOOLEAN /\ slotKnown' \in BOOLEAN
  BY DEF OtaTypeOK, BlobsTyped

\* ReadyImageVerified is not inductive: that the image is there and verified
\* when the slot is marked is the second conjunct.
OtaInv ==
  /\ OtaTypeOK
  /\ state = "VERIFYING" => Present(IMAGE) /\ verified
  /\ ReadyImageVerified
  /\ ConfirmedIsStored

LEMMA OtaInitial == OtaInit => OtaInv
  BY DEF OtaInit, BlobInit, OtaInv, OtaTypeOK, ReadyImageVerified,
         ConfirmedIsStored, Present, Slot, OtaState

LEMMA OtaInductive == OtaInv /\ [OtaNext]_otaVars => OtaInv'
<1> SUFFICES ASSUME OtaInv, [OtaNext]_otaVars PROVE OtaInv'
  OBVIOUS
<1> USE DEF IMAGE, PENDING, ACTIVE, historyVars
<1>1. CASE ValidateCurrentBoot
  BY <1>1 DEF ValidateCurrentBoot, blobVars, OtaInv, OtaTypeOK,
     ReadyImageVerified, ConfirmedIsStored, Present, OtaState
<1>2. ASSUME NEW image \in Images, BeginDownload(image)
      PROVE  OtaInv'
  <2> PICK s \in {"OK", "ERR_CORRUPT"} :
        /\ WriteBlob(IMAGE, image, s)
        /\ downloaded' = (s = "OK")
        /\ state' = IF s = "OK" THEN "DOWNLOADING" ELSE "FAILED"
        /\ verified' = (s # "OK" /\ verified)
        /\ UNCHANGED <<activeSlot, signatureFails, slotKnown>>
    BY <1>2 DEF BeginDownload
  <2>1. OtaTypeOK'
    <3>1. BlobsTyped'
      BY TypeSplit, WriteTyped DEF OtaInv
    <3>2. QED
      BY <3>1, TypeSplit, TypeSplitNext DEF OtaInv, OtaState
  <2>2. QED
    BY <2>1 DEF OtaInv, ReadyImageVerified, ConfirmedIsStored
<1>3. CASE VerifySignature
  BY <1>3 DEF VerifySignature, blobVars, OtaInv, OtaTypeOK,
     ReadyImageVerified, ConfirmedIsStored, Present, OtaState
<1>4. CASE MarkSlotActive
  <2> PICK s \in {"OK", "ERR_CORRUPT"} :
        /\ WriteBlob(PENDING, InactiveSlot, s)
        /\ state' = IF s = "OK" THEN "PENDING_REBOOT" ELSE state
    BY <1>4 DEF MarkSlotActive
  <2>1. InactiveSlot \in Slot
    BY DEF OtaInv, OtaTypeOK, InactiveSlot, Slot
  <2>2. UNCHANGED <<downloaded, activeSlot, signatureFails, verified, slotKnown>>
        /\ state = "VERIFYING"
    BY <1>4 DEF MarkSlotActive
  <2>3. OtaTypeOK'
    <3>1. BlobsTyped'
      BY <2>1, TypeSplit, WriteTyped DEF OtaInv
    <3>2. QED
      BY <2>1, <2>2, <3>1, TypeSplit, TypeSplitNext DEF OtaInv, OtaState
  <2>4. QED
    BY <2>2, <2>3, WriteLemma
    DEF OtaInv, ReadyImageVerified, ConfirmedIsStored, Present
<1>5. CASE ConfirmBoot
  <2> PICK s \in {"OK", "ERR_CORRUPT"} :
        /\ WriteBlob(ACTIVE, TrialSlot, s)
        /\ activeSlot' = IF s = "OK" THEN TrialSlot ELSE activeSlot
        /\ state' = IF s = "OK" THEN "CONFIRMED" ELSE state
        /\ slotKnown' = (s = "OK" \/ slotKnown)
    BY <1>5 DEF ConfirmBoot
  <2>1. TrialSlot \in Slot
    BY <1>5 DEF ConfirmBoot, OtaInv, OtaTypeOK, TrialSlot
  <2>2. UNCHANGED <<downloaded, signatureFails, verified>>
        /\ state \in {"PENDING_CONFIRM", "PENDING_REBOOT"}
    BY <1>5 DEF ConfirmBoot
  <2>3. OtaTypeOK'
    <3>1. BlobsTyped'
      BY <2>1, TypeSplit, WriteTyped DEF OtaInv
    <3>2. QED
      BY <2>1, <2>2, <3>1, TypeSplit, TypeSplitNext DEF OtaInv, OtaState
  <2>4. QED
    BY <2>2, <2>3, WriteLemma
    DEF OtaInv, ReadyImageVerified, ConfirmedIsStored, Present
<1>6. CASE TriggerRollback
  <2> PICK s \in {"OK", "ERR_CORRUPT"} : WriteBlob(PENDING, activeSlot, s)
    BY <1>6 DEF TriggerRollback
  <2>1. state' = "ROLLBACK"
        /\ UNCHANGED <<downloaded, activeSlot, signatureFails, verified, slotKnown>>
    BY <1>6 DEF TriggerRollback
  <2>2. OtaTypeOK'
    <3>1. activeSlot \in Slot
      BY TypeSplit DEF OtaInv
    <3>2. BlobsTyped'
      BY <3>1, TypeSplit, WriteTyped DEF OtaInv
    <3>3. QED
      BY <2>1, <3>2, TypeSplit, TypeSplitNext DEF OtaInv, OtaState
  <2>3. QED
    BY <2>1, <2>2 DEF OtaInv, ReadyImageVerified, ConfirmedIsStored
<1>7. CASE Reboot
  BY <1>7 DEF Reboot, PowerOn, blobVars, OtaInv, OtaTypeOK,
     ReadyImageVerified, ConfirmedIsStored, Present, OtaState, Slot
<1>8. CASE Faults
  BY <1>8 DEF Faults, ArmBlobFault, blobVars, managerVars, OtaInv, OtaTypeOK,
     ReadyImageVerified, ConfirmedIsStored, Present
<1>9. CASE UNCHANGED otaVars
  BY <1>9 DEF otaVars, blobVars, managerVars, OtaInv, OtaTypeOK,
     ReadyImageVerified, ConfirmedIsStored, Present
<1>10. QED
  BY <1>1, <1>2, <1>3, <1>4, <1>5, <1>6, <1>7, <1>8, <1>9 DEF OtaNext

THEOREM OtaInvariance == OtaSpec => []OtaInv
  BY OtaInitial, OtaInductive, PTL DEF OtaSpec

\* Fields and blobs keep their types in every order of calls.
THEOREM OtaTypeCorrect == OtaSpec => []OtaTypeOK
<1>1. OtaInv => OtaTypeOK
  BY DEF OtaInv
<1>2. QED
  BY <1>1, OtaInvariance, PTL

\* mark_slot_active_and_reboot announces verified images only.
THEOREM ReadyIsVerified == OtaSpec => []ReadyImageVerified
<1>1. OtaInv => ReadyImageVerified
  BY DEF OtaInv
<1>2. QED
  BY <1>1, OtaInvariance, PTL

\* confirm_boot reports what storage has.
THEOREM ConfirmedIsDurable == OtaSpec => []ConfirmedIsStored
<1>1. OtaInv => ConfirmedIsStored
  BY DEF OtaInv
<1>2. QED
  BY <1>1, OtaInvariance, PTL

-----------------------------------------------------------------------------
\* The manager has the slot in use right exactly while the history says so,
\* and when it has it wrong it takes the first slot for it.
SlotInv ==
  /\ slotKnown <=> activeSlot = SlotInUse
  /\ ~slotKnown => activeSlot = 0

\* The inductive invariant of what the update is to boot into.
TrialInv ==
  /\ OtaInv
  /\ SlotInv
  /\ state = "PENDING_REBOOT" => blobs[PENDING] = InactiveSlot

LEMMA TrialInitial == OtaInit => TrialInv
<1> SUFFICES ASSUME OtaInit PROVE TrialInv
  OBVIOUS
<1>1. OtaInv
  BY OtaInitial
<1>2. slotKnown = TRUE /\ activeSlot = 0 /\ SlotInUse = 0 /\ state = "IDLE"
  BY DEF OtaInit, BlobInit, SlotInUse, Present
<1> QED
  BY <1>1, <1>2 DEF TrialInv, SlotInv

(* The slot in use depends on one blob.                                    *)
LEMMA SameSlotInUse ==
  ASSUME Present(ACTIVE)' = Present(ACTIVE),
         Present(ACTIVE) => blobs'[ACTIVE] = blobs[ACTIVE]
  PROVE  SlotInUse' = SlotInUse
BY DEF SlotInUse

(* Only a confirmation and a reboot touch what SlotInv is about.           *)
LEMMA SlotInductive ==
  ASSUME OtaInv, SlotInv, [OtaNext]_otaVars
  PROVE  SlotInv'
<1> USE DEF IMAGE, PENDING, ACTIVE, historyVars
<1>1. ASSUME UNCHANGED <<activeSlot, slotKnown>>, SlotInUse' = SlotInUse
      PROVE  SlotInv'
  BY <1>1, Zenon DEF SlotInv
<1>2. ASSUME NEW key \in {IMAGE, PENDING}, NEW value, NEW s,
             WriteBlob(key, value, s), UNCHANGED <<activeSlot, slotKnown>>
      PROVE  SlotInv'
  <2>1. /\ s = "OK" => /\ DOMAIN blobs' = DOMAIN blobs \cup {key}
                       /\ \A k \in DOMAIN blobs : k # key => blobs'[k] = blobs[k]
        /\ s # "OK" => blobs' = blobs
    BY <1>2, WriteLemma
  <2>2. key # ACTIVE
    OBVIOUS
  <2>3. /\ Present(ACTIVE)' = Present(ACTIVE)
        /\ Present(ACTIVE) => blobs'[ACTIVE] = blobs[ACTIVE]
    BY <2>1, <2>2 DEF Present
  <2> QED
    BY <1>1, <1>2, <2>3, SameSlotInUse
<1>3. ASSUME NEW image \in Images, BeginDownload(image) PROVE SlotInv'
  BY <1>2, <1>3 DEF BeginDownload
<1>4. CASE MarkSlotActive
  BY <1>2, <1>4 DEF MarkSlotActive
<1>5. CASE TriggerRollback
  BY <1>2, <1>5 DEF TriggerRollback
<1>6. CASE ConfirmBoot
  <2> PICK s \in {"OK", "ERR_CORRUPT"} :
        /\ WriteBlob(ACTIVE, TrialSlot, s)
        /\ activeSlot' = IF s = "OK" THEN TrialSlot ELSE activeSlot
        /\ slotKnown' = (s = "OK" \/ slotKnown)
    BY <1>6 DEF ConfirmBoot
  <2>1. CASE s = "OK"
    <3>1. activeSlot' = TrialSlot /\ slotKnown'
      BY <2>1
    <3>2. SlotInUse' = TrialSlot
      BY <2>1, WriteLemma DEF SlotInUse, Present
    <3> QED
      BY <3>1, <3>2 DEF SlotInv
  <2>2. CASE s # "OK"
    <3>1. blobs' = blobs /\ activeSlot' = activeSlot /\ (slotKnown' <=> slotKnown)
      BY <2>2, WriteLemma
    <3>2. SlotInUse' = SlotInUse
      BY <3>1 DEF SlotInUse, Present
    <3> QED
      BY <3>1, <3>2 DEF SlotInv
  <2> QED
    BY <2>1, <2>2
<1>7. CASE Reboot
  <2>1. activeSlot' = 0 /\ (slotKnown' <=> SlotInUse = 0) /\ blobs' = blobs
    BY <1>7 DEF Reboot, PowerOn, blobVars
  <2>2. SlotInUse' = SlotInUse
    BY <2>1 DEF SlotInUse, Present
  <2> QED
    BY <2>1, <2>2 DEF SlotInv
<1>8. CASE ValidateCurrentBoot \/ VerifySignature \/ Faults \/ UNCHANGED otaVars
  <2>1. blobs' = blobs /\ UNCHANGED <<activeSlot, slotKnown>>
    BY <1>8 DEF ValidateCurrentBoot, VerifySignature, Faults, ArmBlobFault,
       otaVars, blobVars, managerVars
  <2>2. SlotInUse' = SlotInUse
    BY <2>1 DEF SlotInUse, Present
  <2> QED
    BY <1>1, <2>1, <2>2
<1> QED
  BY <1>3, <1>4, <1>5, <1>6, <1>7, <1>8 DEF OtaNext

LEMMA TrialInductive == TrialInv /\ [OtaNext]_otaVars => TrialInv'
<1> SUFFICES ASSUME TrialInv, [OtaNext]_otaVars PROVE TrialInv'
  OBVIOUS
<1> USE DEF IMAGE, PENDING, ACTIVE, historyVars
<1>1. OtaInv'
  BY OtaInductive DEF TrialInv
<1>2. SlotInv'
  BY SlotInductive DEF TrialInv
<1>3. (state = "PENDING_REBOOT" => blobs[PENDING] = InactiveSlot)'
  <2> SUFFICES ASSUME state' = "PENDING_REBOOT"
               PROVE  blobs'[PENDING] = 1 - activeSlot'
    BY DEF InactiveSlot
  <2>1. CASE MarkSlotActive
    <3> PICK s \in {"OK", "ERR_CORRUPT"} :
          /\ WriteBlob(PENDING, InactiveSlot, s)
          /\ state' = IF s = "OK" THEN "PENDING_REBOOT" ELSE state
      BY <2>1 DEF MarkSlotActive
    <3>1. s = "OK" /\ activeSlot' = activeSlot
      BY <2>1 DEF MarkSlotActive
    <3>2. QED
      BY <3>1, WriteLemma DEF InactiveSlot
  <2>2. CASE ConfirmBoot
    <3> PICK s \in {"OK", "ERR_CORRUPT"} :
          /\ WriteBlob(ACTIVE, TrialSlot, s)
          /\ activeSlot' = IF s = "OK" THEN TrialSlot ELSE activeSlot
          /\ state' = IF s = "OK" THEN "CONFIRMED" ELSE state
      BY <2>2 DEF ConfirmBoot
    <3>1. s # "OK"
      OBVIOUS
    <3>2. QED
      BY <3>1, WriteLemma DEF TrialInv, InactiveSlot
  <2>3. ASSUME state' = state, activeSlot' = activeSlot, blobs' = blobs
        PROVE  blobs'[PENDING] = 1 - activeSlot'
    BY <2>3 DEF TrialInv, InactiveSlot
  <2>4. CASE ~MarkSlotActive /\ ~ConfirmBoot
    <3>1. state' = state /\ activeSlot' = activeSlot /\ blobs' = blobs
      BY <2>4 DEF OtaNext, ValidateCurrentBoot, BeginDownload, VerifySignature,
         TriggerRollback, Reboot, PowerOn, Faults, ArmBlobFault, otaVars,
         blobVars, managerVars
    <3>2. QED
      BY <2>3, <3>1
  <2>5. QED
    BY <2>1, <2>2, <2>4
<1>4. QED
  BY <1>1, <1>2, <1>3 DEF TrialInv

THEOREM TrialInvariance == OtaSpec => []TrialInv
  BY TrialInitial, TrialInductive, PTL DEF OtaSpec

\* The slot an update is to boot into is the one in use exactly when the device
\* rebooted after the second slot was confirmed, nothing confirmed since.
THEOREM TrialIsExplained == OtaSpec => []TrialSlotExplained
<1>1. TrialInv => TrialSlotExplained
  <2> SUFFICES ASSUME TrialInv, state = "PENDING_REBOOT"
               PROVE  blobs[PENDING] # SlotInUse <=> slotKnown
    BY DEF TrialSlotExplained
  <2>1. blobs[PENDING] = 1 - activeSlot /\ activeSlot \in {0, 1}
    BY DEF TrialInv, InactiveSlot, OtaInv, OtaTypeOK, Slot
  <2>2. SlotInUse \in {0, 1}
    BY DEF TrialInv, OtaInv, OtaTypeOK, SlotInUse, Slot
  <2>3. slotKnown <=> activeSlot = SlotInUse
    BY DEF TrialInv, SlotInv
  <2> QED
    BY <2>1, <2>2, <2>3
<1>2. QED
  BY <1>1, TrialInvariance, PTL

-----------------------------------------------------------------------------
\* The slot a boot is to try: the refinement's second variable.
Trial == IF Present(PENDING) THEN blobs[PENDING] ELSE SlotInUse

LEMMA SlotTypes == OtaTypeOK => SlotInUse \in Slot /\ Trial \in Slot
  BY DEF OtaTypeOK, SlotInUse, Trial, Slot, IMAGE, PENDING, ACTIVE

LEMMA RefinedInit == OtaInit => AB!Init
  BY DEF OtaInit, BlobInit, AB!Init, SlotInUse, Present, Slot

LEMMA RefinedStep ==
  TrialInv /\ [OtaNext]_otaVars
    => [AB!Next]_<<SlotInUse, Trial, verified, slotKnown>>
<1> SUFFICES ASSUME TrialInv, [OtaNext]_otaVars
             PROVE  [AB!Next]_<<SlotInUse, Trial, verified, slotKnown>>
  OBVIOUS
<1> USE DEF historyVars
<1>1. /\ SlotInUse \in Slot /\ Trial \in Slot /\ activeSlot \in Slot
      /\ slotKnown => activeSlot = SlotInUse
      /\ ~slotKnown => activeSlot = 0 /\ SlotInUse = 1
      /\ verified \in BOOLEAN
  <2>1. SlotInUse \in Slot /\ Trial \in Slot
    BY SlotTypes DEF TrialInv, OtaInv
  <2>2. activeSlot \in Slot /\ verified \in BOOLEAN
    BY DEF TrialInv, OtaInv, OtaTypeOK
  <2> QED
    BY <2>1, <2>2 DEF TrialInv, SlotInv, Slot
<1>2. ASSUME \A k \in {PENDING, ACTIVE} : Present(k)' = Present(k),
             \A k \in {PENDING, ACTIVE} : Present(k) => blobs'[k] = blobs[k]
      PROVE  SlotInUse' = SlotInUse /\ Trial' = Trial
  BY <1>2 DEF SlotInUse, Trial, Present
<1>3. ASSUME UNCHANGED blobs
      PROVE  SlotInUse' = SlotInUse /\ Trial' = Trial
  BY <1>2, <1>3 DEF Present
<1>4. ASSUME NEW image \in Images, BeginDownload(image)
      PROVE  [AB!Next]_<<SlotInUse, Trial, verified, slotKnown>>
  <2> PICK s \in {"OK", "ERR_CORRUPT"} :
        /\ WriteBlob(IMAGE, image, s)
        /\ verified' = (s # "OK" /\ verified)
        /\ slotKnown' = slotKnown
    BY <1>4 DEF BeginDownload
  <2>1. CASE s = "OK"
    <3>1. /\ DOMAIN blobs' = DOMAIN blobs \cup {IMAGE}
          /\ \A k \in DOMAIN blobs : k # IMAGE => blobs'[k] = blobs[k]
      BY <2>1, WriteLemma
    <3>2. \A k \in {PENDING, ACTIVE} : k # IMAGE
      BY DEF IMAGE, PENDING, ACTIVE
    <3>3. \A k \in {PENDING, ACTIVE} :
             /\ Present(k)' = Present(k)
             /\ Present(k) => blobs'[k] = blobs[k]
      BY <3>1, <3>2 DEF Present
    <3>4. SlotInUse' = SlotInUse /\ Trial' = Trial
      BY <1>2, <3>3
    <3>5. QED
      BY <2>1, <3>4 DEF AB!Next, AB!Download, Trial
  <2>2. CASE s # "OK"
    <3>1. UNCHANGED blobs
      BY <2>2, WriteLemma
    <3>2. verified' = verified
      BY <1>1, <2>2
    <3>3. QED
      BY <1>3, <3>1, <3>2
  <2>3. QED
    BY <2>1, <2>2
<1>5. CASE MarkSlotActive
  <2> PICK s \in {"OK", "ERR_CORRUPT"} : WriteBlob(PENDING, InactiveSlot, s)
    BY <1>5 DEF MarkSlotActive
  <2>0. verified /\ UNCHANGED <<verified, slotKnown>>
    BY <1>5 DEF MarkSlotActive, TrialInv, OtaInv
  <2>1. CASE s = "OK"
    <3>1. SlotInUse' = SlotInUse /\ Trial' = 1 - activeSlot
      BY <2>1, WriteLemma
      DEF SlotInUse, Trial, Present, PENDING, ACTIVE, InactiveSlot
    <3>2. CASE slotKnown /\ Trial = SlotInUse
      BY <1>1, <2>0, <3>1, <3>2 DEF AB!Next, AB!Install, Trial, Slot
    <3>3. CASE slotKnown /\ Trial # SlotInUse
      BY <1>1, <2>0, <3>1, <3>3 DEF Slot
    <3>4. CASE ~slotKnown
      BY <1>1, <2>0, <3>1, <3>4 DEF AB!Next, AB!InstallAstray, Trial
    <3>5. QED
      BY <3>2, <3>3, <3>4
  <2>2. CASE s # "OK"
    BY <1>3, <2>0, <2>2, WriteLemma
  <2>3. QED
    BY <2>1, <2>2
<1>6. CASE ConfirmBoot
  <2> PICK s \in {"OK", "ERR_CORRUPT"} :
        WriteBlob(ACTIVE, TrialSlot, s) /\ slotKnown' = (s = "OK" \/ slotKnown)
    BY <1>6 DEF ConfirmBoot
  <2>1. Present(PENDING) /\ verified' = verified
    BY <1>6 DEF ConfirmBoot
  <2>2. CASE s = "OK"
    <3>1. SlotInUse' = Trial /\ Trial' = Trial
      BY <2>1, <2>2, WriteLemma
      DEF SlotInUse, Trial, Present, PENDING, ACTIVE, TrialSlot
    <3>2. slotKnown' = TRUE
      BY <2>2
    <3>3. QED
      BY <2>1, <3>1, <3>2 DEF AB!Next, AB!Confirm, Trial
  <2>3. CASE s # "OK"
    <3>1. slotKnown' = slotKnown
      BY <2>3, <1>1 DEF TrialInv, OtaInv, OtaTypeOK
    <3>2. QED
      BY <1>3, <2>1, <2>3, <3>1, WriteLemma
  <2>4. QED
    BY <2>2, <2>3
<1>7. CASE TriggerRollback
  <2> PICK s \in {"OK", "ERR_CORRUPT"} : WriteBlob(PENDING, activeSlot, s)
    BY <1>7 DEF TriggerRollback
  <2>0. UNCHANGED <<verified, slotKnown>>
    BY <1>7 DEF TriggerRollback
  <2>1. CASE s = "OK"
    <3>1. SlotInUse' = SlotInUse /\ Trial' = activeSlot
      BY <2>1, WriteLemma DEF SlotInUse, Trial, Present, PENDING, ACTIVE
    <3>2. CASE slotKnown
      BY <1>1, <2>0, <3>1, <3>2 DEF AB!Next, AB!RollBack, Trial
    <3>3. CASE ~slotKnown
      BY <1>1, <2>0, <3>1, <3>3 DEF AB!Next, AB!RollBackAstray, Trial
    <3>4. QED
      BY <3>2, <3>3
  <2>2. CASE s # "OK"
    BY <1>3, <2>0, <2>2, WriteLemma
  <2>3. QED
    BY <2>1, <2>2
<1>8. CASE VerifySignature
  <2>1. SlotInUse' = SlotInUse /\ Trial' = Trial /\ slotKnown' = slotKnown
    BY <1>3, <1>8 DEF VerifySignature, blobVars
  <2>2. verified' = TRUE \/ verified' = verified
    BY <1>8 DEF VerifySignature
  <2>3. QED
    BY <2>1, <2>2 DEF AB!Next, AB!Check, Trial
<1>9. CASE Reboot
  <2>1. SlotInUse' = SlotInUse /\ Trial' = Trial
    BY <1>3, <1>9 DEF Reboot, blobVars
  <2>2. verified' = verified /\ slotKnown' = (SlotInUse = 0)
    BY <1>9 DEF Reboot
  <2>3. QED
    BY <2>1, <2>2 DEF AB!Next, AB!Restart, Trial
<1>10. CASE ValidateCurrentBoot \/ Faults \/ UNCHANGED otaVars
  <2>1. UNCHANGED blobs /\ UNCHANGED <<verified, slotKnown>>
    BY <1>10 DEF ValidateCurrentBoot, Faults, ArmBlobFault, otaVars, blobVars
  <2>2. QED
    BY <1>3, <2>1
<1>11. QED
  BY <1>4, <1>5, <1>6, <1>7, <1>8, <1>9, <1>10 DEF OtaNext

\* The update manager keeps the A/B promise: while it knows the slot in use a
\* trial starts from a checked image only and a rollback leaves that slot alone,
\* and only confirming the trial ever changes the slot in use.
THEOREM ImplementsAbUpdate == OtaSpec => AbSpec
<1>1. TrialInv /\ [OtaNext]_otaVars
        => [AB!Next]_<<SlotInUse,
                       IF Present(PENDING) THEN blobs[PENDING] ELSE SlotInUse,
                       verified, slotKnown>>
  BY RefinedStep DEF Trial
<1>2. QED
  BY <1>1, RefinedInit, TrialInvariance, PTL DEF OtaSpec, AbSpec, AB!Spec
=============================================================================
