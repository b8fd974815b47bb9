------------------------------ MODULE SimBlobs ------------------------------
(***************************************************************************)
(* The key-value half of the simulated flash, class SimStorage of          *)
(* src/firmware/hal/sim/hal_sim.cpp: read_blob and write_blob_atomic, with *)
(* the same one-shot write fault the append log has (module SimStorage).   *)
(* A write replaces the whole blob or changes nothing.  The limits of 64   *)
(* blobs and 2 MiB are left out: four keys and short values are written.   *)
(***************************************************************************)
VARIABLES
  blobs,            \* blobs_: the value of each key that has one
  blobWriteFails    \* corrupt_next_write

blobVars == <<blobs, blobWriteFails>>

BlobInit ==
  /\ blobs = [key \in {} |-> 0]
  /\ blobWriteFails = FALSE

\* read_blob: ERR_NOT_FOUND unless present.
Present(key) == key \in DOMAIN blobs

\* write_blob_atomic(key, value)
WriteBlob(key, value, status) ==
  \/ /\ blobWriteFails
     /\ status = "ERR_CORRUPT"
     /\ blobWriteFails' = FALSE
     /\ UNCHANGED blobs
  \/ /\ ~blobWriteFails
     /\ status = "OK"
     /\ blobs' = [k \in DOMAIN blobs \cup {key} |->
                    IF k = key THEN value ELSE blobs[k]]
     /\ UNCHANGED blobWriteFails

\* inject_corruption_for_test
ArmBlobFault == blobWriteFails' = TRUE /\ UNCHANGED blobs
=============================================================================
