------------------------------ MODULE Delivery ------------------------------
(***************************************************************************)
(* Delivery end to end: the tasks that enqueue, SyncTask and the boot      *)
(* sequence of src/firmware/app_runtime/main.cpp, over the event queue,    *)
(* the simulated radio and the mock server.                                *)
(*                                                                         *)
(* SyncTask takes no lock across its loop: it copies a batch out of the    *)
(* queue and then posts, commits and compacts in separate calls, and every *)
(* other task, a fault or a reboot may come between two of them.  `sync'   *)
(* says which call is next.  SimNetwork opens no socket: that a post it    *)
(* answers with 200 is one the server handled is how the documents connect *)
(* the two (docs/ARCHITECTURE.md, "Data Flow").                            *)
(*                                                                         *)
(* A definition called "Mutant..." is a plausible bug in the definition    *)
(* after it and is used by no other.                                       *)
(***************************************************************************)
EXTENDS EventQueue, SimNetwork, MockServer

CONSTANT BatchSize      \* 5 in SyncTask

ASSUME BatchAssumption == BatchSize \in Nat \ {0}

VARIABLES
  connected,            \* g_connected
  sync,                 \* the call SyncTask makes next; "boot": not started
  batch                 \* pending: SyncTask's copies not yet dealt with

syncVars     == <<connected, sync, batch>>
queueVars    == <<storageVars, ramVars, historyVars>>
deliveryVars == <<queueVars, networkVars, received, syncVars>>

DeliveryInit ==
  /\ Init
  /\ NetworkInit
  /\ ServerInit
  /\ connected = FALSE
  /\ sync = "boot"
  /\ batch = {}

-----------------------------------------------------------------------------
\* Power is lost at any point and the device starts again: boot_sequence up to
\* recover().  Storage, the radio and the server keep their state.  The bound
\* on events, one per boot at least, bounds the boots.
Reboot ==
  /\ sync # "boot"
  /\ made < MaxEvents
  /\ Recover
  /\ sync' = "boot"
  /\ batch' = {}
  /\ connected' = FALSE
  /\ UNCHANGED <<networkVars, received>>

\* The rest of boot_sequence: connect once, then enqueue DEVICE_REBOOTED (whose
\* status nobody reads) and start the tasks.  g_connected is written here only.
FinishBoot ==
  /\ sync = "boot"
  /\ \E status \in {"OK", "ERR_TIMEOUT"} :
       Connect(status) /\ connected' = (status = "OK")
  /\ Enqueue(TRUE)
  /\ sync' = "top"
  /\ UNCHANGED <<received, batch>>

\* Another task enqueues an event, whatever SyncTask is doing.  The tasks' events
\* are far below SimStorage's 4096 bytes a record, so they always fit.
TaskEnqueues ==
  /\ sync # "boot"
  /\ Enqueue(TRUE)
  /\ UNCHANGED <<networkVars, received, syncVars>>

-----------------------------------------------------------------------------
\* One iteration of SyncTask, call by call.  With nothing to do, or offline,
\* the iteration changes nothing.
TakeBatch ==
  /\ sync = "top"
  /\ connected
  /\ Pending # {}
  /\ batch' \in GetPending(BatchSize)
  /\ sync' = "upload"
  /\ UNCHANGED <<queueVars, networkVars, received, connected>>

IsHead(b) == b \in batch /\ \A c \in batch : b.pos <= c.pos

MutantPostDelivered ==
  /\ sync = "upload"
  /\ LinkUp
  /\ \E b \in batch : Telemetry(b.ev)
  /\ sync' = "commit"
  /\ UNCHANGED <<queueVars, networkVars, connected, batch>>

\* post_json gets through and the server answers 200.
PostDelivered ==
  /\ sync = "upload"
  /\ LinkUp
  /\ \E b \in batch : IsHead(b) /\ Telemetry(b.ev)
  /\ sync' = "commit"
  /\ UNCHANGED <<queueVars, networkVars, connected, batch>>

MutantPostFailed ==
  /\ sync = "upload"
  /\ sync' = "commit"
  /\ UNCHANGED <<queueVars, networkVars, received, connected, batch>>

\* post_json fails, the link being down or the packet lost: the rest of the
\* batch is left for a later iteration.
PostFailed ==
  /\ sync = "upload"
  /\ sync' = "compact"
  /\ batch' = {}
  /\ UNCHANGED <<queueVars, networkVars, received, connected>>

MutantCommit ==
  /\ sync = "commit"
  /\ \E b \in batch : IsHead(b) /\ MarkCommitted(b.ev.event_id)
  /\ sync' = "upload"
  /\ UNCHANGED <<networkVars, received, connected, batch>>

\* mark_committed, whose status SyncTask does not read.
Commit ==
  /\ sync = "commit"
  /\ \E b \in batch :
       /\ IsHead(b)
       /\ MarkCommitted(b.ev.event_id)
       /\ batch' = batch \ {b}
  /\ sync' = IF batch' = {} THEN "compact" ELSE "upload"
  /\ UNCHANGED <<networkVars, received, connected>>

CompactBatch ==
  /\ sync = "compact"
  /\ Compact
  /\ sync' = "top"
  /\ UNCHANGED <<networkVars, received, connected, batch>>

-----------------------------------------------------------------------------
\* The harness moves the link up and down, and arms a write fault.
LinkChanges ==
  /\ \/ ForceDisconnect
     \/ ForceConnect
     \/ \E force \in BOOLEAN : SetFaultProfile(force)
  /\ UNCHANGED <<queueVars, received, syncVars>>

WriteFault == ArmWriteFault /\ UNCHANGED <<networkVars, received, syncVars>>

SyncTask == TakeBatch \/ PostDelivered \/ PostFailed \/ Commit \/ CompactBatch

DeliveryNext ==
  Reboot \/ FinishBoot \/ TaskEnqueues \/ SyncTask \/ LinkChanges \/ WriteFault

DeliverySpec == DeliveryInit /\ [][DeliveryNext]_deliveryVars

\* The steady environment of EventQueue: no event is made between a failed
\* append and the next boot, and the power is not lost while the newest record
\* is an acknowledged one.
SteadyDeliveryNext ==
  \/ NewestIsOwed /\ Reboot
  \/ ~appendFailed /\ (FinishBoot \/ TaskEnqueues)
  \/ SyncTask \/ LinkChanges \/ WriteFault

DeliverySteadySpec == DeliveryInit /\ [][SteadyDeliveryNext]_deliveryVars

\* Every thread is scheduled (std::thread), so SyncTask and the boot go on.  A
\* loss rate below 1 does not lose every one of infinitely many posts: strong
\* fairness, since each loss takes SyncTask away from the post.
Fairness ==
  /\ WF_deliveryVars(FinishBoot)
  /\ WF_deliveryVars(TakeBatch)
  /\ WF_deliveryVars(PostDelivered \/ PostFailed)
  /\ SF_deliveryVars(PostDelivered)
  /\ WF_deliveryVars(Commit)
  /\ WF_deliveryVars(CompactBatch)

FairSteadySpec == DeliverySteadySpec /\ Fairness

FairSpec == DeliverySpec /\ Fairness

-----------------------------------------------------------------------------
ReceivedTags == {received[i].tag : i \in 1..Len(received)}

\* Variables of the task, the radio and the server have their types.
DeliveryTypeOK ==
  /\ TypeOK
  /\ NetworkTypeOK
  /\ received \in Seq(Event)
  /\ connected \in BOOLEAN
  /\ sync \in {"boot", "top", "upload", "commit", "compact"}
  /\ batch \subseteq Entry
  /\ sync \in {"upload", "commit"} <=> batch # {}

\* The server never stores an event twice, however often it is sent again: after
\* a reboot between the server's answer and the commit, or a commit that failed.
NoDuplicateReceipt ==
  \A i, j \in 1..Len(received) : received[i].tag = received[j].tag => i = j

\* The batch SyncTask works from stays current while other tasks enqueue: what
\* it is about to post or commit is still unacknowledged in RAM.
BatchNotStale == batch \subseteq Pending

\* An event the device takes for acknowledged is one the server has.
AckedWasReceived == acked \subseteq ReceivedTags

\* The server gets the events in the order they were made, across lost posts,
\* retries and reboots.
ReceivedInOrder ==
  \A i, j \in 1..Len(received) : i < j => received[i].tag < received[j].tag

\* Every accepted event is in the end acknowledged, if from some time on the
\* link stays up and the device has booted with it.
EventuallyDelivered ==
  <>[](LinkUp /\ connected)
    => \A t \in 1..MaxEvents : [](t \in accepted => <>(t \in acked))

\* "Network restored ... SyncTask resumes -> uploads all pending in batches"
\* (docs/ARCHITECTURE.md, Data Flow - Connectivity Loss): the link staying up
\* is enough.
ResumesWhenRestored ==
  <>[]LinkUp => \A t \in 1..MaxEvents : [](t \in accepted => <>(t \in acked))
=============================================================================
