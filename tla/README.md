# A TLA+ model of the GenEd companion firmware

This directory is a verification project for the firmware under `src/`: TLA+
modules of its components, TLC configurations that check them on small
instances, and theorems about them proved with TLAPS. Paths below are relative
to the repository (`src/` is its root here).

To check everything by hand: `tlc -config X.cfg M.tla` for each run of
`PROJECT.json`, `tlapm M.tla` for each `*Proofs` module.

## 1. Inventory

The firmware is a host simulation of a classroom companion device. Six
`std::thread` tasks (`firmware/app_runtime/main.cpp`) share one durable event
queue and a simulated HAL; a Flask program (`tools/mock_server.py`) plays the
cloud. A number of components are written and unit-tested but not called by the
tasks (OTA manager, connectivity manager, power manager, rules engine,
diagnostics framework).

| Component | State | Operations | Talks to |
|---|---|---|---|
| Event queue (`event_runtime/`) | `queue_`, `next_event_id_`, `next_sequence_`, mutex | `enqueue`, `get_pending`, `mark_committed`, `compact`, `recover`, `serialize`, `deserialize` | storage, called by every task |
| Flash (`hal/sim`, `SimStorage`) | append logs, ONE record id counter, blobs, one-shot write fault, mutex | `append_record`, `scan_records`, `mark_record_committed`, `read_blob`, `write_blob_atomic` | event queue, diagnostics, OTA |
| Radio (`SimNetwork`) | link state, fault profile | `connect`, `post_json`, faults | SyncTask, OtaTask, boot |
| SyncTask and boot (`main.cpp`) | `g_connected`, the batch in hand | boot: recover, connect once, enqueue DEVICE_REBOOTED; loop: batch, post, commit, compact | queue, radio |
| Other tasks (`main.cpp`) | `g_low_battery`, `g_ota_in_progress`, `g_session_active`, `g_running`, help window, LED | enqueue events, set flags and LED, stop | queue, HAL |
| Watchdog (`main.cpp`) | heartbeat per task, mutex | `watchdog_kick`, `watchdog_overdue_tasks` | all tasks |
| Mock server (`tools/`) | received events, duplicate keys | `/telemetry` and others | SyncTask, by HTTP |
| OTA manager (`ota/`) | update state, active slot, three blobs | download, verify, mark, confirm, roll back, validate boot | storage, security |
| Connectivity manager | retry count, credentials | `initialize`, `check_and_reconnect`, `send_telemetry_batch` | radio |
| Diagnostics | trace ring, crash blob, error log | `log_error`, `record_crash`, `add_trace_entry`, export | storage |
| Power manager | power state | `evaluate_state`, `enter_sleep` | power HAL |
| Rules engine | help times, emitted flags, derived events | `process_primary_event`, `get_and_clear_derived_events` | none |

What is hard to test here:

* SyncTask works through *copies* of events with separate calls to the radio
  and the queue; other tasks enqueue, and power may go, between any two calls.
* An append may fail after ids were consumed, and a commit may fail; RAM and
  flash must not disagree.
* Three counters number the same event: event id and sequence number (RAM,
  rebuilt at boot) and record id (flash). `mark_committed` passes an *event* id
  where storage expects a *record* id.
* Full queue, full log, reclaiming of acknowledged records, recovery that stops
  at the queue's capacity.
* At-least-once delivery with the event id as the server's duplicate key.
* Delivery in the end, with lost packets.
* An A/B update whose state is spread over RAM fields and three blobs, with a
  reboot or a failed write between any two calls.
* Six tasks that share atomic flags and one LED without a lock, each deciding on
  values it read earlier; a shutdown that may fall between any two steps.
* Unsigned time differences (watchdog, queue age), a clock read before a lock is
  taken (watchdog, trace) and rolling windows (repeated help, inactivity).
* Managers that sleep in the middle of a call while the link moves.

What makes each component correct:

* queue and storage: capacity; no trace of a rejected event; acknowledgements
  persisted first; nothing accepted is lost; nothing acknowledged comes back;
  unique ids; order kept; a reboot changes nothing.
* delivery: what the device takes for acknowledged the server has; once; in
  order; in the end.
* OTA: only a verified image of the other slot is booted; the slot in use moves
  by confirmation only.
* tasks: the flags and the LED follow the battery; at most one update begins on
  a low battery; shutdown joins every task and leaves nothing open.
* watchdog: a task that hangs is reported; a false alarm has one known cause.
* rules: repeated help exactly for three presses within the window, drops on
  time, each derived event once a session.
* diagnostics: the trace is the last entries in order; what it shows is stored.
* managers: back-off doubles up to its cap; a batch is delivered at most once and
  reported truly; a brownout locks the device out.
* the stored form of an event: what is written is read back.

`PROJECT.json` lists each hazard at its line with the properties for it.

## 2. Modules

| Module | Models | Notes |
|---|---|---|
| `SimStorage` | append logs of `SimStorage` | one action per call, parameterised by the returned `Status` |
| `EventQueue` | `event_queue.cpp` over `SimStorage` | one action per public method |
| `DurableOutbox` | what the queue promises | abstract specification |
| `SimNetwork` | `SimNetwork` | link up or down |
| `MockServer` | `/telemetry` | duplicate keys |
| `Delivery` | SyncTask, boot sequence, enqueuing tasks | composes the four above |
| `SimBlobs` | blobs of `SimStorage` | |
| `OtaManager` | `ota.cpp` over `SimBlobs` | one action per method |
| `AbUpdate` | what an A/B update promises | abstract specification |
| `AppRuntime` | TelemetryTask, PowerTask, UiTask, OtaTask and `main`; of SyncTask and DiagnosticsTask, that they loop until `g_running` is clear | flags, LED, battery, shutdown |
| `Watchdog`, `MCWatchdog` | `watchdog_kick`, `watchdog_overdue_tasks`, DiagnosticsTask | unsigned arithmetic modulo `Modulus` |
| `RulesEngine` | `rules_engine.cpp` | one formula per method, over the event it is given |
| `TelemetryRules` | TelemetryTask's loop with its inline rules, feeding `RulesEngine` | composes the two |
| `Diagnostics`, `MCDiagnostics` | `diagnostics.cpp` over `SimStorage` and `SimBlobs` | one step per stretch between locks |
| `TraceWindow` | what the trace promises | abstract specification |
| `Connectivity` | `connectivity.cpp` over `SimNetwork` | one step per stretch between sleeps |
| `PowerManager` | `power_manager.cpp` over the battery | |
| `Managers` | the two side by side | `evaluate_state` is told what `get_current_state` says |
| `EventCodec`, `MCEventCodec` | `serialize`, `deserialize` and their helpers | texts are sequences of characters |
| `SimStorageProofs`, `EventQueueProofs`, `DeliveryProofs`, `OtaManagerProofs`, `AppRuntimeProofs` (with `Watchdog`), `DiagnosticsProofs`, `LibraryProofs`, `CodecProofs` | proofs (section 5) | no model code |

How state maps to code, where it is not one to one:

* A log, and `queue_`, are *sets*. Records carry ids that only grow along the
  vector. A queue entry carries `pos`, the id of its record: the code does not
  store it, but `enqueue` and `recover` push in record order, so `pos` tells
  the place in the vector. "The first n pending" is the operator `FirstUpTo`.
* An event is its id, sequence number, committed flag and a `tag`: the tag
  numbers the events in the order they are handed to `enqueue` and stands for
  the rest of the struct. `made`, `accepted` and `acked` are history variables.
  No action's guard reads `accepted` or `acked`.
* `EventQueue` and `SimStorage` hold a mutex for whole methods: one method, one
  action. Both calls inside `enqueue` and `mark_committed` are made with the
  queue's mutex held, and storage is reached only through such calls in
  sequence, so joining the two is sound: nothing another thread can see lies
  between them but the diagnostics log, which shares only the record counter.
  `SyncTask` holds nothing across its loop: `Delivery!sync` is its program
  counter and each call is a step. `OtaManager` has no lock and one caller at a
  time.
* A reboot is a new object over the same `SimStorage`, as the repository's
  tests do it. A whole method happens or does not: the simulated write is
  atomic, so there is no crash inside one.
* `post_json` of the simulated radio opens no socket and always answers 200.
  `Delivery` joins it to the telemetry handler the way the architecture
  document does: a post that gets through is one the server handled. A packet
  is lost on the way there, never the answer.
* A status nobody reads (`enqueue` in the tasks, `mark_committed` in SyncTask)
  is existentially quantified.
* `AppRuntime` takes one access to a shared flag or the LED per step, and each
  task's name for what it does next is its program counter. The loop's test and
  the reading of the button (TelemetryTask) or of the battery (PowerTask) are one
  step: no other task acts on what these two read, so a change of it that falls
  between may as well come before. The flags are atomic. The LED, the battery and the button of the
  simulated HAL are plain fields that several threads touch, formally a data
  race; they are one aligned word or byte each (the button's is a map entry), and
  a build reads or writes them whole, in some order, which the interleaving of
  steps covers. SyncTask and DiagnosticsTask write none of this; what they do in an
  iteration is in `Delivery` and `Watchdog`, and nothing in it waits for another
  task (each lock is held for one call), so here they are "looping" until, at
  some time after `g_running` is clear, they are "stopped" (`SyncStops`,
  `DiagnosticsStops`). `AllJoined` names all six threads.
* `Watchdog` joins a kick, and a check, into one step each (both hold the
  mutex), but keeps the reading of the clock in DiagnosticsTask apart.
  `Modulus` stands for 2^64; that neither clock nor deadline comes near it is
  `TimeAssumption`.
* `TelemetryRules` takes one iteration of the loop as a step: the task shares
  nothing else with anyone, and time, a tick being far longer than the 100 ms it
  sleeps, does not pass within it. The firmware never calls the rules engine;
  here it is fed with the primary events the task makes, and so serves as the
  reference for the inline rule.
* `Diagnostics!stage` is the program counter of a caller between the append,
  the clock and the ring's lock. An error is a number.
* In `Connectivity`, delays are in seconds; the loss of a packet is a choice.
* In `EventCodec` the loops over a string's characters, and the library's
  conversions of numbers, are recursive functions over texts. A number may have
  any number of digits; that it fits its field is `IsEvent` for the signal and
  the battery, and not needed for the others.

`Mutant...` definitions are plausible bugs used by no other definition: each
property has one that TLC finds it violated by (`PROJECT.json`, "mutants").

## 3. Runs

Passing runs:

| Run | Spec and bounds | Shows |
|---|---|---|
| `queue` | `Spec`; queue 2, log 3, 4 events | type, capacity, no trace of a rejected event, acknowledgement persisted first, only acknowledged records reclaimed: in every history, failing appends, other client and reboots included |
| `queue_steady` | `SteadySpec`; 3, 4, 6 | a reboot changes nothing, no loss, no replay, no id given out twice, order, and the refinement of `DurableOutbox` |
| `delivery` | `DeliverySpec`; 2, 3, 5, batch 2 | no event stored twice by the server, the batch never stale |
| `delivery_steady` | `FairSteadySpec`; 2, 3, 5, batch 2 | what is acknowledged was received, in order; every accepted event is acknowledged in the end |
| `ota` | `OtaSpec`; 2 images | only verified images announced; for the other slot exactly while the manager knows its slot; confirmations durable; refinement of `AbUpdate` |
| `app` | `AppSpec`; no bound | at most one update begins on a low battery; the LED settles; shutdown ends, all six tasks joined, with session and update closed |
| `watchdog` | `WatchdogSpec`; 3 tasks with deadlines 1, 2, 3; 5 ticks; modulus 16 | alarms explained exactly; a hung task is reported |
| `rules` | `HelpSpec`; window 2, threshold 3, idle period 1; 8 ticks, 4 presses, 2 sessions | repeated help exact; the inline rule reports nothing the engine does not; drops on time; once per session, in the right order |
| `diagnostics` | `DiagnosticsSpec`; 2 callers, ring 3, log 2, 3 errors, 1 tick, symmetry | refinement of `TraceWindow`; traced errors are stored |
| `managers` | `ManagersSpec`; 8 reconnects per outage | back-off; batch delivered once; brownout |
| `codec` | `CodecSpec`; 6 ids, 4 versions, payloads of at most 2 keys over 4 texts, both formats | round trip |

Bounds. The code has a queue of 100, a log of 5000 and a batch of 5. The
instances keep what the code's case distinctions depend on: the log is larger
than the queue (so recovery can meet more records than it has room for), the
queue is at least the batch, there are more events than log places (so
reclaiming happens, and the log fills), and more than the queue (backpressure).
`MaxEvents` bounds calls of `enqueue`; every boot enqueues one, so it bounds
boots too. Nothing else grows without bound. Once `made` reaches it the system
goes on (uploads, commits, recoveries), it only stops making events.

The other instances follow the same rule. `rules`: the window holds two ticks,
so three presses may lie in it, or straddle it, or come after it has moved; four
presses make a second window; two sessions show what a session leaves behind.
`diagnostics`: five entries and more pass through a ring of three (traces
without an error are not bounded), three errors overfill a log of two, and two
readings of the clock may be equal or not. `watchdog`: every deadline, plus the
time to notice, fits into the clock, and 16 is more than clock and deadline
together, as 2^64 is. `managers`: the delay reaches its cap at the fifth
reconnect. `codec`: the texts hold every reserved character, and some that look
like escape codes; the header and the correlation id are fixed, its numbers have
one to three digits, and the signal strength is negative.

Deadlock is checked in every run but `watchdog`, where all tasks may hang and the
clock is bounded, so that the system may really stop. The proofs remove the
bounds for the properties of section 5.

**A steady environment.** `mark_committed` is right exactly when an event's id is
also the id of its record, and nothing in the code keeps the two counters
together. `SteadySpec` (`EventQueue`; `DeliverySteadySpec` in `Delivery`) restricts
what the *environment* does, and says nothing of the counters:

* the queue has the storage to itself;
* no event is made between a failed append and the next boot;
* the power is not lost while the newest record there has been is an
  acknowledged one (`NewestIsOwed`).

Appends may fail in it (storage full, write fault, record too long), and a reboot
rebuilds the counters from what it finds. That the counters
then agree again is a consequence, proved in section 5: a failed append uses up
an event id, the next boot gives it back, and the boot finds the newest record
among those it recovers, because RAM held every unacknowledged record and the
capacity does not cut the recovery short. `StableIds` is where TLC would see a
recovery that hands ids out again (its mutant is one). Each of the three
conditions is needed: the findings of section 4 are what happens without them.
This is a condition on use, *not* something the code ensures.

The OTA manager has no such restriction. `OtaManager!slotKnown` is a history
variable: whether the device has rebooted on the second slot without confirming
since. `TrialSlotExplained` and `AbUpdate` say what holds in either case.

**Fairness** (`Delivery!Fairness`). Threads are scheduled by the host, so each
step of the boot and of SyncTask is weakly fair; nothing is assumed about the
other tasks, faults, link changes or reboots. `PostDelivered` is strongly fair:
the simulated loss rate is a probability below 1, drawn anew for every post, so
infinitely many posts are not all lost. (With a rate of 1 nothing is
delivered.) `EventuallyDelivered` asks in addition that from some time on the
link stays up and `g_connected` is set. Reboots end because each uses up an
event. The counterexamples to liveness in section 4 are fair in the same sense.

`AppRuntime!AppFairness` is weak fairness of each task and of `join`: they are
threads. (One condition is enough for the last steps of SyncTask and
DiagnosticsTask and for `join`: each happens once and disables none of the
others.) Nothing makes anybody press Enter or the button, or charge the battery;
`LedFollowsBattery` only speaks of a battery and a button that come to rest.
`Watchdog!WatchdogFairness` is weak fairness of the clock and of
DiagnosticsTask's steps, which a hung DiagnosticsTask has none of; the tasks it
watches need not take a step.

## 4. Findings

What a document, comment or test of the repository says, against what the code
does. The first has a run that TLC is expected to find violated
(`delivery_dropped`; `PROJECT.json` quotes the lines). TLC finds the next four
with a configuration of three lines: the specification and property named here,
with the constants of the component's run. The last is built into `OtaManager` and
into the promise `AbUpdate` makes.

| Property | Under | What happens |
|---|---|---|
| `AckedWasReceived` | `DeliverySpec` | `recover` restarts the counters past *unacknowledged* events only, so ids are reused (`event_queue.cpp:134`); the server drops the new event as a duplicate, answers 200, and the device acknowledges it |
| `NoReplay` | `EventQueue!Spec` | one failed append consumes an event id but no record id; committing event 2 (record 1) marks record 2, and the acknowledged event is recovered at the next boot (`event_queue.cpp:90`; `docs/GAPS.md:28` "Acknowledged events are not replayed during recovery.") |
| `EventuallyDelivered` | `Delivery!FairSpec` | the same drift: a commit answered NOT_FOUND is retried for ever (`event_queue.cpp:88`; its comment: "SyncTask safely retries it") |
| `ResumesWhenRestored` | `Delivery!FairSteadySpec` | `g_connected` is written at boot only: a device booted offline never uploads (`main.cpp:518`; `docs/ARCHITECTURE.md:94-96` "SyncTask resumes") |
| `PendingImageVerified` | `OtaSpec` | `begin_download` while an update is due to boot replaces the verified image (`ota.cpp:34`) |
| `TrialSlotExplained` (holds, and says when) | `OtaSpec` | the active slot is not read back at boot: after a reboot on the second slot the update is prepared for the slot in use, and a rollback starts a trial of the first slot, checked or not (`ota.cpp:79`, `ota.cpp:108`; `docs/ARCHITECTURE.md:145` "Inactive slot written during download") |

A failed append is enough for the second; a shared storage (an error logged by
`DiagnosticsFramework` takes a record id) is another way to the same drift.
`NoLoss` (the record marked by mistake was another event's, which is then never
recovered), `StableIds` and `UploadOrder` (two stored events with one id, two
pending ones with one sequence number) fail under `Spec` for the same two
reasons (5 events for `UploadOrder`). Also seen in `ota.cpp`: nothing removes
`ota_pending_slot`, so every boot after a confirmation or a rollback is pending
confirmation again, where `docs/STATE_OTA.md` has ROLLBACK lead to IDLE; and
`confirm_boot` accepts PENDING_REBOOT, before any reboot (the repository's own
test does that).

Met while modelling the other components, and built into their models as the
code has it:

* **Updates and low battery.** `docs/STATE_POWER.md:45` says "abort active OTA"
  and `docs/ARCHITECTURE.md:155` "Low battery pauses OTA". PowerTask only prints
  "pausing OTA" (`main.cpp:343`); the update runs to its end, and one whose
  battery test came first begins even after the flag is set. What does hold is
  `AtMostOneUpdateWhileLow`.
* **False alarms of the watchdog.** DiagnosticsTask reads the time, then calls
  `watchdog_overdue_tasks`; a task that kicks a millisecond later in between has
  an age of 2^64 - 1 and is reported overdue. `AlarmsExplained` says exactly when.
  DiagnosticsTask has a deadline of its own but nobody else checks it, and a
  task that hangs before its first kick is never looked at.
* **Inline repeated help.** TelemetryTask's window starts with the task and never
  moves: within 5 minutes of start it reports at the third press and at every
  press after it, and later never. `docs/GAPS.md:17` says "3 requests within 5
  minutes". What it reports is right (`InlineSound`); it misses what the engine
  finds.
* **Inline engagement drop.** TelemetryTask enqueues ENGAGEMENT_DROP with every
  INACTIVITY_DETECTED, after 10 s and again every 10 s ("10 seconds for
  simulation"); `docs/GAPS.md:18` says "10 minutes without activity", which is the
  engine's rule, once a session.
* **Struggle.** The rules engine derives STRUGGLE_DETECTED only if the repeated
  requests came before the drop; after a drop, later repeated requests of the
  session give none (`DerivedPerSession`: a struggle's place is right behind a drop
  that repeated help came before).
  Derived events not fetched when a session starts stay in the queue.
* **Back-off.** `docs/STATE_CONNECTIVITY.md` has "Attempt 1: immediate", 2 s, 4 s,
  30 s from the fourth; `check_and_reconnect` sleeps 2 s before its first attempt
  and doubles up to 30 s. `retry_count_` is not reset when the link comes back
  by itself. CONNECTIVITY_LOST and CONNECTIVITY_RESTORED, which the same
  document has emitted, have no producer.
* **Fault profile.** `set_fault_profile` with `force_disconnect` makes posts fail but
  leaves `state()` CONNECTED, so the connectivity manager does not reconnect.
* **Sleep.** `docs/STATE_POWER.md` leads from SLEEP to ACTIVE on waking;
  `enter_sleep` returns with the state SLEEP, until the next evaluation.
* **Diagnostics log.** Nothing acknowledges its records, so once it is full every
  further error is refused, and is then not traced either.
* **Encoding.** `docs/GAPS.md:21` calls records "escaped"; the device and session
  ids are not (`event_queue.cpp:275`). A separator in one shifts the fields after
  it; the fields the queue works with come before and survive (`RoundTrip`).
* **No update.** OtaTask looks for "no_update" in the answer; the simulated radio
  never says it, so every check that gets through starts an update.

## 5. Proofs

All proofs are checked by `tlapm` with Z3, Zenon and LS4. They hold for every
value of the constants under the named assumptions of the modules:
`MAX_RECORDS_PER_LOG`, `MAX_QUEUE_SIZE`, `BatchSize`, `RING_BUFFER_MAX` and
`InactivityThreshold` positive naturals (they are 5000, 100, 5, 100 and 600000 in
the code; with a threshold of 0 `DropTimely` would not hold), the other periods,
limits and bounds naturals, and for the watchdog a clock and deadlines that stay
below the modulus. The OTA proofs assume nothing of `Images`, the tasks' proofs
nothing at all. `CodecAssumption` says that the characters include those the
format and the conversions write, and that what is stored is an event: any
texts, any payload of finitely many items, a signal strength of 16 bits. No proof
uses fairness.

* `SimStorageProofs`: what `AppendRecord` and `MarkRecordCommitted` do to a
  log, stated once: ids below the counter stay so, a record keeps its data,
  sizes stay within the limit, finite sets stay finite.
* `EventQueueProofs`: `Spec => []` of `TypeOK`, `Bounded`,
  `RejectedLeavesNoTrace`, `AckPersistedFirst`, and the action property
  `UnacknowledgedRecordsKept`. The inductive invariant `Inv` adds to them that
  the sets are finite (or cardinalities mean nothing), that every record id is
  below the next one and no two records share one (or a new record could be
  taken for an old one, and marking one record would mark two). `AckPersistedFirst`
  in particular survives an append because the new id is fresh.
* Also in `EventQueueProofs`: `SteadySpec => []` of `RamMatchesFlash`, `NoLoss`, `NoReplay`,
  `StableIds`, `UploadOrder`, and `SteadySpec => OutboxSpec`, the refinement of
  the abstract outbox. The invariant `InStepInv` is `Inv` with `InStep` (the event
  counter is at the next record's id, one past it after a failed append) and the
  facts that make ids interchangeable: every record's data carries its own record
  id as event id, tags and sequence numbers grow with it, and RAM's pending
  entries are the recoverable ones. None of this is assumed: `EnqueueOwes` shows
  it of an append that works or fails, `RecoversAll` that the capacity does not cut
  a recovery short, and `RecoverInStep` that a boot which finds the newest record
  owed brings the counter exactly to the next record's id.
* `DeliveryProofs` composes. `DeliverySpec => Spec` first: every step of SyncTask, the
  enqueuing tasks and the server is one of the queue or leaves it alone, so
  `Inv` comes for free. Then `DeliveryTypeOK`, `BatchNotStale` and
  `NoDuplicateReceipt`. `BatchNotStale` needs that `pos` identifies a queue entry;
  `NoDuplicateReceipt` that a tag has one event id in *every* copy (`OneIdPerTag`:
  RAM, log, batch and server), because the server compares ids, not tags.
  Under `DeliverySteadySpec`, whose queue runs in a steady environment
  (`SteadyStepsQueue`): `AckedWasReceived`, `ReceivedInOrder`, and the
  refinement of `DurableOutbox`. These need the converse, that an id has one tag
  (or the server would take a new event for one it has: the counterexample of
  run `delivery_dropped`), that the batch is the front of what is pending, that
  what the server has was made no later than what is still pending, and that
  the head of the batch has been received while SyncTask is between post and
  commit.
* `OtaManagerProofs`: `OtaSpec => []` of `OtaTypeOK`, `ReadyImageVerified`,
  `ConfirmedIsStored` and `TrialSlotExplained`, and `OtaSpec => AbSpec`. `OtaInv` adds to
  the first that `VERIFYING` outside a call means a verified image in storage;
  `TrialInv` that the slot the manager takes for its own is the one in use exactly
  when `slotKnown`, and that an update announced is for the other of the two.
* `AppRuntimeProofs`: `AppSpec => []` of `AppTypeOK`, `NothingLeftOpen` and
  `AtMostOneUpdateWhileLow`, from what ties each flag to the program counter of
  the task that owns it: the session is open at four of TelemetryTask's places,
  main is done only when all six are stopped, and OtaTask past its battery test means
  that no update has begun since the flag was set.
* `AppRuntimeProofs`, watchdog: `WatchdogSpec => []` of `WatchdogTypeOK` and `AlarmsExplained`. The
  invariant (`ReadingInv`) says on which side of the time read each heartbeat
  lies, in terms of the three history sets; `WrappedDifference` is the arithmetic
  modulo `Modulus`: a heartbeat after the reading is past every deadline.
* `DiagnosticsProofs`: `DiagnosticsSpec => []TracedErrorsAreStored` and
  `DiagnosticsSpec => TraceSpec`. The first needs that nothing in the error log is
  ever acknowledged, hence never reclaimed. For the second, the ring wraps only
  when it is full, and inserting at the index is dropping the oldest of the
  exported sequence and appending the new one.
* `LibraryProofs`, managers: `ManagersSpec => []` of `BackoffGrows`, `SendDeliversOnce`,
  `BrownoutLocksOut`. The back-off's invariant ties the last delay to the retry
  count, which the code never resets while the outage lasts.
* `LibraryProofs`, rules: `HelpSpec => []` of `RulesTypeOK`, `RepeatedHelpExact`,
  `InlineSound`, `DropTimely` and `DerivedPerSession`, from `TelemetryInv`, three
  parts that each stand on the ones before:
  `TimeInv` (the last press is what the engine counts from, a running task's last
  activity is at most a period ago, and without a drop the last activity found
  the silence short of the threshold);
  `PressInv` (the engine's list is the suffix of the session's presses that lies in
  the window at the latest press, so its length reaches 3 exactly when the third
  latest press is in it);
  `DerivedInv` (all derived events are of sessions begun, and the two flags say
  what is derived of this one).
  That ageing the list keeps a suffix (`InWindowIsSuffix`) is an induction over a
  list of times in order; it is made with `NatSetInduction`, induction stated with
  a set in place of a predicate and proved from the library's `WFMin`.
* `CodecProofs`: `CodecSpec => []RoundTrip`, for all texts, numbers and payloads,
  both formats, ids with separators included. The invariant `CodecInv` is
  `RoundTrip` with: what is made is an event, and what is in the log is its record
  in one of the two formats. The work is in what the operators compute:
  `RankRecursion` (a recursive definition that looks only at arguments of lower
  rank is satisfied by a function, so that `Escape`, `Unescape`, `Split`, `JoinWith`
  and the numerals meet their equations), then one lemma a conversion:
  `EscapeRoundTrip` (unescaping undoes escaping for *every* text, an escape code
  in it or a lone `%` at its end included), `EscapeWithout` (an escaped text holds no
  separator), `SplitJoin` (splitting undoes joining for parts without the
  separator; for one with it, the parts before it survive), `DecimalRead` (numbers
  are read back), `PayloadRead` (so is a payload, in whatever order its items are
  written, as keys are distinct). `ReadWithBar` is the case of a separator in an
  id: the header and the commitment stand before the ids, so they are intact.

Every safety invariant and step property that a passing run checks is proved, and
so are the refinements. Induction is stated with sets (`NatSetInduction`,
`SeqInduction`) or with the operator's right side as a function (`RankRecursion`),
since the provers do not instantiate theorems that take an operator. Liveness
(`EventuallyDelivered`, `LedFollowsBattery`, `ShutdownEnds`, `HungTaskReported`) is
outside the prover's reach, as it needs ENABLED; these four are model-checked
only.

## 6. Not modelled

* In `EventQueue` a record's data is the event itself; its text form is
  `EventCodec`. Three things about reading are left out there, which matter only
  where a piece of an id stands in a number's or an escaped field's place:
  `stoull` and its kin skip blanks and a `+` and throw for values out of range,
  `hex_value` takes lower-case digits too, and an escape code of a character that
  is not reserved is kept as a code. What `serialize` writes has none of these.
* `oldest_pending_age_ms`: nothing in the repository reads the age.
* JSON bodies, headers, tokens, HTTP status other than 200 (the radio knows no
  other), the server's provisioning, batch, OTA and diagnostics endpoints: the
  firmware does not read what they answer.
* Statistics: `total_enqueued_`, `total_committed_`, write counts, used bytes,
  metrics.
* Of `SimIO`, `SimPower`, `SimTime` and `SimSecurity`: the buzzer, the wake reason,
  charging, the wall clock, random bytes and the fake hash, which no state
  depends on; the ESP32 HAL (stubs) and `ui.h` (one declaration);
  `tools/sim_runner.py` and the tests, which drive what is modelled.
* `get_current_metrics` (constants), `last_attempt_ms_` (never used).
* SyncTask finishing the batch in hand between the shutdown and its stop is in
  `Delivery` only (which has no shutdown): `AppRuntime` has the stop without the batch.
  An event enqueued after SyncTask has stopped, such as SESSION_ENDED, stays in the
  queue for the next boot, as any event does (`NoLoss`).
* LOG_OTA and LOG_CRASH have no writer, so the limits of 8 logs, 64 blobs and
  2 MiB cannot be met and are left out.

## 7. Plan

Done: a module for every component, with its runs, and a proof of each safety
property and refinement. What could be added: refinements that are stated as
invariants so far, TelemetryTask's inline rule against the engine's, and the
connectivity manager against an abstract retrying sender.
