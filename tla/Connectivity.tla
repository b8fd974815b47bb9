---------------------------- MODULE Connectivity ----------------------------
(***************************************************************************)
(* ConnectivityManager, src/firmware/connectivity/connectivity.cpp, over   *)
(* the simulated radio.  It has no lock and one caller at a time.          *)
(* check_and_reconnect and send_telemetry_batch sleep in the middle, and   *)
(* the link may change while they do: each stretch between two sleeps is a *)
(* step, and `call' says where the caller is.                              *)
(*                                                                         *)
(* A definition called "Mutant..." is a plausible bug in the definition    *)
(* after it and is used by no other.                                       *)
(***************************************************************************)
EXTENDS SimNetwork, Naturals

CONSTANT MaxRetries     \* bound on the reconnects tried in an outage

ASSUME RetryAssumption == MaxRetries \in Nat

VARIABLES
  retryCount,     \* retry_count_
  call,           \* "idle", or asleep in "backoff" or sending ("send")
  attempt,        \* send_telemetry_batch: attempts made
  delay,          \* delay_ms of the current or last back-off, in seconds
  result,         \* what the last send_telemetry_batch returned, or "none"
  lastDelay,      \* history: the back-off before it, 0 if the first since the
                  \* manager connected or was initialized
  deliveries      \* history: posts of the last batch that got through

sendVars         == <<attempt, result, deliveries>>
backoffVars      == <<retryCount, delay, lastDelay>>
connectivityVars == <<networkVars, call, sendVars, backoffVars>>

ConnectivityInit ==
  /\ NetworkInit
  /\ retryCount = 0 /\ delay = 0 /\ lastDelay = 0
  /\ call = "idle"
  /\ attempt = 0 /\ result = "none" /\ deliveries = 0

\* initialize: one attempt, without a wait.
Initialize ==
  /\ call = "idle"
  /\ \E status \in {"OK", "ERR_TIMEOUT"} :
       /\ Connect(status)
       /\ retryCount' = IF status = "OK" THEN 0 ELSE 1
  /\ delay' = 0 /\ lastDelay' = 0
  /\ UNCHANGED <<call, sendVars>>

-----------------------------------------------------------------------------
Least(m, n) == IF m <= n THEN m ELSE n

\* min(30000, 1000 * (1 << min(retry_count_, 5))), in seconds.
BackoffDelay(retries) == Least(30, 2 ^ Least(retries, 5))

\* check_and_reconnect finds the radio disconnected and sleeps.  Otherwise it
\* does nothing, and in particular leaves the count as it is.
BeginReconnect ==
  /\ call = "idle"
  /\ netState = "DISCONNECTED"
  /\ retryCount < MaxRetries
  /\ retryCount' = retryCount + 1
  /\ lastDelay' = delay
  /\ delay' = BackoffDelay(retryCount')
  /\ call' = "backoff"
  /\ UNCHANGED <<networkVars, sendVars>>

MutantEndReconnect ==
  /\ call = "backoff"
  /\ \E status \in {"OK", "ERR_TIMEOUT"} :
       Connect(status) /\ delay' = IF status = "OK" THEN 0 ELSE delay
  /\ retryCount' = 0
  /\ call' = "idle"
  /\ UNCHANGED <<lastDelay, sendVars>>

\* After the sleep it connects, whatever has become of the link meanwhile.
EndReconnect ==
  /\ call = "backoff"
  /\ \E status \in {"OK", "ERR_TIMEOUT"} :
       /\ Connect(status)
       /\ retryCount' = IF status = "OK" THEN 0 ELSE retryCount
       /\ delay' = IF status = "OK" THEN 0 ELSE delay
  /\ call' = "idle"
  /\ UNCHANGED <<lastDelay, sendVars>>

-----------------------------------------------------------------------------
BeginSend ==
  /\ call = "idle"
  /\ call' = "send"
  /\ attempt' = 0 /\ deliveries' = 0 /\ result' = "none"
  /\ UNCHANGED <<networkVars, backoffVars>>

MutantPostOk ==
  /\ call = "send"
  /\ LinkUp
  /\ attempt' = attempt + 1
  /\ deliveries' = deliveries + 1
  /\ call' = IF attempt' = 3 THEN "idle" ELSE "send"
  /\ result' = IF attempt' = 3 THEN "OK" ELSE "none"
  /\ UNCHANGED <<networkVars, backoffVars>>

\* A post gets through: done.
PostOk ==
  /\ call = "send"
  /\ LinkUp
  /\ attempt' = attempt + 1
  /\ deliveries' = deliveries + 1
  /\ result' = "OK"
  /\ call' = "idle"
  /\ UNCHANGED <<networkVars, backoffVars>>

\* A post is lost, or the link is down: again after a sleep, three times in all.
PostLost ==
  /\ call = "send"
  /\ attempt' = attempt + 1
  /\ IF attempt' = 3
     THEN call' = "idle" /\ result' = "ERR_TIMEOUT"
     ELSE UNCHANGED <<call, result>>
  /\ UNCHANGED <<networkVars, deliveries, backoffVars>>

-----------------------------------------------------------------------------
\* The harness moves the link, also while the manager sleeps.
LinkMoves ==
  /\ \/ ForceDisconnect
     \/ ForceConnect
     \/ \E force \in BOOLEAN : SetFaultProfile(force)
  /\ UNCHANGED <<call, sendVars, backoffVars>>

ConnectivityNext ==
  Initialize \/ BeginReconnect \/ EndReconnect \/ BeginSend \/ PostOk
    \/ PostLost \/ LinkMoves

-----------------------------------------------------------------------------
\* Each back-off of an outage is twice the one before, up to 30 s, whatever the
\* link does in between and however the attempts end; the first is 2 s, or 4 s
\* after a failed initialize, unless the link came back by itself before: that
\* the manager does not notice, and the next outage goes on from the last.
BackoffGrows ==
  call = "backoff" =>
    IF lastDelay = 0 THEN delay \in {2, 4} ELSE delay = Least(30, 2 * lastDelay)

\* A batch is delivered at most once, and reported so exactly if it was; it is
\* given up only after three attempts.
SendDeliversOnce ==
  call = "idle" =>
    /\ result = "OK" <=> deliveries = 1
    /\ result # "OK" => deliveries = 0
    /\ result = "ERR_TIMEOUT" => attempt = 3
=============================================================================
