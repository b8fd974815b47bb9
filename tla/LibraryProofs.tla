--------------------------- MODULE LibraryProofs ---------------------------
(***************************************************************************)
(* Proofs about the libraries the tasks do not use: the connectivity and   *)
(* the power manager (Managers), and the rules engine with the task it is  *)
(* compared with (TelemetryRules); for any number of reconnects, sessions  *)
(* and presses, any periods and any clock.                                 *)
(***************************************************************************)
EXTENDS Managers, TelemetryRules, WellFoundedInduction, SequenceTheorems, TLAPS

USE RetryAssumption, RulesAssumption, TelemetryAssumption

-----------------------------------------------------------------------------
(* The managers.                                                           *)

\* The delay of the last back-off goes with the count of retries, whether the
\* attempt after it failed or not: a delay of 0 is that of a new outage.
BackoffInv ==
  /\ retryCount \in Nat
  /\ call \in {"idle", "backoff", "send"}
  /\ IF delay = 0 THEN retryCount \in {0, 1}
     ELSE retryCount > 0 /\ delay = BackoffDelay(retryCount)
  /\ call = "backoff" => retryCount > 0 /\ delay > 0
  /\ BackoffGrows

\* A batch on its way has not been delivered.
SendInv ==
  /\ call \in {"idle", "backoff", "send"}
  /\ attempt \in Nat
  /\ call = "send" => deliveries = 0 /\ result = "none"
  /\ call # "send" => /\ result = "OK" <=> deliveries = 1
                      /\ result # "OK" => deliveries = 0
                      /\ result = "ERR_TIMEOUT" => attempt = 3

\* A brownout seen is still there: nothing takes it back.
PowerInv ==
  /\ brownoutSeen => brownout
  /\ BrownoutLocksOut

\* The inductive invariant of the managers.
ManagersInv == BackoffInv /\ SendInv /\ PowerInv

(* The delays: 2, 4, 8 and 16 s, then 30 s, each at most twice the one     *)
(* before.                                                                 *)
LEMMA BackoffValues ==
  /\ BackoffDelay(1) = 2 /\ BackoffDelay(2) = 4
  /\ \A n \in Nat \ {0} :
       /\ BackoffDelay(n) > 0
       /\ BackoffDelay(n + 1) = Least(30, 2 * BackoffDelay(n))
<1>1. /\ BackoffDelay(1) = 2 /\ BackoffDelay(2) = 4 /\ BackoffDelay(3) = 8
      /\ BackoffDelay(4) = 16
  <2>1. 2 ^ 1 = 2 /\ 2 ^ 2 = 4 /\ 2 ^ 3 = 8 /\ 2 ^ 4 = 16
    OBVIOUS
  <2>2. Least(1, 5) = 1 /\ Least(2, 5) = 2 /\ Least(3, 5) = 3 /\ Least(4, 5) = 4
    BY DEF Least
  <2>3. Least(30, 2) = 2 /\ Least(30, 4) = 4 /\ Least(30, 8) = 8 /\ Least(30, 16) = 16
    BY DEF Least
  <2> QED
    BY <2>1, <2>2, <2>3, Zenon DEF BackoffDelay
<1>2. ASSUME NEW n \in Nat, n >= 5 PROVE BackoffDelay(n) = 30
  <2>1. Least(n, 5) = 5
    BY <1>2 DEF Least
  <2>2. 2 ^ 5 = 32
    OBVIOUS
  <2>3. Least(30, 32) = 30
    BY DEF Least
  <2> QED
    BY <2>1, <2>2, <2>3, Zenon DEF BackoffDelay
<1>3. ASSUME NEW n \in Nat \ {0}
      PROVE  /\ BackoffDelay(n) > 0
             /\ BackoffDelay(n + 1) = Least(30, 2 * BackoffDelay(n))
  <2>1. n \in {1, 2, 3, 4} \/ n >= 5
    OBVIOUS
  <2>2. BackoffDelay(5) = 30
    BY <1>2
  <2>3. ASSUME n >= 5 PROVE BackoffDelay(n) = 30 /\ BackoffDelay(n + 1) = 30
    BY <1>2, <2>3
  <2>4. CASE n >= 5
    BY <2>3, <2>4 DEF Least
  <2>5. CASE n = 1
    BY <1>1, <2>5 DEF Least
  <2>6. CASE n = 2
    BY <1>1, <2>6 DEF Least
  <2>7. CASE n = 3
    BY <1>1, <2>7 DEF Least
  <2>8. CASE n = 4
    BY <1>1, <2>2, <2>8 DEF Least
  <2> QED
    BY <2>1, <2>4, <2>5, <2>6, <2>7, <2>8
<1> QED
  BY <1>1, <1>3

LEMMA ManagersInitInv == ManagersInit => ManagersInv
BY DEF ManagersInit, ConnectivityInit, PowerInit, ManagersInv, BackoffInv, SendInv,
   PowerInv, BackoffGrows, BrownoutLocksOut

LEMMA BackoffNext == BackoffInv /\ [ManagersNext]_managersVars => BackoffInv'
<1> SUFFICES ASSUME BackoffInv, [ManagersNext]_managersVars PROVE BackoffInv'
  OBVIOUS
<1>1. CASE Initialize
  BY <1>1 DEF Initialize, BackoffInv, BackoffGrows
<1>2. CASE BeginReconnect
  <2>1. /\ retryCount' = retryCount + 1 /\ lastDelay' = delay
        /\ delay' = BackoffDelay(retryCount + 1) /\ call' = "backoff"
    BY <1>2 DEF BeginReconnect
  <2>2. retryCount' > 0 /\ delay' > 0 /\ retryCount' \in Nat
    BY <2>1, BackoffValues DEF BackoffInv
  <2>3. CASE delay = 0
    BY <2>1, <2>2, <2>3, BackoffValues DEF BackoffInv, BackoffGrows
  <2>4. CASE delay # 0
    BY <2>1, <2>2, <2>4, BackoffValues DEF BackoffInv, BackoffGrows
  <2> QED
    BY <2>3, <2>4
<1>3. CASE EndReconnect
  BY <1>3 DEF EndReconnect, BackoffInv, BackoffGrows
<1>4. CASE \/ BeginSend \/ PostOk \/ PostLost \/ LinkMoves
           \/ UNCHANGED connectivityVars
  <2>1. UNCHANGED backoffVars /\ (call' = call \/ call' \in {"idle", "send"})
    BY <1>4 DEF BeginSend, PostOk, PostLost, LinkMoves, connectivityVars
  <2> QED
    BY <2>1 DEF backoffVars, BackoffInv, BackoffGrows
<1> QED
  BY <1>1, <1>2, <1>3, <1>4
     DEF ManagersNext, Connecting, ConnectivityNext, Evaluate, Powering, managersVars

LEMMA SendNext == SendInv /\ [ManagersNext]_managersVars => SendInv'
<1> SUFFICES ASSUME SendInv, [ManagersNext]_managersVars PROVE SendInv'
  OBVIOUS
<1>1. CASE Initialize \/ BeginReconnect \/ EndReconnect \/ LinkMoves
  BY <1>1 DEF Initialize, BeginReconnect, EndReconnect, LinkMoves, sendVars, SendInv
<1>2. CASE BeginSend
  BY <1>2 DEF BeginSend, SendInv
<1>3. CASE PostOk
  BY <1>3 DEF PostOk, SendInv
<1>4. CASE PostLost
  BY <1>4 DEF PostLost, SendInv
<1>5. CASE UNCHANGED connectivityVars
  BY <1>5 DEF connectivityVars, sendVars, SendInv
<1> QED
  BY <1>1, <1>2, <1>3, <1>4, <1>5
     DEF ManagersNext, Connecting, ConnectivityNext, Evaluate, Powering, managersVars

LEMMA PowerNext == PowerInv /\ [ManagersNext]_managersVars => PowerInv'
<1> SUFFICES ASSUME PowerInv, [ManagersNext]_managersVars PROVE PowerInv'
  OBVIOUS
<1>1. CASE Evaluate
  BY <1>1 DEF Evaluate, EvaluateState, NextState, batteryVars, PowerInv, BrownoutLocksOut
<1>2. CASE Powering
  BY <1>2 DEF Powering, Battery, EnterSleep, SetBatteryPercent, InjectBrownout,
              batteryVars, PowerInv, BrownoutLocksOut
<1>3. CASE UNCHANGED powerVars
  BY <1>3 DEF powerVars, batteryVars, PowerInv, BrownoutLocksOut
<1> QED
  BY <1>1, <1>2, <1>3 DEF ManagersNext, Connecting, managersVars

THEOREM ManagersInvariance == ManagersSpec => []ManagersInv
<1>1. ManagersInv /\ [ManagersNext]_managersVars => ManagersInv'
  BY BackoffNext, SendNext, PowerNext DEF ManagersInv
<1> QED
  BY <1>1, ManagersInitInv, PTL DEF ManagersSpec

(* In an outage each back-off is twice the one before, up to 30 s,         *)
(* however the link moves meanwhile and however the attempts end.          *)
THEOREM BackoffDoubles == ManagersSpec => []BackoffGrows
<1>1. ManagersInv => BackoffGrows
  BY DEF ManagersInv, BackoffInv
<1> QED
  BY <1>1, ManagersInvariance, PTL

(* send_telemetry_batch delivers at most once, says OK exactly when it     *)
(* did, and gives up only after three attempts.                            *)
THEOREM SendIsTruthful == ManagersSpec => []SendDeliversOnce
<1>1. ManagersInv => SendDeliversOnce
  BY DEF ManagersInv, SendInv, SendDeliversOnce
<1> QED
  BY <1>1, ManagersInvariance, PTL

(* A device that has seen a brownout stays in recovery or asleep.          *)
THEOREM BrownoutIsSticky == ManagersSpec => []BrownoutLocksOut
<1>1. ManagersInv => BrownoutLocksOut
  BY DEF ManagersInv, PowerInv
<1> QED
  BY <1>1, ManagersInvariance, PTL

-----------------------------------------------------------------------------
(* Induction over the natural numbers, for a set in place of a predicate.  *)
LEMMA LeastNat ==
  ASSUME NEW T \in SUBSET Nat, T # {}
  PROVE  \E m \in T : \A n \in T : m <= n
<1> DEFINE R == OpToRel(<, Nat)
<1>1. IsWellFoundedOn(R, Nat)
  BY NatLessThanWellFounded
<1>2. \A x, y \in Nat : x < y => <<x, y>> \in R
  BY DEF OpToRel
<1> HIDE DEF R
<1>3. PICK m \in T : \A n \in T : ~ (<<n, m>> \in R)
  BY <1>1, WFMin
<1>4. ASSUME NEW n \in T PROVE m <= n
  <2>1. m \in Nat /\ n \in Nat /\ ~(n < m)
    BY <1>2, <1>3
  <2> QED
    BY <2>1
<1> QED
  BY <1>4

LEMMA NatSetInduction ==
  ASSUME NEW S, 0 \in S, \A n \in Nat : n \in S => n + 1 \in S
  PROVE  Nat \subseteq S
<1> SUFFICES ASSUME Nat \ S # {} PROVE FALSE
  OBVIOUS
<1>1. PICK m \in Nat \ S : \A n \in Nat \ S : m <= n
  BY LeastNat
<1>2. m - 1 \in Nat /\ ~(m <= m - 1)
  BY <1>1
<1> QED
  BY <1>1, <1>2

(* Of times in order the rules engine keeps the last, from the first one   *)
(* that is not older than the window.                                      *)
LEMMA InWindowIsSuffix ==
  ASSUME NEW times \in Seq(Nat), NEW now \in Nat,
         \A i, j \in 1..Len(times) : i <= j => times[i] <= times[j]
  PROVE  \E k \in 0..Len(times) :
           /\ InWindow(times, now) \in Seq(Nat)
           /\ Len(InWindow(times, now)) = Len(times) - k
           /\ \A i \in 1..(Len(times) - k) : InWindow(times, now)[i] = times[k + i]
           /\ \A i \in 1..k : times[i] + HelpWindow < now
           /\ \A i \in (k + 1)..Len(times) : times[i] + HelpWindow >= now
<1> DEFINE L == Len(times)
           cutoff == IF now > HelpWindow THEN now - HelpWindow ELSE 0
           Step(f) == [n \in 0..L |->
                         IF n = 0 THEN <<>>
                         ELSE IF times[n] >= cutoff THEN Append(f[n - 1], times[n])
                         ELSE f[n - 1]]
           kept == CHOOSE f : f = Step(f)
<1>0. L \in Nat /\ HelpWindow \in Nat /\ cutoff \in Nat /\ \A i \in 1..L : times[i] \in Nat
  OBVIOUS
<1>1. \A i \in 1..L : IF times[i] >= cutoff THEN times[i] + HelpWindow >= now
                      ELSE times[i] + HelpWindow < now
  BY <1>0
<1>2. InWindow(times, now) = kept[L]
  BY Zenon DEF InWindow
<1> HIDE DEF cutoff
<1>3. PICK k \in 0..L : /\ \A i \in 1..k : ~(times[i] >= cutoff)
                        /\ \A i \in (k + 1)..L : times[i] >= cutoff
  <2> DEFINE T == {m \in 0..L : m = L \/ times[m + 1] >= cutoff}
  <2>1. L \in T /\ T \in SUBSET Nat
    BY <1>0
  <2>2. PICK k \in T : \A m \in T : k <= m
    BY <2>1, LeastNat
  <2>3. k \in 0..L
    OBVIOUS
  <2>4. ASSUME NEW i \in 1..k PROVE ~(times[i] >= cutoff)
    <3>1. i - 1 \in 0..L /\ i - 1 # L /\ ~(k <= i - 1)
      BY <1>0, <2>3
    <3>2. i - 1 \notin T
      BY <2>2, <3>1
    <3> QED
      BY <3>1, <3>2
  <2>5. ASSUME NEW i \in (k + 1)..L PROVE times[i] >= cutoff
    <3>1. k + 1 \in 1..L /\ times[k + 1] >= cutoff
      BY <1>0, <2>2, <2>3
    <3>2. times[k + 1] <= times[i]
      BY <1>0, <2>3, <3>1
    <3> QED
      BY <1>0, <2>3, <3>1, <3>2
  <2> QED
    BY <2>3, <2>4, <2>5
\* The first m of the times kept.
<1> DEFINE first(m) == [i \in 1..m |-> times[k + i]]
           g == [n \in 0..L |-> first(IF n <= k THEN 0 ELSE n - k)]
<1>4. /\ first(0) = <<>>
      /\ \A m \in 0..(L - k) : first(m) \in Seq(Nat) /\ Len(first(m)) = m
      /\ \A m \in 0..(L - k) : \A i \in 1..m : first(m)[i] = times[k + i]
  <2>1. \A m \in 0..(L - k) : m \in Nat /\ \A i \in 1..m : times[k + i] \in Nat
    BY <1>0
  <2>2. \A m \in 0..(L - k) : first(m) \in Seq(Nat) /\ Len(first(m)) = m
    BY <2>1
  <2> QED
    BY <2>2
<1> HIDE DEF first
<1>5. ASSUME NEW m \in 0..(L - k), m # L - k
      PROVE  first(m + 1) = Append(first(m), times[k + m + 1])
  <2>1. /\ m \in Nat /\ m + 1 \in 0..(L - k) /\ k + m + 1 \in 1..L
        /\ \A i \in 1..(m + 1) : i \in 1..m \/ i = m + 1
    BY <1>0, <1>5
  <2> DEFINE longer == Append(first(m), times[k + m + 1])
  <2>2. /\ longer \in Seq(Nat) /\ Len(longer) = m + 1
        /\ longer[m + 1] = times[k + m + 1]
        /\ \A i \in 1..m : longer[i] = times[k + i]
    <3>1. first(m) \in Seq(Nat) /\ Len(first(m)) = m /\ times[k + m + 1] \in Nat
      BY <1>0, <1>4, <2>1
    <3>2. /\ longer \in Seq(Nat) /\ Len(longer) = Len(first(m)) + 1
          /\ longer[Len(first(m)) + 1] = times[k + m + 1]
          /\ \A i \in 1..Len(first(m)) : longer[i] = first(m)[i]
      <4> DEFINE part == first(m)
                 next == times[k + m + 1]
      <4>1. part \in Seq(Nat) /\ next \in Nat
        BY <3>1
      <4> HIDE DEF part, next
      <4>2. /\ Append(part, next) \in Seq(Nat) /\ Len(Append(part, next)) = Len(part) + 1
            /\ Append(part, next)[Len(part) + 1] = next
            /\ \A i \in 1..Len(part) : Append(part, next)[i] = part[i]
        BY <4>1, AppendProperties
      <4> QED
        BY <4>2, Zenon DEF part, next
    <3> HIDE DEF longer
    <3> QED
      BY <1>4, <2>1, <3>1, <3>2
  <2>3. /\ first(m + 1) \in Seq(Nat) /\ Len(first(m + 1)) = m + 1
        /\ \A i \in 1..(m + 1) : first(m + 1)[i] = times[k + i]
    BY <1>4, <2>1
  <2>4. k + (m + 1) = k + m + 1
    BY <1>0
  <2> HIDE DEF longer
  <2>5. \A i \in 1..(m + 1) : first(m + 1)[i] = longer[i]
    BY <2>1, <2>2, <2>3, <2>4
  <2>6. first(m + 1) = longer
    BY <2>2, <2>3, <2>5, SeqEqual
  <2> QED
    BY <2>6 DEF longer
<1>6. ASSUME NEW n \in 0..L, n # 0
       PROVE  g[n] = IF times[n] >= cutoff THEN Append(g[n - 1], times[n]) ELSE g[n - 1]
  <2>0. n - 1 \in 0..L
    BY <1>0, <1>6
  <2>1. CASE n <= k
    <3>1. ~(times[n] >= cutoff) /\ n - 1 <= k
      BY <1>0, <1>3, <1>6, <2>1
    <3> QED
      BY <2>0, <2>1, <3>1
  <2>2. CASE n > k
    <3>1. times[n] >= cutoff /\ g[n] = first(n - k)
      BY <1>0, <1>3, <2>2
    <3>2. g[n - 1] = first(n - k - 1)
      <4>1. CASE n = k + 1
        BY <1>0, <2>0, <4>1
      <4>2. CASE n > k + 1
        <5>1. ~(n - 1 <= k) /\ n - 1 - k = n - k - 1
          BY <1>0, <4>2
        <5> QED
          BY <2>0, <5>1
      <4> QED
        BY <1>0, <2>2, <4>1, <4>2
    <3>3. /\ n - k - 1 \in 0..(L - k) /\ n - k - 1 # L - k
          /\ (n - k - 1) + 1 = n - k /\ k + (n - k - 1) + 1 = n
      BY <1>0, <2>2
    <3>4. first(n - k) = Append(first(n - k - 1), times[n])
      BY <1>5, <3>3
    <3> QED
      BY <3>1, <3>2, <3>4
  <2> QED
    BY <1>0, <2>1, <2>2
<1>7. g = Step(g)
  <2>1. g[0] = <<>>
    BY <1>0, <1>4
  <2>2. \A n \in 0..L : g[n] = IF n = 0 THEN <<>>
                               ELSE IF times[n] >= cutoff THEN Append(g[n - 1], times[n])
                               ELSE g[n - 1]
    BY <1>6, <2>1
  <2>3. g = [n \in 0..L |-> g[n]]
    OBVIOUS
  <2> HIDE DEF g
  <2> QED
    BY <2>2, <2>3
<1>8. kept = Step(kept)
  BY <1>7, Zenon
<1>9. \A n \in Nat : n \in 0..L => kept[n] = g[n]
  <2> DEFINE S == {n \in Nat : n \in 0..L => kept[n] = g[n]}
  <2> HIDE DEF kept, g
  <2>0. \A f : f = Step(f) =>
          /\ f[0] = <<>>
          /\ \A n \in 0..L : n # 0 =>
               f[n] = IF times[n] >= cutoff THEN Append(f[n - 1], times[n]) ELSE f[n - 1]
    <3> SUFFICES ASSUME NEW f, f = Step(f)
                 PROVE  /\ f[0] = <<>>
                        /\ \A n \in 0..L : n # 0 =>
                             f[n] = IF times[n] >= cutoff THEN Append(f[n - 1], times[n])
                                    ELSE f[n - 1]
      BY Zenon
    <3>1. ASSUME NEW n \in 0..L
          PROVE  f[n] = IF n = 0 THEN <<>>
                        ELSE IF times[n] >= cutoff THEN Append(f[n - 1], times[n])
                        ELSE f[n - 1]
      <4>1. f[n] = Step(f)[n]
        BY Zenon
      <4> QED
        BY <4>1, Zenon
    <3> HIDE DEF Step
    <3> QED
      BY <1>0, <3>1
  <2>1. 0 \in S
    BY <1>0, <1>8, <1>7, <2>0
  <2>2. ASSUME NEW n \in Nat, n \in S PROVE n + 1 \in S
    <3> SUFFICES ASSUME n + 1 \in 0..L PROVE kept[n + 1] = g[n + 1]
      OBVIOUS
    <3>1. n \in 0..L /\ n + 1 # 0 /\ (n + 1) - 1 = n
      BY <1>0
    <3>2. kept[n] = g[n]
      BY <2>2, <3>1
    <3>3. \A f : f = Step(f) =>
            f[n + 1] = IF times[n + 1] >= cutoff THEN Append(f[n], times[n + 1]) ELSE f[n]
      BY <2>0, <3>1
    <3> HIDE DEF Step
    <3> QED
      BY <1>8, <1>7, <3>2, <3>3
  <2> HIDE DEF S
  <2>3. Nat \subseteq S
    BY <2>1, <2>2, NatSetInduction
  <2> QED
    BY <2>3 DEF S
<1>10. InWindow(times, now) = g[L]
  <2> HIDE DEF kept, g
  <2> QED
    BY <1>0, <1>2, <1>9
<1>11. g[L] = first(L - k) /\ L - k \in 0..(L - k)
  BY <1>0
<1> HIDE DEF g, kept
<1>12. /\ InWindow(times, now) \in Seq(Nat)
       /\ Len(InWindow(times, now)) = Len(times) - k
       /\ \A i \in 1..(Len(times) - k) : InWindow(times, now)[i] = times[k + i]
  <2>1. InWindow(times, now) = first(L - k)
    BY <1>10, <1>11
  <2> QED
    BY <1>4, <1>11, <2>1
<1>13. /\ \A i \in 1..k : times[i] + HelpWindow < now
       /\ \A i \in (k + 1)..Len(times) : times[i] + HelpWindow >= now
  <2>1. ASSUME NEW i \in 1..k PROVE times[i] + HelpWindow < now
    <3>1. i \in 1..L /\ ~(times[i] >= cutoff)
      BY <1>0, <1>3
    <3> QED
      BY <1>1, <3>1
  <2>2. ASSUME NEW i \in (k + 1)..L PROVE times[i] + HelpWindow >= now
    <3>1. i \in 1..L /\ times[i] >= cutoff
      BY <1>0, <1>3
    <3> QED
      BY <1>1, <3>1
  <2> QED
    BY <2>1, <2>2
<1> QED
  BY <1>12, <1>13, Zenon

-----------------------------------------------------------------------------
(* The task and the rules engine.                                          *)

\* The times of the task and of the engine.
TimeInv ==
  /\ clock \in Nat /\ lastPress \in Nat /\ lastActivity \in Nat
  /\ helpWindowStart \in Nat /\ presses \in Seq(Nat)
  /\ lastPress <= lastActivity /\ lastActivity <= clock
  /\ helpWindowStart <= clock
  /\ LastSign = lastPress
  /\ active => clock - lastActivity <= IdlePeriod + (IF polled THEN 0 ELSE 1)
  /\ ~dropEmitted => lastActivity - lastPress < InactivityThreshold

\* The presses of the session, of which the engine keeps the last: exactly those
\* no older than the window at the latest press.
PressShape ==
  /\ presses \in Seq(Nat) /\ helpTimes \in Seq(Nat)
  /\ repeatedEmitted \in BOOLEAN /\ inlineFired \in BOOLEAN
  /\ helpCount = Len(presses)
  /\ \A i \in 1..Len(presses) : helpWindowStart <= presses[i] /\ presses[i] <= clock
  /\ \A i, j \in 1..Len(presses) : i <= j => presses[i] <= presses[j]
  /\ Len(helpTimes) <= Len(presses)
  /\ \A i \in 1..Len(helpTimes) :
       /\ helpTimes[i] = presses[Len(presses) - Len(helpTimes) + i]
       /\ helpTimes[i] + HelpWindow >= presses[Len(presses)]
  /\ \A i \in 1..(Len(presses) - Len(helpTimes)) :
       presses[i] + HelpWindow < presses[Len(presses)]

PressInv == PressShape /\ RepeatedHelpExact /\ InlineSound

Begun == Nat \ {0}

EventDerived == [type : DerivedType, session : Begun]

\* The places of an event among any sequence of derived events, and what
\* DerivedPerSession says of a session.
At(all, s, type) ==
  {i \in DOMAIN all : all[i] = [type |-> type, session |-> s]}

One(places) == \A i, j \in places : i = j

WellPlaces(repeated, drop, struggle) ==
  /\ One(repeated) /\ One(drop) /\ One(struggle)
  /\ struggle = {d + 1 : d \in {i \in drop : \E r \in repeated : r < i}}

WellDerived(all, s) ==
  WellPlaces(At(all, s, "REPEATED_HELP_REQUESTS"), At(all, s, "ENGAGEMENT_DROP"),
             At(all, s, "STRUGGLE_DETECTED"))

\* A sequence derived up to session c, with what the engine's flags say of c.
DerivedOf(all, c, repeated, drop) ==
  /\ all \in Seq(EventDerived)
  /\ \A i \in 1..Len(all) : all[i].session <= c
  /\ repeated <=> At(all, c, "REPEATED_HELP_REQUESTS") # {}
  /\ drop <=> At(all, c, "ENGAGEMENT_DROP") # {}
  /\ \A s \in 1..MaxSessions : WellDerived(all, s)

\* What was derived is of sessions begun, each as DerivedPerSession has it, and
\* the engine's flags say what was derived of the session in progress.
DerivedInv ==
  /\ session \in 0..MaxSessions
  /\ active => session # 0
  /\ repeatedEmitted \in BOOLEAN /\ dropEmitted \in BOOLEAN
  /\ handed \in Seq(EventDerived)
  /\ derived \in Seq(EventDerived)
  /\ DerivedOf(AllDerived, session, repeatedEmitted, dropEmitted)

\* The inductive invariant of the task and the rules engine.
TelemetryInv == TimeInv /\ PressInv /\ DerivedInv

(* What a press appends.                                                   *)
LEMMA PressAppended ==
  ASSUME TimeInv, PollPress
  PROVE  /\ presses' \in Seq(Nat) /\ Len(presses') = Len(presses) + 1
         /\ presses' # <<>>
         /\ presses'[Len(presses')] = clock
         /\ \A i \in 1..Len(presses) : presses'[i] = presses[i]
<1>1. presses' = Append(presses, clock) /\ presses \in Seq(Nat) /\ clock \in Nat
  BY DEF PollPress, TimeInv
<1> QED
  BY <1>1, AppendProperties

LEMMA TimeNext == TimeInv /\ [HelpNext]_helpVars => TimeInv'
<1> SUFFICES ASSUME TimeInv, [HelpNext]_helpVars PROVE TimeInv'
  OBVIOUS
<1>1. CASE StartSession
  BY <1>1 DEF StartSession, SessionStarted, TimeInv, LastSign
<1>2. CASE PollPress
  <2>1. /\ presses' \in Seq(Nat) /\ presses' # <<>> /\ presses'[Len(presses')] = clock
    BY <1>2, PressAppended
  <2>2. LastSign' = clock
    BY <2>1 DEF LastSign
  <2>3. /\ lastPress' = clock /\ lastActivity' = clock /\ polled'
        /\ UNCHANGED <<clock, helpWindowStart, dropEmitted>>
    BY <1>2 DEF PollPress, HelpRequested
  <2> QED
    BY <2>1, <2>2, <2>3 DEF TimeInv
<1>3. CASE PollIdle
  <2>1. /\ UNCHANGED <<clock, lastPress, helpWindowStart, presses>>
        /\ lastActivity' = clock /\ polled'
        /\ ~dropEmitted' => clock - lastPress < InactivityThreshold
    <3>1. clock >= lastPress /\ clock \in Nat /\ lastPress \in Nat
      BY DEF TimeInv
    <3>2. InactivityDetected([session |-> session, time |-> clock])
      BY <1>3 DEF PollIdle
    <3>3. /\ lastPress' = lastPress
          /\ dropEmitted' = \/ dropEmitted
                            \/ clock - lastPress >= InactivityThreshold /\ ~dropEmitted
      BY <3>1, <3>2 DEF InactivityDetected
    <3>4. ~(clock - lastPress >= InactivityThreshold) => clock - lastPress < InactivityThreshold
      BY <3>1
    <3>5. ~dropEmitted' => clock - lastPress < InactivityThreshold
      BY <3>3, <3>4, Zenon
    <3> QED
      BY <1>3, <3>3, <3>5 DEF PollIdle
  <2>2. LastSign' = LastSign
    BY <2>1 DEF LastSign
  <2> QED
    BY <2>1, <2>2 DEF TimeInv
<1>4. CASE PollQuiet
  <2>1. LastSign' = LastSign
    BY <1>4 DEF PollQuiet, LastSign
  <2> QED
    BY <1>4, <2>1 DEF PollQuiet, IsIdle, rulesVars, TimeInv
<1>5. CASE Tick
  <2>1. LastSign' = LastSign
    BY <1>5 DEF Tick, taskVars, LastSign
  <2> QED
    BY <1>5, <2>1 DEF Tick, rulesVars, taskVars, TimeInv
<1>6. CASE EndSession \/ FetchDerived \/ MoveButton \/ UNCHANGED helpVars
  <2>1. /\ UNCHANGED <<clock, lastPress, lastActivity, helpWindowStart, presses,
                       polled, dropEmitted>>
        /\ active' => active
    BY <1>6 DEF EndSession, FetchDerived, GetAndClearDerivedEvents, MoveButton,
                helpVars, rulesVars, taskVars, ghostVars
  <2>2. LastSign' = LastSign
    BY <2>1 DEF LastSign
  <2> QED
    BY <2>1, <2>2 DEF TimeInv
<1> QED
  BY <1>1, <1>2, <1>3, <1>4, <1>5, <1>6 DEF HelpNext

(* A press moves the window over the presses.                              *)
LEMMA WindowMoves ==
  ASSUME TimeInv, PressShape, PollPress
  PROVE  PressShape' /\ presses'[Len(presses')] = clock
<1> DEFINE p == Len(presses)
           h == Len(helpTimes)
           times == Append(helpTimes, clock)
<1>a. /\ presses \in Seq(Nat) /\ helpTimes \in Seq(Nat)
      /\ clock \in Nat /\ helpWindowStart \in Nat /\ helpWindowStart <= clock
      /\ h <= p /\ helpCount = p
      /\ \A i \in 1..p : helpWindowStart <= presses[i] /\ presses[i] <= clock
      /\ \A i, j \in 1..p : i <= j => presses[i] <= presses[j]
      /\ \A i \in 1..h : helpTimes[i] = presses[p - h + i]
      /\ \A i \in 1..(p - h) : presses[i] + HelpWindow < presses[p]
  BY Zenon DEF PressShape, TimeInv
<1>0. /\ p \in Nat /\ h \in Nat /\ h <= p /\ clock \in Nat /\ HelpWindow \in Nat
      /\ \A i \in 1..p : presses[i] \in Nat
  BY <1>a
<1>1. /\ presses' \in Seq(Nat) /\ Len(presses') = p + 1
      /\ presses'[p + 1] = clock
      /\ \A i \in 1..p : presses'[i] = presses[i]
  BY PressAppended
<1>2. /\ times \in Seq(Nat) /\ Len(times) = h + 1
      /\ times[h + 1] = clock
      /\ \A i \in 1..h : times[i] = helpTimes[i]
  BY <1>a, AppendProperties
<1>3. /\ helpTimes' = InWindow(times, clock)
      /\ helpCount' = helpCount + 1
      /\ repeatedEmitted' = (repeatedEmitted \/ (Len(helpTimes') >= 3 /\ ~repeatedEmitted))
      /\ inlineFired' = (inlineFired \/ InlineRule)
      /\ UNCHANGED <<clock, helpWindowStart>>
  BY DEF PollPress, HelpRequested
<1> HIDE DEF times, p, h
<1>4. \A i \in 1..(h + 1) : times[i] = presses'[p - h + i] /\ p - h + i \in 1..(p + 1)
  <2>1. ASSUME NEW i \in 1..h
        PROVE  times[i] = presses'[p - h + i] /\ p - h + i \in 1..(p + 1)
    <3>1. helpTimes[i] = presses[p - h + i] /\ p - h + i \in 1..p
      BY <1>0, <1>a
    <3>2. presses'[p - h + i] = presses[p - h + i] /\ p - h + i \in 1..(p + 1)
      BY <1>0, <1>1, <3>1
    <3>3. times[i] = helpTimes[i]
      BY <1>2
    <3> QED
      BY <3>1, <3>2, <3>3
  <2>2. p - h + (h + 1) = p + 1
    BY <1>0, <1>a
  <2>3. \A i \in 1..(h + 1) : i \in 1..h \/ i = h + 1
    BY <1>0
  <2>4. p + 1 \in 1..(p + 1)
    BY <1>0
  <2> QED
    BY <1>1, <1>2, <2>1, <2>2, <2>3, <2>4
<1>5. \A i \in 1..(p + 1) : helpWindowStart <= presses'[i] /\ presses'[i] <= clock
  <2>1. \A i \in 1..p : helpWindowStart <= presses'[i] /\ presses'[i] <= clock
    BY <1>0, <1>a, <1>1
  <2> QED
    BY <1>0, <1>a, <1>1, <2>1
<1>6. \A i, j \in 1..(p + 1) : i <= j => presses'[i] <= presses'[j]
  <2>1. ASSUME NEW i \in 1..(p + 1), NEW j \in 1..(p + 1), i <= j
        PROVE  presses'[i] <= presses'[j]
    <3>1. CASE j = p + 1
      BY <1>1, <1>5, <3>1
    <3>2. CASE j # p + 1
      <4>1. i \in 1..p /\ j \in 1..p
        BY <1>0, <1>a, <2>1, <3>2
      <4> QED
        BY <1>0, <1>a, <1>1, <2>1, <4>1
    <3> QED
      BY <3>1, <3>2
  <2> QED
    BY <2>1
<1>7. \A i, j \in 1..Len(times) : i <= j => times[i] <= times[j]
  <2>1. ASSUME NEW i \in 1..(h + 1), NEW j \in 1..(h + 1), i <= j
        PROVE  times[i] <= times[j]
    <3>1. p - h + i <= p - h + j
      BY <1>0, <1>a, <2>1
    <3> QED
      BY <1>4, <1>6, <3>1
  <2> QED
    BY <1>2, <2>1
<1>8. PICK k \in 0..Len(times) :
        /\ helpTimes' \in Seq(Nat) /\ Len(helpTimes') = Len(times) - k
        /\ \A i \in 1..(Len(times) - k) : helpTimes'[i] = times[k + i]
        /\ \A i \in 1..k : times[i] + HelpWindow < clock
        /\ \A i \in (k + 1)..Len(times) : times[i] + HelpWindow >= clock
  <2>1. \E k \in 0..Len(times) :
          /\ InWindow(times, clock) \in Seq(Nat)
          /\ Len(InWindow(times, clock)) = Len(times) - k
          /\ \A i \in 1..(Len(times) - k) : InWindow(times, clock)[i] = times[k + i]
          /\ \A i \in 1..k : times[i] + HelpWindow < clock
          /\ \A i \in (k + 1)..Len(times) : times[i] + HelpWindow >= clock
    BY <1>0, <1>2, <1>7, InWindowIsSuffix
  <2>2. InWindow(times, clock) = helpTimes'
    BY <1>3
  <2> QED
    BY <2>1, <2>2
<1>9. /\ Len(helpTimes') <= p + 1
      /\ (p + 1) - Len(helpTimes') = p - h + k
  <2>1. h \in Nat /\ Len(times) = h + 1
    BY <1>0, <1>2
  <2>2. k \in 0..(h + 1) /\ Len(helpTimes') = h + 1 - k
    BY <1>8, <2>1
  <2> QED
    BY <1>0, <2>1, <2>2
<1>10. ASSUME NEW i \in 1..Len(helpTimes')
       PROVE  /\ helpTimes'[i] = presses'[(p + 1) - Len(helpTimes') + i]
              /\ helpTimes'[i] + HelpWindow >= presses'[p + 1]
  <2>1. k + i \in 1..(h + 1) /\ k + i \in (k + 1)..(h + 1)
        /\ (p + 1) - Len(helpTimes') + i = p - h + (k + i)
    BY <1>0, <1>a, <1>2, <1>8
  <2> QED
    BY <1>1, <1>4, <1>2, <1>8, <2>1
<1>11. ASSUME NEW i \in 1..((p + 1) - Len(helpTimes'))
       PROVE  presses'[i] + HelpWindow < presses'[p + 1]
  <2>0. i \in 1..(p - h + k) /\ k \in Nat
    BY <1>2, <1>8, <1>9
  <2>1. CASE i <= p - h
    <3>1. i \in 1..p /\ i \in 1..(p - h) /\ p \in 1..p
      BY <1>0, <2>0, <2>1
    <3>2. presses[i] + HelpWindow < presses[p] /\ presses[p] <= clock
      BY <1>a, <3>1
    <3>3. presses[i] \in Nat /\ presses[p] \in Nat
      BY <1>0, <3>1
    <3>4. presses[i] + HelpWindow < clock
      BY <1>0, <3>2, <3>3
    <3> QED
      BY <1>1, <3>1, <3>4
  <2>2. CASE i > p - h
    <3>1. i - (p - h) \in 1..k /\ i - (p - h) \in 1..(h + 1) /\ p - h + (i - (p - h)) = i
      BY <1>0, <2>0, <2>2
    <3> QED
      BY <1>1, <1>4, <1>2, <1>8, <3>1
  <2> QED
    BY <1>0, <2>0, <2>1, <2>2
<1>12. repeatedEmitted' \in BOOLEAN /\ inlineFired' \in BOOLEAN
  BY <1>3, Zenon
<1>13. helpCount' = Len(presses')
  BY <1>0, <1>a, <1>1, <1>3
<1> QED
  BY <1>1, <1>3, <1>5, <1>6, <1>2, <1>8, <1>9, <1>10, <1>11, <1>12, <1>13 DEF PressShape

(* The reports of repeated help go with the presses.                       *)
LEMMA PressNext == TimeInv /\ PressInv /\ [HelpNext]_helpVars => PressInv'
<1> SUFFICES ASSUME TimeInv, PressInv, [HelpNext]_helpVars PROVE PressInv'
  OBVIOUS
<1>1. CASE StartSession
  <2>1. /\ presses' = <<>> /\ helpTimes' = <<>> /\ helpCount' = 0
        /\ repeatedEmitted' = FALSE /\ inlineFired' = FALSE
    BY <1>1 DEF StartSession, SessionStarted
  <2>2. PressShape'
    <3>1. /\ presses' \in Seq(Nat) /\ Len(presses') = 0
          /\ helpTimes' \in Seq(Nat) /\ Len(helpTimes') = 0
      BY <2>1
    <3>2. 1..0 = {} /\ 1..(0 - 0) = {} /\ 0 <= 0
      OBVIOUS
    <3>3. repeatedEmitted' \in BOOLEAN /\ inlineFired' \in BOOLEAN
      BY <2>1
    <3> QED
      BY <2>1, <3>1, <3>2, <3>3, Zenon DEF PressShape
  <2>3. RepeatedHelpExact'
    <3>1. DOMAIN presses' = {}
      BY <2>1
    <3> QED
      BY <2>1, <3>1 DEF RepeatedHelpExact
  <2> QED
    BY <2>1, <2>2, <2>3 DEF PressInv, InlineSound
<1>2. CASE PollPress
  <2> DEFINE n == Len(presses')
             Close(i) == presses'[i + 2] - presses'[i] <= HelpWindow
  <2>1. PressShape' /\ presses'[n] = clock
    BY <1>2, WindowMoves DEF PressInv
  <2>2. /\ presses' \in Seq(Nat) /\ n = Len(presses) + 1 /\ Len(presses) \in Nat
        /\ \A i \in 1..Len(presses) : presses'[i] = presses[i]
        /\ DOMAIN presses = 1..Len(presses) /\ DOMAIN presses' = 1..n
    BY <1>2, PressAppended DEF TimeInv
  <2>3. /\ repeatedEmitted' = (repeatedEmitted \/ (Len(helpTimes') >= 3 /\ ~repeatedEmitted))
        /\ inlineFired' = (inlineFired \/ (helpCount' >= 3 /\ clock - helpWindowStart <= HelpWindow))
        /\ helpWindowStart' = helpWindowStart /\ clock' = clock
    BY <1>2 DEF PollPress, HelpRequested, InlineRule
  <2>4. clock \in Nat /\ helpWindowStart \in Nat /\ HelpWindow \in Nat
    BY DEF TimeInv
  <2>5. /\ helpCount' = n /\ helpTimes' \in Seq(Nat) /\ Len(helpTimes') <= n
        /\ repeatedEmitted' \in BOOLEAN /\ inlineFired' \in BOOLEAN
        /\ \A i \in 1..n : helpWindowStart <= presses'[i] /\ presses'[i] <= clock
        /\ \A i \in 1..Len(helpTimes') :
             /\ helpTimes'[i] = presses'[n - Len(helpTimes') + i]
             /\ helpTimes'[i] + HelpWindow >= clock
        /\ \A i \in 1..(n - Len(helpTimes')) : presses'[i] + HelpWindow < clock
    <3>1. /\ helpCount' = n /\ helpTimes' \in Seq(Nat) /\ Len(helpTimes') <= n
          /\ repeatedEmitted' \in BOOLEAN /\ inlineFired' \in BOOLEAN
          /\ \A i \in 1..n : helpWindowStart' <= presses'[i] /\ presses'[i] <= clock'
          /\ \A i \in 1..Len(helpTimes') :
               /\ helpTimes'[i] = presses'[n - Len(helpTimes') + i]
               /\ helpTimes'[i] + HelpWindow >= presses'[n]
          /\ \A i \in 1..(n - Len(helpTimes')) : presses'[i] + HelpWindow < presses'[n]
      BY <2>1, Zenon DEF PressShape
    <3> HIDE DEF n
    <3> QED
      BY <2>1, <2>3, <3>1
  <2>6. n \in Nat /\ n = Len(presses) + 1 /\ Len(presses) \in Nat
    BY <2>2
  <2>a. Len(helpTimes') \in Nat /\ \A i \in 1..n : presses'[i] \in Nat
    BY <2>2, <2>5, ElementOfSeq
  <2> HIDE DEF n
  <2>7. ASSUME n >= 3 PROVE Close(n - 2) <=> Len(helpTimes') >= 3
    <3>0. /\ n - 2 \in 1..n /\ (n - 2) + 2 = n
          /\ Close(n - 2) <=> presses'[n - 2] + HelpWindow >= clock
      <4>1. n - 2 \in 1..n /\ (n - 2) + 2 = n
        BY <2>6, <2>7
      <4>2. presses'[n - 2] \in Nat /\ presses'[(n - 2) + 2] = clock
        BY <2>1, <2>a, <4>1
      <4> QED
        BY <2>4, <4>1, <4>2
    <3>1. CASE Len(helpTimes') >= 3
      <4>1. /\ Len(helpTimes') - 2 \in 1..Len(helpTimes')
            /\ n - Len(helpTimes') + (Len(helpTimes') - 2) = n - 2
        BY <2>6, <2>a, <3>1
      <4> QED
        BY <2>5, <3>0, <3>1, <4>1
    <3>2. CASE ~(Len(helpTimes') >= 3)
      <4>1. n - 2 \in 1..(n - Len(helpTimes'))
        BY <2>6, <2>a, <2>7, <3>2
      <4>2. presses'[n - 2] + HelpWindow < clock
        BY <2>5, <4>1
      <4> QED
        BY <2>4, <2>6, <2>a, <3>0, <3>2, <4>2
    <3> QED
      BY <3>1, <3>2
  <2>8. ASSUME NEW i \in 1..n, i + 2 \in 1..n, i # n - 2
        PROVE  /\ i \in 1..Len(presses) /\ i + 2 \in 1..Len(presses)
               /\ Close(i) <=> presses[i + 2] - presses[i] <= HelpWindow
    <3>1. i \in 1..Len(presses) /\ i + 2 \in 1..Len(presses)
      BY <2>6, <2>8
    <3> QED
      BY <2>2, <3>1
  <2>9. repeatedEmitted <=> \E i \in 1..n : i + 2 \in 1..n /\ i # n - 2 /\ Close(i)
    <3>1. repeatedEmitted <=>
            \E i \in 1..Len(presses) : /\ i + 2 \in 1..Len(presses)
                                       /\ presses[i + 2] - presses[i] <= HelpWindow
      BY <2>2 DEF PressInv, RepeatedHelpExact
    <3>2. ASSUME NEW i \in 1..Len(presses), i + 2 \in 1..Len(presses)
          PROVE  i \in 1..n /\ i + 2 \in 1..n /\ i # n - 2
      BY <2>6, <3>2
    <3> HIDE DEF Close
    <3> QED
      BY <2>8, <3>1, <3>2
  <2>10. (\E i \in 1..n : i + 2 \in 1..n /\ Close(i)) <=> repeatedEmitted'
    <3>1. Len(helpTimes') >= 3 => n >= 3
      BY <2>5, <2>6, <2>a
    <3>2. \A i \in 1..n : i + 2 \in 1..n /\ i = n - 2 => n >= 3
      BY <2>6, <2>a
    <3>3. n >= 3 => n - 2 \in 1..n /\ (n - 2) + 2 \in 1..n
      BY <2>6, <2>a
    <3>4. repeatedEmitted' <=> repeatedEmitted \/ Len(helpTimes') >= 3
      BY <2>3, <2>5, Zenon
    <3> HIDE DEF Close
    <3> QED
      BY <2>7, <2>9, <3>1, <3>2, <3>3, <3>4
  <2>11. RepeatedHelpExact'
    BY <2>2, <2>10 DEF RepeatedHelpExact, n
  <2>12. InlineSound'
    <3>1. inlineFired' <=> inlineFired \/ (n >= 3 /\ clock - helpWindowStart <= HelpWindow)
      BY <2>3, <2>5, Zenon
    <3>2. ASSUME n >= 3, clock - helpWindowStart <= HelpWindow
          PROVE  repeatedEmitted'
      <4>1. n - 2 \in 1..n /\ (n - 2) + 2 = n /\ n \in 1..n
        BY <2>6, <2>a, <3>2
      <4>2. presses'[n] - presses'[n - 2] <= HelpWindow
        <5>1. /\ presses'[n] = clock /\ presses'[n - 2] \in Nat
              /\ helpWindowStart <= presses'[n - 2]
          BY <2>1, <2>5, <2>a, <4>1
        <5> QED
          BY <2>4, <3>2, <5>1
      <4> QED
        BY <2>10, <4>1, <4>2
    <3>3. repeatedEmitted => repeatedEmitted'
      BY <2>3, <2>5, Zenon
    <3> QED
      BY <3>1, <3>2, <3>3 DEF PressInv, InlineSound
  <2> QED
    BY <2>1, <2>11, <2>12 DEF PressInv
<1>3. CASE Tick
  <2>1. /\ UNCHANGED <<helpTimes, repeatedEmitted, helpCount, helpWindowStart,
                       presses, inlineFired>>
        /\ clock' = clock + 1 /\ clock \in Nat
    BY <1>3 DEF Tick, rulesVars, taskVars, TimeInv
  <2>2. PressShape'
    <3>1. ASSUME NEW i \in 1..Len(presses) PROVE presses[i] <= clock'
      <4>1. presses[i] \in Nat /\ presses[i] <= clock
        BY DEF PressInv, PressShape
      <4> QED
        BY <2>1, <4>1
    <3> QED
      BY <2>1, <3>1 DEF PressInv, PressShape
  <2> QED
    BY <2>1, <2>2 DEF PressInv, RepeatedHelpExact, InlineSound
<1>4. CASE \/ PollIdle \/ PollQuiet \/ EndSession \/ FetchDerived \/ MoveButton
           \/ UNCHANGED helpVars
  <2>1. UNCHANGED <<helpTimes, repeatedEmitted, helpCount, helpWindowStart, clock,
                    presses, inlineFired>>
    BY <1>4 DEF PollIdle, PollQuiet, EndSession, FetchDerived, MoveButton,
                InactivityDetected, GetAndClearDerivedEvents, helpVars, rulesVars,
                taskVars, ghostVars
  <2> QED
    BY <2>1 DEF PressInv, PressShape, RepeatedHelpExact, InlineSound
<1> QED
  BY <1>1, <1>2, <1>3, <1>4 DEF HelpNext

(* What a derived event adds to a sequence of them.                        *)
LEMMA AppendAt ==
  ASSUME NEW all \in Seq(EventDerived), NEW e \in EventDerived
  PROVE  /\ Append(all, e) \in Seq(EventDerived)
         /\ Len(Append(all, e)) = Len(all) + 1
         /\ \A s, type :
              At(Append(all, e), s, type) =
                At(all, s, type) \cup (IF e = [type |-> type, session |-> s]
                                       THEN {Len(all) + 1} ELSE {})
         /\ \A s, type : At(all, s, type) \subseteq 1..Len(all)
<1> DEFINE more == Append(all, e)
<1>1. /\ more \in Seq(EventDerived) /\ Len(more) = Len(all) + 1 /\ Len(all) \in Nat
      /\ more[Len(all) + 1] = e
      /\ \A i \in 1..Len(all) : more[i] = all[i]
      /\ DOMAIN all = 1..Len(all) /\ DOMAIN more = 1..(Len(all) + 1)
  BY AppendProperties
<1>2. /\ \A i \in 1..(Len(all) + 1) : i \in 1..Len(all) \/ i = Len(all) + 1
      /\ \A i \in 1..Len(all) : i \in 1..(Len(all) + 1)
      /\ Len(all) + 1 \in 1..(Len(all) + 1)
  BY <1>1
<1> HIDE DEF more
<1>3. ASSUME NEW s, NEW type
      PROVE  At(more, s, type) = At(all, s, type) \cup
               (IF e = [type |-> type, session |-> s] THEN {Len(all) + 1} ELSE {})
  <2>1. \A i : i \in At(more, s, type) <=>
          \/ i \in 1..Len(all) /\ all[i] = [type |-> type, session |-> s]
          \/ i = Len(all) + 1 /\ e = [type |-> type, session |-> s]
    BY <1>1, <1>2 DEF At
  <2>2. \A i : i \in At(all, s, type) <=>
          i \in 1..Len(all) /\ all[i] = [type |-> type, session |-> s]
    BY <1>1 DEF At
  <2> QED
    BY <2>1, <2>2
<1>4. \A s, type : At(all, s, type) \subseteq 1..Len(all)
  BY <1>1 DEF At
<1> QED
  BY <1>1, <1>3, <1>4 DEF more

LEMMA DerivedEvents ==
  ASSUME NEW s \in Begun
  PROVE  \A type \in DerivedType :
           /\ [type |-> type, session |-> s] \in EventDerived
           /\ \A t, z : [type |-> type, session |-> s] = [type |-> t, session |-> z]
                          <=> t = type /\ z = s
BY DEF EventDerived

(* The first report of repeated help, the first drop, and the first drop   *)
(* after repeated help with its struggle, each behind what a session has.  *)
LEMMA RepeatedIsWell ==
  ASSUME NEW n \in Nat, NEW drop, NEW struggle,
         WellPlaces({}, drop, struggle), \A i \in drop : i \in Nat /\ i < n
  PROVE  WellPlaces({n}, drop, struggle)
<1>1. struggle = {} /\ One(drop)
  BY DEF WellPlaces
<1>2. {i \in drop : \E r \in {n} : r < i} = {}
  OBVIOUS
<1>3. {d + 1 : d \in {i \in drop : \E r \in {n} : r < i}} = {}
  BY <1>2
<1> QED
  BY <1>1, <1>3 DEF WellPlaces, One

LEMMA DropIsWell ==
  ASSUME NEW n \in Nat, NEW struggle, WellPlaces({}, {}, struggle)
  PROVE  WellPlaces({}, {n}, struggle)
BY DEF WellPlaces, One

LEMMA StruggleIsWell ==
  ASSUME NEW n \in Nat, NEW repeated, NEW struggle,
         WellPlaces(repeated, {}, struggle), repeated # {},
         \A i \in repeated : i \in Nat /\ i < n
  PROVE  struggle = {} /\ WellPlaces(repeated, {n}, {n + 1})
<1>1. {i \in {n} : \E r \in repeated : r < i} = {n}
  OBVIOUS
<1>2. {d + 1 : d \in {i \in {n} : \E r \in repeated : r < i}} = {n + 1}
  BY <1>1
<1>3. struggle = {} /\ One(repeated)
  BY DEF WellPlaces
<1> QED
  BY <1>2, <1>3 DEF WellPlaces, One

(* The same of the sequence: an event behind a sequence in which the       *)
(* session c has none of its type.                                         *)
LEMMA AppendWell ==
  ASSUME NEW all \in Seq(EventDerived), NEW c \in Begun,
         NEW type \in DerivedType
  PROVE  LET more == Append(all, [type |-> type, session |-> c])
         IN  /\ more \in Seq(EventDerived)
             /\ Len(more) = Len(all) + 1
             /\ \A s, t : t # type \/ s # c => At(more, s, t) = At(all, s, t)
             /\ At(more, c, type) = At(all, c, type) \cup {Len(all) + 1}
<1> DEFINE e == [type |-> type, session |-> c]
           more == Append(all, e)
           n == Len(all) + 1
<1>1. e \in EventDerived /\ \A x, z : e = [type |-> x, session |-> z] <=> x = type /\ z = c
  BY DerivedEvents
<1> HIDE DEF e
<1>2. /\ more \in Seq(EventDerived)
      /\ Len(more) = Len(all) + 1
      /\ \A z, x : At(more, z, x) = At(all, z, x) \cup
                     (IF e = [type |-> x, session |-> z] THEN {n} ELSE {})
  BY <1>1, AppendAt
<1> HIDE DEF more, n
<1>3. ASSUME NEW s, NEW t, t # type \/ s # c PROVE At(more, s, t) = At(all, s, t)
  <2>1. ~(e = [type |-> t, session |-> s])
    BY <1>1, <1>3
  <2> QED
    BY <1>2, <2>1
<1>4. At(more, c, type) = At(all, c, type) \cup {n}
  <2>1. e = [type |-> type, session |-> c]
    BY <1>1
  <2> QED
    BY <1>2, <2>1
<1> QED
  BY <1>2, <1>3, <1>4 DEF more, n, e

LEMMA SessionsAppend ==
  ASSUME NEW all \in Seq(EventDerived), NEW c \in Begun, NEW type,
         \A i \in 1..Len(all) : all[i].session <= c
  PROVE  LET more == Append(all, [type |-> type, session |-> c])
         IN  \A i \in 1..Len(more) : more[i].session <= c
BY DEF Begun

LEMMA RepeatedStep ==
  ASSUME NEW all, NEW c \in Begun, NEW drop, DerivedOf(all, c, FALSE, drop)
  PROVE  DerivedOf(Append(all, [type |-> "REPEATED_HELP_REQUESTS", session |-> c]),
                   c, TRUE, drop)
<1> DEFINE R == "REPEATED_HELP_REQUESTS"
           D == "ENGAGEMENT_DROP"
           S == "STRUGGLE_DETECTED"
           more == Append(all, [type |-> R, session |-> c])
           n == Len(all) + 1
<1>1. /\ all \in Seq(EventDerived)
      /\ \A i \in 1..Len(all) : all[i].session <= c
      /\ At(all, c, R) = {}
      /\ drop <=> At(all, c, D) # {}
      /\ \A s \in 1..MaxSessions : WellDerived(all, s)
  BY DEF DerivedOf
<1>2. R \in DerivedType /\ D # R /\ S # R
  BY DEF DerivedType
<1>3. \A i \in 1..Len(more) : more[i].session <= c
  BY <1>1, SessionsAppend
<1> HIDE DEF R, D, S
<1>4. /\ more \in Seq(EventDerived)
      /\ \A s, t : t # R \/ s # c => At(more, s, t) = At(all, s, t)
      /\ At(more, c, R) = {n}
  BY <1>1, <1>2, AppendWell
<1>5. n \in Nat /\ \A i \in At(all, c, D) : i \in Nat /\ i < n
  <2>1. At(all, c, D) \subseteq DOMAIN all
    BY DEF At
  <2> QED
    BY <1>1, <2>1
<1> HIDE DEF more, n
<1>6. ASSUME NEW s \in 1..MaxSessions PROVE WellDerived(more, s)
  <2>1. WellPlaces(At(all, s, R), At(all, s, D), At(all, s, S))
    BY <1>1 DEF WellDerived, R, D, S
  <2>2. WellPlaces(At(more, s, R), At(more, s, D), At(more, s, S))
    <3>1. CASE s # c
      <4>1. /\ At(more, s, R) = At(all, s, R) /\ At(more, s, D) = At(all, s, D)
            /\ At(more, s, S) = At(all, s, S)
        BY <1>4, <3>1
      <4> QED
        BY <2>1, <4>1
    <3>2. CASE s = c
      <4>1. /\ At(more, s, R) = {n} /\ At(more, s, D) = At(all, s, D)
            /\ At(more, s, S) = At(all, s, S)
        BY <1>2, <1>4, <3>2
      <4>2. WellPlaces({}, At(all, s, D), At(all, s, S))
        BY <1>1, <2>1, <3>2
      <4>3. WellPlaces({n}, At(all, s, D), At(all, s, S))
        BY <1>5, <3>2, <4>2, RepeatedIsWell
      <4> QED
        BY <4>1, <4>3
    <3> QED
      BY <3>1, <3>2
  <2> QED
    BY <2>2 DEF WellDerived, R, D, S
<1>7. At(more, c, R) # {} /\ At(more, c, D) = At(all, c, D)
  BY <1>2, <1>4
<1> QED
  BY <1>1, <1>3, <1>4, <1>6, <1>7 DEF DerivedOf, more, R, D

LEMMA DropStep ==
  ASSUME NEW all, NEW c \in Begun, DerivedOf(all, c, FALSE, FALSE)
  PROVE  DerivedOf(Append(all, [type |-> "ENGAGEMENT_DROP", session |-> c]),
                   c, FALSE, TRUE)
<1> DEFINE R == "REPEATED_HELP_REQUESTS"
           D == "ENGAGEMENT_DROP"
           S == "STRUGGLE_DETECTED"
           more == Append(all, [type |-> D, session |-> c])
           n == Len(all) + 1
<1>1. /\ all \in Seq(EventDerived)
      /\ \A i \in 1..Len(all) : all[i].session <= c
      /\ At(all, c, R) = {} /\ At(all, c, D) = {}
      /\ \A s \in 1..MaxSessions : WellDerived(all, s)
  BY DEF DerivedOf
<1>2. D \in DerivedType /\ R # D /\ S # D
  BY DEF DerivedType
<1>3. \A i \in 1..Len(more) : more[i].session <= c
  BY <1>1, SessionsAppend
<1> HIDE DEF R, D, S
<1>4. /\ more \in Seq(EventDerived)
      /\ \A s, t : t # D \/ s # c => At(more, s, t) = At(all, s, t)
      /\ At(more, c, D) = {n}
  <2>1. /\ more \in Seq(EventDerived)
        /\ \A s, t : t # D \/ s # c => At(more, s, t) = At(all, s, t)
        /\ At(more, c, D) = At(all, c, D) \cup {n}
    BY <1>1, <1>2, AppendWell
  <2> QED
    BY <1>1, <2>1
<1>5. n \in Nat
  BY <1>1
<1> HIDE DEF more, n
<1>6. ASSUME NEW s \in 1..MaxSessions PROVE WellDerived(more, s)
  <2>1. WellPlaces(At(all, s, R), At(all, s, D), At(all, s, S))
    BY <1>1 DEF WellDerived, R, D, S
  <2>2. WellPlaces(At(more, s, R), At(more, s, D), At(more, s, S))
    <3>1. CASE s # c
      <4>1. /\ At(more, s, R) = At(all, s, R) /\ At(more, s, D) = At(all, s, D)
            /\ At(more, s, S) = At(all, s, S)
        BY <1>4, <3>1
      <4> QED
        BY <2>1, <4>1
    <3>2. CASE s = c
      <4>1. /\ At(more, s, R) = {} /\ At(more, s, D) = {n}
            /\ At(more, s, S) = At(all, s, S)
        BY <1>1, <1>2, <1>4, <3>2
      <4>2. WellPlaces({}, {}, At(all, s, S))
        BY <1>1, <2>1, <3>2
      <4>3. WellPlaces({}, {n}, At(all, s, S))
        BY <1>5, <4>2, DropIsWell
      <4> QED
        BY <4>1, <4>3
    <3> QED
      BY <3>1, <3>2
  <2> QED
    BY <2>2 DEF WellDerived, R, D, S
<1>7. At(more, c, D) # {} /\ At(more, c, R) = {}
  BY <1>1, <1>2, <1>4
<1> QED
  BY <1>3, <1>4, <1>6, <1>7 DEF DerivedOf, more, R, D

LEMMA StruggleStep ==
  ASSUME NEW all, NEW c \in Begun, DerivedOf(all, c, TRUE, FALSE)
  PROVE  DerivedOf(Append(Append(all, [type |-> "ENGAGEMENT_DROP", session |-> c]),
                          [type |-> "STRUGGLE_DETECTED", session |-> c]),
                   c, TRUE, TRUE)
<1> DEFINE R == "REPEATED_HELP_REQUESTS"
           D == "ENGAGEMENT_DROP"
           S == "STRUGGLE_DETECTED"
           half == Append(all, [type |-> D, session |-> c])
           more == Append(half, [type |-> S, session |-> c])
           n == Len(all) + 1
<1>1. /\ all \in Seq(EventDerived)
      /\ \A i \in 1..Len(all) : all[i].session <= c
      /\ At(all, c, R) # {} /\ At(all, c, D) = {}
      /\ \A s \in 1..MaxSessions : WellDerived(all, s)
  BY DEF DerivedOf
<1>2. /\ D \in DerivedType /\ S \in DerivedType
      /\ R # D /\ S # D /\ R # S
  BY DEF DerivedType
<1>a. \A i \in 1..Len(half) : half[i].session <= c
  BY <1>1, SessionsAppend
<1> HIDE DEF R, D, S
<1>3. /\ half \in Seq(EventDerived) /\ Len(half) = n
      /\ \A s, t : t # D \/ s # c => At(half, s, t) = At(all, s, t)
      /\ At(half, c, D) = {n}
  BY <1>1, <1>2, AppendWell
<1> HIDE DEF half
<1>b. \A i \in 1..Len(more) : more[i].session <= c
  BY <1>3, <1>a, SessionsAppend
<1>4. /\ more \in Seq(EventDerived)
      /\ \A s, t : t # S \/ s # c => At(more, s, t) = At(half, s, t)
      /\ At(more, c, S) = At(half, c, S) \cup {n + 1}
  BY <1>2, <1>3, AppendWell
<1>5. n \in Nat /\ \A i \in At(all, c, R) : i \in Nat /\ i < n
  <2>1. At(all, c, R) \subseteq DOMAIN all
    BY DEF At
  <2> QED
    BY <1>1, <2>1
<1> HIDE DEF more, n
<1>6. ASSUME NEW s \in 1..MaxSessions PROVE WellDerived(more, s)
  <2>1. WellPlaces(At(all, s, R), At(all, s, D), At(all, s, S))
    BY <1>1 DEF WellDerived, R, D, S
  <2>2. WellPlaces(At(more, s, R), At(more, s, D), At(more, s, S))
    <3>1. CASE s # c
      <4>1. /\ At(more, s, R) = At(all, s, R) /\ At(more, s, D) = At(all, s, D)
            /\ At(more, s, S) = At(all, s, S)
        BY <1>3, <1>4, <3>1
      <4> QED
        BY <2>1, <4>1
    <3>2. CASE s = c
      <4>1. /\ At(more, s, R) = At(all, s, R) /\ At(more, s, D) = {n}
            /\ At(more, s, S) = At(all, s, S) \cup {n + 1}
        BY <1>2, <1>3, <1>4, <3>2
      <4>2. WellPlaces(At(all, s, R), {}, At(all, s, S)) /\ At(all, s, R) # {}
        BY <1>1, <2>1, <3>2
      <4>3. At(all, s, S) = {} /\ WellPlaces(At(all, s, R), {n}, {n + 1})
        BY <1>5, <3>2, <4>2, StruggleIsWell
      <4>4. At(more, s, S) = {n + 1}
        BY <4>1, <4>3
      <4> QED
        BY <4>1, <4>3, <4>4
    <3> QED
      BY <3>1, <3>2
  <2> QED
    BY <2>2 DEF WellDerived, R, D, S
<1>7. At(more, c, D) # {} /\ At(more, c, R) # {}
  BY <1>1, <1>2, <1>3, <1>4
<1> QED
  BY <1>b, <1>4, <1>6, <1>7 DEF DerivedOf, more, half, R, D, S

LEMMA NewSession ==
  ASSUME NEW all, NEW c \in Nat, NEW repeated, NEW drop,
         DerivedOf(all, c, repeated, drop)
  PROVE  DerivedOf(all, c + 1, FALSE, FALSE)
<1>1. /\ all \in Seq(EventDerived)
      /\ \A i \in 1..Len(all) : all[i].session <= c
      /\ \A s \in 1..MaxSessions : WellDerived(all, s)
  BY DEF DerivedOf
<1>2. \A i \in 1..Len(all) : all[i] \in EventDerived
  BY <1>1, ElementOfSeq
<1>3. \A i \in 1..Len(all) : all[i].session \in Nat /\ all[i].session <= c
  BY <1>1, <1>2 DEF EventDerived, Begun
<1>4. \A i \in 1..Len(all) : all[i].session <= c + 1 /\ all[i].session # c + 1
  BY <1>3
<1>5. ASSUME NEW t PROVE At(all, c + 1, t) = {}
  <2>1. DOMAIN all = 1..Len(all)
    BY <1>1
  <2>2. \A i \in DOMAIN all : all[i] # [type |-> t, session |-> c + 1]
    BY <1>4, <2>1
  <2> QED
    BY <2>2 DEF At
<1> QED
  BY <1>1, <1>4, <1>5 DEF DerivedOf

(* An event behind what was derived, of what was handed out and what is    *)
(* still queued.                                                           *)
LEMMA AppendAll ==
  ASSUME NEW E, NEW h \in Seq(E), NEW d \in Seq(E), NEW e \in E
  PROVE  Append(d, e) \in Seq(E) /\ h \o Append(d, e) = Append(h \o d, e)
OBVIOUS

LEMMA DerivedNext == TimeInv /\ DerivedInv /\ [HelpNext]_helpVars => DerivedInv'
<1> SUFFICES ASSUME TimeInv, DerivedInv, [HelpNext]_helpVars PROVE DerivedInv'
  OBVIOUS
<1> DEFINE R == [type |-> "REPEATED_HELP_REQUESTS", session |-> session]
           D == [type |-> "ENGAGEMENT_DROP", session |-> session]
           S == [type |-> "STRUGGLE_DETECTED", session |-> session]
<1>1. /\ session \in 0..MaxSessions /\ session \in Nat /\ MaxSessions \in Nat
      /\ repeatedEmitted \in BOOLEAN /\ dropEmitted \in BOOLEAN
      /\ handed \in Seq(EventDerived) /\ derived \in Seq(EventDerived)
      /\ DerivedOf(handed \o derived, session, repeatedEmitted, dropEmitted)
  BY TelemetryAssumption DEF DerivedInv, AllDerived
<1>2. /\ active => session \in Begun
      /\ active => R \in EventDerived /\ D \in EventDerived /\ S \in EventDerived
  <2>1. active => session \in Begun
    BY <1>1 DEF DerivedInv, Begun
  <2> QED
    BY <2>1, DerivedEvents DEF DerivedType
<1> HIDE DEF R, D, S
<1>3. CASE StartSession
  <2>1. /\ session' = session + 1 /\ session' \in 0..MaxSessions
        /\ session' # 0
        /\ repeatedEmitted' = FALSE /\ dropEmitted' = FALSE
        /\ UNCHANGED <<derived, handed>>
    BY <1>1, <1>3 DEF StartSession, SessionStarted
  <2>2. DerivedOf(handed \o derived, session + 1, FALSE, FALSE)
    BY <1>1, NewSession
  <2> QED
    BY <1>1, <2>1, <2>2 DEF DerivedInv, AllDerived
<1>4. CASE PollPress
  <2>0. /\ active /\ active' /\ session \in Begun /\ session # 0
        /\ R \in EventDerived /\ D \in EventDerived /\ S \in EventDerived
    BY <1>2, <1>4 DEF PollPress, Begun
  <2>1. /\ UNCHANGED <<session, dropEmitted, handed>>
        /\ \/ UNCHANGED <<repeatedEmitted, derived>>
           \/ /\ repeatedEmitted = FALSE /\ repeatedEmitted' = TRUE
              /\ derived' = Append(derived, R)
    <3>1. /\ UNCHANGED <<session, handed>>
          /\ HelpRequested([session |-> session, time |-> clock])
      BY <1>4 DEF PollPress
    <3>2. /\ UNCHANGED dropEmitted
          /\ repeatedEmitted' = (repeatedEmitted \/ (Len(helpTimes') >= 3 /\ ~repeatedEmitted))
          /\ derived' = IF Len(helpTimes') >= 3 /\ ~repeatedEmitted
                        THEN Append(derived, R) ELSE derived
      BY <3>1 DEF HelpRequested, DerivedFrom, R
    <3>3. CASE Len(helpTimes') >= 3 /\ ~repeatedEmitted
      BY <1>1, <2>0, <3>1, <3>2, <3>3, Zenon
    <3>4. CASE ~(Len(helpTimes') >= 3 /\ ~repeatedEmitted)
      <4>1. repeatedEmitted' = repeatedEmitted
        BY <1>1, <3>2, <3>4, Zenon
      <4> QED
        BY <3>1, <3>2, <3>4, <4>1, Zenon
    <3> QED
      BY <3>3, <3>4
  <2>2. CASE UNCHANGED <<repeatedEmitted, derived>>
    BY <1>1, <2>0, <2>1, <2>2 DEF DerivedInv, AllDerived
  <2>3. CASE /\ repeatedEmitted = FALSE /\ repeatedEmitted' = TRUE
             /\ derived' = Append(derived, R)
    <3>1. /\ derived' \in Seq(EventDerived)
          /\ handed \o derived' = Append(handed \o derived, R)
      BY <1>1, <2>0, <2>3, AppendAll
    <3>2. DerivedOf(handed \o derived, session, FALSE, dropEmitted)
      BY <1>1, <2>3
    <3>3. DerivedOf(handed \o derived', session, TRUE, dropEmitted)
      BY <1>1, <2>0, <3>1, <3>2, RepeatedStep DEF R
    <3> QED
      BY <1>1, <2>0, <2>1, <2>3, <3>1, <3>3 DEF DerivedInv, AllDerived
  <2> QED
    BY <2>1, <2>2, <2>3
<1>5. CASE PollIdle
  <2>0. /\ active /\ active' /\ session \in Begun /\ session # 0
        /\ R \in EventDerived /\ D \in EventDerived /\ S \in EventDerived
    BY <1>2, <1>5 DEF PollIdle, Begun
  <2>1. /\ UNCHANGED <<session, repeatedEmitted, handed>>
        /\ \/ UNCHANGED <<dropEmitted, derived>>
           \/ /\ dropEmitted = FALSE /\ dropEmitted' = TRUE
              /\ repeatedEmitted = FALSE /\ derived' = Append(derived, D)
           \/ /\ dropEmitted = FALSE /\ dropEmitted' = TRUE
              /\ repeatedEmitted = TRUE /\ derived' = Append(Append(derived, D), S)
    <3> DEFINE late == (IF clock >= lastPress THEN clock - lastPress ELSE 0)
                          >= InactivityThreshold
    <3>1. /\ UNCHANGED <<session, handed>>
          /\ InactivityDetected([session |-> session, time |-> clock])
      BY <1>5 DEF PollIdle
    <3>2. /\ UNCHANGED repeatedEmitted
          /\ dropEmitted' = (dropEmitted \/ (late /\ ~dropEmitted))
          /\ derived' = derived \o (IF late /\ ~dropEmitted THEN <<D>> ELSE <<>>)
               \o (IF (late /\ ~dropEmitted) /\ repeatedEmitted THEN <<S>> ELSE <<>>)
      BY <3>1 DEF InactivityDetected, DerivedFrom, D, S
    <3> HIDE DEF late
    <3>3. CASE ~(late /\ ~dropEmitted)
      <4>1. derived' = derived \o <<>> \o <<>> /\ derived \o <<>> = derived
        BY <1>1, <3>2, <3>3, ConcatEmptySeq
      <4>2. dropEmitted' = dropEmitted
        BY <1>1, <3>2, <3>3, Zenon
      <4> QED
        BY <3>1, <3>2, <4>1, <4>2
    <3>4. CASE (late /\ ~dropEmitted) /\ ~repeatedEmitted
      <4>1. derived' = derived \o <<D>> \o <<>>
        BY <3>2, <3>4
      <4>2. <<D>> \in Seq(EventDerived)
        BY <2>0
      <4>3. derived \o <<D>> \in Seq(EventDerived)
        BY <1>1, <4>2, ConcatProperties
      <4>4. derived' = Append(derived, D)
        BY <1>1, <2>0, <4>1, <4>3, ConcatEmptySeq, AppendIsConcat
      <4>5. dropEmitted = FALSE /\ dropEmitted' = TRUE /\ repeatedEmitted = FALSE
        BY <1>1, <3>2, <3>4, Zenon
      <4> QED
        BY <3>1, <3>2, <4>4, <4>5
    <3>5. CASE (late /\ ~dropEmitted) /\ repeatedEmitted
      <4>1. derived' = derived \o <<D>> \o <<S>>
        BY <3>2, <3>5
      <4>2. derived \o <<D>> = Append(derived, D)
        BY <1>1, <2>0, AppendIsConcat
      <4>3. Append(derived, D) \in Seq(EventDerived)
        BY <1>1, <2>0, AppendProperties
      <4>4. derived' = Append(Append(derived, D), S)
        BY <2>0, <4>1, <4>2, <4>3, AppendIsConcat
      <4>5. dropEmitted = FALSE /\ dropEmitted' = TRUE /\ repeatedEmitted = TRUE
        BY <1>1, <3>2, <3>5, Zenon
      <4> QED
        BY <3>1, <3>2, <4>4, <4>5
    <3> QED
      BY <3>3, <3>4, <3>5
  <2>2. CASE UNCHANGED <<dropEmitted, derived>>
    BY <1>1, <2>0, <2>1, <2>2 DEF DerivedInv, AllDerived
  <2>3. CASE /\ dropEmitted = FALSE /\ dropEmitted' = TRUE
             /\ repeatedEmitted = FALSE /\ derived' = Append(derived, D)
    <3>1. /\ derived' \in Seq(EventDerived)
          /\ handed \o derived' = Append(handed \o derived, D)
      BY <1>1, <2>0, <2>3, AppendAll
    <3>2. DerivedOf(handed \o derived, session, FALSE, FALSE)
      BY <1>1, <2>3
    <3>3. DerivedOf(handed \o derived', session, FALSE, TRUE)
      BY <1>1, <2>0, <3>1, <3>2, DropStep DEF D
    <3> QED
      BY <1>1, <2>0, <2>1, <2>3, <3>1, <3>3 DEF DerivedInv, AllDerived
  <2>4. CASE /\ dropEmitted = FALSE /\ dropEmitted' = TRUE
             /\ repeatedEmitted = TRUE /\ derived' = Append(Append(derived, D), S)
    <3>1. /\ Append(derived, D) \in Seq(EventDerived)
          /\ handed \o Append(derived, D) = Append(handed \o derived, D)
      BY <1>1, <2>0, AppendAll
    <3>2. /\ derived' \in Seq(EventDerived)
          /\ handed \o derived' = Append(Append(handed \o derived, D), S)
      <4> DEFINE half == Append(derived, D)
      <4>1. half \in Seq(EventDerived)
        BY <3>1
      <4>2. handed \o half = Append(handed \o derived, D)
        BY <3>1
      <4> HIDE DEF half
      <4>3. /\ Append(half, S) \in Seq(EventDerived)
            /\ handed \o Append(half, S) = Append(handed \o half, S)
        BY <1>1, <2>0, <4>1, AppendAll
      <4> QED
        BY <2>4, <4>2, <4>3 DEF half
    <3>3. DerivedOf(handed \o derived, session, TRUE, FALSE)
      BY <1>1, <2>4
    <3>4. DerivedOf(handed \o derived', session, TRUE, TRUE)
      BY <1>1, <2>0, <3>2, <3>3, StruggleStep DEF D, S
    <3> QED
      BY <1>1, <2>0, <2>1, <2>4, <3>2, <3>4 DEF DerivedInv, AllDerived
  <2> QED
    BY <2>1, <2>2, <2>3, <2>4
<1>6. CASE FetchDerived
  <2>0. active => session # 0
    BY DEF DerivedInv
  <2>1. /\ derived' = <<>> /\ handed' = handed \o derived
        /\ UNCHANGED <<active, session, repeatedEmitted, dropEmitted>>
    BY <1>6 DEF FetchDerived, GetAndClearDerivedEvents, taskVars
  <2>2. /\ handed' \in Seq(EventDerived) /\ derived' \in Seq(EventDerived)
        /\ handed' \o derived' = handed \o derived
    BY <1>1, <2>1, ConcatProperties, ConcatEmptySeq
  <2> QED
    BY <1>1, <2>0, <2>1, <2>2 DEF DerivedInv, AllDerived
<1>7. CASE PollQuiet \/ EndSession \/ MoveButton \/ Tick \/ UNCHANGED helpVars
  <2>0. active => session # 0
    BY DEF DerivedInv
  <2>1. /\ UNCHANGED <<session, repeatedEmitted, dropEmitted, handed, derived>>
        /\ active' => active
    BY <1>7 DEF PollQuiet, EndSession, MoveButton, Tick, helpVars, rulesVars,
                taskVars, ghostVars
  <2> QED
    BY <1>1, <2>0, <2>1 DEF DerivedInv, AllDerived
<1> QED
  BY <1>3, <1>4, <1>5, <1>6, <1>7 DEF HelpNext

(* The task and the engine start right.                                    *)
LEMMA TelemetryStart == HelpInit => TelemetryInv
<1> SUFFICES ASSUME HelpInit PROVE TelemetryInv
  OBVIOUS
<1>1. /\ helpTimes = <<>> /\ lastPress = 0 /\ repeatedEmitted = FALSE
      /\ dropEmitted = FALSE /\ derived = <<>> /\ handed = <<>>
      /\ clock = 0 /\ active = FALSE /\ session = 0
      /\ lastActivity = 0 /\ helpCount = 0 /\ helpWindowStart = 0
      /\ presses = <<>> /\ inlineFired = FALSE
  BY DEF HelpInit, RulesInit
<1>2. TimeInv
  BY <1>1, RulesAssumption DEF TimeInv, LastSign
<1>3. PressShape
  <2>1. 1..0 = {} /\ 1..(0 - 0) = {} /\ 0 <= 0
    OBVIOUS
  <2>2. Len(presses) = 0 /\ Len(helpTimes) = 0 /\ presses \in Seq(Nat) /\ helpTimes \in Seq(Nat)
    BY <1>1
  <2>3. repeatedEmitted \in BOOLEAN /\ inlineFired \in BOOLEAN
    BY <1>1
  <2> QED
    BY <1>1, <2>1, <2>2, <2>3, Zenon DEF PressShape
<1>4. RepeatedHelpExact
  <2>1. DOMAIN presses = {}
    BY <1>1
  <2> QED
    BY <1>1, <2>1 DEF RepeatedHelpExact
<1>5. DerivedInv
  <2> DEFINE none == handed \o derived
  <2>1. none = <<>>
    BY <1>1, ConcatEmptySeq
  <2>2. none \in Seq(EventDerived) /\ Len(none) = 0 /\ DOMAIN none = {}
    BY <2>1
  <2> HIDE DEF none
  <2>3. \A s, t : At(none, s, t) = {}
    BY <2>2 DEF At
  <2>4. \A s : WellDerived(none, s)
    BY <2>3 DEF WellDerived, WellPlaces, One
  <2>5. DerivedOf(none, 0, FALSE, FALSE)
    BY <2>2, <2>3, <2>4 DEF DerivedOf
  <2>6. DerivedOf(AllDerived, session, repeatedEmitted, dropEmitted)
    BY <1>1, <2>5, Zenon DEF AllDerived, none
  <2>7. /\ session \in 0..MaxSessions
        /\ ~active
        /\ repeatedEmitted \in BOOLEAN /\ dropEmitted \in BOOLEAN
        /\ handed \in Seq(EventDerived) /\ derived \in Seq(EventDerived)
    <3>1. MaxSessions \in Nat
      BY TelemetryAssumption
    <3>2. <<>> \in Seq(EventDerived)
      OBVIOUS
    <3>3. session \in 0..MaxSessions
      BY <1>1, <3>1
    <3> QED
      BY <1>1, <3>2, <3>3
  <2> QED
    BY <2>6, <2>7 DEF DerivedInv
<1> QED
  BY <1>1, <1>2, <1>3, <1>4, <1>5 DEF TelemetryInv, PressInv, InlineSound

(* The inductive invariant of the task and the rules engine                *)
(* (TelemetryTask of main.cpp, rules_engine.cpp) holds always.             *)
THEOREM TelemetryInvariance == HelpSpec => []TelemetryInv
<1>1. TelemetryInv /\ [HelpNext]_helpVars => TelemetryInv'
  BY TimeNext, PressNext, DerivedNext DEF TelemetryInv
<1> QED
  BY <1>1, TelemetryStart, PTL DEF HelpSpec

(* on_help_requested reports repeated help exactly when three presses of   *)
(* the session are within HELP_WINDOW_MS, wherever the window lies.        *)
THEOREM RepeatedHelpIsExact == HelpSpec => []RepeatedHelpExact
<1>1. TelemetryInv => RepeatedHelpExact
  BY DEF TelemetryInv, PressInv
<1> QED
  BY <1>1, TelemetryInvariance, PTL

(* What the help counter written out in TelemetryTask reports, the engine  *)
(* reports.                                                                *)
THEOREM InlineRuleIsSound == HelpSpec => []InlineSound
<1>1. TelemetryInv => InlineSound
  BY DEF TelemetryInv, PressInv
<1> QED
  BY <1>1, TelemetryInvariance, PTL

(* A silence of INACTIVITY_THRESHOLD_MS is a drop at most one idle period  *)
(* of the task late: every report of inactivity leaves either a drop or a  *)
(* silence shorter than the threshold, and the next is one period away.    *)
THEOREM DropIsTimely == HelpSpec => []DropTimely
<1>1. TelemetryInv => DropTimely
  <2> SUFFICES ASSUME TimeInv, active, polled, ~dropEmitted
               PROVE  ~(clock - LastSign >= InactivityThreshold + IdlePeriod)
    BY DEF TelemetryInv, DropTimely
  <2>1. /\ clock \in Nat /\ lastPress \in Nat /\ lastActivity \in Nat
        /\ LastSign = lastPress
        /\ clock - lastActivity <= IdlePeriod + 0
        /\ lastActivity - lastPress < InactivityThreshold
    BY DEF TimeInv
  <2>2. IdlePeriod \in Nat /\ InactivityThreshold \in Nat
    BY RulesAssumption, TelemetryAssumption
  <2> QED
    BY <2>1, <2>2
<1> QED
  BY <1>1, TelemetryInvariance, PTL

(* A session derives each event at most once, and a struggle only and      *)
(* always right behind a drop that a report of repeated help came before,  *)
(* whenever the events are fetched (get_and_clear_derived_events).         *)
THEOREM DerivedOncePerSession == HelpSpec => []DerivedPerSession
<1>1. TelemetryInv => DerivedPerSession
  <2> SUFFICES ASSUME DerivedInv, NEW s \in 1..MaxSessions
               PROVE  /\ \A type \in DerivedType : \A i, j \in Places(s, type) : i = j
                      /\ Places(s, "STRUGGLE_DETECTED") =
                           {d + 1 : d \in {i \in Places(s, "ENGAGEMENT_DROP") :
                                      \E r \in Places(s, "REPEATED_HELP_REQUESTS") : r < i}}
    BY DEF TelemetryInv, DerivedPerSession
  <2>1. \A type : Places(s, type) = At(AllDerived, s, type)
    BY DEF Places, At
  <2>2. WellPlaces(Places(s, "REPEATED_HELP_REQUESTS"), Places(s, "ENGAGEMENT_DROP"),
                   Places(s, "STRUGGLE_DETECTED"))
    BY <2>1 DEF DerivedInv, DerivedOf, WellDerived
  <2> QED
    BY <2>2 DEF WellPlaces, One, DerivedType
<1> QED
  BY <1>1, TelemetryInvariance, PTL

(* The other types, that RulesTypeOK needs and no other part.              *)
StateInv ==
  /\ clock \in 0..MaxTime
  /\ active \in BOOLEAN /\ polled \in BOOLEAN
  /\ button \in ButtonState /\ lastState \in ButtonState

LEMMA SeqOfLess ==
  ASSUME NEW S, NEW T, NEW s \in Seq(S), \A i \in 1..Len(s) : s[i] \in T
  PROVE  s \in Seq(T)
OBVIOUS

LEMMA StateNext == StateInv /\ TimeInv /\ [HelpNext]_helpVars => StateInv'
<1> SUFFICES ASSUME StateInv, TimeInv, [HelpNext]_helpVars PROVE StateInv'
  OBVIOUS
<1>1. CASE Tick
  <2>1. clock' = clock + 1 /\ clock < MaxTime /\ clock \in Nat /\ MaxTime \in Nat
    BY <1>1, TelemetryAssumption DEF Tick, TimeInv
  <2>2. clock' \in 0..MaxTime
    BY <2>1
  <2> QED
    BY <1>1, <2>2 DEF Tick, taskVars, StateInv
<1>2. CASE \/ StartSession \/ PollPress \/ PollIdle \/ PollQuiet \/ EndSession
           \/ FetchDerived \/ MoveButton \/ UNCHANGED helpVars
  <2>1. UNCHANGED clock
    BY <1>2 DEF StartSession, PollPress, PollIdle, PollQuiet, EndSession,
                FetchDerived, MoveButton, helpVars
  <2>2. button' \in ButtonState /\ lastState' \in ButtonState
    BY <1>2 DEF StateInv, StartSession, PollPress, PollIdle, PollQuiet, EndSession,
                FetchDerived, MoveButton, helpVars, taskVars, ButtonState
  <2>3. active' \in BOOLEAN /\ polled' \in BOOLEAN
    BY <1>2, Zenon DEF StateInv, StartSession, PollPress, PollIdle, PollQuiet,
                EndSession, FetchDerived, MoveButton, helpVars, taskVars, ghostVars
  <2> QED
    BY <2>1, <2>2, <2>3 DEF StateInv
<1> QED
  BY <1>1, <1>2 DEF HelpNext

(* Types, and that the engine's times are presses of the session (fields of *)
(* TelemetryTask and RulesEngine).                                         *)
THEOREM RulesTypeCorrect == HelpSpec => []RulesTypeOK
<1>1. HelpInit => StateInv
  <2> SUFFICES ASSUME HelpInit PROVE StateInv
    OBVIOUS
  <2>1. MaxTime \in Nat
    BY TelemetryAssumption
  <2>2. /\ clock = 0 /\ active = FALSE /\ polled = FALSE
        /\ button = "RELEASED" /\ lastState = "RELEASED"
    BY DEF HelpInit
  <2>3. clock \in 0..MaxTime
    BY <2>1, <2>2
  <2> QED
    BY <2>2, <2>3 DEF StateInv, ButtonState
<1>2. TelemetryInv /\ StateInv /\ [HelpNext]_helpVars => StateInv'
  BY StateNext DEF TelemetryInv
<1>3. TelemetryInv /\ StateInv => RulesTypeOK
  <2> SUFFICES ASSUME TimeInv, PressShape, DerivedInv, StateInv PROVE RulesTypeOK
    BY DEF TelemetryInv, PressInv
  <2>1. presses \in Seq(0..clock)
    <3>1. /\ presses \in Seq(Nat) /\ clock \in Nat
          /\ \A i \in 1..Len(presses) : presses[i] <= clock
      BY DEF PressShape, TimeInv
    <3>2. \A i \in 1..Len(presses) : presses[i] \in 0..clock
      BY <3>1, ElementOfSeq
    <3> QED
      BY <3>1, <3>2
  <2>2. helpTimes \in Seq(0..clock)
    <3>1. /\ helpTimes \in Seq(Nat) /\ Len(helpTimes) <= Len(presses)
          /\ \A i \in 1..Len(helpTimes) :
               helpTimes[i] = presses[Len(presses) - Len(helpTimes) + i]
      BY DEF PressShape
    <3>2. \A i \in 1..Len(helpTimes) :
            Len(presses) - Len(helpTimes) + i \in 1..Len(presses)
      BY <2>1, <3>1
    <3>3. \A i \in 1..Len(helpTimes) : helpTimes[i] \in 0..clock
      BY <2>1, <3>1, <3>2, ElementOfSeq
    <3> QED
      BY <3>1, <3>3, SeqOfLess
  <2>3. AllDerived \in Seq(DerivedEvent)
    <3>1. /\ AllDerived \in Seq(EventDerived) /\ session \in 0..MaxSessions
          /\ MaxSessions \in Nat
          /\ \A i \in 1..Len(AllDerived) : AllDerived[i].session <= session
      BY TelemetryAssumption DEF DerivedInv, DerivedOf
    <3>2. ASSUME NEW i \in 1..Len(AllDerived) PROVE AllDerived[i] \in DerivedEvent
      <4>1. AllDerived[i] \in EventDerived
        BY <3>1, ElementOfSeq
      <4> DEFINE e == AllDerived[i]
      <4>2. e.session <= session
        BY <3>1
      <4> HIDE DEF e
      <4>3. e \in DerivedEvent
        BY <3>1, <4>1, <4>2 DEF EventDerived, Begun, DerivedEvent, e
      <4> QED
        BY <4>3 DEF e
    <3> QED
      BY <3>1, <3>2
  <2>4. {lastPress, lastActivity, helpWindowStart} \subseteq 0..clock
    BY DEF TimeInv
  <2>5. /\ repeatedEmitted \in BOOLEAN /\ dropEmitted \in BOOLEAN /\ active \in BOOLEAN
        /\ polled \in BOOLEAN /\ inlineFired \in BOOLEAN
    BY DEF DerivedInv, StateInv, PressShape
  <2>6. {repeatedEmitted, dropEmitted, active, polled, inlineFired} \subseteq BOOLEAN
    BY <2>5, Zenon
  <2>7. /\ {button, lastState} \subseteq ButtonState /\ clock \in 0..MaxTime
        /\ session \in 0..MaxSessions
        /\ Len(helpTimes) <= helpCount /\ helpCount = Len(presses)
    BY DEF StateInv, DerivedInv, PressShape
  <2> QED
    BY <2>1, <2>2, <2>3, <2>4, <2>6, <2>7 DEF RulesTypeOK
<1> QED
  BY <1>1, <1>2, <1>3, TelemetryInvariance, PTL DEF HelpSpec
=============================================================================
