---------------------------- MODULE ComponentsProofs ----------------------------
(***************************************************************************)
(* Theorems about the small components, for every value of the constants   *)
(* of MCComponents.  Each part proves its component on its own; the last   *)
(* part shows that the specification that the run checks, of all of them   *)
(* side by side, has the same properties.                                  *)
(***************************************************************************)
EXTENDS MCComponents, SequenceTheorems, TLAPS

-----------------------------------------------------------------------------
(* CircuitBreaker.  One probe is let through at a time and a half-open     *)
(* breaker waits for one, provided that requests time out before the       *)
(* shortest cooldown is over; the breaker implements BreakerCycle; and it  *)
(* counts the failures of the run that are within the window.              *)

\* The types the argument needs; the failure lists play no part in it.
Typed ==
    /\ state \in {"closed", "open", "half-open"}
    /\ openedAt \in Nat
    /\ currentCooldown \in Nat
    /\ currentCooldown >= InitialCooldown
    /\ probeInFlight \in BOOLEAN
    /\ now \in Nat
    /\ flight \in [Requests -> {NoFlight} \cup [sent : Nat, probe : BOOLEAN]]

\* The flag says that the breaker is half-open.
FlagIsHalfOpen == probeInFlight <=> state = "half-open"

\* Requests in flight are younger than their timeout.
Punctual ==
    \A r \in Requests : flight[r] # NoFlight =>
        flight[r].sent <= now /\ now <= flight[r].sent + RequestTimeout

\* The probes still in flight were sent before the breaker opened.
ProbesOlder ==
    state = "open" => \A r \in Requests : flight[r].probe => flight[r].sent <= openedAt

ProbeInv ==
    /\ Typed /\ FlagIsHalfOpen /\ Punctual /\ ProbesOlder
    /\ HalfOpenIsWaiting /\ OneProbe

-----------------------------------------------------------------------------

\* A cooldown does not shrink when it is multiplied and capped
\* (recordFailure in half-open).
LEMMA CooldownGrows ==
    ASSUME NEW c \in Nat, c >= InitialCooldown
    PROVE  /\ Smaller(c * Multiplier, MaxCooldown) \in Nat
           /\ Smaller(c * Multiplier, MaxCooldown) >= InitialCooldown
<1>1. Multiplier \in Nat /\ Multiplier >= 1
  BY BreakerAssumption
<1>2. c * Multiplier \in Nat /\ c * Multiplier >= c
  <2>1. PICK k \in Nat : Multiplier = k + 1
    BY <1>1
  <2>2. c * Multiplier = c * k + c
    BY <2>1
  <2>3. c * k \in Nat
    BY <2>1
  <2> QED
    BY <2>2, <2>3
<1> QED
  BY <1>2, BreakerAssumption DEF Smaller

LEMMA InitProbeInv == Init => ProbeInv
<1> SUFFICES ASSUME Init PROVE ProbeInv
  OBVIOUS
<1>1. \A r \in Requests : flight[r] = NoFlight /\ ~flight[r].probe
  BY DEF Init, NoFlight
<1>2. Typed
  <2>1. flight \in [Requests -> {NoFlight}]
    BY DEF Init
  <2>2. flight \in [Requests -> {NoFlight} \cup [sent : Nat, probe : BOOLEAN]]
    BY <2>1
  <2>3. probeInFlight \in BOOLEAN
    BY DEF Init
  <2>4. /\ state \in {"closed", "open", "half-open"}
        /\ openedAt \in Nat /\ now \in Nat
    BY DEF Init
  <2>5. currentCooldown \in Nat /\ currentCooldown >= InitialCooldown
    BY BreakerAssumption DEF Init
  <2> QED
    BY <2>2, <2>3, <2>4, <2>5 DEF Typed
<1>3. FlagIsHalfOpen /\ ProbesOlder /\ HalfOpenIsWaiting
  BY DEF Init, FlagIsHalfOpen, ProbesOlder, HalfOpenIsWaiting
<1>4. Punctual /\ OneProbe
  BY <1>1 DEF Punctual, OneProbe
<1> QED
  BY <1>2, <1>3, <1>4 DEF ProbeInv

LEMMA ClosedStep ==
    ASSUME ProbeInv, NEW r \in Requests, RequestClosed(r)
    PROVE  ProbeInv'
<1> DEFINE f == [sent |-> now, probe |-> FALSE]
<1>1. flight' = [flight EXCEPT ![r] = f] /\ state = "closed"
  BY DEF RequestClosed
<1>2. UNCHANGED <<state, openedAt, currentCooldown, probeInFlight, now>>
  BY DEF RequestClosed, breakerVars
<1>3. Typed'
  BY <1>1, <1>2 DEF ProbeInv, Typed
<1>4. FlagIsHalfOpen'
  BY <1>2 DEF ProbeInv, FlagIsHalfOpen
<1>5. Punctual'
  <2> SUFFICES ASSUME NEW q \in Requests, flight'[q] # NoFlight
               PROVE  /\ flight'[q].sent <= now'
                      /\ now' <= flight'[q].sent + RequestTimeout
    BY DEF Punctual
  <2>1. CASE q = r
    BY <2>1, <1>1, <1>2, BreakerAssumption DEF ProbeInv, Typed
  <2>2. CASE q # r
    BY <2>2, <1>1, <1>2 DEF ProbeInv, Typed, Punctual
  <2> QED
    BY <2>1, <2>2
<1>6. ProbesOlder' /\ HalfOpenIsWaiting'
  BY <1>1, <1>2 DEF ProbesOlder, HalfOpenIsWaiting
<1>7. OneProbe'
  BY <1>1 DEF ProbeInv, Typed, OneProbe
<1> QED
  BY <1>3, <1>4, <1>5, <1>6, <1>7 DEF ProbeInv

\* When the cooldown is over, every request sent before it began has ended.
LEMMA NoProbeAfterCooldown ==
    ASSUME ProbeInv, RequestTimeout < InitialCooldown, state = "open", Cooled
    PROVE  \A q \in Requests : ~flight[q].probe
<1> SUFFICES ASSUME NEW q \in Requests, flight[q].probe PROVE FALSE
  OBVIOUS
<1>1. flight[q] # NoFlight
  BY DEF NoFlight
<1>2. flight[q] \in [sent : Nat, probe : BOOLEAN]
  BY <1>1 DEF ProbeInv, Typed
<1>3. flight[q].sent <= openedAt /\ now <= flight[q].sent + RequestTimeout
  BY <1>1 DEF ProbeInv, ProbesOlder, Punctual
<1>4. now - openedAt >= currentCooldown
  BY DEF Cooled
<1> QED
  BY <1>2, <1>3, <1>4, BreakerAssumption DEF ProbeInv, Typed

LEMMA ProbeStep ==
    ASSUME ProbeInv, RequestTimeout < InitialCooldown,
           NEW r \in Requests, RequestProbe(r)
    PROVE  ProbeInv'
<1> DEFINE f == [sent |-> now, probe |-> TRUE]
<1>1. flight' = [flight EXCEPT ![r] = f]
  BY DEF RequestProbe
<1>2. state' = "half-open" /\ probeInFlight' = TRUE
  BY DEF RequestProbe
<1>3. UNCHANGED <<openedAt, currentCooldown, now>>
  BY DEF RequestProbe
<1>4. state = "open" /\ Cooled
  BY DEF RequestProbe, ProbeInv, FlagIsHalfOpen
<1>5. \A q \in Requests : ~flight[q].probe
  BY <1>4, NoProbeAfterCooldown
<1>6. Typed'
  BY <1>1, <1>2, <1>3 DEF ProbeInv, Typed
<1>7. FlagIsHalfOpen' /\ ProbesOlder'
  BY <1>2 DEF FlagIsHalfOpen, ProbesOlder
<1>8. Punctual'
  <2> SUFFICES ASSUME NEW q \in Requests, flight'[q] # NoFlight
               PROVE  /\ flight'[q].sent <= now'
                      /\ now' <= flight'[q].sent + RequestTimeout
    BY DEF Punctual
  <2>1. CASE q = r
    BY <2>1, <1>1, <1>3, BreakerAssumption DEF ProbeInv, Typed
  <2>2. CASE q # r
    BY <2>2, <1>1, <1>3 DEF ProbeInv, Typed, Punctual
  <2> QED
    BY <2>1, <2>2
<1>9. HalfOpenIsWaiting'
  BY <1>1 DEF ProbeInv, Typed, HalfOpenIsWaiting
<1>10. OneProbe'
  BY <1>1, <1>5 DEF ProbeInv, Typed, OneProbe
<1> QED
  BY <1>6, <1>7, <1>8, <1>9, <1>10 DEF ProbeInv

\* What an outcome does to the breaker, whatever the outcome.
Outcome ==
    /\ UNCHANGED now
    /\ state' \in {"closed", "open"}
    /\ probeInFlight' = FALSE
    /\ currentCooldown' \in Nat /\ currentCooldown' >= InitialCooldown
    /\ \/ openedAt' = now
       \/ state = "open" /\ openedAt' = openedAt
       \/ state' = "closed" /\ openedAt' = openedAt

LEMMA OutcomeOfSuccess ==
    ASSUME ProbeInv, RecordSuccess, UNCHANGED now
    PROVE  Outcome
BY BreakerAssumption DEF RecordSuccess, Outcome, ProbeInv, Typed, FlagIsHalfOpen

LEMMA OutcomeOfFailure ==
    ASSUME ProbeInv, RecordFailure, UNCHANGED now
    PROVE  Outcome
<1>1. CASE FailProbe
  BY <1>1, CooldownGrows DEF FailProbe, Outcome, ProbeInv, Typed
<1>2. CASE IgnoreFailure
  BY <1>2 DEF IgnoreFailure, breakerVars, Outcome, ProbeInv, Typed, FlagIsHalfOpen
<1>3. CASE CountFailure
  <2>1. state = "closed" /\ probeInFlight' = probeInFlight
    BY <1>3 DEF CountFailure
  <2>2. \/ currentCooldown' = InitialCooldown /\ openedAt' = now /\ state' = "open"
        \/ UNCHANGED <<currentCooldown, openedAt, state>>
    BY <1>3 DEF CountFailure
  <2> QED
    BY <2>1, <2>2, BreakerAssumption DEF Outcome, ProbeInv, Typed, FlagIsHalfOpen
<1> QED
  BY <1>1, <1>2, <1>3 DEF RecordFailure

LEMMA OutcomeStep ==
    ASSUME ProbeInv, NEW r \in Requests, flight[r] # NoFlight, Ended(r), Outcome
    PROVE  ProbeInv'
<1>1. flight' = [flight EXCEPT ![r] = NoFlight]
  BY DEF Ended
<1>2. now' = now /\ state' # "half-open" /\ probeInFlight' = FALSE
  BY DEF Outcome
<1>3. Typed'
  BY <1>1 DEF ProbeInv, Typed, Outcome
<1>4. FlagIsHalfOpen' /\ HalfOpenIsWaiting'
  BY <1>2 DEF FlagIsHalfOpen, HalfOpenIsWaiting
<1>5. \A q \in Requests : flight'[q] = flight[q] \/ flight'[q] = NoFlight
  BY <1>1 DEF ProbeInv, Typed
<1>6. ~NoFlight.probe
  BY DEF NoFlight
<1>7. Punctual' /\ OneProbe'
  BY <1>2, <1>5, <1>6 DEF ProbeInv, Punctual, OneProbe
<1>8. ProbesOlder'
  <2> SUFFICES ASSUME state' = "open", NEW q \in Requests, flight'[q].probe
               PROVE  flight'[q].sent <= openedAt'
    BY DEF ProbesOlder
  <2>1. flight'[q] = flight[q] /\ flight[q] # NoFlight
    BY <1>5, <1>6 DEF NoFlight
  <2>2. flight[q].sent <= now
    BY <2>1 DEF ProbeInv, Punctual
  <2> QED
    BY <2>1, <2>2 DEF Outcome, ProbeInv, ProbesOlder
<1> QED
  BY <1>3, <1>4, <1>7, <1>8 DEF ProbeInv

LEMMA TickStep ==
    ASSUME ProbeInv, Tick
    PROVE  ProbeInv'
<1>1. now' = now + 1 /\ UNCHANGED <<state, openedAt, currentCooldown, probeInFlight, flight>>
  BY DEF Tick, breakerVars
<1>2. \A r \in Requests : flight[r] # NoFlight => now < flight[r].sent + RequestTimeout
  BY DEF Tick
<1>3. Typed'
  BY <1>1 DEF ProbeInv, Typed
<1>4. Punctual'
  <2> SUFFICES ASSUME NEW q \in Requests, flight[q] # NoFlight
               PROVE  /\ flight[q].sent <= now + 1
                      /\ now + 1 <= flight[q].sent + RequestTimeout
    BY <1>1 DEF Punctual
  <2>1. flight[q] \in [sent : Nat, probe : BOOLEAN]
    BY DEF ProbeInv, Typed
  <2> QED
    BY <2>1, <1>2, BreakerAssumption DEF ProbeInv, Typed, Punctual
<1>5. FlagIsHalfOpen' /\ ProbesOlder' /\ HalfOpenIsWaiting' /\ OneProbe'
  BY <1>1 DEF ProbeInv, FlagIsHalfOpen, ProbesOlder, HalfOpenIsWaiting, OneProbe
<1> QED
  BY <1>3, <1>4, <1>5 DEF ProbeInv

LEMMA NextProbeInv ==
    ASSUME ProbeInv, RequestTimeout < InitialCooldown, [Next]_vars
    PROVE  ProbeInv'
<1>1. CASE \E r \in Requests : RequestClosed(r)
  BY <1>1, ClosedStep
<1>2. CASE \E r \in Requests : RequestProbe(r)
  BY <1>2, ProbeStep
<1>3. CASE \E r \in Requests : Succeed(r)
  BY <1>3, OutcomeOfSuccess, OutcomeStep DEF Succeed
<1>4. CASE \E r \in Requests : Fail(r)
  BY <1>4, OutcomeOfFailure, OutcomeStep DEF Fail
<1>5. CASE Tick
  BY <1>5, TickStep
<1>6. CASE UNCHANGED vars
  BY <1>6 DEF vars, breakerVars, ProbeInv, Typed, FlagIsHalfOpen, Punctual,
              ProbesOlder, HalfOpenIsWaiting, OneProbe
<1> QED
  BY <1>1, <1>2, <1>3, <1>4, <1>5, <1>6 DEF Next

-----------------------------------------------------------------------------

\* No two probes are in flight together, when requests time out before the
\* shortest cooldown is over (canRequest's "exactly one probe at a time").
THEOREM SingleProbe ==
    ASSUME RequestTimeout < InitialCooldown
    PROVE  Spec => []OneProbe
<1>1. Init => ProbeInv
  BY InitProbeInv
<1>2. ProbeInv /\ [Next]_vars => ProbeInv'
  BY NextProbeInv
<1>3. ProbeInv => OneProbe
  BY DEF ProbeInv
<1> QED
  BY <1>1, <1>2, <1>3, PTL DEF Spec

\* A half-open breaker has a probe in flight (canRequest, recordSuccess,
\* recordFailure): it is never left without an outcome to come.
THEOREM NeverStuckHalfOpen ==
    ASSUME RequestTimeout < InitialCooldown
    PROVE  Spec => []HalfOpenIsWaiting
<1>1. Init => ProbeInv
  BY InitProbeInv
<1>2. ProbeInv /\ [Next]_vars => ProbeInv'
  BY NextProbeInv
<1>3. ProbeInv => HalfOpenIsWaiting
  BY DEF ProbeInv
<1> QED
  BY <1>1, <1>2, <1>3, PTL DEF Spec

\* The breaker implements the cycle of BreakerCycle: every step of it is a
\* trip, a probe, an outcome of a probe, or leaves the state alone.
THEOREM Implementation == Spec => FollowsCycle
<1>1. Init => Cycle!Init
  BY DEF Init, Cycle!Init
<1>2. [Next]_vars => [Cycle!Next]_state
  <2> SUFFICES ASSUME [Next]_vars PROVE Cycle!Next \/ UNCHANGED state
    OBVIOUS
  <2> USE DEF Cycle!Next, Cycle!Trip, Cycle!Probe, Cycle!Settle
  <2>1. CASE \E r \in Requests : RequestClosed(r)
    BY <2>1 DEF RequestClosed, breakerVars
  <2>2. CASE \E r \in Requests : RequestProbe(r)
    BY <2>2 DEF RequestProbe
  <2>3. CASE \E r \in Requests : Succeed(r)
    BY <2>3 DEF Succeed, RecordSuccess
  <2>4. CASE \E r \in Requests : Fail(r)
    <3>1. RecordFailure
      BY <2>4 DEF Fail
    <3>2. CASE FailProbe
      BY <3>2 DEF FailProbe
    <3>3. CASE IgnoreFailure
      BY <3>3 DEF IgnoreFailure, breakerVars
    <3>4. CASE CountFailure
      BY <3>4 DEF CountFailure
    <3> QED
      BY <3>1, <3>2, <3>3, <3>4 DEF RecordFailure
  <2>5. CASE Tick \/ UNCHANGED vars
    BY <2>5 DEF Tick, vars, breakerVars
  <2> QED
    BY <2>1, <2>2, <2>3, <2>4, <2>5 DEF Next
<1> QED
  BY <1>1, <1>2, PTL DEF Spec, FollowsCycle, Cycle!Spec

\* What the breaker has counted is the end of the run of failures; what it has
\* dropped of the run is older than the window.
Counts(d) ==
    /\ Len(failureTimestamps) = Len(run) - d
    /\ \A i \in 1..(Len(run) - d) : failureTimestamps[i] = run[d + i]
    /\ \A i \in 1..d : ~InWindow(run[i])

CountInv ==
    /\ TypeOK
    /\ state = "closed" => \E d \in 0..Len(run) : Counts(d)
    /\ state # "closed" => run = <<>> /\ failureTimestamps = <<>>

\* A failure that is counted, and the n failures that fall out of the window.
LEMMA Counted ==
    ASSUME TypeOK, CountFailure
    PROVE  \E n \in 0..Len(failureTimestamps) :
             LET times == Append(failureTimestamps, now)
                 total == Len(failureTimestamps) + 1 - n
             IN  /\ times \in Seq(0..MaxTime) /\ Len(times) = Len(failureTimestamps) + 1
                 /\ \A i \in 1..Len(failureTimestamps) : times[i] = failureTimestamps[i]
                 /\ times[Len(failureTimestamps) + 1] = now
                 /\ Expired(times, n)
                 /\ state = "closed" /\ probeInFlight' = probeInFlight
                 /\ \/ /\ total >= FailureThreshold /\ state' = "open"
                       /\ failureTimestamps' = <<>> /\ openedAt' = now
                       /\ currentCooldown' = InitialCooldown
                    \/ /\ ~(total >= FailureThreshold)
                       /\ UNCHANGED <<currentCooldown, openedAt, state>>
                       /\ failureTimestamps' \in Seq(0..MaxTime)
                       /\ Len(failureTimestamps') = total
                       /\ \A i \in 1..total : failureTimestamps'[i] = times[n + i]
<1> DEFINE times == Append(failureTimestamps, now)
           L == Len(failureTimestamps)
<1>1. PICK n \in 0..Len(failureTimestamps) :
          /\ Expired(times, n)
          /\ IF Len(SubSeq(times, n + 1, Len(times))) >= FailureThreshold
             THEN /\ currentCooldown' = InitialCooldown
                  /\ openedAt' = now
                  /\ failureTimestamps' = <<>>
                  /\ state' = "open"
             ELSE /\ failureTimestamps' = SubSeq(times, n + 1, Len(times))
                  /\ UNCHANGED <<currentCooldown, openedAt, state>>
  BY DEF CountFailure
<1>2. failureTimestamps \in Seq(0..MaxTime) /\ now \in 0..MaxTime /\ L \in Nat
  BY DEF TypeOK
<1>3. /\ times \in Seq(0..MaxTime) /\ Len(times) = L + 1
      /\ \A i \in 1..L : times[i] = failureTimestamps[i]
      /\ times[L + 1] = now
  BY <1>2, AppendProperties
<1> HIDE DEF times
<1>4. /\ SubSeq(times, n + 1, Len(times)) \in Seq(0..MaxTime)
      /\ Len(SubSeq(times, n + 1, Len(times))) = L + 1 - n
      /\ \A i \in 1..(L + 1 - n) : SubSeq(times, n + 1, Len(times))[i] = times[n + i]
  <2> DEFINE rest == SubSeq(times, n + 1, Len(times))
  <2>1. \A i \in (n + 1)..Len(times) : times[i] \in 0..MaxTime
    <3> TAKE i \in (n + 1)..Len(times)
    <3>1. i \in 1..Len(times) BY <1>1, <1>2, <1>3
    <3> QED BY <1>3, <3>1, ElementOfSeq
  <2>2. n + 1 \in Int /\ Len(times) \in Int /\ n + 1 <= Len(times)
    BY <1>1, <1>2, <1>3
  <2>3. /\ rest \in Seq(0..MaxTime)
        /\ Len(rest) = IF n + 1 <= Len(times) THEN Len(times) - (n + 1) + 1 ELSE 0
        /\ \A i \in 1..(Len(times) - (n + 1) + 1) : rest[i] = times[n + 1 + i - 1]
    BY <2>1, <2>2, SubSeqProperties
  <2> HIDE DEF rest
  <2>4. Len(times) - (n + 1) + 1 = L + 1 - n BY <1>1, <1>2, <1>3
  <2>5. \A i \in 1..(L + 1 - n) : n + 1 + i - 1 = n + i BY <1>1, <1>2
  <2>6. Len(rest) = L + 1 - n BY <2>2, <2>3, <2>4
  <2>7. \A i \in 1..(L + 1 - n) : rest[i] = times[n + i] BY <2>3, <2>4, <2>5
  <2> QED BY <2>3, <2>6, <2>7 DEF rest
<1>5. state = "closed" /\ probeInFlight' = probeInFlight
  BY DEF CountFailure
<1>6. \/ /\ L + 1 - n >= FailureThreshold /\ state' = "open"
         /\ failureTimestamps' = <<>> /\ openedAt' = now
         /\ currentCooldown' = InitialCooldown
      \/ /\ ~(L + 1 - n >= FailureThreshold)
         /\ UNCHANGED <<currentCooldown, openedAt, state>>
         /\ failureTimestamps' \in Seq(0..MaxTime)
         /\ Len(failureTimestamps') = L + 1 - n
         /\ \A i \in 1..(L + 1 - n) : failureTimestamps'[i] = times[n + i]
  BY <1>1, <1>4
<1> QED BY <1>1, <1>3, <1>5, <1>6 DEF times

LEMMA CountInit == ASSUME Init PROVE CountInv
<1>1. <<>> \in Seq(0..MaxTime) /\ 0 \in 0..MaxTime
  BY BreakerAssumption
<1>2. TypeOK
  <2>1. currentCooldown \in InitialCooldown..MaxCooldown
    BY BreakerAssumption DEF Init
  <2>2. flight \in [Requests -> {NoFlight} \cup [sent : 0..MaxTime, probe : BOOLEAN]]
    BY DEF Init
  <2>3. failureTimestamps \in Seq(0..MaxTime) /\ run \in Seq(0..MaxTime)
    BY <1>1 DEF Init
  <2>4. openedAt \in 0..MaxTime /\ now \in 0..MaxTime
    BY <1>1 DEF Init
  <2>5. state \in {"closed", "open", "half-open"} /\ probeInFlight \in BOOLEAN
    BY DEF Init
  <2> QED BY <2>1, <2>2, <2>3, <2>4, <2>5 DEF TypeOK
<1>3. Counts(0) /\ 0 \in 0..Len(run)
  BY DEF Init, Counts
<1> QED BY <1>2, <1>3 DEF CountInv, Init

\* The requests that end with a failure.
LEMMA CountFails ==
    ASSUME CountInv, NEW r \in Requests, Fail(r)
    PROVE  CountInv'
<1>1. TypeOK /\ RecordFailure /\ now' = now /\ now \in 0..MaxTime
  BY DEF CountInv, Fail, TypeOK
<1>2. flight' \in [Requests -> {NoFlight} \cup [sent : 0..MaxTime, probe : BOOLEAN]]
  BY <1>1 DEF TypeOK, Fail, Ended
<1>3. CASE FailProbe
  <2>1. state' = "open" /\ failureTimestamps' = <<>> /\ run' = <<>>
    BY <1>3 DEF FailProbe, Fail, CountInv
  <2>2. currentCooldown' \in InitialCooldown..MaxCooldown
    <3>1. /\ currentCooldown \in Nat /\ currentCooldown >= InitialCooldown
          /\ currentCooldown * Multiplier \in Nat
      BY <1>1, BreakerAssumption DEF TypeOK
    <3>2. currentCooldown' = Smaller(currentCooldown * Multiplier, MaxCooldown)
      BY <1>3 DEF FailProbe
    <3>3. /\ Smaller(currentCooldown * Multiplier, MaxCooldown) \in Nat
          /\ Smaller(currentCooldown * Multiplier, MaxCooldown) >= InitialCooldown
      BY <3>1, CooldownGrows
    <3>4. Smaller(currentCooldown * Multiplier, MaxCooldown) <= MaxCooldown
      BY <3>1, BreakerAssumption DEF Smaller
    <3> QED BY <3>2, <3>3, <3>4, BreakerAssumption
  <2>3. probeInFlight' \in BOOLEAN /\ openedAt' = now
    BY <1>3 DEF FailProbe
  <2>4. TypeOK'
    BY <1>1, <1>2, <2>1, <2>2, <2>3, EmptySeq DEF TypeOK
  <2> QED BY <2>1, <2>4 DEF CountInv
<1>4. CASE IgnoreFailure
  <2>1. state = "open" /\ run' = <<>> /\ UNCHANGED breakerVars
    BY <1>4 DEF IgnoreFailure, Fail
  <2>2. TypeOK'
    BY <1>1, <1>2, <2>1, EmptySeq DEF TypeOK, breakerVars
  <2> QED BY <2>1, <2>2 DEF CountInv, breakerVars
<1>5. CASE CountFailure
  <2>1. PICK n \in 0..Len(failureTimestamps), times \in Seq(0..MaxTime) :
           /\ Len(times) = Len(failureTimestamps) + 1
           /\ \A i \in 1..Len(failureTimestamps) : times[i] = failureTimestamps[i]
           /\ times[Len(failureTimestamps) + 1] = now
           /\ Expired(times, n)
           /\ state = "closed" /\ probeInFlight' = probeInFlight
           /\ \/ /\ state' = "open" /\ failureTimestamps' = <<>> /\ openedAt' = now
                 /\ currentCooldown' = InitialCooldown
              \/ /\ UNCHANGED <<currentCooldown, openedAt, state>>
                 /\ failureTimestamps' \in Seq(0..MaxTime)
                 /\ Len(failureTimestamps') = Len(failureTimestamps) + 1 - n
                 /\ \A i \in 1..(Len(failureTimestamps) + 1 - n) :
                       failureTimestamps'[i] = times[n + i]
    BY <1>1, <1>5, Counted
  <2>2. CASE state' = "open"
    <3>1. run' = <<>>
      BY <2>2 DEF Fail
    <3>2. failureTimestamps' = <<>> /\ openedAt' = now /\ currentCooldown' = InitialCooldown
      BY <2>1, <2>2
    <3>3. TypeOK'
      BY <1>1, <1>2, <2>1, <2>2, <3>1, <3>2, EmptySeq, BreakerAssumption DEF TypeOK
    <3> QED BY <2>2, <3>1, <3>2, <3>3 DEF CountInv
  <2>3. CASE state' # "open"
    <3>1. /\ UNCHANGED <<currentCooldown, openedAt, state>> /\ state' = "closed"
          /\ failureTimestamps' \in Seq(0..MaxTime)
          /\ Len(failureTimestamps') = Len(failureTimestamps) + 1 - n
          /\ \A i \in 1..(Len(failureTimestamps) + 1 - n) :
                failureTimestamps'[i] = times[n + i]
      BY <2>1, <2>3
    <3>2. run' = Append(run, now)
      BY <2>1, <3>1 DEF Fail
    <3>3. PICK d \in 0..Len(run) : Counts(d)
      BY <2>1 DEF CountInv
    <3>4. /\ run \in Seq(0..MaxTime) /\ Len(run) \in Nat /\ run' \in Seq(0..MaxTime)
          /\ Len(run') = Len(run) + 1 /\ run'[Len(run) + 1] = now
          /\ \A i \in 1..Len(run) : run'[i] = run[i]
      BY <1>1, <3>2, AppendProperties DEF TypeOK
    <3>5. Len(failureTimestamps) = Len(run) - d /\ d \in Nat /\ n \in Nat
      BY <2>1, <3>3 DEF Counts
    <3>6. d + n \in 0..Len(run')
      BY <2>1, <3>3, <3>4, <3>5
    <3>7. Len(failureTimestamps') = Len(run') - (d + n)
      BY <3>1, <3>4, <3>5
    <3>8. ASSUME NEW i \in 1..(Len(run) + 1 - (d + n))
          PROVE  failureTimestamps'[i] = run'[d + n + i]
      <4>1. failureTimestamps'[i] = times[n + i]
        <5>1. i \in 1..(Len(failureTimestamps) + 1 - n) BY <3>4, <3>5
        <5> QED BY <3>1, <5>1
      <4>2. CASE n + i <= Len(failureTimestamps)
        <5>1. n + i \in 1..Len(failureTimestamps) /\ n + i \in 1..(Len(run) - d)
          BY <2>1, <3>4, <3>5, <4>2
        <5>2. times[n + i] = run[d + (n + i)] BY <2>1, <3>3, <5>1 DEF Counts
        <5>3. d + (n + i) = d + n + i /\ d + n + i \in 1..Len(run)
          BY <3>4, <3>5, <5>1
        <5> QED BY <3>4, <4>1, <5>2, <5>3
      <4>3. CASE n + i > Len(failureTimestamps)
        <5>1. n + i = Len(failureTimestamps) + 1 /\ d + n + i = Len(run) + 1
          <6>1. Len(run) \in Nat /\ Len(failureTimestamps) = Len(run) - d
            BY <3>4, <3>5
          <6>2. i \in Nat /\ i <= Len(run) + 1 - (d + n) BY <3>5, <6>1
          <6> QED BY <3>5, <4>3, <6>1, <6>2
        <5> QED BY <2>1, <3>4, <4>1, <5>1
      <4>4. n + i <= Len(failureTimestamps) \/ n + i > Len(failureTimestamps)
        <5>1. Len(run) \in Int /\ Len(failureTimestamps) = Len(run) - d /\ d \in Int
          BY <3>4, <3>5
        <5> QED BY <5>1, <3>5
      <4> QED BY <4>2, <4>3, <4>4
    <3>9. ASSUME NEW i \in 1..(d + n)
          PROVE  ~InWindow(run'[i])
      <4>1. i \in 1..Len(run) /\ run'[i] = run[i]
        BY <2>1, <3>4, <3>5
      <4>2. CASE i <= d
        <5>1. i \in 1..d BY <4>2
        <5> QED BY <3>3, <4>1, <5>1 DEF Counts
      <4>3. CASE i > d
        <5>1. /\ i - d \in 1..n /\ i - d \in 1..Len(failureTimestamps)
              /\ i - d \in 1..(Len(run) - d) /\ d + (i - d) = i
          BY <2>1, <3>4, <3>5, <4>3
        <5>2. times[i - d] = run[i] BY <2>1, <3>3, <5>1 DEF Counts
        <5> QED BY <2>1, <4>1, <5>1, <5>2 DEF Expired
      <4> QED BY <3>5, <4>2, <4>3
    <3>10. Counts(d + n)'
      <4>1. \A i \in 1..(d + n) : ~InWindow(run[i])'
        BY <1>1, <3>9 DEF InWindow
      <4>2. \A i \in 1..(Len(run') - (d + n)) : failureTimestamps'[i] = run'[d + n + i]
        BY <3>4, <3>8
      <4> QED BY <3>7, <4>1, <4>2 DEF Counts
    <3>11. TypeOK'
      BY <1>1, <1>2, <2>1, <3>1, <3>4 DEF TypeOK
    <3> QED BY <3>1, <3>6, <3>10, <3>11 DEF CountInv
  <2> QED BY <2>2, <2>3
<1> QED BY <1>1, <1>3, <1>4, <1>5 DEF RecordFailure

LEMMA CountNext ==
    ASSUME CountInv, [Next]_vars
    PROVE  CountInv'
<1>1. TypeOK /\ MaxTime \in Nat
  BY BreakerAssumption DEF CountInv
<1>2. ASSUME NEW r \in Requests, RequestClosed(r) PROVE CountInv'
  <2>1. TypeOK'
    BY <1>1, <1>2 DEF TypeOK, RequestClosed, breakerVars
  <2>2. UNCHANGED <<state, failureTimestamps, run, now>>
    BY <1>2 DEF RequestClosed, breakerVars
  <2> QED BY <2>1, <2>2 DEF CountInv, Counts, InWindow
<1>3. ASSUME NEW r \in Requests, RequestProbe(r) PROVE CountInv'
  <2>1. TypeOK'
    BY <1>1, <1>3 DEF TypeOK, RequestProbe
  <2>2. state # "closed" /\ state' # "closed" /\ UNCHANGED <<failureTimestamps, run>>
    BY <1>3 DEF RequestProbe
  <2> QED BY <2>1, <2>2 DEF CountInv
<1>4. ASSUME NEW r \in Requests, Succeed(r) PROVE CountInv'
  <2>1. run' = <<>> /\ failureTimestamps' = <<>>
    BY <1>4 DEF Succeed, RecordSuccess
  <2>2. flight' \in [Requests -> {NoFlight} \cup [sent : 0..MaxTime, probe : BOOLEAN]]
    BY <1>1, <1>4 DEF TypeOK, Succeed, Ended
  <2>3. /\ state' \in {"closed", "open", "half-open"} /\ probeInFlight' \in BOOLEAN
        /\ openedAt' \in 0..MaxTime /\ now' \in 0..MaxTime
    BY <1>1, <1>4 DEF TypeOK, Succeed, RecordSuccess
  <2>4. currentCooldown' \in InitialCooldown..MaxCooldown
    <3>1. InitialCooldown \in InitialCooldown..MaxCooldown BY BreakerAssumption
    <3>2. currentCooldown' = InitialCooldown \/ currentCooldown' = currentCooldown
      BY <1>4 DEF Succeed, RecordSuccess
    <3> QED BY <1>1, <3>1, <3>2 DEF TypeOK
  <2>5. TypeOK'
    <3>1. <<>> \in Seq(0..MaxTime) OBVIOUS
    <3> QED BY <2>1, <2>2, <2>3, <2>4, <3>1 DEF TypeOK
  <2>6. Counts(0)' /\ 0 \in 0..Len(run')
    BY <2>1 DEF Counts
  <2> QED BY <2>1, <2>5, <2>6 DEF CountInv
<1>5. ASSUME NEW r \in Requests, Fail(r) PROVE CountInv'
  BY <1>5, CountFails
<1>6. CASE Tick
  <2>1. now' = now + 1 /\ UNCHANGED <<breakerVars, flight, run>> /\ now < MaxTime
    BY <1>6 DEF Tick
  <2>2. now \in Nat /\ run \in Seq(0..MaxTime) /\ FailureWindow \in Nat
    BY <1>1, BreakerAssumption DEF TypeOK
  <2>3. TypeOK'
    BY <1>1, <2>1 DEF TypeOK, breakerVars
  <2>4. \A i \in 1..Len(run) : ~InWindow(run[i]) => ~InWindow(run[i])'
    <3> TAKE i \in 1..Len(run)
    <3>1. run[i] \in Nat BY <1>1, <2>2
    <3> QED BY <2>1, <2>2, <3>1 DEF InWindow
  <2>5. \A d \in 0..Len(run) : Counts(d) => Counts(d)'
    <3>1. \A d \in 0..Len(run) : \A i \in 1..d : i \in 1..Len(run)
      BY <2>2
    <3> QED BY <2>1, <2>4, <3>1 DEF Counts, breakerVars
  <2> QED BY <2>1, <2>3, <2>5 DEF CountInv, breakerVars
<1>7. CASE UNCHANGED vars
  BY <1>7 DEF vars, breakerVars, CountInv, TypeOK, Counts, InWindow
<1> QED BY <1>2, <1>3, <1>4, <1>5, <1>6, <1>7 DEF Next

LEMMA CountAlways == Spec => []CountInv
<1>1. Init => CountInv BY CountInit
<1>2. CountInv /\ [Next]_vars => CountInv' BY CountNext
<1> QED BY <1>1, <1>2, PTL DEF Spec

\* The breaker trips at the failure that brings the failures since the last
\* success, trip or recovery to the threshold within one window, and at no other,
\* although it forgets those outside the window (recordFailure).
THEOREM TripsOnTheRun == Spec => TripsOnRun
<1> DEFINE Exact ==
      state = "closed" /\ (\E r \in Requests : Fail(r))
        => (state' = "open" <=>
              \E i \in 1..(Len(run) + 1) :
                  /\ Len(run) + 1 - i + 1 >= FailureThreshold
                  /\ i <= Len(run) => i \in Recent)
<1>1. ASSUME CountInv, [Next]_vars PROVE [Exact]_vars
  <2> SUFFICES ASSUME state = "closed", NEW r \in Requests, Fail(r)
               PROVE  state' = "open" <=>
                        \E i \in 1..(Len(run) + 1) :
                            /\ Len(run) + 1 - i + 1 >= FailureThreshold
                            /\ i <= Len(run) => i \in Recent
    OBVIOUS
  <2>1. TypeOK /\ CountFailure
    BY <1>1 DEF CountInv, Fail, RecordFailure, FailProbe, IgnoreFailure
  <2>2. PICK n \in 0..Len(failureTimestamps), times \in Seq(0..MaxTime) :
           /\ Len(times) = Len(failureTimestamps) + 1
           /\ \A i \in 1..Len(failureTimestamps) : times[i] = failureTimestamps[i]
           /\ Expired(times, n)
           /\ state' = "open" <=> Len(failureTimestamps) + 1 - n >= FailureThreshold
    BY <2>1, Counted
  <2>3. PICK d \in 0..Len(run) : Counts(d)
    BY <1>1 DEF CountInv
  <2>4. /\ Len(run) \in Nat /\ d \in Nat /\ n \in Nat /\ d + n <= Len(run)
        /\ Len(failureTimestamps) = Len(run) - d /\ FailureThreshold \in Nat
    <3>1. Len(run) \in Nat BY <2>1 DEF TypeOK
    <3>2. Len(failureTimestamps) = Len(run) - d BY <2>3, Zenon DEF Counts
    <3>3. d \in Nat /\ d <= Len(run) BY <2>3, <3>1
    <3>4. Len(failureTimestamps) \in Nat BY <3>1, <3>2, <3>3
    <3>5. n \in Nat /\ n <= Len(failureTimestamps) BY <2>2, <3>4
    <3>6. FailureThreshold \in Nat BY BreakerAssumption
    <3> QED BY <3>1, <3>2, <3>3, <3>5, <3>6
  <2>5. \A i \in 1..(d + n) : ~InWindow(run[i])
    <3> TAKE i \in 1..(d + n)
    <3>1. CASE i <= d
      <4>1. i \in 1..d BY <3>1
      <4> QED BY <2>3, <4>1 DEF Counts
    <3>2. CASE i > d
      <4>1. /\ i - d \in 1..n /\ i - d \in 1..Len(failureTimestamps)
            /\ i - d \in 1..(Len(run) - d) /\ d + (i - d) = i
        BY <2>4, <3>2
      <4>2. times[i - d] = run[i] BY <2>2, <2>3, <4>1 DEF Counts
      <4> QED BY <2>2, <4>1, <4>2 DEF Expired
    <3> QED BY <2>4, <3>1, <3>2
  <2>6. d + n + 1 <= Len(run) => InWindow(run[d + n + 1])
    <3> HAVE d + n + 1 <= Len(run)
    <3>1. /\ n + 1 \in 1..(Len(run) - d) /\ n + 1 \in 1..Len(failureTimestamps)
          /\ n + 1 \in (n + 1)..Len(times) /\ d + (n + 1) = d + n + 1
      BY <2>2, <2>4
    <3>2. times[n + 1] = run[d + n + 1] BY <2>2, <2>3, <3>1 DEF Counts
    <3> QED BY <2>2, <3>1, <3>2 DEF Expired
  <2>7. ASSUME state' = "open"
        PROVE  \E i \in 1..(Len(run) + 1) :
                   /\ Len(run) + 1 - i + 1 >= FailureThreshold
                   /\ i <= Len(run) => i \in Recent
    <3>1. PICK i \in 1..(Len(run) + 1) : i = d + n + 1
      <4>1. d + n + 1 \in 1..(Len(run) + 1) BY <2>4
      <4> QED BY <4>1
    <3>2. Len(run) + 1 - i + 1 >= FailureThreshold
      <4>1. Len(failureTimestamps) + 1 - n >= FailureThreshold BY <2>2, <2>7
      <4> QED BY <2>4, <3>1, <4>1
    <3>3. i <= Len(run) => i \in Recent
      <4>1. i <= Len(run) => i \in 1..Len(run) BY <2>4, <3>1
      <4> QED BY <2>6, <3>1, <4>1 DEF Recent
    <3> QED BY <3>2, <3>3
  <2>8. ASSUME NEW i \in 1..(Len(run) + 1), Len(run) + 1 - i + 1 >= FailureThreshold,
               i <= Len(run) => i \in Recent
        PROVE  state' = "open"
    <3>1. ~(i <= d + n)
      <4> SUFFICES ASSUME i <= d + n PROVE FALSE
        OBVIOUS
      <4>1. i \in 1..(d + n) /\ i <= Len(run) BY <2>4
      <4> QED BY <2>5, <2>8, <4>1 DEF Recent
    <3>2. Len(failureTimestamps) + 1 - n >= FailureThreshold
      BY <2>4, <2>8, <3>1
    <3> QED BY <2>2, <3>2
  <2> QED BY <2>7, <2>8
<1> QED BY <1>1, CountAlways, PTL DEF Spec, TripsOnRun

-----------------------------------------------------------------------------
(* LedgerDevice.  A signature relies on the check of its own device against *)
(* the id, on the id being that of the open transport, and on no connection *)
(* running beside it.                                                      *)

\* What a signature relies on: its own device was checked against the id, the
\* id is that of the open transport, and no connection runs beside it.
LedgerInv == Ledger!IdOfTransport /\ Ledger!RightDevice

-----------------------------------------------------------------------------
(* Type correctness.                                                       *)

LEMMA LedgerTypeInit == ASSUME Ledger!Init PROVE Ledger!TypeOK
BY ComponentConstants DEF Ledger!Init, Ledger!TypeOK, Ledger!Idle, Ledger!Operations

\* The head of the queue begins.
LEMMA LedgerBeginTyped == ASSUME Ledger!TypeOK, Ledger!Begin PROVE Ledger!TypeOK'
<1>1. Head(lQueue) \in Ledger!Operations /\ Tail(lQueue) \in Seq(Ledger!Operations)
  BY DEF Ledger!TypeOK, Ledger!Begin
<1>2. Ledger!Running(Head(lQueue)) \in
          [kind : {"connect"}, device : {NoDevice},
           at : {"begin", "identify", "failed", "accounts"}] \cup
          [kind : {"sign", "derive"}, device : Devices, at : {"begin", "lookup", "device"}]
  BY <1>1 DEF Ledger!Running, Ledger!Operations, Ledger!Connect
<1> QED BY <1>1, <1>2 DEF Ledger!TypeOK, Ledger!Begin, Ledger!usb, Ledger!events

\* An operation that goes on, or ends.
LEMMA LedgerOperationTyped ==
    ASSUME Ledger!TypeOK,
           \/ Ledger!End
           \/ Ledger!At({"connect"}, lOperation.at)
              /\ \E p \in {"identify", "failed", "accounts"} : Ledger!To(p)
           \/ Ledger!At({"sign", "derive"}, lOperation.at)
              /\ \E p \in {"lookup", "device"} : Ledger!To(p)
    PROVE  lOperation' \in {Ledger!Idle} \cup
              [kind : {"connect"}, device : {NoDevice},
               at : {"begin", "identify", "failed", "accounts"}] \cup
              [kind : {"sign", "derive"}, device : Devices, at : {"begin", "lookup", "device"}]
BY DEF Ledger!TypeOK, Ledger!End, Ledger!To, Ledger!At, Ledger!Idle

LEMMA LedgerOperateTyped == ASSUME Ledger!TypeOK, Ledger!Operate PROVE Ledger!TypeOK'
<1>1. CASE Ledger!Begin BY <1>1, LedgerBeginTyped
<1>2. CASE ~Ledger!Begin
  <2>1. Ledger!Inside
    BY <1>2
       DEF Ledger!Operate, Ledger!OpenTransport, Ledger!Identify,
           Ledger!ReadAccounts, Ledger!FailConnection, Ledger!CheckConnection,
           Ledger!CheckCanSign, Ledger!DeviceAnswers
  <2>2. lRemovals' = lRemovals
    BY <1>2
       DEF Ledger!Operate, Ledger!OpenTransport, Ledger!Identify,
           Ledger!ReadAccounts, Ledger!FailConnection, Ledger!CheckConnection,
           Ledger!CheckCanSign, Ledger!DeviceAnswers
  <2>3. {lTransport', lCurrentId'} \subseteq Devices \cup {NoDevice}
    BY <1>2
       DEF Ledger!Operate, Ledger!OpenTransport, Ledger!Identify,
           Ledger!ReadAccounts, Ledger!FailConnection, Ledger!CheckConnection,
           Ledger!CheckCanSign, Ledger!DeviceAnswers, Ledger!TypeOK
  <2>4. \/ Ledger!End
        \/ Ledger!At({"connect"}, lOperation.at)
           /\ \E p \in {"identify", "failed", "accounts"} : Ledger!To(p)
        \/ Ledger!At({"sign", "derive"}, lOperation.at)
           /\ \E p \in {"lookup", "device"} : Ledger!To(p)
    BY <1>2
       DEF Ledger!Operate, Ledger!OpenTransport, Ledger!Identify,
           Ledger!ReadAccounts, Ledger!FailConnection, Ledger!CheckConnection,
           Ledger!CheckCanSign, Ledger!DeviceAnswers, Ledger!At
  <2> QED
    BY <2>1, <2>2, <2>3, <2>4, LedgerOperationTyped
       DEF Ledger!TypeOK, Ledger!Inside, Ledger!usb
<1> QED BY <1>1, <1>2

LEMMA LedgerUsbTyped ==
    ASSUME Ledger!TypeOK,
           \/ \E d \in Devices : Ledger!Plug(d)
           \/ Ledger!Unplug \/ Ledger!HandleConnect \/ Ledger!HandleRefresh
           \/ Ledger!HandleDisconnect
    PROVE  Ledger!TypeOK'
<1>1. ASSUME NEW d \in Devices, Ledger!Plug(d) PROVE Ledger!TypeOK'
  BY <1>1, ComponentConstants DEF Ledger!TypeOK, Ledger!Plug
<1>2. CASE Ledger!Unplug
  BY <1>2, ComponentConstants DEF Ledger!TypeOK, Ledger!Unplug
<1>3. CASE Ledger!HandleConnect
  <2>1. Ledger!Connect \in Ledger!Operations BY DEF Ledger!Operations
  <2> QED BY <1>3, <2>1 DEF Ledger!TypeOK, Ledger!HandleConnect, Ledger!usb
<1>4. CASE Ledger!HandleRefresh
  <2>1. Ledger!Connect \in Ledger!Operations BY DEF Ledger!Operations
  <2> QED BY <1>4, <2>1 DEF Ledger!TypeOK, Ledger!HandleRefresh, Ledger!usb
<1>5. CASE Ledger!HandleDisconnect
  BY <1>5 DEF Ledger!TypeOK, Ledger!HandleDisconnect, Ledger!usb
<1> QED BY <1>1, <1>2, <1>3, <1>4, <1>5

LEMMA LedgerCallsTyped ==
    ASSUME Ledger!TypeOK,
           \/ Ledger!Start \/ Ledger!RequestRefresh
           \/ \E o \in Ledger!Operations \ {Ledger!Connect} : Ledger!Request(o)
           \/ Ledger!AskMessage \/ Ledger!MessageAccount \/ Ledger!MessageAnswered
    PROVE  Ledger!TypeOK'
<1>1. CASE Ledger!Start
  BY <1>1
     DEF Ledger!TypeOK, Ledger!Start, Ledger!StartService, Ledger!EndStart,
         Ledger!usb, Ledger!events
<1>2. CASE Ledger!RequestRefresh
  BY <1>2, ComponentConstants DEF Ledger!TypeOK, Ledger!RequestRefresh, Ledger!usb
<1>3. ASSUME NEW o \in Ledger!Operations, Ledger!Request(o) PROVE Ledger!TypeOK'
  BY <1>3, ComponentConstants
     DEF Ledger!TypeOK, Ledger!Request, Ledger!usb, Ledger!events
<1>4. CASE Ledger!AskMessage
  BY <1>4, ComponentConstants
     DEF Ledger!TypeOK, Ledger!AskMessage, Ledger!usb, Ledger!events
<1>5. CASE Ledger!MessageAccount
  BY <1>5 DEF Ledger!TypeOK, Ledger!MessageAccount, Ledger!usb, Ledger!events
<1>6. CASE Ledger!MessageAnswered
  BY <1>6 DEF Ledger!TypeOK, Ledger!MessageAnswered, Ledger!usb, Ledger!events
<1> QED BY <1>1, <1>2, <1>3, <1>4, <1>5, <1>6

\* Every variable of the service has its type in every reachable state.
THEOREM LedgerTypes == Ledger!Spec => []Ledger!TypeOK
<1>1. Ledger!Init => Ledger!TypeOK BY LedgerTypeInit
<1>2. Ledger!TypeOK /\ [Ledger!Next]_(Ledger!vars) => Ledger!TypeOK'
  <2> SUFFICES ASSUME Ledger!TypeOK, [Ledger!Next]_(Ledger!vars) PROVE Ledger!TypeOK'
    OBVIOUS
  <2>1. CASE UNCHANGED Ledger!vars
    BY <2>1 DEF Ledger!vars, Ledger!usb, Ledger!events, Ledger!TypeOK
  <2>2. CASE Ledger!Next
    BY <2>2, LedgerOperateTyped, LedgerUsbTyped, LedgerCallsTyped DEF Ledger!Next
  <2> QED BY <2>1, <2>2
<1> QED BY <1>1, <1>2, PTL DEF Ledger!Spec

-----------------------------------------------------------------------------
(* Serialised signatures reach the device that was checked.                *)

\* What is outside the queue of operations leaves the transport alone, and at
\* most forgets the id.
LEMMA LedgerOutsideStep ==
    ASSUME LedgerInv, UNCHANGED <<lTransport, lOperation>>,
           lCurrentId' \in {lCurrentId, NoDevice}
    PROVE  LedgerInv'
BY DEF LedgerInv, Ledger!IdOfTransport, Ledger!RightDevice, Ledger!At

LEMMA LedgerOperateRight ==
    ASSUME Ledger!TypeOK, LedgerInv, Ledger!Operate PROVE LedgerInv'
<1> USE DEF LedgerInv, Ledger!IdOfTransport, Ledger!RightDevice, Ledger!At,
            Ledger!To, Ledger!End, Ledger!Idle
<1>1. CASE Ledger!Begin BY <1>1 DEF Ledger!Begin, Ledger!Running
<1>2. CASE Ledger!OpenTransport
  <2>1. lOperation.kind = "connect" /\ lOperation'.kind = "connect"
    BY <1>2 DEF Ledger!OpenTransport, Ledger!TypeOK
  <2>2. lOperation'.at \in {"identify", "failed"}
    BY <1>2 DEF Ledger!OpenTransport, Ledger!TypeOK
  <2> QED BY <2>1, <2>2
<1>3. CASE Ledger!Identify
  <2>1. lOperation'.kind = "connect" BY <1>3 DEF Ledger!Identify, Ledger!TypeOK
  <2>2. \/ lOperation'.at = "failed"
        \/ lOperation'.at = "accounts" /\ lCurrentId' = lTransport'
    BY <1>3 DEF Ledger!Identify, Ledger!TypeOK
  <2> QED BY <2>1, <2>2
<1>4. CASE Ledger!ReadAccounts
  <2>1. UNCHANGED <<lTransport, lCurrentId>> BY <1>4 DEF Ledger!ReadAccounts
  <2>2. \/ lOperation'.kind = "none"
        \/ lOperation'.kind = "connect" /\ lOperation'.at = "failed"
    BY <1>4 DEF Ledger!ReadAccounts, Ledger!TypeOK
  <2>3. lOperation.at = "accounts" BY <1>4 DEF Ledger!ReadAccounts
  <2> QED BY <2>1, <2>2, <2>3
<1>5. CASE Ledger!FailConnection
  <2>1. lOperation'.kind = "none" /\ lCurrentId' = NoDevice
    BY <1>5 DEF Ledger!FailConnection
  <2> QED BY <2>1
<1>6. CASE Ledger!CheckConnection
  <2>1. UNCHANGED <<lTransport, lCurrentId>> BY <1>6 DEF Ledger!CheckConnection
  <2>2. lOperation.kind \in {"sign", "derive"} BY <1>6 DEF Ledger!CheckConnection
  <2>3. \/ lOperation'.kind = "none"
        \/ lOperation'.kind = "derive"
        \/ lOperation'.kind = "sign" /\ lOperation'.at = "lookup"
    BY <1>6 DEF Ledger!CheckConnection, Ledger!TypeOK
  <2> QED BY <2>1, <2>2, <2>3
<1>7. CASE Ledger!CheckCanSign
  <2>1. UNCHANGED <<lTransport, lCurrentId>> BY <1>7 DEF Ledger!CheckCanSign
  <2>2. lOperation.kind = "sign" /\ lOperation.device \in Devices
    BY <1>7 DEF Ledger!CheckCanSign, Ledger!TypeOK
  <2>3. CASE lOperation.device = lCurrentId
    <3>1. lTransport = lOperation.device BY <2>2, <2>3, ComponentConstants
    <3>2. lOperation'.kind = "sign" /\ lOperation'.device = lOperation.device
      BY <1>7, <2>2, <2>3 DEF Ledger!CheckCanSign, Ledger!TypeOK
    <3> QED BY <2>1, <2>2, <3>1, <3>2
  <2>4. CASE lOperation.device # lCurrentId
    <3>1. lOperation'.kind = "none" BY <1>7, <2>4 DEF Ledger!CheckCanSign
    <3> QED BY <2>1, <2>2, <3>1
  <2> QED BY <2>3, <2>4
<1>8. CASE Ledger!DeviceAnswers
  <2>1. UNCHANGED <<lTransport, lCurrentId>> /\ lOperation'.kind = "none"
    BY <1>8 DEF Ledger!DeviceAnswers
  <2>2. lOperation.kind \in {"sign", "derive"} BY <1>8 DEF Ledger!DeviceAnswers
  <2> QED BY <2>1, <2>2
<1> QED BY <1>1, <1>2, <1>3, <1>4, <1>5, <1>6, <1>7, <1>8 DEF Ledger!Operate

LEMMA LedgerRightAlways == Ledger!Spec => []LedgerInv
<1>1. Ledger!Init => LedgerInv
  BY DEF Ledger!Init, LedgerInv, Ledger!IdOfTransport, Ledger!RightDevice,
         Ledger!At, Ledger!Idle
<1>2. Ledger!TypeOK /\ LedgerInv /\ [Ledger!Next]_(Ledger!vars) => LedgerInv'
  <2> SUFFICES ASSUME Ledger!TypeOK, LedgerInv, [Ledger!Next]_(Ledger!vars)
               PROVE  LedgerInv'
    OBVIOUS
  <2>1. CASE Ledger!Operate BY <2>1, LedgerOperateRight
  <2>2. CASE ~Ledger!Operate
    <3>1. UNCHANGED <<lTransport, lOperation>> /\ lCurrentId' \in {lCurrentId, NoDevice}
      BY <2>2
         DEF Ledger!Next, Ledger!Start, Ledger!StartService, Ledger!EndStart,
             Ledger!Plug, Ledger!Unplug, Ledger!HandleConnect, Ledger!HandleRefresh,
             Ledger!HandleDisconnect, Ledger!Request, Ledger!RequestRefresh,
             Ledger!AskMessage, Ledger!MessageAccount, Ledger!MessageAnswered,
             Ledger!vars
    <3> QED BY <3>1, LedgerOutsideStep
  <2> QED BY <2>1, <2>2
<1> QED BY <1>1, <1>2, LedgerTypes, PTL DEF Ledger!Spec

\* Outside a connection the id is that of the open transport: an address is
\* always noted under the Ledger that derived it (connectLedger, deriveAddress).
THEOREM IdIsOfTransport == Ledger!Spec => []Ledger!IdOfTransport
<1>1. LedgerInv => Ledger!IdOfTransport BY DEF LedgerInv
<1> QED BY <1>1, LedgerRightAlways, PTL

-----------------------------------------------------------------------------
(* StorePersistence.  What is being written lies between what is stored and *)
(* what is queued, and that lies before the present state.                 *)

\* At most one write is under way, and only then is a state queued; what is
\* stored, written, queued and present is in that order.
StoreInOrder ==
    /\ \A s, t \in pWriting : s = t
    /\ pWriting = {} => pQueued = <<>>
    /\ pDisk <= pStore
    /\ \A s \in pWriting : pDisk <= s /\ s <= pStore
    /\ \A s \in pWriting, q \in Persistence!ToSet(pQueued) : s <= q /\ q <= pStore

StoreInv == Persistence!TypeOK /\ StoreInOrder

-----------------------------------------------------------------------------
(* A queue of one state, or none.                                          *)

LEMMA StoreQueueOf ==
    ASSUME Persistence!TypeOK
    PROVE  /\ Persistence!ToSet(pQueued) \subseteq Persistence!States
           /\ \A s, t \in Persistence!ToSet(pQueued) : s = t
           /\ pQueued = <<>> => Persistence!ToSet(pQueued) = {}
<1>1. Persistence!ToSet(pQueued) = {pQueued[i] : i \in 1..Len(pQueued)}
  BY DEF Persistence!ToSet, Persistence!TypeOK
<1>2. \A i, j \in 1..Len(pQueued) : i = j /\ pQueued[i] \in Persistence!States
  BY DEF Persistence!TypeOK
<1> QED BY <1>1, <1>2

LEMMA StoreQueueOfOne ==
    ASSUME NEW s \in Persistence!States
    PROVE  /\ <<s>> \in Seq(Persistence!States) /\ Len(<<s>>) <= 1
           /\ Persistence!ToSet(<<s>>) = {s}
BY DEF Persistence!ToSet

LEMMA StoreEmptyQueue ==
    Persistence!ToSet(<<>>) = {} /\ <<>> \in Seq(Persistence!States) /\ Len(<<>>) <= 1
BY DEF Persistence!ToSet

LEMMA StoreInitInv == ASSUME Persistence!Init PROVE StoreInv
<1>1. /\ 0 \in Persistence!States /\ 0 \in 0..WriteFailures /\ 0 \in 0..StoreRestarts
  BY ComponentConstants DEF Persistence!States
<1>2. Persistence!TypeOK
  BY <1>1, StoreEmptyQueue DEF Persistence!Init, Persistence!TypeOK
<1>3. StoreInOrder BY StoreEmptyQueue DEF Persistence!Init, StoreInOrder
<1> QED BY <1>2, <1>3 DEF StoreInv

-----------------------------------------------------------------------------
(* One step each.                                                          *)

LEMMA StoreChangeInv ==
    ASSUME StoreInv, Persistence!Change
    PROVE  StoreInv' /\ Persistence!Stored!Change
<1>0. pStore \in Persistence!States BY DEF StoreInv, Persistence!TypeOK
<1>1. pStore \in Nat /\ pStore' \in Persistence!States /\ pStore' = pStore + 1
  BY <1>0, ComponentConstants DEF Persistence!States, Persistence!Change
<1>2. Persistence!TypeOK'
  BY <1>1 DEF StoreInv, Persistence!TypeOK, Persistence!Change, Persistence!States
<1>3. /\ pDisk \in Persistence!States /\ pWriting \subseteq Persistence!States
      /\ Persistence!ToSet(pQueued) \subseteq Persistence!States
      /\ Persistence!States \subseteq Int
  BY StoreQueueOf, ComponentConstants
     DEF StoreInv, Persistence!TypeOK, Persistence!States
<1>4. StoreInOrder'
  <2>1. UNCHANGED <<pWriting, pQueued, pDisk>> BY DEF Persistence!Change
  <2>2. \A n \in Int : n <= pStore => n <= pStore' BY <1>1
  <2> QED BY <1>3, <2>1, <2>2 DEF StoreInv, StoreInOrder
<1> QED
  BY <1>1, <1>2, <1>4 DEF StoreInv, Persistence!Stored!Change, Persistence!Change

LEMMA StorePersistInv ==
    ASSUME StoreInv, Persistence!Persist
    PROVE  StoreInv' /\ UNCHANGED <<pStore, pDisk>>
<1>1. pStore \in Persistence!States /\ Persistence!States \subseteq Int
  BY ComponentConstants DEF StoreInv, Persistence!TypeOK, Persistence!States
<1>2. CASE pWriting = {}
  <2>1. pWriting' = {pStore} /\ pQueued' = pQueued /\ pQueued = <<>>
    BY <1>2 DEF Persistence!Persist, StoreInv, StoreInOrder
  <2>2. Persistence!TypeOK'
    BY <1>1, <2>1 DEF StoreInv, Persistence!TypeOK, Persistence!Persist
  <2>3. StoreInOrder'
    BY <1>1, <2>1, StoreEmptyQueue DEF StoreInv, StoreInOrder, Persistence!Persist
  <2> QED BY <2>2, <2>3 DEF StoreInv, Persistence!Persist
<1>3. CASE pWriting # {}
  <2>1. pWriting' = pWriting /\ pQueued' = <<pStore>>
    BY <1>3 DEF Persistence!Persist
  <2>2. Persistence!TypeOK'
    BY <1>1, <2>1, StoreQueueOfOne
       DEF StoreInv, Persistence!TypeOK, Persistence!Persist
  <2>3. StoreInOrder'
    BY <1>1, <1>3, <2>1, StoreQueueOfOne
       DEF StoreInv, StoreInOrder, Persistence!Persist
  <2> QED BY <2>2, <2>3 DEF StoreInv, Persistence!Persist
<1> QED BY <1>2, <1>3

\* The write that ends was the only one; what was queued, if anything, is next.
LEMMA StoreWriteEnds ==
    ASSUME StoreInv, NEW s \in pWriting, Persistence!WriteNext(s),
           pDisk' \in {pDisk, s},
           pFailures' \in 0..WriteFailures, pFailed' \in BOOLEAN
    PROVE  /\ StoreInv'
           /\ pStore' = pStore /\ pDisk' \in pDisk..pStore
<1>1. /\ pStore \in Persistence!States /\ pDisk \in Persistence!States
      /\ s \in Persistence!States
      /\ Persistence!ToSet(pQueued) \subseteq Persistence!States
      /\ Persistence!States \subseteq Int
  BY StoreQueueOf, ComponentConstants
     DEF StoreInv, Persistence!TypeOK, Persistence!States
<1>2. /\ pWriting' = Persistence!ToSet(pQueued) /\ pQueued' = <<>>
      /\ UNCHANGED <<pStore, pUnwritten, pRestarts>>
  BY DEF Persistence!WriteNext, StoreInv, StoreInOrder
<1>3. /\ pDisk <= s /\ s <= pStore
      /\ \A q \in Persistence!ToSet(pQueued) : s <= q /\ q <= pStore
  BY DEF StoreInv, StoreInOrder
<1>4. Persistence!TypeOK'
  BY <1>1, <1>2, StoreEmptyQueue DEF StoreInv, Persistence!TypeOK
<1>5. \A q, t \in pWriting' : q = t BY <1>2, StoreQueueOf DEF StoreInv
<1>6. Persistence!ToSet(pQueued') = {} BY <1>2, StoreEmptyQueue
<1>7. pDisk' <= pStore' /\ \A q \in pWriting' : pDisk' <= q /\ q <= pStore'
  <2>1. pDisk' \in Int /\ pDisk' <= s /\ pStore' = pStore BY <1>1, <1>2, <1>3
  <2>2. ASSUME NEW q \in Persistence!ToSet(pQueued) PROVE pDisk' <= q /\ q <= pStore
    <3>1. q \in Int /\ s <= q /\ q <= pStore /\ s \in Int BY <1>1, <1>3
    <3> QED BY <2>1, <3>1
  <2>3. pDisk' <= pStore BY <1>1, <1>3, <2>1
  <2> QED BY <1>2, <2>1, <2>2, <2>3
<1>8. StoreInOrder' BY <1>2, <1>5, <1>6, <1>7 DEF StoreInOrder
<1> QED BY <1>1, <1>2, <1>3, <1>4, <1>8 DEF StoreInv

LEMMA StoreSaveInv ==
    ASSUME StoreInv, Persistence!Save
    PROVE  StoreInv' /\ (Persistence!Stored!CatchUp \/ UNCHANGED <<pStore, pDisk>>)
<1>1. CASE Persistence!Persist BY <1>1, StorePersistInv
<1>2. ASSUME NEW s \in pWriting, Persistence!Written(s) \/ Persistence!WriteFails(s)
      PROVE  StoreInv' /\ Persistence!Stored!CatchUp
  <2>0. pFailures \in 0..WriteFailures BY DEF StoreInv, Persistence!TypeOK
  <2>1. Persistence!WriteNext(s) /\ pDisk' \in {pDisk, s} /\ pFailed' \in BOOLEAN
    BY <1>2 DEF Persistence!Written, Persistence!WriteFails
  <2>2. pFailures' \in 0..WriteFailures
    BY <1>2, <2>0, ComponentConstants DEF Persistence!Written, Persistence!WriteFails
  <2> QED BY <2>1, <2>2, StoreWriteEnds DEF Persistence!Stored!CatchUp
<1> QED BY <1>1, <1>2 DEF Persistence!Save

LEMMA StoreRestartInv ==
    ASSUME StoreInv, Persistence!Restart
    PROVE  StoreInv' /\ Persistence!Stored!Restore
<1>1. pDisk \in Persistence!States /\ Persistence!States \subseteq Int
  BY ComponentConstants DEF StoreInv, Persistence!TypeOK, Persistence!States
<1>2. Persistence!TypeOK'
  <2>1. pRestarts \in 0..StoreRestarts BY DEF StoreInv, Persistence!TypeOK
  <2>2. pRestarts' \in 0..StoreRestarts
    BY <2>1, ComponentConstants DEF Persistence!Restart
  <2> QED
    BY <1>1, <2>2, StoreEmptyQueue
       DEF StoreInv, Persistence!TypeOK, Persistence!Restart
<1>3. StoreInOrder' BY <1>1, StoreEmptyQueue DEF StoreInOrder, Persistence!Restart
<1> QED BY <1>2, <1>3 DEF StoreInv, Persistence!Stored!Restore, Persistence!Restart

-----------------------------------------------------------------------------

LEMMA StoreNextInv ==
    ASSUME StoreInv, [Persistence!Next]_(Persistence!vars)
    PROVE  StoreInv' /\ [Persistence!Stored!Next]_<<pStore, pDisk>>
<1>1. CASE Persistence!Change BY <1>1, StoreChangeInv DEF Persistence!Stored!Next
<1>2. CASE Persistence!Save BY <1>2, StoreSaveInv DEF Persistence!Stored!Next
<1>3. CASE Persistence!Restart
  BY <1>3, StoreRestartInv DEF Persistence!Stored!Next
<1>4. CASE UNCHANGED Persistence!vars
  BY <1>4 DEF Persistence!vars, StoreInv, Persistence!TypeOK, StoreInOrder
<1> QED BY <1>1, <1>2, <1>3, <1>4 DEF Persistence!Next

LEMMA StoreTypes == Persistence!Spec => []Persistence!TypeOK
<1>1. Persistence!Init => StoreInv BY StoreInitInv
<1>2. StoreInv /\ [Persistence!Next]_(Persistence!vars) => StoreInv' BY StoreNextInv
<1>3. StoreInv => Persistence!TypeOK BY DEF StoreInv
<1> QED BY <1>1, <1>2, <1>3, PTL DEF Persistence!Spec

\* persistStore implements a following copy.
LEMMA StoreFollows == Persistence!Spec => Persistence!StorageFollows
<1>1. Persistence!Init => StoreInv /\ Persistence!Stored!Init
  BY StoreInitInv DEF Persistence!Init, Persistence!Stored!Init
<1>2. StoreInv /\ [Persistence!Next]_(Persistence!vars)
          => StoreInv' /\ [Persistence!Stored!Next]_<<pStore, pDisk>>
  BY StoreNextInv
<1> QED
  BY <1>1, <1>2, PTL
     DEF Persistence!Spec, Persistence!StorageFollows, Persistence!Stored!Spec

-----------------------------------------------------------------------------
(* RpcBatches.  Requests are numbered as they are made, so those that wait *)
(* are in order, and a batch is the front of them.                         *)

\* Every request is made after those with smaller numbers.
MadeInTurn ==
    \A r \in Batches!Ids :
        bOutcome[r] # "none" => \A q \in 1..(r - 1) : bOutcome[q] # "none"

BatchTypes ==
    /\ bPending \in Seq(Batches!Ids)
    /\ bFlying \subseteq Seq(Batches!Ids)
    /\ bOutcome \in [Batches!Ids -> {"none", "waiting", "resolved", "rejected"}]

BatchInv == BatchTypes /\ MadeInTurn /\ InOrder

\* What is in flight was made, and nothing in flight waits.
LEMMA BatchFacts ==
    ASSUME BatchInv
    PROVE  /\ Batches!Ids \subseteq Nat
           /\ \A s \in Seq(Batches!Ids) : \A r :
                 r \in Batches!ToSet(s) <=> \E i \in 1..Len(s) : s[i] = r
           /\ \A s \in Seq(Batches!Ids) : Batches!ToSet(s) \subseteq Batches!Ids
           /\ \A r \in Batches!ToSet(bPending) : Batches!Flown(r) = {}
           /\ \A r : r \in Batches!ToSet(bPending) \/ Batches!Flown(r) # {}
                        => r \in Batches!Ids /\ bOutcome[r] = "waiting"
<1>1. Batches!Ids \subseteq Nat
  BY DEF Batches!Ids
<1>2. \A s \in Seq(Batches!Ids) : \A r :
          r \in Batches!ToSet(s) <=> \E i \in 1..Len(s) : s[i] = r
  BY DEF Batches!ToSet
<1>3. \A s \in Seq(Batches!Ids) : Batches!ToSet(s) \subseteq Batches!Ids
  BY DEF Batches!ToSet
<1>4. \A r : r \in Batches!ToSet(bPending) \/ Batches!Flown(r) # {}
                => r \in Batches!Ids
  BY <1>3 DEF BatchInv, BatchTypes, Batches!Flown
<1>5. \A r : r \in Batches!ToSet(bPending) \/ Batches!Flown(r) # {}
                => r \in Batches!Ids /\ bOutcome[r] = "waiting"
  BY <1>4 DEF BatchInv, InOrder, Batches!InOrder
<1>6. \A r \in Batches!ToSet(bPending) : Batches!Flown(r) = {}
  <2> SUFFICES ASSUME NEW r \in Batches!ToSet(bPending), Batches!Flown(r) # {}
               PROVE  FALSE
    OBVIOUS
  <2>1. PICK i \in 1..Len(bPending) : bPending[i] = r
    BY <1>2 DEF BatchInv, BatchTypes
  <2>2. r \in Batches!Ids /\ r \in Nat BY <1>1, <1>4
  <2>3. i \in DOMAIN bPending BY DEF BatchInv, BatchTypes
  <2>4. r < bPending[i]
    BY <2>2, <2>3 DEF BatchInv, InOrder, Batches!InOrder
  <2> QED BY <2>1, <2>2, <2>4
<1> QED BY <1>1, <1>2, <1>3, <1>5, <1>6

\* The request made now comes after all that were made.
LEMMA BatchSend ==
    ASSUME BatchInv, NEW r \in Batches!Ids, Batches!Send(r)
    PROVE  BatchInv'
<1>1. /\ bOutcome' = [bOutcome EXCEPT ![r] = "waiting"] /\ bOutcome[r] = "none"
      /\ \A q \in 1..(r - 1) : bOutcome[q] # "none"
      /\ bPending' = Append(bPending, r) /\ bFlying' = bFlying
  BY DEF Batches!Send
<1>2. BatchTypes'
  BY <1>1 DEF BatchInv, BatchTypes
<1>3. MadeInTurn'
  <2> SUFFICES ASSUME NEW p \in Batches!Ids, bOutcome'[p] # "none",
                      NEW q \in 1..(p - 1)
               PROVE  bOutcome'[q] # "none"
    BY DEF MadeInTurn
  <2>1. q \in Batches!Ids BY ComponentConstants DEF Batches!Ids
  <2>2. bOutcome[q] # "none" \/ q = r
    BY <1>1 DEF BatchInv, BatchTypes, MadeInTurn
  <2> QED BY <1>1, <2>1, <2>2 DEF BatchInv, BatchTypes
<1>4. \A q \in Batches!Ids : bOutcome[q] # "none" => q < r
  <2> SUFFICES ASSUME NEW q \in Batches!Ids, bOutcome[q] # "none" PROVE q < r
    OBVIOUS
  <2>1. q \in Nat /\ r \in Nat /\ r >= 1 BY DEF Batches!Ids
  <2>2. q # r BY <1>1
  <2>3. ~(r \in 1..(q - 1)) BY <1>1 DEF BatchInv, MadeInTurn
  <2> QED BY <2>1, <2>2, <2>3
<1>5. Len(bPending') = Len(bPending) + 1 /\ Len(bPending) \in Nat
      /\ bPending'[Len(bPending) + 1] = r
      /\ \A i \in 1..Len(bPending) : bPending'[i] = bPending[i]
  BY <1>1 DEF BatchInv, BatchTypes
<1>6. \A i \in 1..Len(bPending) : bPending[i] \in Batches!Ids /\ bPending[i] < r
  <2> TAKE i \in 1..Len(bPending)
  <2>1. bPending[i] \in Batches!ToSet(bPending)
    BY BatchFacts DEF BatchInv, BatchTypes
  <2> QED BY <1>4, <2>1, BatchFacts
<1>7. \A i, j \in DOMAIN bPending' : i < j => bPending'[i] < bPending'[j]
  <2>1. /\ DOMAIN bPending' = 1..(Len(bPending) + 1)
        /\ DOMAIN bPending = 1..Len(bPending)
    BY <1>2, <1>5 DEF BatchInv, BatchTypes
  <2> TAKE i, j \in DOMAIN bPending'
  <2> HAVE i < j
  <2>2. i \in 1..Len(bPending) BY <1>5, <2>1
  <2>3. CASE j = Len(bPending) + 1 BY <1>5, <1>6, <2>2, <2>3
  <2>4. CASE j # Len(bPending) + 1
    <3>1. j \in 1..Len(bPending) BY <1>5, <2>1, <2>4
    <3> QED BY <1>5, <2>1, <2>2, <3>1 DEF BatchInv, InOrder, Batches!InOrder
  <2> QED BY <2>3, <2>4
<1>8. \A q : Batches!Flown(q)' = Batches!Flown(q)
  BY <1>1 DEF Batches!Flown
<1>9. \A q \in Batches!Ids : Batches!Flown(q)' # {}
          => \A i \in DOMAIN bPending' : q < bPending'[i]
  <2> SUFFICES ASSUME NEW q \in Batches!Ids, Batches!Flown(q) # {},
                      NEW i \in 1..(Len(bPending) + 1)
               PROVE  q < bPending'[i]
    BY <1>2, <1>5, <1>8 DEF BatchTypes
  <2>1. q < r BY <1>4, BatchFacts
  <2>2. CASE i = Len(bPending) + 1 BY <1>5, <2>1, <2>2
  <2>3. CASE i # Len(bPending) + 1
    <3>1. i \in 1..Len(bPending) BY <1>5, <2>3
    <3> QED BY <1>5, <3>1 DEF BatchInv, BatchTypes, InOrder, Batches!InOrder
  <2> QED BY <2>2, <2>3
<1>10. Batches!ToSet(bPending') = Batches!ToSet(bPending) \cup {r}
  <2>1. \A q : q \in Batches!ToSet(bPending') <=>
                  \E i \in 1..(Len(bPending) + 1) : bPending'[i] = q
    BY <1>2, <1>5, BatchFacts DEF BatchTypes
  <2>2. \A q : q \in Batches!ToSet(bPending)
                  <=> \E i \in 1..Len(bPending) : bPending[i] = q
    BY BatchFacts DEF BatchInv, BatchTypes
  <2>3. \A q : (\E i \in 1..(Len(bPending) + 1) : bPending'[i] = q) <=>
                  q = r \/ \E i \in 1..Len(bPending) : bPending[i] = q
    BY <1>5
  <2> QED BY <2>1, <2>2, <2>3
<1>11. \A q \in Batches!Ids : bOutcome'[q] = "waiting" <=>
           q \in Batches!ToSet(bPending') \/ Batches!Flown(q)' # {}
  BY <1>1, <1>8, <1>10
     DEF BatchInv, BatchTypes, InOrder, Batches!InOrder
<1>12. \A batch, other \in bFlying' :
           batch # other => Batches!ToSet(batch) \cap Batches!ToSet(other) = {}
  BY <1>1 DEF BatchInv, InOrder, Batches!InOrder
<1>13. InOrder'
  BY <1>7, <1>9, <1>11, <1>12 DEF InOrder, Batches!InOrder
<1> QED BY <1>2, <1>3, <1>13 DEF BatchInv

\* No other step makes a request.
LEMMA BatchMade ==
    ASSUME BatchInv,
           \A r \in Batches!Ids : bOutcome'[r] # "none" <=> bOutcome[r] # "none"
    PROVE  MadeInTurn'
<1> SUFFICES ASSUME NEW p \in Batches!Ids, bOutcome'[p] # "none", NEW q \in 1..(p - 1)
             PROVE  bOutcome'[q] # "none"
  BY DEF MadeInTurn
<1>1. q \in Batches!Ids BY ComponentConstants DEF Batches!Ids
<1> QED BY <1>1 DEF BatchInv, MadeInTurn

\* What is sent is the front of what waits.
LEMMA BatchSplit ==
    ASSUME BatchInv, Batches!SendBatch
    PROVE  BatchInv'
<1>1. PICK n \in 1..Len(bPending) :
          /\ bFlying' = bFlying \cup {SubSeq(bPending, 1, n)}
          /\ bPending' = SubSeq(bPending, n + 1, Len(bPending))
  BY DEF Batches!SendBatch, Batches!PutBack
<1>2. bOutcome' = bOutcome
  BY DEF Batches!SendBatch
<1> DEFINE front == SubSeq(bPending, 1, n)
           rest  == SubSeq(bPending, n + 1, Len(bPending))
<1>3. /\ bPending \in Seq(Batches!Ids) /\ Len(bPending) \in Nat
      /\ DOMAIN bPending = 1..Len(bPending)
  BY DEF BatchInv, BatchTypes
<1>4. /\ front \in Seq(Batches!Ids) /\ Len(front) = n
      /\ \A i \in 1..n : front[i] = bPending[i]
  BY <1>3
<1>5. /\ rest \in Seq(Batches!Ids) /\ Len(rest) = Len(bPending) - n
      /\ DOMAIN rest = 1..(Len(bPending) - n)
      /\ \A i \in 1..(Len(bPending) - n) : rest[i] = bPending[i + n]
  <2>1. n + 1 \in Int /\ \A i \in (n + 1)..Len(bPending) : bPending[i] \in Batches!Ids
    BY <1>3
  <2>2. /\ rest \in Seq(Batches!Ids)
        /\ Len(rest) =
              IF n + 1 <= Len(bPending) THEN Len(bPending) - (n + 1) + 1 ELSE 0
        /\ \A i \in 1..(Len(bPending) - (n + 1) + 1) :
              rest[i] = bPending[n + 1 + i - 1]
    BY <1>3, <2>1, SubSeqProperties
  <2> HIDE DEF rest
  <2>3. Len(rest) = Len(bPending) - n BY <1>3, <2>2
  <2>4. Len(bPending) - (n + 1) + 1 = Len(bPending) - n BY <1>3
  <2>5. \A i \in 1..(Len(bPending) - n) : n + 1 + i - 1 = i + n OBVIOUS
  <2>6. DOMAIN rest = 1..Len(rest) BY <2>2
  <2> QED BY <2>2, <2>3, <2>4, <2>5, <2>6
<1>6. bFlying' = bFlying \cup {front} /\ bPending' = rest
  BY <1>1
<1> HIDE DEF front, rest
<1>7. BatchTypes'
  BY <1>2, <1>4, <1>5, <1>6 DEF BatchInv, BatchTypes
<1>8. MadeInTurn'
  BY <1>2, BatchMade
<1>9. \A r : r \in Batches!ToSet(front) <=> \E i \in 1..n : bPending[i] = r
  BY <1>4, BatchFacts
<1>10. \A r : r \in Batches!ToSet(rest)
                 <=> \E i \in 1..(Len(bPending) - n) : bPending[i + n] = r
  BY <1>5, BatchFacts
<1>11. \A r : r \in Batches!ToSet(bPending)
                 <=> \E i \in 1..Len(bPending) : bPending[i] = r
  BY <1>3, BatchFacts
<1>12. \A i, j \in 1..Len(bPending) : i < j => bPending[i] < bPending[j]
  BY <1>3 DEF BatchInv, InOrder, Batches!InOrder
<1>13. \A i \in 1..(Len(bPending) - n) : i + n \in 1..Len(bPending)
  BY <1>3
<1>14. \A i, j \in DOMAIN bPending' : i < j => bPending'[i] < bPending'[j]
  <2> TAKE i, j \in DOMAIN bPending'
  <2> HAVE i < j
  <2>1. i \in 1..(Len(bPending) - n) /\ j \in 1..(Len(bPending) - n)
    BY <1>5, <1>6
  <2>2. i + n < j + n BY <2>1
  <2> QED BY <1>5, <1>6, <1>12, <1>13, <2>1, <2>2
<1>15. \A r : Batches!Flown(r)' # {}
                 <=> Batches!Flown(r) # {} \/ r \in Batches!ToSet(front)
  BY <1>6 DEF Batches!Flown
<1>16. \A r \in Batches!Ids : Batches!Flown(r)' # {}
          => \A i \in DOMAIN bPending' : r < bPending'[i]
  <2> SUFFICES ASSUME NEW r \in Batches!Ids, Batches!Flown(r)' # {},
                      NEW i \in 1..(Len(bPending) - n)
               PROVE  r < bPending[i + n]
    BY <1>5, <1>6
  <2>1. CASE Batches!Flown(r) # {}
    BY <1>3, <1>13, <2>1 DEF BatchInv, InOrder, Batches!InOrder
  <2>2. CASE r \in Batches!ToSet(front)
    <3>1. PICK k \in 1..n : bPending[k] = r BY <1>9, <2>2
    <3>2. k \in 1..Len(bPending) /\ k < i + n BY <1>3, <3>1
    <3> QED BY <1>12, <1>13, <3>1, <3>2
  <2> QED BY <1>15, <2>1, <2>2
<1>17. Batches!ToSet(bPending) = Batches!ToSet(front) \cup Batches!ToSet(rest)
  <2>1. \A i \in 1..n : i \in 1..Len(bPending) BY <1>3
  <2>2. ASSUME NEW i \in 1..Len(bPending)
        PROVE  i \in 1..n \/ \E k \in 1..(Len(bPending) - n) : i = k + n
    <3>1. CASE i <= n BY <3>1
    <3>2. CASE ~(i <= n)
      <4>1. i - n \in 1..(Len(bPending) - n) /\ i = (i - n) + n BY <1>3, <3>2
      <4> QED BY <4>1
    <3> QED BY <3>1, <3>2
  <2>3. ASSUME NEW r, r \in Batches!ToSet(bPending)
        PROVE  r \in Batches!ToSet(front) \/ r \in Batches!ToSet(rest)
    BY <1>9, <1>10, <1>11, <2>2, <2>3
  <2>4. ASSUME NEW r, r \in Batches!ToSet(front) \/ r \in Batches!ToSet(rest)
        PROVE  r \in Batches!ToSet(bPending)
    BY <1>9, <1>10, <1>11, <1>13, <2>1, <2>4
  <2> QED BY <2>3, <2>4
<1>18. \A r \in Batches!Ids : bOutcome'[r] = "waiting" <=>
           r \in Batches!ToSet(bPending') \/ Batches!Flown(r)' # {}
  BY <1>2, <1>6, <1>15, <1>17 DEF BatchInv, InOrder, Batches!InOrder
<1>19. \A batch \in bFlying : Batches!ToSet(batch) \cap Batches!ToSet(front) = {}
  BY <1>17, BatchFacts DEF Batches!Flown
<1>20. \A batch, other \in bFlying' :
           batch # other => Batches!ToSet(batch) \cap Batches!ToSet(other) = {}
  BY <1>6, <1>19 DEF BatchInv, InOrder, Batches!InOrder
<1>21. InOrder'
  BY <1>14, <1>16, <1>18, <1>20 DEF InOrder, Batches!InOrder
<1> QED BY <1>7, <1>8, <1>21 DEF BatchInv

\* A batch ends as a whole: what was in it is in no other, and does not wait.
LEMMA BatchResponds ==
    ASSUME BatchInv, NEW batch \in bFlying, Batches!Respond(batch)
    PROVE  BatchInv'
<1>1. bFlying' = bFlying \ {batch} /\ bPending' = bPending
  BY DEF Batches!Respond
<1>2. PICK good \in SUBSET Batches!ToSet(batch) :
          bOutcome' = [r \in Batches!Ids |-> IF r \in good THEN "resolved"
                            ELSE IF r \in Batches!ToSet(batch) THEN "rejected"
                            ELSE bOutcome[r]]
  BY DEF Batches!Respond
<1>3. BatchTypes'
  BY <1>1, <1>2 DEF BatchInv, BatchTypes
<1>4. \A r \in Batches!ToSet(batch) : Batches!Flown(r) # {} /\ bOutcome[r] = "waiting"
  BY BatchFacts DEF Batches!Flown
<1>5. MadeInTurn'
  BY <1>2, <1>4, BatchMade
<1>6. \A r \in Batches!ToSet(batch) : Batches!Flown(r)' = {}
  BY <1>1 DEF BatchInv, InOrder, Batches!InOrder, Batches!Flown
<1>7. \A r : r \notin Batches!ToSet(batch) => Batches!Flown(r)' = Batches!Flown(r)
  BY <1>1 DEF Batches!Flown
<1>8. \A r \in Batches!Ids : bOutcome'[r] = "waiting" <=>
          r \in Batches!ToSet(bPending') \/ Batches!Flown(r)' # {}
  <2> TAKE r \in Batches!Ids
  <2>1. CASE r \in Batches!ToSet(batch)
    <3>1. bOutcome'[r] # "waiting" BY <1>2, <2>1
    <3>2. r \notin Batches!ToSet(bPending) BY <1>4, <2>1, BatchFacts
    <3> QED BY <1>1, <1>6, <2>1, <3>1, <3>2
  <2>2. CASE r \notin Batches!ToSet(batch)
    <3>1. bOutcome'[r] = bOutcome[r] BY <1>2, <2>2
    <3> QED BY <1>1, <1>7, <2>2, <3>1 DEF BatchInv, InOrder, Batches!InOrder
  <2> QED BY <2>1, <2>2
<1>9. InOrder'
  BY <1>1, <1>6, <1>7, <1>8 DEF BatchInv, InOrder, Batches!InOrder
<1> QED BY <1>3, <1>5, <1>9 DEF BatchInv

\* A disconnect rejects what waits and leaves what is in flight.
LEMMA BatchDisconnects ==
    ASSUME BatchInv, Batches!Disconnect
    PROVE  BatchInv'
<1>1. bPending' = <<>> /\ bFlying' = bFlying
  BY DEF Batches!Disconnect
<1>2. bOutcome' = [r \in Batches!Ids |-> IF r \in Batches!ToSet(bPending)
                                           THEN "rejected" ELSE bOutcome[r]]
  BY DEF Batches!Disconnect
<1>3. BatchTypes'
  BY <1>1, <1>2 DEF BatchInv, BatchTypes
<1>4. MadeInTurn'
  BY <1>2, BatchFacts, BatchMade
<1>5. \A r : Batches!Flown(r)' = Batches!Flown(r)
  BY <1>1 DEF Batches!Flown
<1>6. DOMAIN bPending' = {} /\ Batches!ToSet(bPending') = {}
  BY <1>1 DEF Batches!ToSet
<1>7. \A r \in Batches!Ids : bOutcome'[r] = "waiting" <=>
          r \in Batches!ToSet(bPending') \/ Batches!Flown(r)' # {}
  <2> TAKE r \in Batches!Ids
  <2>1. CASE r \in Batches!ToSet(bPending)
    <3>1. bOutcome'[r] # "waiting" BY <1>2, <2>1
    <3>2. Batches!Flown(r) = {} BY <2>1, BatchFacts
    <3> QED BY <1>5, <1>6, <3>1, <3>2
  <2>2. CASE r \notin Batches!ToSet(bPending)
    <3>1. bOutcome'[r] = bOutcome[r] BY <1>2, <2>2
    <3> QED BY <1>5, <1>6, <2>2, <3>1 DEF BatchInv, InOrder, Batches!InOrder
  <2> QED BY <2>1, <2>2
<1>8. InOrder'
  BY <1>1, <1>5, <1>6, <1>7 DEF BatchInv, InOrder, Batches!InOrder
<1> QED BY <1>3, <1>4, <1>8 DEF BatchInv

LEMMA BatchStep == ASSUME BatchInv, [Batches!Next]_(Batches!vars) PROVE BatchInv'
<1>1. ASSUME NEW r \in Batches!Ids, Batches!Send(r) PROVE BatchInv'
  BY <1>1, BatchSend
<1>2. CASE Batches!SendBatch BY <1>2, BatchSplit
<1>3. ASSUME NEW batch \in bFlying, Batches!Respond(batch) PROVE BatchInv'
  BY <1>3, BatchResponds
<1>4. CASE Batches!Disconnect BY <1>4, BatchDisconnects
<1>5. ASSUME UNCHANGED <<bPending, bFlying, bOutcome>> PROVE BatchInv'
  BY <1>5 DEF BatchInv, BatchTypes, MadeInTurn, InOrder, Batches!InOrder,
              Batches!Flown
<1>6. CASE \E r \in Batches!Ids : Batches!LookAtError(r)
  BY <1>5, <1>6 DEF Batches!LookAtError
<1>7. CASE Batches!RefuseBatch \/ Batches!Reconnect \/ UNCHANGED Batches!vars
  BY <1>5, <1>7 DEF Batches!RefuseBatch, Batches!Reconnect, Batches!vars
<1> QED
  BY <1>1, <1>2, <1>3, <1>4, <1>6, <1>7 DEF Batches!Next

LEMMA BatchesInv == Batches!Spec => []BatchInv
<1>1. Batches!Init => BatchInv
  <2> SUFFICES ASSUME Batches!Init PROVE BatchInv
    OBVIOUS
  <2>1. /\ bPending = <<>> /\ bFlying = {}
        /\ bOutcome = [r \in Batches!Ids |-> "none"]
    BY DEF Batches!Init
  <2>2. BatchTypes BY <2>1 DEF BatchTypes
  <2>3. MadeInTurn BY <2>1 DEF MadeInTurn
  <2>4. InOrder
    BY <2>1 DEF InOrder, Batches!InOrder, Batches!Flown, Batches!ToSet
  <2> QED BY <2>2, <2>3, <2>4 DEF BatchInv
<1>2. BatchInv /\ [Batches!Next]_(Batches!vars) => BatchInv'
  BY BatchStep
<1> QED BY <1>1, <1>2, PTL DEF Batches!Spec

-----------------------------------------------------------------------------
(* Permissions.  The theorems are those of PermissionsProofs.              *)

Granted == INSTANCE PermissionsProofs WITH
    MaxRequests <- SiteRequests, Origins <- {"o1", "o2"}, Accounts <- {"x", "y"},
    Chains <- {"main", "extra"}, Main <- "main", MaxClicks <- SiteClicks,
    selected <- aSelected, allowed <- aAllowed, network <- aNetwork,
    supported <- aSupported, pending <- aPending, offer <- aOffer, flow <- aFlow,
    popup <- aPopup, grants <- aGrants, denials <- aDenials,
    deletions <- aDeletions, moves <- aMoves, clicks <- aClicks, held <- aHeld

\* The sites' requests are those that the theorems of PermissionsProofs are about.
LEMMA SameAccess ==
    /\ Access!Init <=> Granted!Init
    /\ Access!Next <=> Granted!Next
    /\ Access!OneRequestPerOrigin <=> Granted!OneRequestPerOrigin
    /\ Access!DisclosedWasAllowed <=> Granted!DisclosedWasAllowed
<1> USE DEF
      Access!RequestIds, Granted!RequestIds, Access!windows, Granted!windows,
      Access!Methods, Granted!Methods, Access!Stages, Granted!Stages, Access!Idle,
      Granted!Idle, Access!Permitted, Granted!Permitted, Access!Current,
      Granted!Current, Access!Goes, Granted!Goes, Access!Ends, Granted!Ends,
      Access!Reading, Granted!Reading, Access!Has, Granted!Has,
      Access!ResolvePending, Granted!ResolvePending, Access!Grant, Granted!Grant
<1>1. \A r, o, m, c : Access!Ask(r, o, m, c) <=> Granted!Ask(r, o, m, c)
  BY DEF Access!Ask, Granted!Ask
<1>2. \A r : Access!ReadNetwork(r) <=> Granted!ReadNetwork(r)
  BY DEF Access!ReadNetwork, Granted!ReadNetwork
<1>3. \A r : Access!ReadAccount(r) <=> Granted!ReadAccount(r)
  BY DEF Access!ReadAccount, Granted!ReadAccount
<1>4. \A r : Access!ReadPermission(r) <=> Granted!ReadPermission(r)
  BY DEF Access!ReadPermission, Granted!ReadPermission
<1>5. \A r : Access!RevokeOrigin(r) <=> Granted!RevokeOrigin(r)
  BY DEF Access!RevokeOrigin, Granted!RevokeOrigin
<1>6. \A r : Access!ReadChain(r) <=> Granted!ReadChain(r)
  BY DEF Access!ReadChain, Granted!ReadChain
<1>7. \A r : Access!RequestPermission(r) <=> Granted!RequestPermission(r)
  BY DEF Access!RequestPermission, Granted!RequestPermission
<1>8. \A r : Access!ReadAccountAgain(r) <=> Granted!ReadAccountAgain(r)
  BY DEF Access!ReadAccountAgain, Granted!ReadAccountAgain
<1>9. \A r : Access!ReadGranted(r) <=> Granted!ReadGranted(r)
  BY DEF Access!ReadGranted, Granted!ReadGranted
<1>10. \A r : Access!PersistNetwork(r) <=> Granted!PersistNetwork(r)
  BY DEF Access!PersistNetwork, Granted!PersistNetwork
<1>11. \A r : Access!SwitchNetwork(r) <=> Granted!SwitchNetwork(r)
  BY DEF Access!SwitchNetwork, Granted!SwitchNetwork
<1>12. \A r : Access!GrantChain(r) <=> Granted!GrantChain(r)
  BY DEF Access!GrantChain, Granted!GrantChain
<1>13. \A r : Access!AddChain(r) <=> Granted!AddChain(r)
  BY DEF Access!AddChain, Granted!AddChain
<1>14. \A r : Access!AnswerAddChain(r) <=> Granted!AnswerAddChain(r)
  BY DEF Access!AnswerAddChain, Granted!AnswerAddChain
<1>15. \A r : Access!ClickGrant(r) <=> Granted!ClickGrant(r)
  BY DEF Access!ClickGrant, Granted!ClickGrant
<1>16. \A r : Access!ClosePopup(r) <=> Granted!ClosePopup(r)
  BY DEF Access!ClosePopup, Granted!ClosePopup
<1>17. \A r : Access!PopupRemoved(r) <=> Granted!PopupRemoved(r)
  BY DEF Access!PopupRemoved, Granted!PopupRemoved
<1>18. \A m : Access!Move(m) <=> Granted!Move(m)
  BY DEF Access!Move, Granted!Move
<1>19. \A g : Access!GrantPermission(g) <=> Granted!GrantPermission(g)
  BY DEF Access!GrantPermission, Granted!GrantPermission
<1>20. \A o : Access!Disconnect(o) <=> Granted!Disconnect(o)
  BY DEF Access!Disconnect, Granted!Disconnect
<1>21. \A o : Access!DenyPermission(o) <=> Granted!DenyPermission(o)
  BY DEF Access!DenyPermission, Granted!DenyPermission
<1>22. \A d : Access!DeletePermission(d) <=> Granted!DeletePermission(d)
  BY DEF Access!DeletePermission, Granted!DeletePermission
<1>23. \A a : Access!Select(a) <=> Granted!Select(a)
  BY DEF Access!Select, Granted!Select
<1>24. \A a : Access!RemoveAccount(a) <=> Granted!RemoveAccount(a)
  BY DEF Access!RemoveAccount, Granted!RemoveAccount
<1>25. \A r : Access!Step(r) <=> Granted!Step(r)
  BY <1>2, <1>3, <1>4, <1>5, <1>6, <1>7, <1>8, <1>9, <1>10, <1>11, <1>12, <1>13,
     Zenon
     DEF Access!Step, Granted!Step
<1>26. Access!Next <=> Granted!Next
  BY <1>1, <1>14, <1>15, <1>16, <1>17, <1>18, <1>19, <1>20, <1>21, <1>22, <1>23,
     <1>24, <1>25, Zenon
     DEF Access!Next, Granted!Next
<1>27. Access!Init <=> Granted!Init
  BY DEF Access!Init, Granted!Init
<1>28. Access!OneRequestPerOrigin <=> Granted!OneRequestPerOrigin
  BY DEF Access!OneRequestPerOrigin, Granted!OneRequestPerOrigin
<1>29. Access!DisclosedWasAllowed <=> Granted!DisclosedWasAllowed
  BY DEF Access!DisclosedWasAllowed, Granted!DisclosedWasAllowed
<1> QED BY <1>26, <1>27, <1>28, <1>29

LEMMA AccessPart == SpecAll => Granted!Spec
<1>1. InitAll => Granted!Init
  BY SameAccess DEF InitAll
<1>2. [NextAll]_everything => [Granted!Next]_(Granted!vars)
  <2>1. [NextAll]_everything => Access!Next \/ UNCHANGED access
    BY DEF NextAll, everything, others
  <2>2. UNCHANGED access => UNCHANGED Granted!vars
    BY DEF access, Granted!vars, Granted!windows
  <2> QED BY <2>1, <2>2, SameAccess
<1> QED BY <1>1, <1>2, PTL DEF SpecAll, Granted!Spec

\* The theorems of PermissionsProofs assume this of the constants.
LEMMA SensibleAccess == Granted!Sensible
<1>1. Nothing \notin {"o1", "o2"} \cup Granted!RequestIds \cup Granted!Methods
  BY AccessConstants
     DEF Access!RequestIds, Granted!RequestIds, Access!Methods, Granted!Methods
<1>2. \A ask \in Asks :
          /\ ask[1] \in {"o1", "o2"} /\ ask[2] \in Granted!Methods
          /\ ask[3] \in {"main", "extra"} \cup {Nothing}
          /\ ask[2] \in {"switch", "add"} => ask[3] \in {"main", "extra"}
  BY DEF Asks, Granted!Methods
<1> QED BY <1>1, <1>2, AccessConstants DEF Granted!Sensible

-----------------------------------------------------------------------------
(* StoreWindows.  The theorems are those of StoreWindowsProofs.            *)

Views == INSTANCE StoreWindowsProofs WITH
    Windows <- Pages, MaxChanges <- PageChanges, MaxRestarts <- PageRestarts,
    store <- wStore, disk <- wDisk, sent <- wSent, unsent <- wUnsent,
    window <- wWindow, asked <- wAsked, copy <- wCopy, inbox <- wInbox,
    dispatch <- wDispatch, seen <- wSeen, restarts <- wRestarts

\* The copies of the store are those that the theorems of StoreWindowsProofs are
\* about.
LEMMA SameWindows ==
    /\ Copies!Init <=> Views!Init
    /\ Copies!Next <=> Views!Next
    /\ \A w : Copies!ReceiveReply(w) <=> Views!ReceiveReply(w)
    /\ Copies!NothingMissing <=> Views!NothingMissing
<1> USE DEF
      Copies!windows, Views!windows, Copies!Empty, Views!Empty, Copies!Reply,
      Views!Reply, Copies!Posted, Views!Posted, Copies!Patched, Views!Patched,
      Copies!Received, Views!Received
<1>1. Copies!Change <=> Views!Change
  BY DEF Copies!Change, Views!Change
<1>2. Copies!Store <=> Views!Store
  BY DEF Copies!Store, Views!Store
<1>3. Copies!SendUpdate <=> Views!SendUpdate
  BY DEF Copies!SendUpdate, Views!SendUpdate
<1>4. Copies!Restart <=> Views!Restart
  BY DEF Copies!Restart, Views!Restart
<1>5. \A w : Copies!OpenWindow(w) <=> Views!OpenWindow(w)
  BY DEF Copies!OpenWindow, Views!OpenWindow
<1>6. \A w : Copies!CloseWindow(w) <=> Views!CloseWindow(w)
  BY DEF Copies!CloseWindow, Views!CloseWindow
<1>7. \A w : Copies!Dispatch(w) <=> Views!Dispatch(w)
  BY DEF Copies!Dispatch, Views!Dispatch
<1>8. \A w : Copies!AnswerFetch(w) <=> Views!AnswerFetch(w)
  BY DEF Copies!AnswerFetch, Views!AnswerFetch
<1>9. \A w : Copies!EndDispatch(w) <=> Views!EndDispatch(w)
  BY DEF Copies!EndDispatch, Views!EndDispatch
<1>10. \A w : Copies!ReceiveState(w) <=> Views!ReceiveState(w)
  BY DEF Copies!ReceiveState, Views!ReceiveState
<1>11. \A w : Copies!ReceivePatch(w) <=> Views!ReceivePatch(w)
  BY DEF Copies!ReceivePatch, Views!ReceivePatch
<1>12. \A w : Copies!ReceiveReply(w) <=> Views!ReceiveReply(w)
  BY DEF Copies!ReceiveReply, Views!ReceiveReply
<1>13. Copies!Next <=> Views!Next
  BY <1>1, <1>2, <1>3, <1>4, <1>5, <1>6, <1>7, <1>8, <1>9, <1>10, <1>11, <1>12, Zenon
     DEF Copies!Next, Views!Next, Copies!Answer, Views!Answer, Copies!Receive,
         Views!Receive
<1>14. Copies!Init <=> Views!Init
  BY DEF Copies!Init, Views!Init
<1>15. Copies!NothingMissing <=> Views!NothingMissing
  BY DEF Copies!NothingMissing, Views!NothingMissing, Copies!Settled, Views!Settled,
         Copies!ToSet, Views!ToSet
<1> QED BY <1>12, <1>13, <1>14, <1>15

LEMMA WindowsPart == SpecAll => Views!Spec
<1>1. InitAll => Views!Init
  BY SameWindows DEF InitAll
<1>2. [NextAll]_everything => [Views!Next]_(Views!vars)
  <2>1. [NextAll]_everything => Copies!Next \/ UNCHANGED windows
    BY DEF NextAll, everything, others
  <2>2. UNCHANGED windows => UNCHANGED Views!vars
    BY DEF windows, Views!vars, Views!windows
  <2> QED BY <2>1, <2>2, SameWindows
<1> QED BY <1>1, <1>2, PTL DEF SpecAll, Views!Spec

\* The theorems of StoreWindowsProofs assume this of the constants.
LEMMA WindowNumbers == Views!WindowBounds
BY ComponentConstants DEF Views!WindowBounds

-----------------------------------------------------------------------------
(* Types of the components whose other properties are about their ends.    *)

\* A batch in flight was within the limit of its time.
BatchTyped ==
    /\ Batches!TypeOK
    /\ \A batch \in bFlying : Len(batch) \in 0..DefaultLength

LEMMA BatchTypeStep ==
    ASSUME BatchInv, BatchInv', BatchTyped, [Batches!Next]_(Batches!vars)
    PROVE  BatchTyped'
<1> USE DEF BatchTyped, Batches!TypeOK
<1>1. /\ bPending' \in Seq(Batches!Ids) /\ bFlying' \subseteq Seq(Batches!Ids)
      /\ bOutcome' \in [Batches!Ids -> {"none", "waiting", "resolved", "rejected"}]
  BY DEF BatchInv, BatchTypes
<1>2. ASSUME NEW r \in Batches!Ids, Batches!Send(r) PROVE BatchTyped'
  <2>1. /\ bTimer' \in {"null", "running", "cleared"}
        /\ UNCHANGED <<bDestroyed, bLimit, bFlying, bBlame>>
    BY <1>2 DEF Batches!Send, Batches!Started
  <2>2. bSize' \in [Batches!Ids -> Sizes \cup {0}]
    BY <1>2 DEF Batches!Send
  <2> QED BY <1>1, <2>1, <2>2
<1>3. ASSUME NEW r \in Batches!Ids, Batches!LookAtError(r) PROVE BatchTyped'
  <2>1. Batches!Halved(bBlame[r]) \in 1..DefaultLength
    <3>1. bBlame[r] \in Nat /\ bLimit \in 1..DefaultLength /\ DefaultLength \in Nat
      BY ComponentConstants
    <3>2. bBlame[r] \div 2 \in Int /\ bBlame[r] \div 2 <= bBlame[r]
      BY <3>1
    <3> QED BY <3>1, <3>2 DEF Batches!Halved
  <2>2. bLimit' \in 1..DefaultLength
    BY <1>3, <2>1 DEF Batches!LookAtError
  <2>3. bBlame' \in [Batches!Ids -> 0..DefaultLength]
    BY <1>3, ComponentConstants DEF Batches!LookAtError
  <2> QED BY <1>1, <1>3, <2>2, <2>3 DEF Batches!LookAtError
<1>4. CASE Batches!SendBatch
  <2>1. PICK n \in 1..Len(bPending) :
            Batches!Longest(n) /\ bFlying' = bFlying \cup {SubSeq(bPending, 1, n)}
    BY <1>4 DEF Batches!SendBatch
  <2>2. n \in 0..DefaultLength
    <3>1. n <= bLimit /\ bLimit \in 1..DefaultLength /\ n \in Nat
      BY <2>1 DEF Batches!Longest, Batches!Fits
    <3> QED BY <3>1, ComponentConstants
  <2>3. Len(SubSeq(bPending, 1, n)) = n
    <3>1. \A i \in 1..n : bPending[i] \in Batches!Ids
      BY <2>1
    <3>2. Len(SubSeq(bPending, 1, n)) = IF 1 <= n THEN n - 1 + 1 ELSE 0
      BY <2>2, <3>1, SubSeqProperties
    <3> QED BY <2>1, <3>2
  <2>4. bTimer' \in {"null", "running", "cleared"}
        /\ UNCHANGED <<bDestroyed, bLimit, bSize, bBlame>>
    BY <1>4 DEF Batches!SendBatch
  <2> QED BY <1>1, <2>1, <2>2, <2>3, <2>4
<1>5. ASSUME NEW batch \in bFlying, Batches!Respond(batch) PROVE BatchTyped'
  <2>1. bBlame' \in [Batches!Ids -> 0..DefaultLength]
    <3>1. PICK good \in SUBSET Batches!ToSet(batch) :
              bBlame' = [r \in Batches!Ids |->
                            IF r \in Batches!ToSet(batch) \ good THEN Len(batch)
                            ELSE bBlame[r]]
      BY <1>5 DEF Batches!Respond
    <3>2. Len(batch) \in 0..DefaultLength OBVIOUS
    <3> QED BY <3>1, <3>2
  <2>2. /\ bFlying' = bFlying \ {batch}
        /\ UNCHANGED <<bTimer, bDestroyed, bLimit, bSize>>
    BY <1>5 DEF Batches!Respond
  <2> QED BY <1>1, <2>1, <2>2
<1>6. CASE Batches!Disconnect
  BY <1>1, <1>6 DEF Batches!Disconnect
<1>7. CASE Batches!RefuseBatch \/ Batches!Reconnect \/ UNCHANGED Batches!vars
  BY <1>1, <1>7 DEF Batches!RefuseBatch, Batches!Reconnect, Batches!vars
<1> QED BY <1>2, <1>3, <1>4, <1>5, <1>6, <1>7 DEF Batches!Next

LEMMA BatchTypesHold == Batches!Spec => []Batches!TypeOK
<1>1. Batches!Init => BatchTyped
  <2> SUFFICES ASSUME Batches!Init PROVE BatchTyped
    OBVIOUS
  <2>1. DefaultLength \in 1..DefaultLength /\ 0 \in 0..DefaultLength
    BY ComponentConstants
  <2>2. bPending \in Seq(Batches!Ids) /\ bFlying \subseteq Seq(Batches!Ids)
    BY DEF Batches!Init
  <2>3. bSize \in [Batches!Ids -> Sizes \cup {0}]
    BY DEF Batches!Init
  <2>4. bOutcome \in [Batches!Ids -> {"none", "waiting", "resolved", "rejected"}]
    BY DEF Batches!Init
  <2>5. bBlame \in [Batches!Ids -> 0..DefaultLength]
    BY <2>1 DEF Batches!Init
  <2>6. /\ bTimer \in {"null", "running", "cleared"} /\ bDestroyed \in BOOLEAN
        /\ bLimit \in 1..DefaultLength
        /\ \A batch \in bFlying : Len(batch) \in 0..DefaultLength
    BY <2>1 DEF Batches!Init
  <2> QED BY <2>2, <2>3, <2>4, <2>5, <2>6 DEF BatchTyped, Batches!TypeOK
<1>2. BatchInv /\ BatchInv' /\ BatchTyped /\ [Batches!Next]_(Batches!vars) => BatchTyped'
  BY BatchTypeStep
<1>3. BatchTyped => Batches!TypeOK
  BY DEF BatchTyped
<1> QED BY <1>1, <1>2, <1>3, BatchesInv, PTL DEF Batches!Spec

LEMMA LifecycleTypes == Lifecycle!Spec => []Lifecycle!TypeOK
<1> USE DEF Lifecycle!TypeOK
<1>1. Lifecycle!Init => Lifecycle!TypeOK
  BY DEF Lifecycle!Init
<1>2. Lifecycle!TypeOK /\ [Lifecycle!Next]_(Lifecycle!vars) => Lifecycle!TypeOK'
  <2> SUFFICES ASSUME Lifecycle!TypeOK, [Lifecycle!Next]_(Lifecycle!vars)
               PROVE  Lifecycle!TypeOK'
    OBVIOUS
  <2>1. CASE Lifecycle!Start
    <3>1. CASE Lifecycle!StartService BY <3>1 DEF Lifecycle!StartService
    <3>2. CASE Lifecycle!StartEnds
      <4>1. /\ sWait' \in [{"w1", "w2"} -> {"none", "waiting", "done", "threw"}]
            /\ sStop' \in [{"s1", "s2"} ->
                             {"none", "called", "waiting", "hook", "done", "threw"}]
        BY <3>2 DEF Lifecycle!StartEnds
      <4> QED BY <3>2, <4>1 DEF Lifecycle!StartEnds
    <3>3. CASE Lifecycle!StartThrows BY <3>3 DEF Lifecycle!StartThrows
    <3> QED BY <2>1, <3>1, <3>2, <3>3 DEF Lifecycle!Start
  <2>2. ASSUME NEW c \in {"w1", "w2"}, Lifecycle!Started(c) PROVE Lifecycle!TypeOK'
    BY <2>2 DEF Lifecycle!Started
  <2>3. ASSUME NEW c \in {"s1", "s2"}, Lifecycle!Stops(c) PROVE Lifecycle!TypeOK'
    <3>1. CASE Lifecycle!StopService(c) BY <3>1 DEF Lifecycle!StopService
    <3>2. CASE Lifecycle!StopEnds(c) BY <3>2 DEF Lifecycle!StopEnds
    <3>3. CASE Lifecycle!StopThrows(c) BY <3>3 DEF Lifecycle!StopThrows
    <3> QED BY <2>3, <3>1, <3>2, <3>3 DEF Lifecycle!Stops
  <2>4. CASE UNCHANGED Lifecycle!vars BY <2>4 DEF Lifecycle!vars
  <2> QED BY <2>1, <2>2, <2>3, <2>4 DEF Lifecycle!Next
<1> QED BY <1>1, <1>2, PTL DEF Lifecycle!Spec

LEMMA NameTypes == Names!Spec => []Names!TypeOK
<1> USE DEF Names!TypeOK, Names!Names
<1>1. Names!Init => Names!TypeOK
  <2> SUFFICES ASSUME Names!Init PROVE Names!TypeOK
    OBVIOUS
  <2>1. nLookup \in [{1, 2} -> Names!Names \cup {Names!None}]
    BY DEF Names!Init
  <2>2. nCached \in Names!Names /\ nShown \in Names!Names
    BY DEF Names!Init
  <2>3. nEdited \in BOOLEAN
    BY DEF Names!Init
  <2>4. nExpired \in BOOLEAN
    BY DEF Names!Init
  <2>5. nChanges \in 0..3
    BY DEF Names!Init
  <2>6. nBook \in {"b", "c"} \cup {"-"} /\ nOnChain \in {"x", "y"} \cup {"-"}
    BY DEF Names!Init
  <2> QED BY <2>1, <2>2, <2>3, <2>4, <2>5, <2>6
<1>2. Names!TypeOK /\ [Names!Next]_(Names!vars) => Names!TypeOK'
  <2> SUFFICES ASSUME Names!TypeOK, [Names!Next]_(Names!vars)
               PROVE  Names!TypeOK'
    OBVIOUS
  <2>1. ASSUME NEW l \in {1, 2}, NEW before \in Names!Names, Names!Resolve(l, before)
        PROVE  /\ nCached' \in Names!Names /\ nShown' \in Names!Names
               /\ nExpired' \in BOOLEAN
               /\ nLookup' \in [{1, 2} -> Names!Names \cup {Names!None}]
    BY <2>1 DEF Names!Resolve, Names!Found
  <2>2. ASSUME NEW l \in {1, 2}, Names!LookUp(l) PROVE Names!TypeOK'
    BY <2>1, <2>2 DEF Names!LookUp
  <2>3. ASSUME NEW l \in {1, 2}, Names!HandleEdit(l) PROVE Names!TypeOK'
    BY <2>1, <2>3 DEF Names!HandleEdit
  <2>4. ASSUME NEW l \in {1, 2}, Names!ChainAnswers(l) PROVE Names!TypeOK'
    <3>1. nLookup' \in [{1, 2} -> Names!Names \cup {Names!None}]
      BY <2>4 DEF Names!ChainAnswers
    <3> QED BY <2>4, <3>1 DEF Names!ChainAnswers, Names!Found
  <2>5. ASSUME NEW name \in {"b", "c"}, Names!EditBook(name) PROVE Names!TypeOK'
    BY <2>5 DEF Names!EditBook
  <2>6. ASSUME NEW name \in {"x", "y"} \cup {"-"}, Names!Register(name)
        PROVE  Names!TypeOK'
    BY <2>6 DEF Names!Register
  <2>7. CASE Names!ClearEntry BY <2>7 DEF Names!ClearEntry
  <2>8. CASE Names!Expire BY <2>8 DEF Names!Expire
  <2>9. CASE UNCHANGED Names!vars BY <2>9 DEF Names!vars
  <2> QED
    BY <2>2, <2>3, <2>4, <2>5, <2>6, <2>7, <2>8, <2>9
       DEF Names!Next, Names!LookUpAny, Names!HandleAny
<1> QED BY <1>1, <1>2, PTL DEF Names!Spec

LEMMA RefreshTypes == Indexing!Spec => []Indexing!TypeOK
<1> DEFINE Load == [at : {"idle", "begin", "refresh", "account"}, before : SUBSET {"t", "u"}]
<1>0. Indexing!Calls = {1} \cup {2} /\ Indexing!Idle \in Load
  BY DEF Indexing!Calls, Indexing!Idle
<1> DEFINE Sound == /\ iActive \in {"none", "slow", "fast", "run"}
                    /\ iAll \in BOOLEAN /\ iPrices \in BOOLEAN /\ iReading \in BOOLEAN
                    /\ iOwed \in BOOLEAN /\ iHurried \in BOOLEAN
                    /\ iLoad \in [{1} \cup {2} -> Load]
                    /\ iTracked \subseteq {"t", "u"}
                    /\ iPriced \subseteq iTracked /\ iFound \subseteq iTracked
<1>1. Indexing!Init => Sound
  <2> SUFFICES ASSUME Indexing!Init PROVE Sound
    OBVIOUS
  <2>1. iLoad = [l \in {1} \cup {2} |-> Indexing!Idle]
    BY <1>0 DEF Indexing!Init
  <2>2. iLoad \in [{1} \cup {2} -> Load]
    <3> HIDE DEF Load
    <3> QED BY <1>0, <2>1
  <2> QED BY <2>2 DEF Indexing!Init
<1>2. Sound /\ [Indexing!Next]_(Indexing!vars) => Sound'
  <2> SUFFICES ASSUME Sound, [Indexing!Next]_(Indexing!vars)
               PROVE  Sound'
    OBVIOUS
  <2>0. ASSUME NEW l \in {1} \cup {2}, NEW at \in {"begin", "account"}, Indexing!Begin(l, at)
        PROVE  /\ iLoad' \in [{1} \cup {2} -> Load]
               /\ UNCHANGED <<iTracked, iFound, iPrices, iReading, iPriced, iHurried>>
    <3>1. [iLoad[l] EXCEPT !.at = at] \in Load
      BY <2>0
    <3>2. iLoad' = [iLoad EXCEPT ![l] = [iLoad[l] EXCEPT !.at = at]]
      BY <2>0 DEF Indexing!Begin
    <3>3. iLoad' \in [{1} \cup {2} -> Load]
      <4> HIDE DEF Load
      <4> QED BY <3>1, <3>2
    <3> QED BY <2>0, <3>3 DEF Indexing!Begin, Indexing!prices
  <2>1. ASSUME NEW l \in {1} \cup {2}, NEW r \in Load, Indexing!Loaded(l, r)
        PROVE  /\ iLoad' \in [{1} \cup {2} -> Load]
               /\ UNCHANGED <<iActive, iAll, iReading, iPriced, iOwed, iHurried>>
    <3> HIDE DEF Load
    <3> QED BY <2>1 DEF Indexing!Loaded
  <2>2. CASE Indexing!RefreshActive \/ Indexing!RefreshAll \/ Indexing!Hurry
    BY <2>2 DEF Indexing!RefreshActive, Indexing!RefreshAll, Indexing!Hurry,
                Indexing!loading, Indexing!prices
  <2>3. ASSUME NEW l \in {1}, Indexing!Refresh(l) PROVE Sound'
    <3>1. Indexing!Begin(l, "begin")
      BY <2>3 DEF Indexing!Refresh, Indexing!FireActive, Indexing!FireAll
    <3>2. /\ iActive' \in {"none", "slow", "fast", "run"}
          /\ iAll' \in BOOLEAN /\ iOwed' \in BOOLEAN
      BY <2>3 DEF Indexing!Refresh, Indexing!FireActive, Indexing!FireAll
    <3> HIDE DEF Load
    <3> QED BY <2>0, <3>1, <3>2
  <2>4. ASSUME NEW l \in {2}, Indexing!NewAccount(l) PROVE Sound'
    <3>1. Indexing!Begin(l, "account") /\ UNCHANGED <<iActive, iAll, iOwed>>
      BY <2>4 DEF Indexing!NewAccount
    <3> HIDE DEF Load
    <3> QED BY <2>0, <3>1
  <2>5. ASSUME NEW l \in {1} \cup {2}, Indexing!Proceed(l) PROVE Sound'
    <3>1. CASE Indexing!NoteTracked(l)
      <4>1. [at |-> "refresh", before |-> iTracked] \in Load
        OBVIOUS
      <4>2. /\ Indexing!Loaded(l, [at |-> "refresh", before |-> iTracked])
            /\ UNCHANGED <<iTracked, iFound, iPrices>>
        BY <3>1 DEF Indexing!NoteTracked
      <4> HIDE DEF Load
      <4> QED BY <2>1, <4>1, <4>2
    <3>2. CASE Indexing!EndAccount(l) \/ Indexing!EndRefresh(l)
      <4>1. /\ Indexing!Loaded(l, Indexing!Idle)
            /\ UNCHANGED <<iTracked, iFound>>
        BY <3>2 DEF Indexing!EndAccount, Indexing!EndRefresh
      <4>2. iPrices' \in BOOLEAN
        BY <3>2, Zenon DEF Indexing!EndAccount, Indexing!EndRefresh
      <4> HIDE DEF Load
      <4> QED BY <1>0, <2>1, <4>1, <4>2
    <3> QED BY <2>5, <3>1, <3>2 DEF Indexing!Proceed
  <2>6. ASSUME NEW l \in {1} \cup {2}, NEW a \in {"t", "u"}, Indexing!FindAsset(l, a)
        PROVE  Sound'
    <3>1. iLoad[l] \in Load OBVIOUS
    <3>2. /\ iTracked' = iTracked \cup {a} /\ iFound' \subseteq iTracked \cup {a}
          /\ Indexing!Loaded(l, iLoad[l]) /\ UNCHANGED iPrices
      BY <2>6 DEF Indexing!FindAsset
    <3> HIDE DEF Load
    <3> QED BY <2>1, <3>1, <3>2
  <2>7. CASE Indexing!SchedulePrices \/ Indexing!FirePrices \/ Indexing!ReadTracked
    <3> HIDE DEF Load
    <3> QED
      BY <2>7 DEF Indexing!SchedulePrices, Indexing!FirePrices, Indexing!ReadTracked,
                  Indexing!loading
  <2>8. CASE UNCHANGED Indexing!vars
    BY <2>8 DEF Indexing!vars
  <2> QED
    BY <1>0, <2>2, <2>3, <2>4, <2>5, <2>6, <2>7, <2>8 DEF Indexing!Next
<1>3. Sound => Indexing!TypeOK
  BY <1>0 DEF Indexing!TypeOK
<1> QED BY <1>1, <1>2, <1>3, PTL DEF Indexing!Spec

-----------------------------------------------------------------------------
(* What the ends of the components rest on: nothing is left over that no   *)
(* step will see to.                                                       *)

\* A lower limit makes no room, and a batch fits as long as nothing it depends
\* on changes.
LEMMA BatchStillTooLarge ==
    ASSUME NEW n \in Int, ~Batches!Fits(n), UNCHANGED <<bPending, bSize>>,
           bLimit \in Int, bLimit' \in Int, bLimit' <= bLimit
    PROVE  ~Batches!Fits(n)'
<1>1. Batches!Bytes(SubSeq(bPending, 1, n), bSize)'
          = Batches!Bytes(SubSeq(bPending, 1, n), bSize)
  OBVIOUS
<1>2. n <= bLimit' => n <= bLimit
  OBVIOUS
<1>3. ~(n <= bLimit) \/ ~(Batches!Bytes(SubSeq(bPending, 1, n), bSize) <= MaxBytes)
  BY DEF Batches!Fits
<1> QED BY <1>1, <1>2, <1>3 DEF Batches!Fits

LEMMA BatchTimers ==
    ASSUME Batches!TypeOK, Batches!TimerIsSet, [Batches!Next]_(Batches!vars)
    PROVE  Batches!TimerIsSet'
<1> USE DEF Batches!TimerIsSet
<1>0. /\ bLimit \in Int /\ \A r \in Batches!Ids : bBlame[r] \in Int
  BY ComponentConstants DEF Batches!TypeOK
<1>1. ASSUME UNCHANGED <<bPending, bTimer, bSize>>, bLimit' \in Int, bLimit' <= bLimit
      PROVE  Batches!TimerIsSet'
  BY <1>0, <1>1, BatchStillTooLarge
<1>2. ASSUME NEW r \in Batches!Ids, Batches!Send(r) PROVE Batches!TimerIsSet'
  BY <1>2 DEF Batches!Send, Batches!Started
<1>3. ASSUME NEW r \in Batches!Ids, Batches!LookAtError(r) PROVE Batches!TimerIsSet'
  <2>1. Batches!Halved(bBlame[r]) \in Int /\ Batches!Halved(bBlame[r]) <= bLimit
    <3>1. bBlame[r] \div 2 \in Int /\ bBlame[r] \in Int BY <1>0
    <3>2. bLimit >= 1 BY DEF Batches!TypeOK
    <3>3. bBlame[r] >= 0 => bBlame[r] \div 2 <= bBlame[r] BY <1>0
    <3>4. bBlame[r] >= 0 BY ComponentConstants DEF Batches!TypeOK
    <3> QED BY <1>0, <3>1, <3>2, <3>3, <3>4 DEF Batches!Halved
  <2>2. bLimit' \in Int /\ bLimit' <= bLimit
    BY <1>0, <1>3, <2>1 DEF Batches!LookAtError
  <2> QED BY <1>1, <1>3, <2>2 DEF Batches!LookAtError
<1>4. CASE Batches!SendBatch
  BY <1>4 DEF Batches!SendBatch
<1>5. CASE Batches!RefuseBatch
  <2>1. \A n \in 1..Len(bPending) : ~Batches!Fits(n)
    BY <1>5 DEF Batches!RefuseBatch
  <2>2. /\ UNCHANGED <<bPending, bSize>> /\ bLimit' = bLimit
    BY <1>5 DEF Batches!RefuseBatch
  <2> QED BY <1>0, <2>1, <2>2, BatchStillTooLarge
<1>6. CASE Batches!Disconnect
  BY <1>6 DEF Batches!Disconnect
<1>7. CASE \/ \E batch \in bFlying : Batches!Respond(batch)
          \/ Batches!Reconnect \/ UNCHANGED Batches!vars
  <2>1. UNCHANGED <<bPending, bTimer, bSize>> /\ bLimit' = bLimit
    BY <1>7 DEF Batches!Respond, Batches!Reconnect, Batches!vars
  <2> QED BY <1>0, <1>1, <2>1
<1> QED BY <1>2, <1>3, <1>4, <1>5, <1>6, <1>7 DEF Batches!Next

LEMMA BatchTimerIsSet == Batches!Spec => []Batches!TimerIsSet
<1>1. Batches!Init => Batches!TimerIsSet
  BY DEF Batches!Init, Batches!TimerIsSet
<1>2. Batches!TypeOK /\ Batches!TimerIsSet /\ [Batches!Next]_(Batches!vars)
          => Batches!TimerIsSet'
  BY BatchTimers
<1> QED BY <1>1, <1>2, BatchTypesHold, PTL DEF Batches!Spec

LEMMA StoreKeepsLast == Persistence!Spec => []Persistence!LastStateKept
<1>1. Persistence!Init => StoreInv /\ Persistence!LastStateKept
  BY StoreInitInv DEF Persistence!Init, Persistence!LastStateKept
<1>2. StoreInv /\ Persistence!LastStateKept /\ [Persistence!Next]_(Persistence!vars)
          => Persistence!LastStateKept'
  <2> SUFFICES ASSUME StoreInv, Persistence!LastStateKept,
                      [Persistence!Next]_(Persistence!vars)
               PROVE  Persistence!LastStateKept'
    OBVIOUS
  <2> USE DEF Persistence!LastStateKept
  <2>1. CASE Persistence!Change \/ Persistence!Restart
    BY <2>1 DEF Persistence!Change, Persistence!Restart
  <2>2. CASE Persistence!Persist
    <3>1. pWriting = {} => pQueued = <<>> BY DEF StoreInv, StoreInOrder
    <3> QED BY <2>2, <3>1 DEF Persistence!Persist
  <2>3. ASSUME NEW s \in pWriting, Persistence!Written(s) \/ Persistence!WriteFails(s)
        PROVE  Persistence!LastStateKept'
    <3>1. /\ pWriting' = Persistence!ToSet(pQueued) /\ pQueued' = <<>>
          /\ UNCHANGED <<pStore, pUnwritten>>
      BY <2>3
         DEF Persistence!Written, Persistence!WriteFails, Persistence!WriteNext,
             StoreInv, StoreInOrder
    <3>2. pDisk' = s \/ pFailed'
      BY <2>3 DEF Persistence!Written, Persistence!WriteFails
    <3>3. CASE pUnwritten BY <3>1, <3>3
    <3>4. CASE pQueued = <<pStore>>
      <4>1. pStore \in Persistence!States BY DEF StoreInv, Persistence!TypeOK
      <4>2. pWriting' = {pStore} BY <3>1, <3>4, <4>1, StoreQueueOfOne
      <4> QED BY <3>1, <4>2
    <3>5. CASE pQueued = <<>> /\ pWriting = {pStore}
      <4>1. pWriting' = {} /\ s = pStore BY <3>1, <3>5, StoreEmptyQueue
      <4> QED BY <3>1, <3>2, <4>1
    <3> QED BY <3>3, <3>4, <3>5
  <2>4. CASE UNCHANGED Persistence!vars
    BY <2>4 DEF Persistence!vars
  <2> QED BY <2>1, <2>2, <2>3, <2>4 DEF Persistence!Next, Persistence!Save
<1>3. StoreInv /\ [Persistence!Next]_(Persistence!vars) => StoreInv'
  BY StoreNextInv
<1> QED BY <1>1, <1>2, <1>3, PTL DEF Persistence!Spec

LEMMA LifecycleInTime == Lifecycle!Spec => []Lifecycle!NoneTooLate
<1>1. Lifecycle!Init => Lifecycle!NoneTooLate
  BY DEF Lifecycle!Init, Lifecycle!NoneTooLate
<1>2. Lifecycle!TypeOK /\ Lifecycle!NoneTooLate /\ [Lifecycle!Next]_(Lifecycle!vars)
          => Lifecycle!NoneTooLate'
  <2> SUFFICES ASSUME Lifecycle!TypeOK, Lifecycle!NoneTooLate,
                      [Lifecycle!Next]_(Lifecycle!vars)
               PROVE  Lifecycle!NoneTooLate'
    OBVIOUS
  <2> USE DEF Lifecycle!TypeOK, Lifecycle!NoneTooLate
  <2>1. CASE Lifecycle!StartService BY <2>1 DEF Lifecycle!StartService
  <2>2. CASE Lifecycle!StartEnds BY <2>2 DEF Lifecycle!StartEnds
  <2>3. CASE Lifecycle!StartThrows BY <2>3 DEF Lifecycle!StartThrows
  <2>4. ASSUME NEW c \in {"w1", "w2"}, Lifecycle!Started(c)
        PROVE  Lifecycle!NoneTooLate'
    <3>1. sWait'[c] = "waiting" => sStartHook # "done"
      BY <2>4 DEF Lifecycle!Started
    <3>2. \A d \in {"w1", "w2"} : d # c => sWait'[d] = sWait[d]
      BY <2>4 DEF Lifecycle!Started
    <3>3. UNCHANGED <<sState, sStartHook, sStop>>
      BY <2>4 DEF Lifecycle!Started
    <3> QED BY <3>1, <3>2, <3>3
  <2>5. ASSUME NEW c \in {"s1", "s2"}, Lifecycle!StopService(c)
        PROVE  Lifecycle!NoneTooLate'
    <3>1. /\ sStop'[c] = "waiting" => sState = "starting"
          /\ sStop'[c] = "hook" => sState = "started"
      BY <2>5 DEF Lifecycle!StopService
    <3>2. \A d \in {"s1", "s2"} : d # c => sStop'[d] = sStop[d]
      BY <2>5 DEF Lifecycle!StopService
    <3>3. UNCHANGED <<sState, sStartHook, sWait>>
      BY <2>5 DEF Lifecycle!StopService
    <3> QED BY <3>1, <3>2, <3>3
  <2>6. ASSUME NEW c \in {"s1", "s2"}, Lifecycle!StopEnds(c) \/ Lifecycle!StopThrows(c)
        PROVE  Lifecycle!NoneTooLate'
    <3>1. sStop'[c] \in {"done", "threw"} /\ sStop[c] = "hook"
      BY <2>6 DEF Lifecycle!StopEnds, Lifecycle!StopThrows
    <3>2. \A d \in {"s1", "s2"} : d # c => sStop'[d] = sStop[d]
      BY <2>6 DEF Lifecycle!StopEnds, Lifecycle!StopThrows
    <3>3. UNCHANGED <<sStartHook, sWait>> /\ sState' \in {sState, "stopped"}
      BY <2>6 DEF Lifecycle!StopEnds, Lifecycle!StopThrows
    <3> QED BY <3>1, <3>2, <3>3
  <2>7. CASE UNCHANGED Lifecycle!vars BY <2>7 DEF Lifecycle!vars
  <2> QED
    BY <2>1, <2>2, <2>3, <2>4, <2>5, <2>6, <2>7
       DEF Lifecycle!Next, Lifecycle!Start, Lifecycle!Stops
<1> QED BY <1>1, <1>2, LifecycleTypes, PTL DEF Lifecycle!Spec

\* The listener clears the cache before it looks up, so that what it finds is
\* news; other lookups go past a cache that holds no name or an expired one.
LEMMA NamesShown == Names!Spec => []Names!CachedIsShown
<1>1. Names!Init => Names!CachedIsShown
  BY DEF Names!Init, Names!CachedIsShown
<1>2. Names!TypeOK /\ Names!CachedIsShown /\ [Names!Next]_(Names!vars)
          => Names!CachedIsShown'
  <2> SUFFICES ASSUME Names!TypeOK, Names!CachedIsShown, [Names!Next]_(Names!vars)
               PROVE  Names!CachedIsShown'
    OBVIOUS
  <2> USE DEF Names!CachedIsShown
  <2>1. ASSUME NEW l \in {1, 2}, Names!LookUp(l) PROVE Names!CachedIsShown'
    <3>1. nCached' = nBook => nBook = "-" \/ nShown' = nBook \/ nEdited
      BY <2>1 DEF Names!LookUp, Names!Resolve, Names!Found
    <3> QED BY <2>1, <3>1 DEF Names!LookUp
  <2>2. ASSUME NEW l \in {1, 2}, Names!HandleEdit(l) PROVE Names!CachedIsShown'
    <3>1. nBook = "-" \/ nShown' = nBook
      BY <2>2 DEF Names!HandleEdit, Names!Resolve, Names!Found
    <3> QED BY <2>2, <3>1 DEF Names!HandleEdit
  <2>3. ASSUME NEW l \in {1, 2}, Names!ChainAnswers(l) PROVE Names!CachedIsShown'
    <3>1. nOnChain \in {"x", "y", "-"} /\ nBook \in {"b", "c", "-"}
      BY DEF Names!TypeOK
    <3>2. CASE nOnChain # "-" /\ Names!Found(nOnChain, nLookup[l])
      BY <2>3, <3>1, <3>2 DEF Names!ChainAnswers, Names!Found
    <3>3. CASE UNCHANGED <<nCached, nExpired, nShown>>
      BY <2>3, <3>3 DEF Names!ChainAnswers
    <3> QED BY <2>3, <3>2, <3>3 DEF Names!ChainAnswers
  <2>4. CASE \/ \E name \in {"b", "c"} : Names!EditBook(name)
             \/ \E name \in {"x", "y"} \cup {"-"} : Names!Register(name)
    BY <2>4 DEF Names!EditBook, Names!Register
  <2>5. CASE Names!ClearEntry BY <2>5 DEF Names!ClearEntry
  <2>6. CASE Names!Expire BY <2>6 DEF Names!Expire
  <2>7. CASE UNCHANGED Names!vars BY <2>7 DEF Names!vars
  <2> QED
    BY <2>1, <2>2, <2>3, <2>4, <2>5, <2>6, <2>7
       DEF Names!Next, Names!LookUpAny, Names!HandleAny
<1> QED BY <1>1, <1>2, NameTypes, PTL DEF Names!Spec

\* Only a hurried refresh leaves the field of the timer as it was.
FastIsHurried == iActive \in {"fast", "run"} => iHurried

LEMMA RefreshTimers == Indexing!Spec => []Indexing!OwedHasTimer
<1> DEFINE Timers == Indexing!OwedHasTimer /\ FastIsHurried
<1>1. Indexing!Init => Timers
  BY DEF Indexing!Init, Indexing!OwedHasTimer, FastIsHurried
<1>2. Indexing!TypeOK /\ Timers /\ [Indexing!Next]_(Indexing!vars) => Timers'
  <2> SUFFICES ASSUME Indexing!TypeOK, Timers, [Indexing!Next]_(Indexing!vars)
               PROVE  Timers'
    OBVIOUS
  <2> USE DEF Indexing!OwedHasTimer, FastIsHurried
  <2>1. ASSUME UNCHANGED <<iActive, iAll, iOwed, iHurried>> PROVE Timers'
    BY <2>1
  <2>2. CASE Indexing!RefreshActive
    <3>1. iActive \in {"none", "slow", "fast", "run"} BY DEF Indexing!TypeOK
    <3> QED BY <2>2, <3>1 DEF Indexing!RefreshActive
  <2>3. CASE Indexing!RefreshAll BY <2>3 DEF Indexing!RefreshAll
  <2>4. CASE Indexing!Hurry BY <2>4 DEF Indexing!Hurry
  <2>5. ASSUME NEW l \in {1}, Indexing!Refresh(l) PROVE Timers'
    BY <2>5 DEF Indexing!Refresh, Indexing!FireActive, Indexing!FireAll, Indexing!Begin
  <2>6. ASSUME NEW l \in {2}, Indexing!NewAccount(l) PROVE Timers'
    BY <2>1, <2>6 DEF Indexing!NewAccount, Indexing!Begin
  <2>7. ASSUME NEW l, \/ Indexing!Proceed(l)
                      \/ \E a \in {"t", "u"} : Indexing!FindAsset(l, a)
        PROVE  Timers'
    BY <2>1, <2>7
       DEF Indexing!Proceed, Indexing!NoteTracked, Indexing!EndAccount,
           Indexing!EndRefresh, Indexing!FindAsset, Indexing!Loaded
  <2>8. CASE Indexing!SchedulePrices \/ Indexing!FirePrices \/ Indexing!ReadTracked
    BY <2>1, <2>8
       DEF Indexing!SchedulePrices, Indexing!FirePrices, Indexing!ReadTracked
  <2>9. CASE UNCHANGED Indexing!vars BY <2>1, <2>9 DEF Indexing!vars
  <2> QED
    BY <2>2, <2>3, <2>4, <2>5, <2>6, <2>7, <2>8, <2>9 DEF Indexing!Next
<1>3. Timers => Indexing!OwedHasTimer OBVIOUS
<1> QED BY <1>1, <1>2, <1>3, RefreshTypes, PTL DEF Indexing!Spec

\* A refresh that is under way, and did not know the asset when it began, will
\* have its price asked for.
Awaits(l, a) == iLoad[l].at = "refresh" /\ a \notin iLoad[l].before

\* What a load notes stays tracked.
NotedIsTracked == \A l \in {1} \cup {2} : iLoad[l].before \subseteq iTracked

PriceInv == NotedIsTracked /\ Indexing!UnpricedIsDue

LEMMA DueOf ==
    Indexing!UnpricedIsDue <=>
        \A a \in iFound \ iPriced :
            iPrices \/ iReading \/ \E l \in {1} \cup {2} : Awaits(l, a)
BY DEF Indexing!UnpricedIsDue, Indexing!Calls, Awaits

\* A step that takes no refresh away but for a timer of the prices.
LEMMA StillDue ==
    ASSUME Indexing!UnpricedIsDue, UNCHANGED <<iFound, iPriced>>,
           iPrices \/ iReading => iPrices' \/ iReading',
           \A l \in {1} \cup {2}, a \in iFound : Awaits(l, a) => Awaits(l, a)' \/ iPrices'
    PROVE  Indexing!UnpricedIsDue'
<1>1. ASSUME NEW a \in iFound' \ iPriced'
      PROVE  iPrices' \/ iReading' \/ \E l \in {1} \cup {2} : Awaits(l, a)'
  <2>1. a \in iFound /\ (iPrices \/ iReading \/ \E l \in {1} \cup {2} : Awaits(l, a))
    BY DueOf
  <2> QED BY <2>1
<1> QED BY <1>1 DEF Indexing!UnpricedIsDue, Indexing!Calls, Awaits

LEMMA RefreshPrices ==
    ASSUME Indexing!TypeOK, PriceInv, [Indexing!Next]_(Indexing!vars)
    PROVE  PriceInv'
<1> USE DEF PriceInv, NotedIsTracked
<1> DEFINE Load == [at : {"idle", "begin", "refresh", "account"}, before : SUBSET {"t", "u"}]
<1>0. /\ iLoad \in [{1} \cup {2} -> Load] /\ iFound \subseteq iTracked
      /\ iPriced \subseteq iTracked /\ iTracked \subseteq {"t", "u"}
  BY DEF Indexing!TypeOK, Indexing!Calls
<1>1. ASSUME NEW l \in {1} \cup {2}, NEW at, Indexing!Begin(l, at) PROVE PriceInv'
  <2>1. /\ iLoad[l].at # "refresh"
        /\ iLoad'[l].before = iLoad[l].before
        /\ \A k \in {1} \cup {2} : k # l => iLoad'[k] = iLoad[k]
    BY <1>0, <1>1 DEF Indexing!Begin, Indexing!Idle
  <2>2. UNCHANGED <<iTracked, iFound, iPriced, iPrices, iReading>>
    BY <1>1 DEF Indexing!Begin, Indexing!prices
  <2>3. NotedIsTracked' BY <2>1, <2>2
  <2>4. \A k \in {1} \cup {2}, a \in iFound : Awaits(k, a) => Awaits(k, a)'
    BY <2>1 DEF Awaits
  <2> QED BY <2>2, <2>3, <2>4, StillDue
<1>2. ASSUME NEW l \in {1} \cup {2}, NEW r, Indexing!Loaded(l, r),
             UNCHANGED <<iTracked, iFound>>, r.before \subseteq iTracked,
             iPrices => iPrices',
             \A a \in iFound : Awaits(l, a) => iPrices'
      PROVE  PriceInv'
  <2>1. /\ iLoad'[l] = r /\ \A k \in {1} \cup {2} : k # l => iLoad'[k] = iLoad[k]
        /\ UNCHANGED <<iPriced, iReading>>
    BY <1>0, <1>2 DEF Indexing!Loaded
  <2>2. NotedIsTracked' BY <1>2, <2>1
  <2>3. \A k \in {1} \cup {2}, a \in iFound : Awaits(k, a) => Awaits(k, a)' \/ iPrices'
    BY <1>2, <2>1 DEF Awaits
  <2> QED BY <1>2, <2>1, <2>2, <2>3, StillDue
<1>3. ASSUME NEW l \in {1} \cup {2}, Indexing!NoteTracked(l) PROVE PriceInv'
  <2>1. \A a \in iFound : ~Awaits(l, a)
    BY <1>3 DEF Indexing!NoteTracked, Awaits
  <2> QED BY <1>2, <1>3, <2>1 DEF Indexing!NoteTracked
<1>4. ASSUME NEW l \in {1} \cup {2}, Indexing!EndAccount(l) PROVE PriceInv'
  <2>1. \A a \in iFound : ~Awaits(l, a)
    BY <1>4 DEF Indexing!EndAccount, Awaits
  <2>2. iPrices => iPrices' BY <1>4 DEF Indexing!EndAccount
  <2> QED BY <1>2, <1>4, <2>1, <2>2 DEF Indexing!EndAccount, Indexing!Idle
<1>5. ASSUME NEW l \in {1} \cup {2}, Indexing!EndRefresh(l) PROVE PriceInv'
  <2>1. iPrices' <=> iPrices \/ iLoad[l].before # iTracked
    BY <1>5 DEF Indexing!EndRefresh
  <2>2. \A a \in iFound : Awaits(l, a) => iLoad[l].before # iTracked
    BY <1>0 DEF Awaits
  <2> QED BY <1>2, <1>5, <2>1, <2>2 DEF Indexing!EndRefresh, Indexing!Idle
<1>6. ASSUME NEW l \in {1} \cup {2}, NEW a \in {"t", "u"}, Indexing!FindAsset(l, a)
      PROVE  PriceInv'
  <2>1. iLoad' = iLoad BY <1>0, <1>6 DEF Indexing!FindAsset, Indexing!Loaded
  <2>2. /\ iTracked' = iTracked \cup {a} /\ a \notin iTracked
        /\ UNCHANGED <<iPrices, iReading, iPriced>>
    BY <1>6 DEF Indexing!FindAsset, Indexing!Loaded
  <2>3. \/ iFound' = iFound
        \/ iFound' = iFound \cup {a} /\ Awaits(l, a)
    BY <1>6, <2>2 DEF Indexing!FindAsset, Awaits
  <2>4. NotedIsTracked' BY <2>1, <2>2
  <2>5. \A k, b : Awaits(k, b)' <=> Awaits(k, b) BY <2>1 DEF Awaits
  <2>6. ASSUME NEW b \in iFound' \ iPriced'
        PROVE  iPrices' \/ iReading' \/ \E k \in {1} \cup {2} : Awaits(k, b)'
    <3>1. CASE b \in iFound
      <4>1. iPrices \/ iReading \/ \E k \in {1} \cup {2} : Awaits(k, b)
        BY <2>2, <2>6, <3>1, DueOf
      <4> QED BY <2>2, <2>5, <4>1
    <3>2. CASE b \notin iFound
      <4>1. Awaits(l, b) BY <2>3, <3>2
      <4> QED BY <2>5, <4>1
    <3> QED BY <3>1, <3>2
  <2>7. Indexing!UnpricedIsDue'
    BY <2>6 DEF Indexing!UnpricedIsDue, Indexing!Calls, Awaits
  <2> QED BY <2>4, <2>7
<1>7. ASSUME UNCHANGED <<iLoad, iTracked, iFound, iPriced>>,
             iPrices \/ iReading => iPrices' \/ iReading'
      PROVE  PriceInv'
  BY <1>7, StillDue DEF Awaits
<1>8. CASE Indexing!RefreshActive \/ Indexing!RefreshAll \/ Indexing!Hurry
  BY <1>7, <1>8 DEF Indexing!RefreshActive, Indexing!RefreshAll, Indexing!Hurry,
                    Indexing!loading, Indexing!prices
<1>9. CASE Indexing!SchedulePrices \/ Indexing!FirePrices \/ UNCHANGED Indexing!vars
  BY <1>7, <1>9 DEF Indexing!SchedulePrices, Indexing!FirePrices, Indexing!loading,
                    Indexing!vars
<1>10. CASE Indexing!ReadTracked
  <2>1. iPriced' = iTracked /\ UNCHANGED <<iLoad, iTracked, iFound>>
    BY <1>10 DEF Indexing!ReadTracked, Indexing!loading
  <2>2. iFound' \ iPriced' = {} BY <1>0, <2>1
  <2> QED BY <2>1, <2>2 DEF Indexing!UnpricedIsDue
<1>11. ASSUME NEW l \in {1}, Indexing!Refresh(l) PROVE PriceInv'
  BY <1>1, <1>11 DEF Indexing!Refresh, Indexing!FireActive, Indexing!FireAll
<1>12. ASSUME NEW l \in {2}, Indexing!NewAccount(l) PROVE PriceInv'
  BY <1>1, <1>12 DEF Indexing!NewAccount
<1> QED
  BY <1>3, <1>4, <1>5, <1>6, <1>8, <1>9, <1>10, <1>11, <1>12
     DEF Indexing!Next, Indexing!Proceed, Indexing!Calls

LEMMA RefreshPriced == Indexing!Spec => []Indexing!UnpricedIsDue
<1>1. Indexing!Init => PriceInv
  <2> SUFFICES ASSUME Indexing!Init PROVE PriceInv
    OBVIOUS
  <2>1. \A l \in {1} \cup {2} : iLoad[l].before = {}
    BY DEF Indexing!Init, Indexing!Calls, Indexing!Idle
  <2>2. iFound = {} BY DEF Indexing!Init
  <2> QED BY <2>1, <2>2 DEF PriceInv, NotedIsTracked, Indexing!UnpricedIsDue
<1>2. Indexing!TypeOK /\ PriceInv /\ [Indexing!Next]_(Indexing!vars) => PriceInv'
  BY RefreshPrices
<1>3. PriceInv => Indexing!UnpricedIsDue BY DEF PriceInv
<1> QED BY <1>1, <1>2, <1>3, RefreshTypes, PTL DEF Indexing!Spec

-----------------------------------------------------------------------------
(* The components side by side.                                            *)

\* What the run checks is, for every component, a behaviour of the component:
\* its steps are the steps it takes when it is in focus.
LEMMA Parts == SpecAll => Spec /\ Batches!Spec /\ Ledger!Spec /\ Persistence!Spec
<1>1. InitAll => Init /\ Batches!Init /\ Ledger!Init /\ Persistence!Init
  BY DEF InitAll
<1>2. [NextAll]_everything => [Next]_vars
  BY DEF NextAll, everything
<1>3. [NextAll]_everything => [Ledger!Next]_(Ledger!vars)
  BY DEF NextAll, everything, others, ledger, Ledger!vars, Ledger!usb, Ledger!events
<1>4. [NextAll]_everything => [Persistence!Next]_(Persistence!vars)
  BY DEF NextAll, everything, others, persistence, Persistence!vars
<1>5. [NextAll]_everything => [Batches!Next]_(Batches!vars)
  BY DEF NextAll, everything, others, batches, Batches!vars
<1> QED
  BY <1>1, <1>2, <1>3, <1>4, <1>5, PTL
     DEF SpecAll, Spec, Batches!Spec, Ledger!Spec, Persistence!Spec

\* RpcBatches: requests leave in the order they came in, and none is lost, sent
\* twice or left unanswered once its batch has ended, however batches are cut,
\* and whatever disconnects (sendNextBatch).
THEOREM BatchesInOrder == SpecAll => []InOrder
<1>1. BatchInv => InOrder BY DEF BatchInv, InOrder
<1> QED BY <1>1, BatchesInv, Parts, PTL

\* LedgerDevice: a serialised signature is only asked of the Ledger that holds
\* its account, whatever is plugged in and out between the check and the device
\* (runSerialized, checkCanSign).
THEOREM SignsOnRightDevice == SpecAll => []RightDevice
<1>1. LedgerInv => RightDevice BY DEF LedgerInv, RightDevice
<1> QED BY <1>1, LedgerRightAlways, Parts, PTL

\* StorePersistence: local storage goes only forward through states the store
\* has had, and the background comes back with one of them, however slow the
\* writes are, which ones fail and whenever it stops (persistStore).
THEOREM StorageAlwaysFollows == SpecAll => StorageFollows
BY Parts, StoreFollows DEF StorageFollows

\* Permissions: whoever waits for its user is the one pending request of its
\* origin, although the check comes four awaits after the request
\* (requestPermission).
THEOREM OneRequestPending == SpecAll => []OneRequestPerOrigin
<1>1. Granted!Spec => []Granted!OneRequestPerOrigin
  BY SensibleAccess, Granted!OnePending
<1>2. Granted!OneRequestPerOrigin => OneRequestPerOrigin
  BY SameAccess DEF OneRequestPerOrigin
<1> QED BY <1>1, <1>2, AccessPart, PTL

\* Permissions: a site is told of an account only if it had a permission for
\* that account since it asked, whatever the user does meanwhile in its popup or
\* in that of another site (onMessageListener).
THEOREM SitesToldOnlyAllowed == SpecAll => []DisclosedWasAllowed
<1>1. Granted!Spec => []Granted!DisclosedWasAllowed
  BY SensibleAccess, Granted!ToldOnlyAllowed
<1>2. Granted!DisclosedWasAllowed => DisclosedWasAllowed
  BY SameAccess DEF DisclosedWasAllowed
<1> QED BY <1>1, <1>2, AccessPart, PTL

\* StoreWindows: a popup or tab that has received all there is has every change
\* of the store, whenever it was opened and however often the background was
\* restarted (wrapStore, newProxyStore).
THEOREM WindowsMissNothing == SpecAll => []NothingMissing
<1>1. Views!Spec => []Views!NothingMissing
  BY WindowNumbers, Views!NothingIsMissing
<1>2. Views!NothingMissing => NothingMissing
  BY SameWindows DEF NothingMissing
<1> QED BY <1>1, <1>2, WindowsPart, PTL

\* StoreWindows: the reply to a dispatch never overtakes the update of the state
\* that it stands for (dispatchResponder, releaseLock).
THEOREM RepliesAfterChanges == SpecAll => RepliesSeeChanges
<1>1. Views!Spec => Views!RepliesSeeChanges
  BY WindowNumbers, Views!RepliesComeAfterChanges
<1>2. [\A w \in Pages :
          Views!ReceiveReply(w) => wCopy[w].change >= wSeen[w]]_(Views!vars)
      => [\A w \in Pages :
             Copies!ReceiveReply(w) => wCopy[w].change >= wSeen[w]]_(Copies!vars)
  BY SameWindows DEF Views!vars, Views!windows, Copies!vars, Copies!windows
<1> QED
  BY <1>1, <1>2, WindowsPart, PTL
     DEF RepliesSeeChanges, Copies!RepliesSeeChanges, Views!RepliesSeeChanges

\* The parts of ServiceLifecycle, NameCache and BalanceRefresh.
LEMMA OtherParts == SpecAll => Lifecycle!Spec /\ Names!Spec /\ Indexing!Spec
<1>1. InitAll => Lifecycle!Init /\ Names!Init /\ Indexing!Init
  BY DEF InitAll
<1>2. [NextAll]_everything => [Lifecycle!Next]_(Lifecycle!vars)
  BY DEF NextAll, everything, others, lifecycle, Lifecycle!vars
<1>3. [NextAll]_everything => [Names!Next]_(Names!vars)
  BY DEF NextAll, everything, others, names, Names!vars
<1>4. [NextAll]_everything => [Indexing!Next]_(Indexing!vars)
  BY DEF NextAll, everything, others, refresh, Indexing!vars
<1> QED
  BY <1>1, <1>2, <1>3, <1>4, PTL
     DEF SpecAll, Lifecycle!Spec, Names!Spec, Indexing!Spec

LEMMA WindowTypes == SpecAll => []Copies!TypeOK
<1>1. Views!Spec => []Views!IInv
  BY WindowNumbers, Views!Always
<1>2. Views!IInv => Copies!TypeOK
  BY DEF Views!IInv, Views!TypeOK, Copies!TypeOK, Views!States, Copies!States,
         Views!Messages, Copies!Messages
<1> QED BY <1>1, <1>2, WindowsPart, PTL

LEMMA AccessTypes == SpecAll => []Access!TypeOK
<1>1. Granted!Spec => []Granted!TypeOK
  BY SensibleAccess, Granted!TypeCorrect
<1>2. Granted!TypeOK => Access!TypeOK
  BY DEF Granted!TypeOK, Access!TypeOK, Granted!RequestIds, Access!RequestIds,
         Granted!Methods, Access!Methods, Granted!Stages, Access!Stages
<1> QED BY <1>1, <1>2, AccessPart, PTL

-----------------------------------------------------------------------------
(* What the liveness properties of the components rest on.  That the steps *)
(* are taken is a matter of fairness, and checked; that nothing is ever    *)
(* left that no step would see to is proved here.                          *)

\* RpcBatches: a request waits only while a timer is set, or behind one that is
\* too large for any batch: no batch, refusal, error or disconnect leaves one in
\* the queue with the field of the timer empty (sendNextBatch).
THEOREM BatchesHaveTimer == SpecAll => []Batches!TimerIsSet
BY BatchTimerIsSet, Parts, PTL

\* StorePersistence: the last state is stored, or on its way there, or its write
\* has failed; it is never dropped behind a slow write (persistStore).
THEOREM LastStateIsKept == SpecAll => []Persistence!LastStateKept
BY StoreKeepsLast, Parts, PTL

\* ServiceLifecycle: who waits for the end of a start began to wait before that
\* end, and a stop hook only runs after the start hook (started, stopService).
THEOREM NobodyIsTooLate == SpecAll => []Lifecycle!NoneTooLate
BY LifecycleInTime, OtherParts, PTL

\* NameCache: once its change is handled, the name of the user's book is in the
\* cache only if it is shown, although an older answer of a name service may take
\* its place in both (lookUpName).
THEOREM BookNameIsShown == SpecAll => []Names!CachedIsShown
BY NamesShown, OtherParts, PTL

\* BalanceRefresh: a refresh that is owed has a timer, unless a confirmed
\* transaction has hurried one (refreshAccountBalances).
THEOREM OwedRefreshHasTimer == SpecAll => []Indexing!OwedHasTimer
BY RefreshTimers, OtherParts, PTL

\* BalanceRefresh: an asset without a price is younger than a refresh that is
\* under way, or the prices are due, whichever refreshes and loads overlap and
\* whenever the tracked assets are read (loadAccountBalances).
THEOREM UnpricedAssetIsDue == SpecAll => []Indexing!UnpricedIsDue
BY RefreshPriced, OtherParts, PTL

\* Permissions: who waits for the user has a popup, or its end is being reported
\* (requestPermission).
THEOREM WaitingSitesHavePopups == SpecAll => []Access!WaitersHavePopups
<1>1. Granted!Spec => []Granted!WaitersHavePopups
  BY SensibleAccess, Granted!NoWaitWithoutPopup
<1>2. Granted!WaitersHavePopups => Access!WaitersHavePopups
  BY DEF Granted!WaitersHavePopups, Access!WaitersHavePopups, Granted!RequestIds,
         Access!RequestIds
<1> QED BY <1>1, <1>2, AccessPart, PTL

\* Every component stays well typed, whatever the bounds are: its counters and
\* queues stay within them and its messages are those that it handles.
THEOREM AllTypesHold == SpecAll => []TypesOK
<1> DEFINE Focus == focus \in {"breaker", "batches", "persistence", "windows",
                              "lifecycle", "ledger", "access", "names", "refresh"}
<1>1. InitAll => Focus
  BY DEF InitAll
<1>2. Focus /\ [NextAll]_everything => Focus'
  BY DEF NextAll, everything
<1>3. SpecAll => []Focus
  BY <1>1, <1>2, PTL DEF SpecAll
<1>4. CountInv => TypeOK
  BY DEF CountInv
<1>5. /\ Focus /\ TypeOK /\ Batches!TypeOK /\ Persistence!TypeOK /\ Copies!TypeOK
      /\ Lifecycle!TypeOK /\ Ledger!TypeOK /\ Access!TypeOK /\ Names!TypeOK
      /\ Indexing!TypeOK
      => TypesOK
  BY DEF TypesOK
<1> QED
  BY <1>3, <1>4, <1>5, CountAlways, BatchTypesHold, StoreTypes, LedgerTypes,
     LifecycleTypes, NameTypes, RefreshTypes, WindowTypes, AccessTypes, Parts,
     OtherParts, PTL
=============================================================================
