---------------------------- MODULE CircuitBreaker ----------------------------
(***************************************************************************)
(* The circuit breaker of one provider (class CircuitBreaker) and the      *)
(* requests SerialFallbackProvider.routeRpcCall sends under it.  Requests  *)
(* overlap: an outcome is recorded whatever state the breaker is in by     *)
(* then, not the state the request was let through in.                     *)
(***************************************************************************)
EXTENDS Integers, Sequences

CONSTANTS
    Requests,           \* bound: requests in flight together
    FailureThreshold,   \* options.failureThreshold
    FailureWindow,      \* options.failureWindowMs
    InitialCooldown,    \* options.initialCooldownMs
    MaxCooldown,        \* options.maxCooldownMs
    Multiplier,         \* options.cooldownBackoffMultiplier
    RequestTimeout,     \* PROVIDER_REQUEST_TIMEOUT: requests end within it
    MaxTime             \* bound: the clock

ASSUME BreakerAssumption ==
    /\ FailureThreshold \in Nat \ {0}
    /\ FailureWindow \in Nat
    /\ InitialCooldown \in Nat /\ MaxCooldown \in Nat
    /\ InitialCooldown <= MaxCooldown
    /\ Multiplier \in Nat \ {0}
    /\ RequestTimeout \in Nat
    /\ MaxTime \in Nat

VARIABLES
    state,              \* closed, open or half-open
    failureTimestamps,
    openedAt,
    currentCooldown,
    probeInFlight,
    now,
    flight,             \* requests in flight: when sent, and whether as a probe
    run                 \* history: failures recorded since the last success,
                        \* trip or recovery, all of them

breakerVars == <<state, failureTimestamps, openedAt, currentCooldown, probeInFlight>>
vars == <<breakerVars, now, flight, run>>

NoFlight == [sent |-> -1, probe |-> FALSE]

TypeOK ==
    /\ state \in {"closed", "open", "half-open"}
    /\ failureTimestamps \in Seq(0..MaxTime)
    /\ openedAt \in 0..MaxTime
    /\ currentCooldown \in InitialCooldown..MaxCooldown
    /\ probeInFlight \in BOOLEAN
    /\ now \in 0..MaxTime
    /\ flight \in [Requests -> {NoFlight} \cup [sent : 0..MaxTime, probe : BOOLEAN]]
    /\ run \in Seq(0..MaxTime)

Init ==
    /\ state = "closed"
    /\ failureTimestamps = <<>>
    /\ openedAt = 0
    /\ currentCooldown = InitialCooldown
    /\ probeInFlight = FALSE
    /\ now = 0
    /\ flight = [r \in Requests |-> NoFlight]
    /\ run = <<>>

Smaller(a, b) == IF a <= b THEN a ELSE b

-----------------------------------------------------------------------------
(* canRequest returns true: the request is sent.  When it returns false the *)
(* breaker does not change.                                                *)

RequestClosed(r) ==
    /\ state = "closed"
    /\ flight[r] = NoFlight
    /\ flight' = [flight EXCEPT ![r] = [sent |-> now, probe |-> FALSE]]
    /\ UNCHANGED <<breakerVars, now, run>>

Cooled == now - openedAt >= currentCooldown

\* Mutant of RequestProbe: the probe is not noted.
RequestProbes(r) ==
    /\ \/ state = "open" /\ Cooled
       \/ state = "half-open" /\ ~probeInFlight
    /\ flight[r] = NoFlight
    /\ state' = "half-open"
    /\ UNCHANGED probeInFlight
    /\ flight' = [flight EXCEPT ![r] = [sent |-> now, probe |-> TRUE]]
    /\ UNCHANGED <<failureTimestamps, openedAt, currentCooldown, now, run>>

\* After the cooldown, or half-open without a probe: the request is the probe.
RequestProbe(r) ==
    /\ \/ state = "open" /\ Cooled
       \/ state = "half-open" /\ ~probeInFlight
    /\ flight[r] = NoFlight
    /\ state' = "half-open"
    /\ probeInFlight' = TRUE
    /\ flight' = [flight EXCEPT ![r] = [sent |-> now, probe |-> TRUE]]
    /\ UNCHANGED <<failureTimestamps, openedAt, currentCooldown, now, run>>

-----------------------------------------------------------------------------

\* Mutant of RecordSuccess: any success closes the breaker.
CloseOnSuccess ==
    /\ failureTimestamps' = <<>>
    /\ probeInFlight' = FALSE
    /\ currentCooldown' = InitialCooldown
    /\ state' = "closed"
    /\ UNCHANGED openedAt

RecordSuccess ==
    /\ failureTimestamps' = <<>>
    /\ IF state = "half-open"
       THEN /\ probeInFlight' = FALSE
            /\ currentCooldown' = InitialCooldown
            /\ state' = "closed"
       ELSE UNCHANGED <<probeInFlight, currentCooldown, state>>
    /\ UNCHANGED openedAt

InWindow(t) == t >= now - FailureWindow

\* Mutant of Expired: old failures are kept.
NeverExpired(times, n) == n = 0

\* The filter of the window takes the first n of the times, as they are in order.
Expired(times, n) ==
    /\ \A i \in 1..n : ~InWindow(times[i])
    /\ \A i \in (n + 1)..Len(times) : InWindow(times[i])

\* Mutant of FailProbe: the cooldown grows without a cap.
FailProbeUncapped ==
    /\ state = "half-open"
    /\ probeInFlight' = FALSE
    /\ currentCooldown' = currentCooldown * Multiplier
    /\ openedAt' = now
    /\ state' = "open"
    /\ UNCHANGED failureTimestamps

\* Mutant of FailProbe: the breaker stays half-open for the next probe.
FailProbeStays ==
    /\ state = "half-open"
    /\ probeInFlight' = FALSE
    /\ currentCooldown' = Smaller(currentCooldown * Multiplier, MaxCooldown)
    /\ openedAt' = now
    /\ UNCHANGED <<state, failureTimestamps>>

FailProbe ==
    /\ state = "half-open"
    /\ probeInFlight' = FALSE
    /\ currentCooldown' = Smaller(currentCooldown * Multiplier, MaxCooldown)
    /\ openedAt' = now
    /\ state' = "open"
    /\ UNCHANGED failureTimestamps

IgnoreFailure ==
    /\ state = "open"
    /\ UNCHANGED breakerVars

CountFailure ==
    /\ state = "closed"
    /\ \E n \in 0..Len(failureTimestamps) :
          LET times  == Append(failureTimestamps, now)
              recent == SubSeq(times, n + 1, Len(times))
          IN  /\ Expired(times, n)
              /\ IF Len(recent) >= FailureThreshold
                 THEN /\ currentCooldown' = InitialCooldown
                      /\ openedAt' = now
                      /\ failureTimestamps' = <<>>
                      /\ state' = "open"
                 ELSE /\ failureTimestamps' = recent
                      /\ UNCHANGED <<currentCooldown, openedAt, state>>
    /\ UNCHANGED probeInFlight

RecordFailure == FailProbe \/ IgnoreFailure \/ CountFailure

-----------------------------------------------------------------------------

Ended(r) == flight' = [flight EXCEPT ![r] = NoFlight]

Succeed(r) ==
    /\ flight[r] # NoFlight
    /\ Ended(r)
    /\ RecordSuccess
    /\ run' = <<>>
    /\ UNCHANGED now

Fail(r) ==
    /\ flight[r] # NoFlight
    /\ Ended(r)
    /\ RecordFailure
    /\ run' = IF state = "closed" /\ state' = "closed"
              THEN Append(run, now) ELSE <<>>
    /\ UNCHANGED now

\* No request outlives its timeout.
Tick ==
    /\ now < MaxTime
    /\ \A r \in Requests : flight[r] # NoFlight => now < flight[r].sent + RequestTimeout
    /\ now' = now + 1
    /\ UNCHANGED <<breakerVars, flight, run>>

Next ==
    \/ \E r \in Requests : \/ RequestClosed(r) \/ RequestProbe(r)
                           \/ Succeed(r) \/ Fail(r)
    \/ Tick

Spec == Init /\ [][Next]_vars

-----------------------------------------------------------------------------
(* Properties.                                                             *)

\* Half-open lets "exactly one probe through", also when answers of requests
\* from before the outage settle the breaker while a probe is still out: no
\* two probes are ever in flight together (canRequest, with requests that end
\* before the shortest cooldown is over).
OneProbe ==
    \A q, r \in Requests :
        flight[q].probe /\ flight[r].probe => q = r

\* A half-open breaker always waits for a request that is in flight, so that
\* an outcome is sure to come: it is never stuck half-open (canRequest,
\* recordFailure, recordSuccess).
HalfOpenIsWaiting ==
    state = "half-open" => \E r \in Requests : flight[r].probe

\* The breaker trips exactly when the failures since the last success, trip or
\* recovery reach the threshold within one window (recordFailure).
Recent == {i \in 1..Len(run) : InWindow(run[i])}

TripsOnRun ==
    [][/\ state = "closed"
       /\ \E r \in Requests : Fail(r)
       => (state' = "open" <=>
             \E i \in 1..(Len(run) + 1) :
                 /\ Len(run) + 1 - i + 1 >= FailureThreshold
                 /\ i <= Len(run) => i \in Recent)]_vars

\* The states follow the cycle of BreakerCycle: in particular an open breaker
\* closes only after a probe, whatever late successes arrive.
Cycle == INSTANCE BreakerCycle WITH state <- state
FollowsCycle == Cycle!Spec
=============================================================================
