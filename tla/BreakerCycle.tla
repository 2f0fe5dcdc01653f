----------------------------- MODULE BreakerCycle -----------------------------
(***************************************************************************)
(* What a circuit breaker promises its users: the cycle of its states.  It *)
(* trips from closed to open, leaves open only by sending a probe, and     *)
(* leaves half-open only with an outcome, to closed or back to open.       *)
(* CircuitBreaker implements it.                                           *)
(***************************************************************************)
VARIABLE state

Init == state = "closed"

Trip   == state = "closed"    /\ state' = "open"
Probe  == state = "open"      /\ state' = "half-open"
Settle == state = "half-open" /\ state' \in {"closed", "open"}

Next == Trip \/ Probe \/ Settle

Spec == Init /\ [][Next]_state
=============================================================================
