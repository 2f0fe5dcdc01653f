---------------------------- MODULE ServiceLifecycle ----------------------------
(***************************************************************************)
(* BaseService: how a service starts and stops.  startService and          *)
(* stopService are called by ReduxService, started by anyone who needs the *)
(* service; the calls overlap, and each hook of a subclass takes a while   *)
(* and may throw.                                                          *)
(***************************************************************************)

CONSTANTS
    Stoppers,  \* calls of stopService
    Waiters    \* calls of started

VARIABLES
    serviceState,
    startHook, \* internalStartService: none, running, done or threw
    stop,      \* per call of stopService: where it is
    wait       \* per call of started: where it is

vars == <<serviceState, startHook, stop, wait>>

\* threw: the call of stopService came before any start, or its hook threw.
TypeOK ==
    /\ serviceState \in {"unstarted", "starting", "started", "stopped"}
    /\ startHook \in {"none", "running", "done", "threw"}
    /\ stop \in [Stoppers -> {"none", "called", "waiting", "hook", "done", "threw"}]
    /\ wait \in [Waiters -> {"none", "waiting", "done", "threw"}]

Init ==
    /\ serviceState = "unstarted"
    /\ startHook = "none"
    /\ stop = [c \in Stoppers |-> "none"]
    /\ wait = [c \in Waiters |-> "none"]

-----------------------------------------------------------------------------

\* A start that is under way or over makes no difference, and a stopped service
\* throws.
StartService ==
    /\ serviceState = "unstarted"
    /\ serviceState' = "starting"
    /\ startHook' = "running"
    /\ UNCHANGED <<stop, wait>>

\* Mutant of StartEnds: serviceStarted is emitted to nobody.
StartEndsQuietly ==
    /\ startHook = "running"
    /\ startHook' = "done"
    /\ serviceState' = "started"
    /\ UNCHANGED <<stop, wait>>

\* The state changes, then serviceStarted is emitted: who waited goes on, the
\* calls of stopService with another call of stopService.
StartEnds ==
    /\ startHook = "running"
    /\ startHook' = "done"
    /\ serviceState' = "started"
    /\ wait' = [c \in Waiters |-> IF wait[c] = "waiting" THEN "done" ELSE wait[c]]
    /\ stop' = [c \in Stoppers |-> IF stop[c] = "waiting" THEN "called" ELSE stop[c]]

\* The service stays in "starting".
StartThrows ==
    /\ startHook = "running"
    /\ startHook' = "threw"
    /\ UNCHANGED <<serviceState, stop, wait>>

Started(c) ==
    /\ wait[c] = "none"
    /\ wait' = [wait EXCEPT ![c] = CASE serviceState = "started" -> "done"
                                     [] serviceState = "stopped" -> "threw"
                                     [] OTHER -> "waiting"]
    /\ UNCHANGED <<serviceState, startHook, stop>>

StopService(c) ==
    /\ stop[c] \in {"none", "called"}
    /\ stop' = [stop EXCEPT ![c] = CASE serviceState = "unstarted" -> "threw"
                                     [] serviceState = "stopped" -> "done"
                                     [] serviceState = "starting" -> "waiting"
                                     [] serviceState = "started" -> "hook"]
    /\ UNCHANGED <<serviceState, startHook, wait>>

StopEnds(c) ==
    /\ stop[c] = "hook"
    /\ stop' = [stop EXCEPT ![c] = "done"]
    /\ serviceState' = "stopped"
    /\ UNCHANGED <<startHook, wait>>

StopThrows(c) ==
    /\ stop[c] = "hook"
    /\ stop' = [stop EXCEPT ![c] = "threw"]
    /\ UNCHANGED <<serviceState, startHook, wait>>

Start    == StartService \/ StartEnds \/ StartThrows
Stops(c) == StopService(c) \/ StopEnds(c) \/ StopThrows(c)

Next ==
    \/ Start
    \/ \E c \in Waiters : Started(c)
    \/ \E c \in Stoppers : Stops(c)

Spec == Init /\ [][Next]_vars

-----------------------------------------------------------------------------
(* Properties.                                                             *)

\* Every call of started and of stopService comes to an end if the service is
\* started and the hooks end, so that again and again none is under way; a start
\* hook that throws leaves those that wait waiting for ever.
EveryCallEnds ==
    []<>(\/ startHook = "threw"
         \/ /\ \A c \in Waiters : wait[c] # "waiting"
            /\ \A c \in Stoppers : stop[c] \notin {"called", "waiting", "hook"})

\* What EveryCallEnds rests on: nobody waits for an event that is over, and no
\* hook ends into a state of another run: a stop that comes during the start
\* waits for it, so that the start never follows the stop (stopService, started).
NoneTooLate ==
    /\ startHook = "none" <=> serviceState = "unstarted"
    /\ startHook = "done" <=> serviceState \in {"started", "stopped"}
    /\ \A c \in Waiters : wait[c] = "waiting" => startHook # "done"
    /\ \A c \in Stoppers : stop[c] = "waiting" => startHook \in {"running", "threw"}
    /\ \A c \in Stoppers : stop[c] = "hook" => startHook = "done"
=============================================================================
