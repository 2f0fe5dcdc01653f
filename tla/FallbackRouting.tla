--------------------------- MODULE FallbackRouting ---------------------------
(***************************************************************************)
(* SerialFallbackProvider.routeRpcCall: how messages are sent over a list  *)
(* of providers, with retries, fail-over, a circuit breaker per provider   *)
(* and the attempt to go back to the first provider.  All messages share   *)
(* the index of the current provider, and each may find it changed after   *)
(* any await.  Time is left out of the breakers: a cooldown ends at some   *)
(* point, and failures in a row count together.                            *)
(***************************************************************************)
EXTENDS Integers, Sequences

CONSTANTS
    Messages,
    LastProvider, \* index of the last provider creator
    MaxRetries,   \* MAX_RETRIES_PER_PROVIDER
    Threshold,    \* failureThreshold of the breakers
    HasDirect,    \* there is a custom or a Boar provider
    Sockets,      \* WebSockets: the current one may be connecting or closed
    MaxRejoins,   \* bound: attempts to go back to the first provider
    MaxWaits      \* bound: calls of one message that await another

ASSUME RoutingAssumption ==
    /\ LastProvider \in Nat
    /\ MaxRetries \in Nat \ {0}
    /\ Threshold \in Nat \ {0}
    /\ HasDirect \in BOOLEAN /\ Sockets \in BOOLEAN
    /\ MaxRejoins \in Nat
    /\ MaxWaits \in Nat

Providers == 0..LastProvider

VARIABLES
    index,     \* currentProviderIndex
    breaker,   \* #circuitBreakers
    msg,       \* per message, its entry of messagesToSend and its routeRpcCall
    rejoining, \* attemptToReconnectToPrimaryProvider waits to resubscribe
    rejoins,   \* how often it was tried
    held       \* per breaker: messages in a pause that began before it tripped

routing == <<index, breaker, msg, rejoining, rejoins>>
vars    == <<routing, held>>

Errors  == {"network", "invalid", "batch", "lost", "other", "type"}
Settled == {"answered", "failed"}
Closed  == [state |-> "closed", failures |-> 0, cooled |-> FALSE, probe |-> FALSE]

\* pc and error say where the call stands, existing is existingProviderIndex of
\* the innermost call, frames those of the calls whose try block awaits it;
\* tracked, backoff and start are the entry of messagesToSend; a direct message
\* has a method for the custom or Boar provider.
NewMessage == [pc |-> "new", error |-> "none", existing |-> 0, frames |-> <<>>,
               tracked |-> FALSE, backoff |-> 0, start |-> 0, direct |-> FALSE]

Breaker == [state : {"closed", "open", "half-open"}, failures : 0..(Threshold - 1),
            cooled : BOOLEAN, probe : BOOLEAN]

Message == [pc : {"new", "route", "sending", "switching", "backoff", "catch",
                  "rejecting"} \cup Settled,
            error : {"none"} \cup Errors,
            existing : Providers, frames : Seq(Providers),
            tracked : BOOLEAN, backoff : 0..MaxRetries, start : Providers,
            direct : BOOLEAN]

TypeOK ==
    /\ index \in Providers
    /\ breaker \in [Providers -> Breaker]
    /\ msg \in [Messages -> Message]
    /\ rejoining \in BOOLEAN
    /\ rejoins \in 0..MaxRejoins
    /\ held \in [Providers -> SUBSET Messages]

Init ==
    /\ index = 0
    /\ breaker = [p \in Providers |-> Closed]
    /\ msg = [m \in Messages |-> NewMessage]
    /\ rejoining = FALSE
    /\ rejoins = 0
    /\ held = [p \in Providers |-> {}]

-----------------------------------------------------------------------------
(* The breaker of a provider.                                              *)

CanRequest(b) ==
    \/ b.state = "closed"
    \/ b.state = "open" /\ b.cooled
    \/ b.state = "half-open" /\ ~b.probe

Requested(b) ==
    IF b.state = "closed" THEN b
    ELSE [b EXCEPT !.state = "half-open", !.probe = TRUE, !.cooled = FALSE]

Succeeded(b) ==
    IF b.state = "open" THEN [b EXCEPT !.failures = 0] ELSE Closed

Tripped == [state |-> "open", failures |-> 0, cooled |-> FALSE, probe |-> FALSE]

\* Mutant of Failed: failures do not trip the breaker.
NeverTrips(b) == IF b.state = "half-open" THEN Tripped ELSE b

\* Mutant of Failed: one failure too late.
FailedLate(b) ==
    CASE b.state = "half-open" -> Tripped
      [] b.state = "open"      -> b
      [] OTHER -> IF b.failures + 1 > Threshold THEN Tripped
                  ELSE [b EXCEPT !.failures = @ + 1]

Failed(b) ==
    CASE b.state = "half-open" -> Tripped
      [] b.state = "open"      -> b
      [] OTHER -> IF b.failures + 1 >= Threshold THEN Tripped
                  ELSE [b EXCEPT !.failures = @ + 1]

\* The cooldown (15 s or more) outlasts every back-off (below 1 s) that had
\* begun when the breaker tripped.
CoolDown(p) ==
    /\ breaker[p].state = "open"
    /\ held[p] = {}
    /\ ~breaker[p].cooled
    /\ breaker' = [breaker EXCEPT ![p].cooled = TRUE]
    /\ UNCHANGED <<index, msg, rejoining, rejoins>>

-----------------------------------------------------------------------------
(* Sending.                                                                *)

Become(m, r) == msg' = [msg EXCEPT ![m] = r] /\ UNCHANGED <<rejoining, rejoins>>

\* delete this.messagesToSend[messageId]
Deleted(r) == [r EXCEPT !.tracked = FALSE, !.backoff = 0, !.start = 0]

\* An error leaves a call: it is on its way to the try block that awaits it.
Thrown(r, e) ==
    [r EXCEPT !.error = e, !.pc = IF r.frames = <<>> THEN "failed" ELSE "rejecting"]

\* The message is to be routed by a new call.
Again(r, pause) == [r EXCEPT !.pc = pause, !.error = "none", !.existing = 0]

\* The message is routed by a new call that the present try block awaits.
Awaiting(r) == Again([r EXCEPT !.frames = <<index>> \o @], "switching")

\* dispatchRequest: the message is noted and routed.
Dispatch(m) ==
    /\ msg[m].pc = "new"
    /\ \E direct \in {FALSE, HasDirect} :
          Become(m, [msg[m] EXCEPT !.pc = "route", !.tracked = TRUE,
                                   !.start = index, !.direct = direct])
    /\ UNCHANGED <<index, breaker>>

\* A call whose message is no longer in messagesToSend fails at once, before
\* its try block.
RouteUntracked(m) ==
    /\ msg[m].pc = "route"
    /\ ~msg[m].tracked
    /\ Become(m, Thrown(msg[m], "type"))
    /\ UNCHANGED <<index, breaker>>

Route(m) == msg[m].pc = "route" /\ msg[m].tracked

\* checkForCachedResult: an earlier answer is still good for this message.
RouteCached(m) ==
    /\ Route(m)
    /\ \E n \in Messages : msg[n].pc = "answered"
    /\ Become(m, Deleted([msg[m] EXCEPT !.pc = "answered"]))
    /\ UNCHANGED <<index, breaker>>

FailHere(r, e) == [r EXCEPT !.pc = "catch", !.error = e, !.existing = index]

\* The current WebSocket is closed: a network error, inside the try block.
RouteClosed(m) ==
    /\ Route(m)
    /\ Sockets
    /\ Become(m, FailHere(msg[m], "network"))
    /\ UNCHANGED <<index, breaker>>

\* It is still connecting: the message is routed again in a moment.
RouteConnecting(m) ==
    /\ Route(m)
    /\ Sockets
    /\ Len(msg[m].frames) < MaxWaits
    /\ Become(m, Awaiting(msg[m]))
    /\ UNCHANGED <<index, breaker>>

Sending(r) == [r EXCEPT !.pc = "sending", !.existing = index]

\* To the custom or Boar provider, past the breaker.
RouteDirect(m) ==
    /\ Route(m)
    /\ msg[m].direct
    /\ Become(m, Sending(msg[m]))
    /\ UNCHANGED <<index, breaker>>

RouteToCurrent(m) ==
    /\ Route(m)
    /\ ~msg[m].direct
    /\ CanRequest(breaker[index])
    /\ breaker' = [breaker EXCEPT ![index] = Requested(@)]
    /\ Become(m, Sending(msg[m]))
    /\ UNCHANGED index

\* The breaker refuses: on to the next provider, awaited inside the try block.
RouteRefused(m) ==
    /\ Route(m)
    /\ ~msg[m].direct
    /\ ~CanRequest(breaker[index])
    /\ index < LastProvider
    /\ index' = index + 1
    /\ Become(m, Awaiting(msg[m]))
    /\ UNCHANGED breaker

\* The last breaker refuses: the message is dropped and "NETWORK_ERROR: circuit
\* open and no fallback available" thrown, inside the try block.
RouteRefusedLast(m) ==
    /\ Route(m)
    /\ ~msg[m].direct
    /\ ~CanRequest(breaker[index])
    /\ index = LastProvider
    /\ index' = 0
    /\ Become(m, Deleted(FailHere(msg[m], "network")))
    /\ UNCHANGED breaker

\* The breaker of the provider the message was sent to becomes b.
Record(m, b) ==
    breaker' = IF msg[m].direct THEN breaker
               ELSE [breaker EXCEPT ![msg[m].existing] = b]

Answer(m) ==
    /\ msg[m].pc = "sending"
    /\ Record(m, Succeeded(breaker[msg[m].existing]))
    /\ Become(m, Deleted([msg[m] EXCEPT !.pc = "answered"]))
    /\ UNCHANGED index

\* Mutant of Refuse: unidentified errors are kept from the breaker.
RefuseUnrecorded(m, e) ==
    /\ msg[m].pc = "sending"
    /\ IF e = "other" THEN UNCHANGED breaker ELSE Record(m, Failed(breaker[msg[m].existing]))
    /\ Become(m, [msg[m] EXCEPT !.pc = "catch", !.error = e])
    /\ UNCHANGED index

\* network: timeouts, rate limits, missing responses; invalid: a bad response
\* that is not the client's fault; batch: the batch was too long; other:
\* everything else, 4xx included.
Refuse(m, e) ==
    /\ msg[m].pc = "sending"
    /\ Record(m, Failed(breaker[msg[m].existing]))
    /\ Become(m, [msg[m] EXCEPT !.pc = "catch", !.error = e])
    /\ UNCHANGED index

-----------------------------------------------------------------------------
(* The catch block.                                                        *)

Reject(m) ==
    /\ msg[m].pc = "rejecting"
    /\ Become(m, [msg[m] EXCEPT !.pc = "catch", !.existing = Head(msg[m].frames),
                                !.frames = Tail(@)])
    /\ UNCHANGED <<index, breaker>>

Caught(m, e) == msg[m].pc = "catch" /\ msg[m].error = e

\* attemptToSendMessageOnNewProvider: the index moves on, the subscriptions are
\* restored, the message is routed again.
SendOnNext(m) ==
    /\ index < LastProvider
    /\ index' = index + 1
    /\ Become(m, Again(msg[m], "switching"))

\* The list starts over for the others, the message fails.
FailAtEnd(m) ==
    /\ index = LastProvider
    /\ index' = 0
    /\ Become(m, Thrown(Deleted(msg[m]), "network"))

\* Mutant of CatchNetwork: every message moves the index on.
CatchNetworkAlone(m) ==
    /\ Caught(m, "network")
    /\ SendOnNext(m) \/ FailAtEnd(m)
    /\ UNCHANGED breaker

\* The index was moved meanwhile: the message is routed to the new provider.
\* Otherwise it moves the index itself.
CatchNetwork(m) ==
    /\ Caught(m, "network")
    /\ \/ /\ index # msg[m].existing
          /\ Become(m, Again(msg[m], "route"))
          /\ UNCHANGED index
       \/ /\ index = msg[m].existing
          /\ SendOnNext(m) \/ FailAtEnd(m)
    /\ UNCHANGED breaker

Exceeded(m)  == msg[m].backoff >= MaxRetries
Elsewhere(m) == index # msg[m].start

\* backoffFor: the count starts again when the message changes provider.  It
\* is only compared with MaxRetries, so it stops there.
BackedOff(m) ==
    IF Elsewhere(m) THEN [msg[m] EXCEPT !.backoff = 0, !.start = index]
    ELSE [msg[m] EXCEPT !.backoff = IF Exceeded(m) THEN @ ELSE @ + 1]

\* A bad response: retried with back-off, then on the next provider.  A message
\* that used up its retries elsewhere fails, and stays in messagesToSend.
CatchInvalid(m) ==
    /\ Caught(m, "invalid")
    /\ \/ /\ Exceeded(m) /\ Elsewhere(m)
          /\ Become(m, Thrown(msg[m], "invalid"))
          /\ UNCHANGED index
       \/ /\ Exceeded(m) /\ ~Elsewhere(m)
          /\ index = msg[m].existing
          /\ SendOnNext(m)
       \/ /\ Exceeded(m) => ~Elsewhere(m) /\ ~(index = msg[m].existing /\ index < LastProvider)
          /\ Become(m, Again(BackedOff(m), "backoff"))
          /\ UNCHANGED index
    /\ UNCHANGED breaker

\* The provider that refused the batch is the current one: never for a direct
\* message, nor after a fail-over, and a first provider that was reconnected is
\* a new object (whether the message was sent before that is not kept).
StillCurrent(m)  == ~msg[m].direct /\ index = msg[m].existing
MayBeAnother(m)  == ~StillCurrent(m) \/ (index = 0 /\ rejoins > 0)

\* batch-limit-exceeded: sent again in a smaller batch, however often.  Any
\* other provider than the one that refused does not know the batch: what
\* getBatchFromError throws then leaves the catch block, and the message stays
\* in messagesToSend.
CatchBatch(m) ==
    /\ Caught(m, "batch")
    /\ \/ StillCurrent(m) /\ Become(m, Again(msg[m], "backoff"))
       \/ MayBeAnother(m) /\ Become(m, Thrown(msg[m], "lost"))
    /\ UNCHANGED <<index, breaker>>

\* The error quotes the one it replaces, so that the calls that await this one
\* take it for a refused batch again, and no provider knows it.
CatchLost(m) ==
    /\ Caught(m, "lost")
    /\ Become(m, Thrown(msg[m], "lost"))
    /\ UNCHANGED <<index, breaker>>

\* Any error the code does not know, and refused batches while the current
\* provider is a WebSocket.
CatchOther(m) ==
    /\ \E e \in {"other", "type"} \cup (IF Sockets THEN {"batch", "lost"} ELSE {}) :
          Caught(m, e) /\ Become(m, Thrown(Deleted(msg[m]), e))
    /\ UNCHANGED <<index, breaker>>

\* The wait of a back-off or of a reconnect is over.
Resume(m) ==
    /\ msg[m].pc \in {"backoff", "switching"}
    /\ Become(m, [msg[m] EXCEPT !.pc = "route"])
    /\ UNCHANGED <<index, breaker>>

-----------------------------------------------------------------------------
(* attemptToReconnectToPrimaryProvider, every ten seconds.                 *)

\* It asks the breaker of the first provider, which counts that as a request.
TryPrimary ==
    /\ index # 0
    /\ ~rejoining
    /\ rejoins < MaxRejoins
    /\ rejoins' = rejoins + 1
    /\ CanRequest(breaker[0])
    /\ breaker' = [breaker EXCEPT ![0] = Requested(@)]
    /\ rejoining' = TRUE
    /\ UNCHANGED <<index, msg>>

\* The subscriptions are restored, or not; the breaker is not told.
Rejoin ==
    /\ rejoining
    /\ rejoining' = FALSE
    /\ index' \in {index, 0}
    /\ UNCHANGED <<breaker, msg, rejoins>>

-----------------------------------------------------------------------------

\* routeRpcCall runs from an await to the next without interruption: the catch
\* block runs in the turn of the error, a message is routed in the turn that
\* decides it.
Turn(m) ==
    \/ RouteUntracked(m) \/ RouteClosed(m) \/ RouteConnecting(m)
    \/ RouteCached(m) \/ RouteDirect(m) \/ RouteToCurrent(m)
    \/ RouteRefused(m) \/ RouteRefusedLast(m)
    \/ CatchNetwork(m) \/ CatchInvalid(m) \/ CatchBatch(m)
    \/ CatchLost(m) \/ CatchOther(m)

InTurn(m) == msg[m].pc \in {"route", "catch"}

Outcome(m) ==
    Answer(m) \/ \E e \in {"network", "invalid", "batch", "other"} : Refuse(m, e)

Trips(p) == breaker[p].state # "open" /\ breaker'[p].state = "open"

HoldPauses ==
    held' = [p \in Providers |->
                {m \in IF Trips(p) THEN Messages ELSE held[p] :
                     msg'[m].pc \in {"catch", "rejecting", "backoff", "route"}}]

Step ==
    \/ \E m \in Messages : Turn(m)
    \/ /\ \A m \in Messages : ~InTurn(m)
       /\ \/ \E m \in Messages : Dispatch(m) \/ Resume(m) \/ Reject(m) \/ Outcome(m)
          \/ \E p \in Providers : CoolDown(p)
          \/ TryPrimary \/ Rejoin

Next == Step /\ HoldPauses

\* The event loop runs what is ready, requests end (with any outcome), waits
\* and cooldowns are finite.
Fairness ==
    /\ \A m \in Messages : /\ WF_routing(Turn(m)) /\ WF_routing(Resume(m))
                           /\ WF_routing(Reject(m)) /\ WF_routing(Outcome(m))
    /\ \A p \in Providers : WF_routing(CoolDown(p))
    /\ WF_routing(Rejoin)

Spec     == Init /\ [][Next]_vars
FairSpec == Spec /\ Fairness

-----------------------------------------------------------------------------
(* Properties.                                                             *)

\* Every message for the list of providers is answered or fails: they may fail
\* in any way for ever, its retries and fail-overs come to an end ("a number of
\* exponential backoffs and retries before falling back").  It is the breakers
\* that end them; direct messages are sent past the breakers.
EverySettles ==
    \A m \in Messages :
        msg[m].pc = "route" /\ ~msg[m].direct ~> msg[m].pc \in Settled

\* No breaker of a fallback provider stays half-open: whatever request settles
\* it, "The probe's result either closes the breaker (recovery) or re-opens it".
ProbesEnd ==
    \A p \in Providers \ {0} :
        breaker[p].state = "half-open" ~> breaker[p].state # "half-open"

\* The same of the first provider, which is also asked for reconnects.
PrimaryProbeEnds ==
    breaker[0].state = "half-open" ~> breaker[0].state # "half-open"

\* Messages that fail together move the current provider on together: the
\* index takes one step around the list, for a message that failed at, or was
\* refused by, the provider it leaves; no stale failure moves it.  Otherwise it
\* only goes back to the first provider when that was reconnected.
OneStepAtATime ==
    [][index' # index =>
          \/ rejoining /\ ~rejoining'
          \/ /\ index' = IF index = LastProvider THEN 0 ELSE index + 1
             /\ \E m \in Messages :
                   /\ msg'[m] # msg[m]
                   /\ \/ msg[m].pc = "catch" /\ msg[m].existing = index
                      \/ msg[m].pc = "route" /\ ~CanRequest(breaker[index])]_vars
=============================================================================
