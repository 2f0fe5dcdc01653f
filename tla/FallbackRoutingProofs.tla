-------------------------- MODULE FallbackRoutingProofs --------------------------
(***************************************************************************)
(* For any messages, providers, retries and reconnects: the state of the   *)
(* router stays well typed (TypeCorrect), the current provider moves one   *)
(* step at a time (StepsAreSmall), a half-open breaker has a request in    *)
(* flight that will settle it, the first one's until a reconnect is tried  *)
(* (ProbesInFlight), which is what ProbesEnd rests on, and each breaker    *)
(* follows the cycle of BreakerCycle (BreakersFollowTheCycle).  Of the     *)
(* switches of EventSubscriptions: the current provider is one that the    *)
(* creator at the current index made (IndexOfCurrent).                     *)
(***************************************************************************)
EXTENDS FallbackRouting, SequenceTheorems, TLAPS

\* A call that is to be caught by another has one that awaits it.
Awaited == \A m \in Messages : msg[m].pc = "rejecting" => msg[m].frames # <<>>

Inv == TypeOK /\ Awaited

-----------------------------------------------------------------------------
(* What the helpers make of a message or a breaker.                        *)

LEMMA BreakerTypes ==
    /\ Closed \in Breaker /\ Tripped \in Breaker
    /\ \A b \in Breaker :
          /\ Requested(b) \in Breaker
          /\ Succeeded(b) \in Breaker
          /\ Failed(b) \in Breaker
          /\ Requested(b).state = "half-open" => b.state # "closed"
          /\ Succeeded(b).state # "half-open"
          /\ Failed(b).state # "half-open"
<1>0. 0 \in 0..(Threshold - 1) /\ Threshold \in Nat
  BY RoutingAssumption
<1>1. Closed \in Breaker /\ Tripped \in Breaker
  BY <1>0 DEF Breaker, Closed, Tripped
<1>2. ASSUME NEW b \in Breaker
      PROVE  /\ Requested(b) \in Breaker
             /\ Succeeded(b) \in Breaker
             /\ Requested(b).state = "half-open" => b.state # "closed"
             /\ Succeeded(b).state # "half-open"
  BY <1>0, <1>1 DEF Requested, Succeeded, Breaker, Closed
<1>3. ASSUME NEW b \in Breaker
      PROVE  Failed(b) \in Breaker /\ Failed(b).state # "half-open"
  <2>1. b.failures \in 0..(Threshold - 1) BY DEF Breaker
  <2>2. CASE b.state \in {"half-open", "open"}
    BY <1>1, <2>2 DEF Failed, Tripped
  <2>3. CASE b.state = "closed" /\ b.failures + 1 >= Threshold
    BY <1>1, <2>3 DEF Failed, Tripped
  <2>4. CASE b.state = "closed" /\ ~(b.failures + 1 >= Threshold)
    <3>1. b.failures + 1 \in 0..(Threshold - 1) BY <1>0, <2>1, <2>4
    <3>2. Failed(b) = [b EXCEPT !.failures = b.failures + 1] BY <2>4 DEF Failed
    <3> QED BY <2>4, <3>1, <3>2 DEF Breaker
  <2> QED BY <2>2, <2>3, <2>4 DEF Breaker
<1> QED BY <1>1, <1>2, <1>3

\* A message that is well formed and, when rejecting, awaited.
Sound(r) == r \in Message /\ (r.pc = "rejecting" => r.frames # <<>>)

LEMMA MessageTypes ==
    ASSUME NEW r \in Message, NEW e \in Errors, index \in Providers
    PROVE  /\ Deleted(r) \in Message
           /\ Deleted(r).pc = r.pc /\ Deleted(r).frames = r.frames
           /\ Sound(Thrown(r, e))
           /\ \A pause \in {"switching", "backoff", "route"} : Sound(Again(r, pause))
           /\ Sound(Awaiting(r))
           /\ Sound(FailHere(r, e))
           /\ Sound(Sending(r))
<1>0. 0 \in Providers /\ 0 \in 0..MaxRetries
  BY RoutingAssumption DEF Providers
<1> USE <1>0 DEF Message, Sound
<1>1. Deleted(r) \in Message /\ Deleted(r).pc = r.pc /\ Deleted(r).frames = r.frames
  BY DEF Deleted
<1>2. Sound(Thrown(r, e))
  BY DEF Thrown, Settled
<1>3. \A pause \in {"switching", "backoff", "route"} : Sound(Again(r, pause))
  BY DEF Again
<1>4. Sound(Awaiting(r))
  <2>1. <<index>> \o r.frames \in Seq(Providers)
    BY ConcatProperties
  <2> QED BY <2>1 DEF Awaiting, Again
<1>5. Sound(FailHere(r, e)) /\ Sound(Sending(r))
  BY DEF FailHere, Sending
<1> QED BY <1>1, <1>2, <1>3, <1>4, <1>5

LEMMA BecomeSound ==
    ASSUME Inv, NEW m \in Messages, NEW r, Sound(r), Become(m, r)
    PROVE  /\ msg' \in [Messages -> Message]
           /\ \A n \in Messages : msg'[n].pc = "rejecting" => msg'[n].frames # <<>>
           /\ rejoining' \in BOOLEAN /\ rejoins' \in 0..MaxRejoins
BY DEF Inv, TypeOK, Awaited, Become, Sound

-----------------------------------------------------------------------------
(* Type correctness.                                                       *)

Fits == index' \in Providers /\ breaker' \in [Providers -> Breaker]

LEMMA RecordFits ==
    ASSUME Inv, NEW m \in Messages, NEW b \in Breaker, Record(m, b)
    PROVE  breaker' \in [Providers -> Breaker]
BY DEF Inv, TypeOK, Record

LEMMA TurnType ==
    ASSUME Inv, NEW m \in Messages, Turn(m)
    PROVE  Fits /\ \E r : Sound(r) /\ Become(m, r)
<1> USE DEF Inv, TypeOK, Fits
<1> DEFINE r == msg[m]
<1>0. r \in Message /\ Sound(r) /\ "network" \in Errors /\ "type" \in Errors
      /\ "invalid" \in Errors /\ "lost" \in Errors /\ "other" \in Errors
  BY DEF Errors, Sound, Awaited
<1>1. CASE RouteUntracked(m)
  BY <1>0, <1>1, MessageTypes DEF RouteUntracked
<1>2. CASE RouteClosed(m)
  BY <1>0, <1>2, MessageTypes DEF RouteClosed
<1>3. CASE RouteConnecting(m)
  BY <1>0, <1>3, MessageTypes DEF RouteConnecting
<1>4. CASE RouteCached(m)
  <2>1. [r EXCEPT !.pc = "answered"] \in Message BY <1>0 DEF Message, Settled
  <2>2. Sound(Deleted([r EXCEPT !.pc = "answered"]))
    BY <2>1, <1>0, MessageTypes DEF Sound, Message
  <2> QED BY <1>4, <2>2 DEF RouteCached
<1>5. CASE RouteDirect(m)
  BY <1>0, <1>5, MessageTypes DEF RouteDirect
<1>6. CASE RouteToCurrent(m)
  BY <1>0, <1>6, MessageTypes, BreakerTypes DEF RouteToCurrent
<1>7. CASE RouteRefused(m)
  BY <1>0, <1>7, MessageTypes, RoutingAssumption DEF RouteRefused, Providers
<1>8. CASE RouteRefusedLast(m)
  <2>1. Sound(Deleted(FailHere(r, "network")))
    BY <1>0, MessageTypes DEF Sound
  <2> QED BY <1>8, <2>1, RoutingAssumption DEF RouteRefusedLast, Providers
<1>9. CASE CatchNetwork(m)
  <2>1. Sound(Thrown(Deleted(r), "network")) BY <1>0, MessageTypes
  <2> QED
    BY <1>0, <1>9, <2>1, MessageTypes, RoutingAssumption
       DEF CatchNetwork, SendOnNext, FailAtEnd, Providers
<1>10. CASE CatchInvalid(m)
  <2>1. BackedOff(m) \in Message
    <3>1. 0 \in 0..MaxRetries /\ r.backoff \in 0..MaxRetries /\ index \in Providers
      BY <1>0, RoutingAssumption DEF Message
    <3>2. ~Exceeded(m) => r.backoff + 1 \in 0..MaxRetries
      BY <3>1, RoutingAssumption DEF Exceeded
    <3>3. \A k \in 0..MaxRetries : [r EXCEPT !.backoff = k] \in Message
      BY <1>0 DEF Message
    <3>4. [r EXCEPT !.backoff = 0, !.start = index] \in Message
      BY <1>0, <3>1 DEF Message
    <3> QED BY <3>1, <3>2, <3>3, <3>4 DEF BackedOff
  <2>2. Sound(Again(BackedOff(m), "backoff")) BY <1>0, <2>1, MessageTypes
  <2>3. Sound(Thrown(r, "invalid")) /\ Sound(Again(r, "switching"))
    BY <1>0, MessageTypes
  <2>4. CASE Become(m, Thrown(r, "invalid")) /\ UNCHANGED index
    BY <1>10, <2>3, <2>4 DEF CatchInvalid
  <2>5. CASE SendOnNext(m)
    BY <1>10, <2>3, <2>5, RoutingAssumption DEF CatchInvalid, SendOnNext, Providers
  <2>6. CASE Become(m, Again(BackedOff(m), "backoff")) /\ UNCHANGED index
    BY <1>10, <2>2, <2>6 DEF CatchInvalid
  <2> QED BY <1>10, <2>4, <2>5, <2>6 DEF CatchInvalid
<1>11. CASE CatchBatch(m)
  BY <1>0, <1>11, MessageTypes DEF CatchBatch
<1>12. CASE CatchLost(m)
  BY <1>0, <1>12, MessageTypes DEF CatchLost
<1>13. CASE CatchOther(m)
  <2>1. PICK e \in Errors : Become(m, Thrown(Deleted(r), e))
    BY <1>13 DEF CatchOther, Errors
  <2>2. Sound(Thrown(Deleted(r), e)) BY <1>0, MessageTypes
  <2> QED BY <1>13, <2>1, <2>2 DEF CatchOther
<1> QED
  BY <1>1, <1>2, <1>3, <1>4, <1>5, <1>6, <1>7, <1>8, <1>9, <1>10, <1>11, <1>12,
     <1>13 DEF Turn

LEMMA AwaitType ==
    ASSUME Inv, NEW m \in Messages,
           Dispatch(m) \/ Resume(m) \/ Reject(m) \/ Outcome(m)
    PROVE  Fits /\ \E r : Sound(r) /\ Become(m, r)
<1> USE DEF Inv, TypeOK, Fits
<1> DEFINE r == msg[m]
<1>0. r \in Message /\ Sound(r)
  BY DEF Sound, Awaited
<1>1. CASE Dispatch(m)
  <2>1. PICK direct \in BOOLEAN :
            Become(m, [r EXCEPT !.pc = "route", !.tracked = TRUE,
                                !.start = index, !.direct = direct])
    BY <1>1, RoutingAssumption DEF Dispatch
  <2>2. Sound([r EXCEPT !.pc = "route", !.tracked = TRUE,
                        !.start = index, !.direct = direct])
    BY <1>0 DEF Sound, Message
  <2> QED BY <1>1, <2>1, <2>2 DEF Dispatch
<1>2. CASE Resume(m)
  <2>1. Sound([r EXCEPT !.pc = "route"]) BY <1>0 DEF Sound, Message
  <2> QED BY <1>2, <2>1 DEF Resume
<1>3. CASE Reject(m)
  <2>1. r.frames # <<>> /\ r.frames \in Seq(Providers)
    BY <1>0, <1>3 DEF Reject, Sound, Message
  <2>2. Head(r.frames) \in Providers /\ Tail(r.frames) \in Seq(Providers)
    BY <2>1, HeadTailProperties
  <2>3. Sound([r EXCEPT !.pc = "catch", !.existing = Head(r.frames), !.frames = Tail(@)])
    BY <1>0, <2>2 DEF Sound, Message
  <2> QED BY <1>3, <2>3 DEF Reject
<1>4. CASE Answer(m)
  <2>1. [r EXCEPT !.pc = "answered"] \in Message BY <1>0 DEF Message, Settled
  <2>2. Sound(Deleted([r EXCEPT !.pc = "answered"]))
    BY <2>1, <1>0, MessageTypes, "type" \in Errors DEF Sound, Message, Errors
  <2>3. Succeeded(breaker[r.existing]) \in Breaker
    BY <1>0, BreakerTypes DEF Message
  <2> QED BY <1>4, <2>2, <2>3, RecordFits DEF Answer
<1>5. ASSUME NEW e \in {"network", "invalid", "batch", "other"}, Refuse(m, e)
      PROVE  Fits /\ \E x : Sound(x) /\ Become(m, x)
  <2>1. Sound([r EXCEPT !.pc = "catch", !.error = e])
    BY <1>0 DEF Sound, Message, Errors
  <2>2. Failed(breaker[r.existing]) \in Breaker
    BY <1>0, BreakerTypes DEF Message
  <2> QED BY <1>5, <2>1, <2>2, RecordFits DEF Refuse
<1> QED BY <1>1, <1>2, <1>3, <1>4, <1>5 DEF Outcome

LEMMA StepInv == Inv /\ [Next]_vars => Inv'
<1> SUFFICES ASSUME Inv, [Next]_vars PROVE Inv'
  OBVIOUS
<1>1. CASE UNCHANGED vars
  BY <1>1 DEF vars, routing, Inv, TypeOK, Awaited
<1>2. CASE Next
  <2>1. held' \in [Providers -> SUBSET Messages]
    BY <1>2 DEF Next, HoldPauses, Inv, TypeOK
  <2>2. ASSUME NEW m \in Messages, Fits, \E r : Sound(r) /\ Become(m, r) PROVE Inv'
    BY <2>1, <2>2, BecomeSound DEF Inv, TypeOK, Awaited, Fits
  <2>3. ASSUME NEW p \in Providers, CoolDown(p) PROVE Inv'
    BY <2>1, <2>3 DEF CoolDown, Inv, TypeOK, Awaited, Breaker
  <2>4. ASSUME TryPrimary PROVE Inv'
    <3>1. 0 \in Providers /\ rejoins + 1 \in 0..MaxRejoins
      BY <2>4, RoutingAssumption DEF TryPrimary, Inv, TypeOK, Providers
    <3>2. Requested(breaker[0]) \in Breaker
      BY <3>1, BreakerTypes DEF Inv, TypeOK
    <3> QED BY <2>1, <2>4, <3>1, <3>2 DEF TryPrimary, Inv, TypeOK, Awaited
  <2>5. ASSUME Rejoin PROVE Inv'
    <3>1. 0 \in Providers BY RoutingAssumption DEF Providers
    <3> QED BY <2>1, <2>5, <3>1 DEF Rejoin, Inv, TypeOK, Awaited
  <2> QED BY <1>2, <2>2, <2>3, <2>4, <2>5, TurnType, AwaitType DEF Next, Step
<1> QED BY <1>1, <1>2

LEMMA InitInv == Init => Inv
<1> SUFFICES ASSUME Init PROVE Inv
  OBVIOUS
<1>1. NewMessage \in Message
  BY RoutingAssumption DEF NewMessage, Message, Providers
<1>2. \A m \in Messages : msg[m].pc = "new"
  BY DEF Init, NewMessage
<1> QED
  BY <1>1, <1>2, BreakerTypes, RoutingAssumption DEF Init, Inv, TypeOK, Awaited, Providers

\* The state of the router stays well typed: the current provider, the breakers
\* and the messages of messagesToSend (routeRpcCall).
THEOREM TypeCorrect == Spec => []TypeOK
<1>1. Inv => TypeOK BY DEF Inv
<1> QED BY InitInv, StepInv, <1>1, PTL DEF Spec

-----------------------------------------------------------------------------
(* The current provider.                                                   *)

LEMMA Places ==
    ASSUME NEW r \in Message, NEW e \in Errors, index \in Providers
    PROVE  /\ \A pause \in {"switching", "backoff", "route"} : Again(r, pause).pc = pause
           /\ Awaiting(r).pc = "switching"
           /\ Thrown(r, e).pc \in {"failed", "rejecting"}
           /\ FailHere(r, e).pc = "catch"
BY DEF Again, Awaiting, Thrown, FailHere, Message

\* Every way to the next provider in the list is a message that failed at, or
\* was refused by, the provider it leaves; attemptToReconnectToPrimaryProvider
\* is the only way back (routeRpcCall, attemptToSendMessageOnNewProvider).
THEOREM StepsAreSmall == Spec => OneStepAtATime
<1> DEFINE Small ==
      index' # index =>
          \/ rejoining /\ ~rejoining'
          \/ /\ index' = IF index = LastProvider THEN 0 ELSE index + 1
             /\ \E m \in Messages :
                   /\ msg'[m] # msg[m]
                   /\ \/ msg[m].pc = "catch" /\ msg[m].existing = index
                      \/ msg[m].pc = "route" /\ ~CanRequest(breaker[index])
<1>1. Inv /\ [Next]_vars => [Small]_vars
  <2> SUFFICES ASSUME Inv, Next, index' # index PROVE Small
    BY DEF vars, routing
  <2>1. ASSUME NEW m \in Messages, Turn(m) PROVE Small
    <3>0. msg \in [Messages -> Message] BY DEF Inv, TypeOK
    <3>1. RouteRefused(m) \/ RouteRefusedLast(m) \/ CatchNetwork(m) \/ CatchInvalid(m)
      BY <2>1 DEF Turn, RouteUntracked, RouteClosed, RouteConnecting, RouteCached,
                  RouteDirect, RouteToCurrent, CatchBatch, CatchLost, CatchOther
    <3>2. msg[m] \in Message /\ index \in Providers /\ "network" \in Errors
          /\ \A r : Become(m, r) => msg'[m] = r
      BY <3>0 DEF Inv, TypeOK, Become, Errors
    <3>3. CASE RouteRefused(m)
      <4>1. msg'[m].pc # msg[m].pc
        BY <3>2, <3>3, Places DEF RouteRefused, Route
      <4> QED BY <3>2, <3>3, <4>1, RoutingAssumption DEF RouteRefused, Route, Providers
    <3>4. CASE RouteRefusedLast(m)
      <4>1. msg'[m].pc # msg[m].pc
        <5>1. FailHere(msg[m], "network") \in Message
          BY <3>2, MessageTypes DEF Sound
        <5>2. Deleted(FailHere(msg[m], "network")).pc = "catch"
          BY <3>2, <5>1, MessageTypes, Places
        <5> QED BY <3>2, <3>4, <5>2 DEF RouteRefusedLast, Route
      <4> QED BY <3>4, <4>1 DEF RouteRefusedLast, Route
    <3>5. ASSUME SendOnNext(m), msg[m].pc = "catch", msg[m].existing = index PROVE Small
      <4>1. msg'[m].pc # msg[m].pc
        BY <3>2, <3>5, Places DEF SendOnNext
      <4> QED BY <3>2, <3>5, <4>1, RoutingAssumption DEF SendOnNext, Providers
    <3>6. ASSUME FailAtEnd(m), msg[m].pc = "catch", msg[m].existing = index PROVE Small
      <4>1. msg'[m].pc # msg[m].pc
        <5>1. Deleted(msg[m]) \in Message BY <3>2, MessageTypes
        <5> QED BY <3>2, <3>6, <5>1, Places DEF FailAtEnd
      <4> QED BY <3>6, <4>1 DEF FailAtEnd
    <3>7. CASE CatchNetwork(m) \/ CatchInvalid(m)
      <4>1. msg[m].pc = "catch"
        BY <3>7 DEF CatchNetwork, CatchInvalid, Caught
      <4>2. SendOnNext(m) \/ FailAtEnd(m)
        BY <3>7 DEF CatchNetwork, CatchInvalid
      <4>3. msg[m].existing = index
        BY <3>7 DEF CatchNetwork, CatchInvalid
      <4> QED BY <3>5, <3>6, <4>1, <4>2, <4>3
    <3> QED BY <3>1, <3>3, <3>4, <3>7
  <2>2. ASSUME NEW m \in Messages,
               Dispatch(m) \/ Resume(m) \/ Reject(m) \/ Outcome(m)
        PROVE  Small
    BY <2>2 DEF Dispatch, Resume, Reject, Outcome, Answer, Refuse
  <2>3. ASSUME NEW p \in Providers, CoolDown(p) PROVE Small
    BY <2>3 DEF CoolDown
  <2>4. CASE TryPrimary BY <2>4 DEF TryPrimary
  <2>5. CASE Rejoin BY <2>5 DEF Rejoin
  <2> QED BY <2>1, <2>2, <2>3, <2>4, <2>5 DEF Next, Step
<1>2. OneStepAtATime <=> [][Small]_vars
  BY DEF OneStepAtATime
<1> QED BY InitInv, StepInv, <1>1, PTL DEF Spec, OneStepAtATime

-----------------------------------------------------------------------------
(* Probes.                                                                 *)

\* A request to the provider p, of which its breaker will be told.
Probing(r, p) == r.pc = "sending" /\ r.existing = p /\ ~r.direct

\* A reconnect took the probe of the first provider.
Forfeited(p) == p = 0 /\ rejoins > 0

ProbeInFlight ==
    \A p \in Providers :
        breaker[p].state = "half-open" /\ ~Forfeited(p) =>
            \E m \in Messages : Probing(msg[m], p)

LEMMA ProbeStep == Inv /\ ProbeInFlight /\ [Next]_vars => ProbeInFlight'
<1> SUFFICES ASSUME Inv, ProbeInFlight, [Next]_vars, NEW p \in Providers,
                    breaker'[p].state = "half-open", ~(p = 0 /\ rejoins' > 0)
             PROVE  \E n \in Messages : Probing(msg'[n], p)
  BY DEF ProbeInFlight, Probing, Forfeited
<1> USE DEF Inv, TypeOK
<1>0. ~Forfeited(p) /\ (p # 0 \/ ~TryPrimary)
  <2>1. ASSUME NEW m \in Messages,
               \/ Turn(m)
               \/ Dispatch(m) \/ Resume(m) \/ Reject(m) \/ Outcome(m)
        PROVE  UNCHANGED rejoins
    BY <2>1, TurnType, AwaitType DEF Become
  <2>2. CASE TryPrimary
    BY <2>2 DEF TryPrimary, Forfeited
  <2>3. CASE ~TryPrimary
    <3>1. UNCHANGED rejoins
      BY <2>1, <2>3 DEF Next, Step, CoolDown, Rejoin, vars, routing
    <3> QED BY <2>3, <3>1 DEF Forfeited
  <2> QED BY <2>2, <2>3
\* A breaker that was half-open before still has its request, as long as that
\* one goes on.
<1>1. ASSUME NEW m \in Messages, NEW r, Become(m, r), breaker[p].state = "half-open",
             ~Probing(msg[m], p)
      PROVE  \E n \in Messages : Probing(msg'[n], p)
  <2>1. PICK n \in Messages : Probing(msg[n], p) BY <1>0, <1>1 DEF ProbeInFlight
  <2>2. msg'[n] = msg[n] BY <1>1, <2>1 DEF Become
  <2> QED BY <2>1, <2>2
<1>2. ASSUME NEW m \in Messages, Turn(m) PROVE \E n \in Messages : Probing(msg'[n], p)
  <2>1. ~Probing(msg[m], p)
    BY <1>2 DEF Turn, Probing, RouteUntracked, RouteClosed, RouteConnecting,
                RouteCached, RouteDirect, RouteToCurrent, RouteRefused,
                RouteRefusedLast, CatchNetwork, CatchInvalid, CatchBatch, CatchLost,
                CatchOther, Route, Caught
  <2>2. PICK r : Become(m, r) BY <1>2, TurnType
  <2>3. CASE breaker[p].state = "half-open"
    BY <1>1, <2>1, <2>2, <2>3
  <2>4. CASE breaker[p].state # "half-open"
    <3>1. breaker' # breaker BY <2>4
    <3>2. RouteToCurrent(m)
      BY <1>2, <3>1 DEF Turn, RouteUntracked, RouteClosed, RouteConnecting,
                RouteCached, RouteDirect, RouteRefused, RouteRefusedLast, CatchNetwork,
                CatchInvalid, CatchBatch, CatchLost, CatchOther
    <3>3. p = index BY <2>4, <3>2 DEF RouteToCurrent
    <3>4. Probing(msg'[m], p)
      BY <3>2, <3>3 DEF RouteToCurrent, Route, Become, Sending, Probing, Message
    <3> QED BY <3>4
  <2> QED BY <2>3, <2>4
<1>3. ASSUME NEW m \in Messages, Dispatch(m) \/ Resume(m) \/ Reject(m)
      PROVE  \E n \in Messages : Probing(msg'[n], p)
  <2>1. ~Probing(msg[m], p) /\ UNCHANGED breaker
    BY <1>3 DEF Dispatch, Resume, Reject, Probing
  <2>2. PICK r : Become(m, r) BY <1>3, AwaitType
  <2> QED BY <1>1, <2>1, <2>2
<1>4. ASSUME NEW m \in Messages, Outcome(m) PROVE \E n \in Messages : Probing(msg'[n], p)
  <2>1. PICK b \in Breaker : Record(m, b) /\ b.state # "half-open"
    <3>1. breaker[msg[m].existing] \in Breaker BY DEF Message
    <3> QED BY <1>4, <3>1, BreakerTypes DEF Outcome, Answer, Refuse
  <2>2. PICK r : Become(m, r) BY <1>4, AwaitType
  <2>3. msg[m] \in Message OBVIOUS
  <2>4. msg[m].direct => UNCHANGED breaker
    BY <2>1 DEF Record
  <2>5. ~msg[m].direct =>
            /\ msg[m].existing # p
            /\ breaker'[p] = breaker[p]
    BY <2>1, <2>3 DEF Record, Message
  <2>6. ~Probing(msg[m], p) /\ breaker[p].state = "half-open"
    BY <2>4, <2>5 DEF Probing
  <2> QED BY <1>1, <2>2, <2>6
<1>5. ASSUME breaker'[p].state = "half-open" => breaker[p].state = "half-open",
             UNCHANGED msg
      PROVE  \E n \in Messages : Probing(msg'[n], p)
  BY <1>0, <1>5 DEF ProbeInFlight
<1>6. ASSUME NEW q \in Providers, CoolDown(q)
      PROVE  \E n \in Messages : Probing(msg'[n], p)
  BY <1>5, <1>6 DEF CoolDown, Breaker
<1>7. CASE TryPrimary
  <2>1. breaker'[p] = breaker[p] BY <1>0, <1>7 DEF TryPrimary
  <2> QED BY <1>5, <1>7, <2>1 DEF TryPrimary
<1>8. CASE Rejoin \/ UNCHANGED vars
  BY <1>5, <1>8 DEF Rejoin, vars, routing
<1> QED BY <1>2, <1>3, <1>4, <1>6, <1>7, <1>8 DEF Next, Step

\* A half-open breaker has a request in flight, and its outcome closes or trips
\* it: no message, however many share the provider, leaves it half-open with
\* nothing under way (routeRpcCall, canRequest).  The first provider is an
\* exception after the first reconnect that was tried, and only then: that is
\* what PrimaryProbeEnds is about.
THEOREM ProbesInFlight == Spec => []ProbeInFlight
<1>1. Init => ProbeInFlight
  BY DEF Init, ProbeInFlight, Closed
<1> QED BY InitInv, StepInv, ProbeStep, <1>1, PTL DEF Spec

-----------------------------------------------------------------------------
(* The breakers one by one.                                                *)

Cycle(p) == INSTANCE BreakerCycle WITH state <- breaker[p].state

\* What a step makes of a breaker: nothing that its cycle does not know, and a
\* probe only after the cooldown.
Moves(b, c) ==
    \/ c.state = b.state
    \/ b.state = "closed" /\ c.state = "open"
    \/ b.state = "open" /\ b.cooled /\ c.state = "half-open"
    \/ b.state = "half-open" /\ c.state \in {"closed", "open"}

LEMMA BreakerMoves ==
    ASSUME NEW b \in Breaker
    PROVE  /\ CanRequest(b) => Moves(b, Requested(b))
           /\ Moves(b, Succeeded(b))
           /\ Moves(b, Failed(b))
<1>1. CanRequest(b) => Moves(b, Requested(b))
  BY DEF CanRequest, Requested, Moves, Breaker
<1>2. Moves(b, Succeeded(b))
  BY DEF Succeeded, Closed, Moves, Breaker
<1>3. Moves(b, Failed(b))
  BY DEF Failed, Tripped, Moves, Breaker
<1> QED BY <1>1, <1>2, <1>3

LEMMA MovesStep ==
    ASSUME Inv, [Next]_vars, NEW p \in Providers
    PROVE  Moves(breaker[p], breaker'[p])
<1> USE DEF Inv, TypeOK
<1>0. ASSUME UNCHANGED breaker PROVE Moves(breaker[p], breaker'[p])
  BY <1>0 DEF Moves
<1>1. ASSUME NEW q \in Providers, NEW c,
             breaker' = [breaker EXCEPT ![q] = c], Moves(breaker[q], c)
      PROVE  Moves(breaker[p], breaker'[p])
  BY <1>1 DEF Moves
<1>2. ASSUME NEW m \in Messages, Turn(m) PROVE Moves(breaker[p], breaker'[p])
  <2>1. CASE RouteToCurrent(m)
    <3>1. Moves(breaker[index], Requested(breaker[index]))
      BY <2>1, BreakerMoves DEF RouteToCurrent
    <3> QED BY <1>1, <2>1, <3>1 DEF RouteToCurrent
  <2>2. CASE UNCHANGED breaker
    BY <1>0, <2>2
  <2> QED
    BY <1>2, <2>1, <2>2 DEF Turn, RouteUntracked, RouteClosed, RouteConnecting,
              RouteCached, RouteDirect, RouteRefused, RouteRefusedLast, CatchNetwork,
              CatchInvalid, CatchBatch, CatchLost, CatchOther
<1>3. ASSUME NEW m \in Messages, Dispatch(m) \/ Resume(m) \/ Reject(m)
      PROVE  Moves(breaker[p], breaker'[p])
  BY <1>0, <1>3 DEF Dispatch, Resume, Reject
<1>4. ASSUME NEW m \in Messages, Outcome(m) PROVE Moves(breaker[p], breaker'[p])
  <2>1. msg[m].existing \in Providers BY DEF Message
  <2>2. PICK c : Record(m, c) /\ Moves(breaker[msg[m].existing], c)
    BY <1>4, <2>1, BreakerMoves DEF Outcome, Answer, Refuse
  <2> QED BY <1>0, <1>1, <2>1, <2>2 DEF Record
<1>5. ASSUME NEW q \in Providers, CoolDown(q) PROVE Moves(breaker[p], breaker'[p])
  <2>1. Moves(breaker[q], [breaker[q] EXCEPT !.cooled = TRUE])
    BY DEF Moves, Breaker
  <2>2. breaker' = [breaker EXCEPT ![q] = [breaker[q] EXCEPT !.cooled = TRUE]]
    BY <1>5 DEF CoolDown
  <2> QED BY <1>1, <2>1, <2>2
<1>6. CASE TryPrimary
  <2>1. 0 \in Providers BY RoutingAssumption DEF Providers
  <2>2. Moves(breaker[0], Requested(breaker[0]))
    BY <1>6, <2>1, BreakerMoves DEF TryPrimary
  <2> QED BY <1>1, <1>6, <2>1, <2>2 DEF TryPrimary
<1>7. CASE Rejoin \/ UNCHANGED vars
  BY <1>0, <1>7 DEF Rejoin, vars, routing
<1> QED BY <1>2, <1>3, <1>4, <1>5, <1>6, <1>7 DEF Next, Step

\* However many messages share a provider, and whatever late answers and
\* failures they record, its breaker goes through the states as one that is used
\* alone: an open one closes only after a probe (recordSuccess, recordFailure,
\* canRequest, called by routeRpcCall and attemptToReconnectToPrimaryProvider).
THEOREM BreakersFollowTheCycle ==
    ASSUME NEW p \in Providers PROVE Spec => Cycle(p)!Spec
<1>1. Init => Cycle(p)!Init
  BY DEF Init, Cycle!Init, Closed
<1>2. Inv /\ [Next]_vars => [Cycle(p)!Next]_(breaker[p].state)
  BY MovesStep DEF Moves, Cycle!Next, Cycle!Trip, Cycle!Probe, Cycle!Settle
<1> QED BY InitInv, StepInv, <1>1, <1>2, PTL DEF Spec, Cycle!Spec

-----------------------------------------------------------------------------
(* The current provider and its index, with the switches of provider as    *)
(* EventSubscriptions models them.                                         *)

CONSTANTS OnceListeners, LastingListeners, SocketCreators, MaxProviders

VARIABLES providers, current, position, cached, joining, saved, registered, calls

Subscriptions == INSTANCE EventSubscriptions WITH index <- position

SocketStates == {"none", "connecting", "open", "closed"}

\* The records of providers that know listeners of S, and a list of them.
Known(S)  == [index : Providers, ready : BOOLEAN, heard : S, socket : SocketStates]
IsList(q) == \E S : q \in Seq(Known(S))

\* Nothing became of a provider another creator would have made.
Extends(q, t) ==
    Len(q) <= Len(t) /\ \A p \in 1..Len(q) : t[p].index = q[p].index

LEMMA UpdateExtends ==
    ASSUME NEW q, IsList(q), NEW p \in 1..Len(q), NEW T, NEW r \in Known(T),
           r.index = q[p].index
    PROVE  /\ IsList([q EXCEPT ![p] = r])
           /\ Extends(q, [q EXCEPT ![p] = r])
           /\ Len([q EXCEPT ![p] = r]) = Len(q)
<1>1. PICK S : q \in Seq(Known(S))
  BY DEF IsList
<1>2. Known(S) \subseteq Known(S \cup T) /\ Known(T) \subseteq Known(S \cup T)
  BY DEF Known
<1> HIDE DEF Known
<1>3. [q EXCEPT ![p] = r] \in Seq(Known(S \cup T)) /\ Len([q EXCEPT ![p] = r]) = Len(q)
  <2>1. q \in Seq(Known(S \cup T)) /\ r \in Known(S \cup T)
    BY <1>1, <1>2, SeqMonotonic
  <2> QED BY <2>1
<1> QED BY <1>1, <1>3 DEF IsList, Extends

LEMMA AppendExtends ==
    ASSUME NEW q, IsList(q), NEW T, NEW r \in Known(T)
    PROVE  /\ IsList(Append(q, r))
           /\ Extends(q, Append(q, r))
           /\ Len(Append(q, r)) = Len(q) + 1
           /\ Append(q, r)[Len(q) + 1] = r
<1>1. PICK S : q \in Seq(Known(S))
  BY DEF IsList
<1>2. Known(S) \subseteq Known(S \cup T) /\ Known(T) \subseteq Known(S \cup T)
  BY DEF Known
<1> HIDE DEF Known
<1>3. q \in Seq(Known(S \cup T)) /\ r \in Known(S \cup T)
  BY <1>1, <1>2, SeqMonotonic
<1>4. Append(q, r) \in Seq(Known(S \cup T))
  BY <1>3
<1>5. /\ Len(Append(q, r)) = Len(q) + 1 /\ Len(q) \in Nat
      /\ \A p \in 1..Len(q) : Append(q, r)[p] = q[p]
      /\ Append(q, r)[Len(q) + 1] = r
  BY <1>3
<1> QED BY <1>4, <1>5 DEF IsList, Extends

LEMMA ListItems ==
    ASSUME NEW q, IsList(q)
    PROVE  /\ Len(q) \in Nat /\ DOMAIN q = 1..Len(q)
           /\ \A p \in 1..Len(q) : \E S : q[p] \in Known(S)
           /\ Extends(q, q)
<1>1. PICK S : q \in Seq(Known(S))
  BY DEF IsList
<1> QED BY <1>1 DEF Extends

LEMMA Records ==
    ASSUME NEW S, NEW r \in Known(S)
    PROVE  /\ \A h : \E T : /\ [r EXCEPT !.heard = h] \in Known(T)
                            /\ [r EXCEPT !.heard = h].index = r.index
           /\ \A b \in BOOLEAN : /\ [r EXCEPT !.ready = b] \in Known(S)
                                 /\ [r EXCEPT !.ready = b].index = r.index
           /\ \A k \in SocketStates : /\ [r EXCEPT !.socket = k] \in Known(S)
                                  /\ [r EXCEPT !.socket = k].index = r.index
<1>1. ASSUME NEW h PROVE [r EXCEPT !.heard = h] \in Known({h})
                         /\ [r EXCEPT !.heard = h].index = r.index
  BY DEF Known
<1>2. ASSUME NEW b \in BOOLEAN PROVE [r EXCEPT !.ready = b] \in Known(S)
                         /\ [r EXCEPT !.ready = b].index = r.index
  BY DEF Known
<1>3. ASSUME NEW k \in SocketStates PROVE [r EXCEPT !.socket = k] \in Known(S)
                         /\ [r EXCEPT !.socket = k].index = r.index
  BY DEF Known
<1> QED BY <1>1, <1>2, <1>3

\* A provider that is given what is noted.
LEMMA WithSavedExtends ==
    ASSUME NEW q, IsList(q), NEW p \in 1..Len(q)
    PROVE  /\ IsList([q EXCEPT ![p] = Subscriptions!WithSaved(@)])
           /\ Extends(q, [q EXCEPT ![p] = Subscriptions!WithSaved(@)])
           /\ Len([q EXCEPT ![p] = Subscriptions!WithSaved(@)]) = Len(q)
<1>1. PICK S : q[p] \in Known(S)
  BY ListItems
<1>2. \E T : /\ Subscriptions!WithSaved(q[p]) \in Known(T)
             /\ Subscriptions!WithSaved(q[p]).index = q[p].index
  BY <1>1, Records DEF Subscriptions!WithSaved
<1> QED BY <1>2, UpdateExtends

LEMMA DisconnectedExtends ==
    ASSUME IsList(providers), current \in 1..Len(providers)
    PROVE  /\ IsList(Subscriptions!Disconnected)
           /\ Extends(providers, Subscriptions!Disconnected)
           /\ Len(Subscriptions!Disconnected) = Len(providers)
<1>1. PICK S : providers[current] \in Known(S)
  BY ListItems
<1> DEFINE r == [providers[current] EXCEPT !.socket = "closed"]
<1>2. r \in Known(S) /\ r.index = providers[current].index
  BY <1>1, Records DEF SocketStates
<1>3. [providers EXCEPT ![current].socket = "closed"] = [providers EXCEPT ![current] = r]
  OBVIOUS
<1> HIDE DEF r
<1>4. CASE Subscriptions!Disconnected = [providers EXCEPT ![current] = r]
  BY <1>2, <1>4, UpdateExtends
<1>5. CASE Subscriptions!Disconnected = providers
  BY <1>5, ListItems
<1> QED BY <1>3, <1>4, <1>5 DEF Subscriptions!Disconnected

ListInv ==
    /\ IsList(providers)
    /\ current \in 1..Len(providers)
    /\ position \in Providers
    /\ cached \in [Providers -> 0..Len(providers)]
    /\ joining \in 0..Len(providers)

MatchInv == ListInv /\ Subscriptions!CreatorsMatch

LEMMA CreatedKnown ==
    ASSUME NEW i \in Providers
    PROVE  /\ Subscriptions!Created(i) \in Known({<<>>})
           /\ Subscriptions!Created(i).index = i
BY DEF Subscriptions!Created, Known, SocketStates

LEMMA MatchInit == Subscriptions!Init => MatchInv
<1> SUFFICES ASSUME Subscriptions!Init PROVE MatchInv
  OBVIOUS
<1>0. 0 \in Providers
  BY RoutingAssumption DEF Providers
<1>1. /\ providers = <<Subscriptions!Created(0)>> /\ current = 1 /\ position = 0
      /\ cached = [i \in Providers |-> IF i = 0 THEN 1 ELSE 0] /\ joining = 0
  BY DEF Subscriptions!Init, Subscriptions!Indices, Providers, Subscriptions!NoProvider
<1>2. providers \in Seq(Known({<<>>})) /\ Len(providers) = 1
      /\ providers[1] = Subscriptions!Created(0)
  BY <1>0, <1>1, CreatedKnown
<1>3. ListInv
  BY <1>0, <1>1, <1>2 DEF ListInv, IsList
<1> QED
  BY <1>0, <1>1, <1>2, <1>3, CreatedKnown
  DEF MatchInv, Subscriptions!CreatorsMatch, Subscriptions!NoProvider

\* What a step makes of the list as long as nothing moves.
LEMMA StayMatch ==
    ASSUME MatchInv, IsList(providers'), Extends(providers, providers'),
           UNCHANGED <<current, position, cached, joining>>
    PROVE  MatchInv'
<1>1. Len(providers) \in Nat /\ Len(providers') \in Nat
  BY ListItems DEF MatchInv, ListInv
<1>2. ListInv'
  BY <1>1 DEF MatchInv, ListInv, Extends
<1>3. Subscriptions!CreatorsMatch'
  BY <1>1 DEF MatchInv, ListInv, Extends, Subscriptions!CreatorsMatch,
              Subscriptions!Indices, Providers, Subscriptions!NoProvider
<1> QED BY <1>2, <1>3 DEF MatchInv

\* A switch to the provider p of the creator i.
LEMMA MoveMatch ==
    ASSUME MatchInv, IsList(providers'), Extends(providers, providers'),
           NEW i \in Providers, NEW p \in 1..Len(providers'),
           providers'[p].index = i,
           current' = p, position' = i,
           cached' = cached \/ cached' = [cached EXCEPT ![i] = p],
           joining' = joining \/ joining' = 0
    PROVE  MatchInv'
<1>1. Len(providers) \in Nat /\ Len(providers') \in Nat
  BY ListItems DEF MatchInv, ListInv
<1>2. ListInv'
  BY <1>1 DEF MatchInv, ListInv, Extends
<1>3. Subscriptions!CreatorsMatch'
  <2>1. ASSUME NEW k \in Providers, cached'[k] # 0
        PROVE  providers'[cached'[k]].index = k
    <3>1. CASE k = i /\ cached' = [cached EXCEPT ![i] = p]
      BY <3>1 DEF MatchInv, ListInv
    <3>2. CASE cached'[k] = cached[k]
      <4>1. cached[k] \in 1..Len(providers)
        BY <1>1, <2>1, <3>2 DEF MatchInv, ListInv
      <4>2. providers[cached[k]].index = k
        BY <2>1, <3>2 DEF MatchInv, Subscriptions!CreatorsMatch,
              Subscriptions!Indices, Providers, Subscriptions!NoProvider
      <4> QED BY <3>2, <4>1, <4>2 DEF Extends
    <3> QED BY <3>1, <3>2 DEF MatchInv, ListInv
  <2>2. joining' # 0 => providers'[joining'].index = 0
    BY <1>1 DEF MatchInv, ListInv, Extends, Subscriptions!CreatorsMatch,
                Subscriptions!NoProvider
  <2> QED
    BY <2>1, <2>2 DEF Subscriptions!CreatorsMatch, Subscriptions!Indices, Providers,
                      Subscriptions!NoProvider
<1> QED BY <1>2, <1>3 DEF MatchInv

LEMMA HeardExtends ==
    ASSUME NEW q, IsList(q), NEW p \in 1..Len(q), NEW h
    PROVE  /\ IsList([q EXCEPT ![p].heard = h])
           /\ Extends(q, [q EXCEPT ![p].heard = h])
<1> DEFINE r == [q[p] EXCEPT !.heard = h]
<1>1. PICK S : q[p] \in Known(S)
  BY ListItems
<1>2. PICK T : r \in Known(T) /\ r.index = q[p].index
  BY <1>1, Records
<1>3. [q EXCEPT ![p].heard = h] = [q EXCEPT ![p] = r]
  OBVIOUS
<1> HIDE DEF r
<1> QED BY <1>2, <1>3, UpdateExtends

LEMMA HeardMatch ==
    ASSUME MatchInv, NEW p \in 1..Len(providers), NEW h,
           providers' = [providers EXCEPT ![p].heard = h],
           UNCHANGED <<current, position, cached, joining>>
    PROVE  MatchInv'
<1>1. IsList(providers') /\ Extends(providers, providers')
  BY HeardExtends DEF MatchInv, ListInv
<1> QED BY <1>1, StayMatch

LEMMA ReconnectMatch ==
    ASSUME MatchInv, NEW i \in Providers, Subscriptions!Reconnect(i)
    PROVE  MatchInv'
<1> DEFINE created == cached[i] = 0
           all == IF created
                  THEN Append(Subscriptions!Disconnected, Subscriptions!Created(i))
                  ELSE Subscriptions!Disconnected
           p   == IF created THEN Len(all) ELSE cached[i]
<1>1. /\ providers' = [all EXCEPT ![p] = Subscriptions!WithSaved(@)]
      /\ current' = p /\ position' = i /\ cached' = [cached EXCEPT ![i] = p]
      /\ UNCHANGED joining
  BY DEF Subscriptions!Reconnect, Subscriptions!NoProvider
<1> DEFINE left == Subscriptions!Disconnected
<1>2. IsList(left) /\ Extends(providers, left) /\ Len(left) = Len(providers)
  BY DisconnectedExtends DEF MatchInv, ListInv
<1>3. Len(left) \in Nat /\ Len(providers) \in Nat
  BY <1>2, ListItems DEF MatchInv, ListInv
<1>4. IsList(all) /\ Extends(providers, all) /\ p \in 1..Len(all) /\ all[p].index = i
  <2>1. CASE created
    <3>1. all = Append(left, Subscriptions!Created(i))
      BY <2>1
    <3> HIDE DEF left, all
    <3>2. /\ IsList(all) /\ Extends(left, all) /\ Len(all) = Len(left) + 1
          /\ all[Len(left) + 1] = Subscriptions!Created(i)
      BY <1>2, <3>1, AppendExtends, CreatedKnown
    <3>3. Extends(providers, all)
      BY <1>2, <1>3, <3>2 DEF Extends
    <3>4. p = Len(left) + 1
      BY <2>1, <3>2
    <3> QED BY <1>3, <3>2, <3>3, <3>4, CreatedKnown
  <2>2. CASE ~created
    <3>1. all = left /\ p = cached[i]
      BY <2>2
    <3>2. cached[i] \in 1..Len(providers) /\ providers[cached[i]].index = i
      BY <1>3, <2>2 DEF MatchInv, ListInv, Subscriptions!CreatorsMatch,
              Subscriptions!Indices, Providers, Subscriptions!NoProvider
    <3> HIDE DEF left, all, p, created
    <3> QED BY <1>2, <3>1, <3>2 DEF Extends
  <2> QED BY <2>1, <2>2
<1> HIDE DEF left, all, p, created
<1>5. /\ IsList(providers') /\ Extends(all, providers')
      /\ Len(providers') = Len(all)
  BY <1>1, <1>4, WithSavedExtends
<1>6. Len(all) \in Nat
  BY <1>4, ListItems
<1>7. Extends(providers, providers') /\ p \in 1..Len(providers') /\ providers'[p].index = i
  BY <1>3, <1>4, <1>5, <1>6 DEF Extends
<1> QED BY <1>1, <1>5, <1>7, MoveMatch

LEMMA TryMatch ==
    ASSUME MatchInv, Subscriptions!TryPrimary
    PROVE  MatchInv'
<1>0. 0 \in Providers
  BY RoutingAssumption DEF Providers
<1>1. /\ providers' = Append(providers, Subscriptions!Created(0))
      /\ joining' = Len(providers')
      /\ UNCHANGED <<current, position, cached>>
  BY DEF Subscriptions!TryPrimary
<1>2. /\ IsList(providers') /\ Extends(providers, providers')
      /\ Len(providers') = Len(providers) + 1 /\ Len(providers) \in Nat
      /\ providers'[Len(providers) + 1].index = 0
  BY <1>0, <1>1, AppendExtends, CreatedKnown, ListItems DEF MatchInv, ListInv
<1>3. ListInv'
  BY <1>1, <1>2 DEF MatchInv, ListInv
<1>4. Subscriptions!CreatorsMatch'
  BY <1>1, <1>2 DEF MatchInv, ListInv, Extends, Subscriptions!CreatorsMatch,
              Subscriptions!Indices, Providers, Subscriptions!NoProvider
<1> QED BY <1>3, <1>4 DEF MatchInv

LEMMA RejoinMatch ==
    ASSUME MatchInv, Subscriptions!Rejoin
    PROVE  MatchInv'
<1>0. /\ 0 \in Providers /\ joining \in 1..Len(providers) /\ Len(providers) \in Nat
      /\ providers[joining].index = 0 /\ joining' = 0
  BY RoutingAssumption, ListItems
  DEF Providers, MatchInv, ListInv, Subscriptions!Rejoin, Subscriptions!CreatorsMatch,
      Subscriptions!NoProvider
<1>1. CASE Subscriptions!Takes(providers[joining])
  <2> DEFINE left == Subscriptions!Disconnected
  <2>1. /\ providers' = [left EXCEPT ![joining] = Subscriptions!WithSaved(@)]
        /\ current' = joining /\ position' = 0 /\ UNCHANGED cached
    BY <1>1 DEF Subscriptions!Rejoin
  <2>2. IsList(left) /\ Extends(providers, left) /\ Len(left) = Len(providers)
    BY DisconnectedExtends DEF MatchInv, ListInv
  <2> HIDE DEF left
  <2>3. /\ IsList(providers') /\ Extends(left, providers')
        /\ Len(providers') = Len(left)
    BY <1>0, <2>1, <2>2, WithSavedExtends
  <2>4. Extends(providers, providers') /\ providers'[joining].index = 0
    BY <1>0, <2>2, <2>3 DEF Extends
  <2>5. joining \in 1..Len(providers')
    BY <1>0, <2>2, <2>3
  <2> QED BY <1>0, <2>1, <2>3, <2>4, <2>5, MoveMatch
<1>2. CASE ~Subscriptions!Takes(providers[joining])
  <2>1. UNCHANGED <<providers, current, position, cached>>
    BY <1>2 DEF Subscriptions!Rejoin
  <2> QED
    BY <1>0, <2>1 DEF MatchInv, ListInv, Subscriptions!CreatorsMatch,
              Subscriptions!NoProvider
<1> QED BY <1>1, <1>2

LEMMA ChangeMatch ==
    ASSUME MatchInv, NEW p \in 1..Len(providers), Subscriptions!Change(p)
    PROVE  MatchInv'
<1>1. IsList(providers) /\ UNCHANGED <<current, position, cached, joining>>
  BY DEF MatchInv, ListInv, Subscriptions!Change
<1>2. PICK S : providers[p] \in Known(S)
  BY <1>1, ListItems
<1>3. \/ providers' = [providers EXCEPT ![p] = [providers[p] EXCEPT !.ready = TRUE]]
      \/ \E k \in SocketStates :
            providers' = [providers EXCEPT ![p] = [providers[p] EXCEPT !.socket = k]]
  BY DEF Subscriptions!Change, SocketStates
<1>4. PICK r \in Known(S) : /\ providers' = [providers EXCEPT ![p] = r]
                            /\ r.index = providers[p].index
  <2>1. LET r == [providers[p] EXCEPT !.ready = TRUE]
        IN  r \in Known(S) /\ r.index = providers[p].index
    BY <1>2, Records
  <2>2. ASSUME NEW k \in SocketStates
        PROVE  LET r == [providers[p] EXCEPT !.socket = k]
               IN  r \in Known(S) /\ r.index = providers[p].index
    BY <1>2, Records
  <2> HIDE DEF Known
  <2> QED BY <1>3, <2>1, <2>2
<1>5. IsList(providers') /\ Extends(providers, providers')
  BY <1>1, <1>4, UpdateExtends
<1> QED BY <1>1, <1>5, StayMatch

LEMMA MatchNext ==
    MatchInv /\ [Subscriptions!Next]_(Subscriptions!vars) => MatchInv'
<1> SUFFICES ASSUME MatchInv, [Subscriptions!Next]_(Subscriptions!vars)
             PROVE  MatchInv'
  OBVIOUS
<1>0. /\ DOMAIN providers = 1..Len(providers) /\ current \in 1..Len(providers)
      /\ position \in Providers
  BY ListItems DEF MatchInv, ListInv
<1>1. ASSUME NEW l, Subscriptions!On(l) \/ Subscriptions!Once(l) PROVE MatchInv'
  <2>1. \E h : providers' = [providers EXCEPT ![current].heard = h]
    BY <1>1 DEF Subscriptions!On, Subscriptions!Once, Subscriptions!Register
  <2> QED
    BY <1>0, <1>1, <2>1, HeardMatch
    DEF Subscriptions!On, Subscriptions!Once, Subscriptions!Register
<1>2. ASSUME NEW l, NEW p \in DOMAIN providers, Subscriptions!Emit(p, l) PROVE MatchInv'
  <2>1. \/ \E h : providers' = [providers EXCEPT ![p].heard = h]
        \/ UNCHANGED providers
    BY <1>2 DEF Subscriptions!Emit
  <2>2. UNCHANGED <<current, position, cached, joining>>
    BY <1>2 DEF Subscriptions!Emit
  <2>3. CASE UNCHANGED providers
    BY <2>2, <2>3, ListItems, StayMatch DEF MatchInv, ListInv
  <2> QED BY <1>0, <1>2, <2>1, <2>2, <2>3, HeardMatch
<1>3. CASE Subscriptions!FailOver
  <2>1. PICK i \in Providers : Subscriptions!Reconnect(i)
    BY <1>0, <1>3, RoutingAssumption DEF Subscriptions!FailOver, Providers
  <2> QED BY <2>1, ReconnectMatch
<1>4. ASSUME NEW p \in DOMAIN providers, Subscriptions!Change(p) PROVE MatchInv'
  BY <1>0, <1>4, ChangeMatch
<1>5. CASE UNCHANGED Subscriptions!vars
  BY <1>5, ListItems, StayMatch DEF Subscriptions!vars, MatchInv, ListInv
<1> QED BY <1>1, <1>2, <1>3, <1>4, <1>5, TryMatch, RejoinMatch DEF Subscriptions!Next

\* The current provider is always one that the creator at currentProviderIndex
\* made, and the cached ones are at the index of their creator: a message that
\* failed at an index failed at a provider of that creator, whatever other
\* messages, closed sockets and the return to the first provider switched
\* meanwhile (reconnectProvider, attemptToReconnectToPrimaryProvider).
THEOREM IndexOfCurrent == Subscriptions!Spec => []Subscriptions!CreatorsMatch
<1>1. MatchInv => Subscriptions!CreatorsMatch
  BY DEF MatchInv
<1> QED BY MatchInit, MatchNext, <1>1, PTL DEF Subscriptions!Spec
=============================================================================
