----------------------- MODULE NonceAllocationProofs -----------------------
(***************************************************************************)
(* Theorems about NonceAllocation for every set of requests, every initial *)
(* count and any number of restarts and of transactions of the other       *)
(* wallet.                                                                 *)
(***************************************************************************)
EXTENDS NonceAllocation, TLAPS

-----------------------------------------------------------------------------
(* Type correctness.  A release stores nonce - 1, so the type of lastSeen  *)
(* rests on every released request having a nonce.                         *)

Unnumbered == {"new", "counting", "answered", "lost"}

HasNonce ==
    \A t \in Txs :
        /\ phase[t] \notin Unnumbered => nonce[t] \in Nat
        /\ status[t] # "absent" =>
             phase[t] \in {"sending", "sent", "sendError", "failed"}
        /\ t \in missing => status[t] # "absent"
        /\ t \in auto \cup released => nonce[t] \in Nat
        /\ phase[t] \in {"new", "counting", "answered"} =>
             nonce[t] = NoNonce /\ t \notin auto \cup released

TypeInv == TypeOK /\ HasNonce

\* What a release leaves in the map, whatever was there.
LEMMA ReleaseType ==
    ASSUME lastSeen \in {Unseen, -1} \cup Nat, NEW n \in Nat
    PROVE  LastSeenAfterRelease(n) \in {Unseen, -1} \cup Nat
BY DEF LastSeenAfterRelease, Unseen

LEMMA TypeInvInit == Init => TypeInv
BY NonceAssumption DEF Init, TypeInv, TypeOK, HasNonce, Phases, Unseen,
                       NoNonce, Unnumbered

LEMMA NextNonceType ==
    ASSUME lastSeen \in {Unseen, -1} \cup Nat, NEW c \in Nat
    PROVE  /\ NextNonce(c) \in Nat
           /\ NextNonce(c) >= c
           /\ lastSeen # Unseen => NextNonce(c) > lastSeen
           /\ lastSeen = Unseen => NextNonce(c) = c
           /\ lastSeen # Unseen =>
                NextNonce(c) = lastSeen + 1 \/ NextNonce(c) = c
BY DEF NextNonce, Max2, Unseen

LEMMA TypeInvNext == TypeInv /\ [Next]_vars => TypeInv'
<1> SUFFICES ASSUME TypeInv, [Next]_vars PROVE TypeInv'
  OBVIOUS
<1> USE DEF TypeInv, TypeOK, HasNonce, Unnumbered, Phases, NoNonce,
            walletVars, nodeVars
<1>1. ASSUME NEW t \in Txs, RequestSignature(t) PROVE TypeInv'
  BY <1>1 DEF RequestSignature
<1>2. ASSUME NEW t \in Txs, AnswerCount(t) PROVE TypeInv'
  BY <1>2 DEF AnswerCount
<1>3. ASSUME NEW t \in Txs, CountError(t) PROVE TypeInv'
  BY <1>3 DEF CountError
<1>4. ASSUME NEW t \in Txs, PopulateNonce(t) PROVE TypeInv'
  BY <1>4, NextNonceType DEF PopulateNonce
<1>5. ASSUME NEW t \in Txs, SignSucceeds(t) PROVE TypeInv'
  BY <1>5 DEF SignSucceeds
<1>6. ASSUME NEW t \in Txs, SignFails(t) PROVE TypeInv'
  BY <1>6, ReleaseType DEF SignFails, Release
<1>7. ASSUME NEW t \in Txs, Broadcast(t) PROVE TypeInv'
  BY <1>7 DEF Broadcast, SavedOpen
<1>8. ASSUME NEW t \in Txs, SendResolves(t) PROVE TypeInv'
  BY <1>8 DEF SendResolves
<1>9. ASSUME NEW t \in Txs, SendFails(t) PROVE TypeInv'
  BY <1>9, ReleaseType DEF SendFails, Release
<1>10. ASSUME NEW t \in Txs, SaveSendError(t) PROVE TypeInv'
  BY <1>10 DEF SaveSendError
<1>11. ASSUME NEW t \in Txs, Confirm(t) PROVE TypeInv'
  BY <1>11 DEF Confirm
<1>12. ASSUME NEW t \in Txs, AnswerMissing(t) PROVE TypeInv'
  BY <1>12 DEF AnswerMissing
<1>13. ASSUME NEW t \in Txs, CancelMissing(t) PROVE TypeInv'
  BY <1>13, ReleaseType DEF CancelMissing, Release
<1>14. ASSUME NEW t \in Txs, NEW n \in RequestNonces, RequestWithNonce(t, n)
       PROVE  TypeInv'
  BY <1>14, NonceAssumption DEF RequestWithNonce
<1>15. ASSUME NEW n \in events, HandlePending(n) PROVE TypeInv'
  BY <1>15 DEF HandlePending
<1>16. CASE Restart
  <2>1. \A t \in Txs : AfterRestart(phase[t]) \in Phases
    BY DEF AfterRestart, Unbroadcast
  <2>2. \A t \in Txs : AfterRestart(phase[t]) \notin Unnumbered =>
                         phase[t] \notin Unnumbered
    BY DEF AfterRestart, Unbroadcast
  <2>3. \A t \in Txs : AfterRestart(phase[t]) \in {"new", "counting", "answered"}
                         => phase[t] \in {"new", "counting", "answered"}
    BY DEF AfterRestart, Unbroadcast
  <2>4. \A t \in Txs :
          phase[t] \in {"sending", "sent", "sendError", "failed"} =>
            AfterRestart(phase[t]) \in {"sending", "sent", "sendError", "failed"}
    BY DEF AfterRestart, Unbroadcast
  <2>5. /\ phase' = [t \in Txs |-> AfterRestart(phase[t])]
        /\ count' = [t \in Txs |-> 0]
        /\ lastSeen' = Unseen /\ missing' = {} /\ events' = {}
        /\ earlier' \in SUBSET Txs /\ restarts' = restarts + 1
        /\ UNCHANGED <<nonce, auto, status, nodeVars, released>>
    BY <1>16 DEF Restart
  <2>6. TypeOK'
    BY <2>1, <2>5
  <2>7. HasNonce'
    BY <2>2, <2>3, <2>4, <2>5
  <2> QED BY <2>6, <2>7
<1>17. ASSUME NEW t \in Txs, AcceptTx(t) PROVE TypeInv'
  BY <1>17 DEF AcceptTx, Announced, Pooled
<1>18. ASSUME NEW t \in Txs, Evict(t) PROVE TypeInv'
  BY <1>18 DEF Evict
<1>19. ASSUME NEW n \in chainCount..MaxNonce, ExternalSend(n) PROVE TypeInv'
  BY <1>19, NonceAssumption DEF ExternalSend, Announced
<1>20. CASE Mine
  BY <1>20 DEF Mine, Pooled
<1>21. CASE UNCHANGED vars
  BY <1>21 DEF vars
<1>22. ASSUME NEW t \in Txs, BroadcastThrows(t) PROVE TypeInv'
  BY <1>22, ReleaseType DEF BroadcastThrows, Release
<1> QED
  BY <1>1, <1>2, <1>3, <1>4, <1>5, <1>6, <1>7, <1>8, <1>9, <1>10, <1>11,
     <1>12, <1>13, <1>14, <1>15, <1>16, <1>17, <1>18, <1>19, <1>20, <1>21,
     <1>22
     DEF Next, WalletStep

\* The state stays well typed: in particular a release never turns the stored
\* nonce into the absent entry, because every released request has a nonce.
THEOREM TypeCorrect == Spec => []TypeOK
<1>1. TypeInv => TypeOK BY DEF TypeInv
<1> QED BY TypeInvInit, TypeInvNext, <1>1, PTL DEF Spec

-----------------------------------------------------------------------------
(* A nonce is handed out twice only after a release.  The invariant behind *)
(* it: whatever the service allocated in this run lies at or below the     *)
(* stored number, unless a release at or below it has moved that number.   *)

Covered(t) == \/ lastSeen # Unseen /\ nonce[t] <= lastSeen
              \/ \E f \in released : nonce[f] <= nonce[t]

CoveredInv == \A t \in Current : Covered(t)

ReuseInv == TypeInv /\ CoveredInv /\ ReuseNeedsRelease

\* A release stores the predecessor of its nonce or leaves the number alone.
LEMMA ReleaseEffect ==
    ASSUME lastSeen \in {Unseen, -1} \cup Nat, NEW n \in Nat
    PROVE  /\ \/ LastSeenAfterRelease(n) = lastSeen
              \/ /\ LastSeenAfterRelease(n) = n - 1
                 /\ lastSeen # Unseen /\ n <= lastSeen
           /\ LastSeenAfterRelease(n) = Unseen <=> lastSeen = Unseen
BY DEF LastSeenAfterRelease, Unseen, Tracked

LEMMA ReuseInit == Init => ReuseInv
BY TypeInvInit DEF Init, ReuseInv, CoveredInv, ReuseNeedsRelease, Current

\* Steps that only release the nonce of one request.
LEMMA ReuseRelease ==
    ASSUME ReuseInv, NEW t \in Txs, nonce[t] \in Nat, Release(t),
           UNCHANGED <<nonce, auto, earlier>>
    PROVE  CoveredInv' /\ ReuseNeedsRelease'
<1> USE DEF ReuseInv, TypeInv, TypeOK, Current, NoNonce, Unseen
<1>1. ASSUME NEW u \in Current PROVE Covered(u)'
  <2>1. CASE \E f \in released : nonce[f] <= nonce[u]
    BY <2>1 DEF Covered, Release
  <2>2. CASE lastSeen # Unseen /\ nonce[u] <= lastSeen
    <3>1. nonce[u] \in Nat
      BY DEF HasNonce
    <3>2. CASE lastSeen' = lastSeen
      BY <2>2, <3>2 DEF Covered
    <3>3. CASE lastSeen' = nonce[t] - 1
      <4>1. lastSeen' # Unseen
        BY <3>3
      <4>2. nonce[u] <= lastSeen' \/ nonce[t] <= nonce[u]
        BY <3>1, <3>3
      <4> QED BY <4>1, <4>2 DEF Covered, Release
    <3> QED BY <3>2, <3>3, ReleaseEffect DEF Release
  <2> QED BY <2>1, <2>2 DEF CoveredInv, Covered
<1>2. ReuseNeedsRelease'
  BY DEF ReuseNeedsRelease, Release
<1> QED BY <1>1, <1>2 DEF CoveredInv

\* Steps that touch none of the bookkeeping.
LEMMA ReuseStutter ==
    ASSUME ReuseInv, UNCHANGED <<lastSeen, nonce, auto, earlier, released>>
    PROVE  CoveredInv' /\ ReuseNeedsRelease'
BY DEF ReuseInv, CoveredInv, Covered, ReuseNeedsRelease, Current

\* The allocation: the new nonce is above the stored number, so a request of
\* this run that has it already lost it to a release.
LEMMA ReusePopulate ==
    ASSUME HasMempool, ReuseInv, NEW t \in Txs, PopulateNonce(t)
    PROVE  CoveredInv' /\ ReuseNeedsRelease'
<1> USE DEF ReuseInv, TypeInv, TypeOK, HasNonce, Current, NoNonce, Unseen
<1> DEFINE n == NextNonce(count[t])
<1>1. /\ lastSeen' = n /\ nonce' = [nonce EXCEPT ![t] = n]
      /\ auto' = auto \cup {t} /\ UNCHANGED <<released, earlier>>
      /\ phase[t] = "answered" /\ t \notin auto /\ t \notin released
  BY DEF PopulateNonce
<1>2. n \in Nat /\ (lastSeen # Unseen => n > lastSeen)
  BY NextNonceType
<1> HIDE DEF n
<1>3. \A u \in Txs \ {t} : nonce'[u] = nonce[u]
  BY <1>1
<1>4. nonce'[t] = n
  BY <1>1
<1>5. ASSUME NEW u \in Current' PROVE Covered(u)'
  <2>1. CASE u = t
    BY <1>1, <1>2, <1>4, <2>1 DEF Covered
  <2>2. CASE u # t
    <3>1. u \in Current /\ nonce'[u] = nonce[u] /\ nonce[u] \in Nat
      BY <1>1, <1>3, <2>2
    <3>2. CASE \E f \in released : nonce[f] <= nonce[u]
      BY <1>1, <1>3, <3>1, <3>2 DEF Covered
    <3>3. CASE lastSeen # Unseen /\ nonce[u] <= lastSeen
      BY <1>1, <1>2, <3>1, <3>3 DEF Covered
    <3> QED BY <3>1, <3>2, <3>3 DEF CoveredInv, Covered
  <2> QED BY <2>1, <2>2
<1>6. ASSUME NEW u \in Current', NEW v \in Current', u # v,
             nonce'[u] = nonce'[v]
      PROVE  \E f \in released' : nonce'[f] <= nonce'[u]
  <2>1. ASSUME NEW w \in Current, nonce[w] = n
        PROVE  \E f \in released : nonce[f] <= n
    BY <1>2, <2>1 DEF CoveredInv, Covered
  <2>2. CASE u # t /\ v # t
    <3>1. u \in Current /\ v \in Current /\ nonce[u] = nonce[v]
      BY <1>1, <1>3, <1>6, <2>2
    <3>2. PICK f \in released : nonce[f] <= nonce[u]
      BY <1>6, <3>1 DEF ReuseNeedsRelease
    <3> QED BY <1>1, <1>3, <2>2, <3>2
  <2>3. CASE u = t \/ v = t
    <3>1. \E w \in Current : nonce[w] = n
      BY <1>1, <1>3, <1>4, <1>6, <2>3
    <3>2. PICK f \in released : nonce[f] <= n
      BY <2>1, <3>1
    <3> QED BY <1>1, <1>3, <1>4, <1>6, <2>3, <3>2
  <2> QED BY <2>2, <2>3
<1> QED BY <1>5, <1>6 DEF CoveredInv, ReuseNeedsRelease

LEMMA ReuseNext == HasMempool /\ ReuseInv /\ [Next]_vars => ReuseInv'
<1> SUFFICES ASSUME HasMempool, ReuseInv, [Next]_vars PROVE ReuseInv'
  OBVIOUS
<1>1. TypeInv'
  BY TypeInvNext DEF ReuseInv
<1>2. CoveredInv' /\ ReuseNeedsRelease'
  <2>1. ASSUME NEW t \in Txs, PopulateNonce(t)
        PROVE  CoveredInv' /\ ReuseNeedsRelease'
    BY <2>1, ReusePopulate
  <2>2. ASSUME NEW t \in Txs, SignFails(t) \/ BroadcastThrows(t) \/ SendFails(t)
        PROVE  CoveredInv' /\ ReuseNeedsRelease'
    <3>1. nonce[t] \in Nat /\ Release(t) /\ UNCHANGED <<nonce, auto, earlier>>
      BY <2>2 DEF ReuseInv, TypeInv, HasNonce, Unnumbered, SignFails,
                  BroadcastThrows, SendFails
    <3> QED BY <3>1, ReuseRelease
  <2>3. ASSUME NEW t \in Txs, CancelMissing(t)
        PROVE  CoveredInv' /\ ReuseNeedsRelease'
    <3>1. UNCHANGED <<nonce, auto, earlier>>
      BY <2>3 DEF CancelMissing
    <3>2. CASE status[t] = "open"
      <4>1. nonce[t] \in Nat /\ Release(t)
        BY <2>3, <3>2 DEF ReuseInv, TypeInv, HasNonce, Unnumbered, CancelMissing
      <4> QED BY <3>1, <4>1, ReuseRelease
    <3>3. CASE status[t] # "open"
      <4>1. UNCHANGED <<lastSeen, released>>
        BY <2>3, <3>3 DEF CancelMissing
      <4> QED BY <3>1, <4>1, ReuseStutter
    <3> QED BY <3>2, <3>3
  <2>4. ASSUME NEW n \in events, HandlePending(n)
        PROVE  CoveredInv' /\ ReuseNeedsRelease'
    <3>1. /\ UNCHANGED <<nonce, auto, earlier, released>>
          /\ lastSeen' = IF lastSeen # Unseen /\ lastSeen <= n
                         THEN n ELSE lastSeen
          /\ n \in Nat
      BY <2>4 DEF HandlePending, ReuseInv, TypeInv, TypeOK
    <3>2. ASSUME NEW u \in Current PROVE Covered(u)'
      BY <3>1 DEF ReuseInv, CoveredInv, Covered, Current, TypeInv, TypeOK,
                  NoNonce, Unseen
    <3> QED BY <3>1, <3>2 DEF ReuseInv, CoveredInv, ReuseNeedsRelease, Current
  <2>5. ASSUME NEW t \in Txs, NEW n \in RequestNonces, RequestWithNonce(t, n)
        PROVE  CoveredInv' /\ ReuseNeedsRelease'
    <3>1. /\ t \notin auto /\ t \notin released
          /\ nonce' = [nonce EXCEPT ![t] = n]
          /\ UNCHANGED <<lastSeen, auto, earlier, released>>
      BY <2>5 DEF RequestWithNonce, ReuseInv, TypeInv, HasNonce
    <3>2. \A u \in auto \cup released : nonce'[u] = nonce[u]
      BY <3>1 DEF ReuseInv, TypeInv, TypeOK
    <3> QED BY <3>1, <3>2 DEF ReuseInv, CoveredInv, Covered,
                              ReuseNeedsRelease, Current
  <2>6. ASSUME Restart PROVE CoveredInv' /\ ReuseNeedsRelease'
    <3>1. Current' = {}
      BY <2>6 DEF Restart, Current, ReuseInv, TypeInv, TypeOK, HasNonce
    <3> QED BY <3>1 DEF CoveredInv, ReuseNeedsRelease
  <2>7. ASSUME NEW t \in Txs,
               \/ RequestSignature(t) \/ AnswerCount(t) \/ CountError(t)
               \/ SignSucceeds(t) \/ Broadcast(t) \/ SendResolves(t)
               \/ SaveSendError(t) \/ Confirm(t) \/ AnswerMissing(t)
        PROVE  CoveredInv' /\ ReuseNeedsRelease'
    BY <2>7, ReuseStutter
       DEF RequestSignature, AnswerCount, CountError, SignSucceeds, Broadcast,
           SendResolves, SaveSendError, Confirm, AnswerMissing
  <2>8. ASSUME \/ \E t \in Txs : AcceptTx(t) \/ Evict(t)
               \/ \E n \in chainCount..MaxNonce : ExternalSend(n)
               \/ Mine
               \/ UNCHANGED vars
        PROVE  CoveredInv' /\ ReuseNeedsRelease'
    BY <2>8, ReuseStutter
       DEF AcceptTx, Evict, ExternalSend, Mine, vars, walletVars
  <2> QED
    BY <2>1, <2>2, <2>3, <2>4, <2>5, <2>6, <2>7, <2>8 DEF Next, WalletStep
<1> QED BY <1>1, <1>2 DEF ReuseInv

\* On a chain with a mempool two requests of one run of the extension are
\* given the same nonce only after that nonce or a lower one was released,
\* whatever the node, the pending feed and the other wallet do.
THEOREM ReuseSafe == ASSUME HasMempool PROVE Spec => []ReuseNeedsRelease
<1>1. ReuseInv /\ [Next]_vars => ReuseInv'
  BY ReuseNext
<1>2. ReuseInv => ReuseNeedsRelease
  BY DEF ReuseInv
<1> QED BY ReuseInit, <1>1, <1>2, PTL DEF Spec

-----------------------------------------------------------------------------
(* No nonce is abandoned where nothing but the service moves its number    *)
(* (no pending-transaction events) and the account has a confirmed         *)
(* transaction.  Both are needed: an event that comes after a release      *)
(* raises the number again, and nonce 0 is never released.                 *)

HeldInv ==
    /\ TypeInv
    /\ events = {}
    /\ chainCount >= InitialCount
    /\ \A t \in Txs : count[t] <= chainCount
    /\ \A n \in chainCount..lastSeen : \E t \in Txs \ released : nonce[t] = n

LEMMA HeldInit == Init => HeldInv
BY TypeInvInit, NonceAssumption DEF Init, HeldInv, Unseen

\* A step keeps the clause about held nonces if it leaves the number and the
\* holders alone and the chain's count does not fall.
LEMMA HeldStutter ==
    ASSUME HeldInv, UNCHANGED <<lastSeen, nonce, released>>,
           chainCount' \in Nat, chainCount' >= chainCount
    PROVE  \A n \in chainCount'..lastSeen' :
             \E t \in Txs \ released' : nonce'[t] = n
BY DEF HeldInv, TypeInv, TypeOK, Unseen

\* A release shortens the interval below the released nonce; a stored 0, which
\* releaseEVMTransactionNonce ignores, bounds an empty interval.
LEMMA HeldRelease ==
    ASSUME HasMempool, InitialCount >= 1, HeldInv, NEW t \in Txs,
           nonce[t] \in Nat, Release(t), UNCHANGED <<nonce, chainCount>>
    PROVE  \A n \in chainCount'..lastSeen' :
             \E u \in Txs \ released' : nonce'[u] = n
<1> USE DEF HeldInv, TypeInv, TypeOK, Unseen
<1>1. ASSUME NEW n \in chainCount..lastSeen'
      PROVE  \E u \in Txs \ released' : nonce[u] = n
  <2>1. n < nonce[t] \/ lastSeen < nonce[t]
    BY <1>1, NonceAssumption DEF Release, LastSeenAfterRelease, Tracked
  <2>2. n \in chainCount..lastSeen
    BY <1>1, ReleaseEffect DEF Release
  <2>3. PICK u \in Txs \ released : nonce[u] = n
    BY <2>2
  <2>4. u # t
    BY <2>1, <2>2, <2>3
  <2> QED BY <2>3, <2>4 DEF Release
<1> QED BY <1>1

LEMMA HeldPopulate ==
    ASSUME HasMempool, HeldInv, NEW t \in Txs, PopulateNonce(t)
    PROVE  \A n \in chainCount'..lastSeen' :
             \E u \in Txs \ released' : nonce'[u] = n
<1> USE DEF HeldInv, TypeInv, TypeOK, HasNonce, NoNonce, Unseen
<1> DEFINE m == NextNonce(count[t])
<1>1. /\ lastSeen' = m /\ nonce' = [nonce EXCEPT ![t] = m]
      /\ UNCHANGED <<released, chainCount>>
      /\ t \notin released
  BY DEF PopulateNonce, nodeVars
<1>2. /\ m \in Nat
      /\ lastSeen # Unseen => m = lastSeen + 1 \/ m = count[t]
      /\ lastSeen = Unseen => m = count[t]
      /\ count[t] \in Nat /\ count[t] <= chainCount
  BY NextNonceType
<1>3. nonce[t] = NoNonce
  BY DEF PopulateNonce
<1> HIDE DEF m
<1>4. ASSUME NEW n \in chainCount..lastSeen', n # m
      PROVE  n \in chainCount..lastSeen
  BY <1>1, <1>2, <1>4
<1>5. ASSUME NEW n \in chainCount..lastSeen
      PROVE  \E u \in Txs \ released : u # t /\ nonce[u] = n
  <2>1. PICK u \in Txs \ released : nonce[u] = n
    BY <1>5
  <2> QED BY <1>3, <1>5, <2>1
<1> QED BY <1>1, <1>2, <1>4, <1>5

LEMMA HeldNext ==
    ASSUME HasMempool, ~PendingFeed, InitialCount >= 1
    PROVE  HeldInv /\ [Next]_vars => HeldInv'
<1> SUFFICES ASSUME HeldInv, [Next]_vars PROVE HeldInv'
  OBVIOUS
<1> DEFINE Held == \A n \in chainCount..lastSeen :
                      \E t \in Txs \ released : nonce[t] = n
           Rest == /\ events = {}
                   /\ chainCount >= InitialCount
                   /\ \A t \in Txs : count[t] <= chainCount
<1>1. TypeInv'
  BY TypeInvNext DEF HeldInv
<1>2. Rest' /\ Held'
  <2>1. ASSUME NEW t \in Txs, PopulateNonce(t) PROVE Rest' /\ Held'
    <3>1. Held'
      BY <2>1, HeldPopulate
    <3>2. /\ UNCHANGED <<events, chainCount>>
          /\ count' = [count EXCEPT ![t] = 0]
      BY <2>1 DEF PopulateNonce, nodeVars
    <3>3. Rest'
      BY <3>2 DEF HeldInv, TypeInv, TypeOK
    <3> QED BY <3>1, <3>3
  <2>2. ASSUME NEW t \in Txs, SignFails(t) \/ BroadcastThrows(t) \/ SendFails(t)
        PROVE  Rest' /\ Held'
    <3>1. /\ nonce[t] \in Nat /\ Release(t)
          /\ UNCHANGED <<nonce, chainCount, count, events>>
      BY <2>2 DEF HeldInv, TypeInv, HasNonce, Unnumbered, SignFails,
                  BroadcastThrows, SendFails, nodeVars
    <3> QED BY <3>1, HeldRelease DEF HeldInv
  <2>3. ASSUME NEW t \in Txs, CancelMissing(t) PROVE Rest' /\ Held'
    <3>1. UNCHANGED <<nonce, chainCount, count, events>>
      BY <2>3 DEF CancelMissing, nodeVars
    <3>2. CASE status[t] = "open"
      <4>1. nonce[t] \in Nat /\ Release(t)
        BY <2>3, <3>2 DEF HeldInv, TypeInv, HasNonce, Unnumbered, CancelMissing
      <4> QED BY <3>1, <4>1, HeldRelease DEF HeldInv
    <3>3. CASE status[t] # "open"
      <4>1. UNCHANGED <<lastSeen, released>>
        BY <2>3, <3>3 DEF CancelMissing
      <4> QED BY <3>1, <4>1 DEF HeldInv
    <3> QED BY <3>2, <3>3
  <2>4. ASSUME NEW n \in events, HandlePending(n) PROVE Rest' /\ Held'
    BY <2>4 DEF HeldInv
  <2>5. ASSUME NEW t \in Txs, NEW n \in RequestNonces, RequestWithNonce(t, n)
        PROVE  Rest' /\ Held'
    <3>1. /\ nonce[t] = NoNonce
          /\ nonce' = [nonce EXCEPT ![t] = n]
          /\ UNCHANGED <<lastSeen, released, chainCount, count, events>>
      BY <2>5 DEF RequestWithNonce, HeldInv, TypeInv, HasNonce, nodeVars
    <3>2. ASSUME NEW m \in chainCount..lastSeen
          PROVE  \E u \in Txs \ released : nonce'[u] = m
      <4>1. PICK u \in Txs \ released : nonce[u] = m
        BY DEF HeldInv
      <4>2. u # t
        BY <3>1, <4>1 DEF HeldInv, TypeInv, TypeOK, NoNonce
      <4>3. nonce'[u] = m
        BY <3>1, <4>1, <4>2 DEF HeldInv, TypeInv, TypeOK
      <4> QED BY <4>1, <4>3
    <3> QED BY <3>1, <3>2 DEF HeldInv
  <2>6. ASSUME Restart PROVE Rest' /\ Held'
    BY <2>6 DEF Restart, nodeVars, HeldInv, TypeInv, TypeOK, Unseen
  <2>7. ASSUME NEW t \in Txs, AnswerCount(t) PROVE Rest' /\ Held'
    BY <2>7 DEF AnswerCount, nodeVars, HeldInv, TypeInv, TypeOK
  <2>8. ASSUME NEW t \in Txs,
               \/ RequestSignature(t) \/ CountError(t)
               \/ SignSucceeds(t) \/ Broadcast(t) \/ SendResolves(t)
               \/ SaveSendError(t) \/ Confirm(t) \/ AnswerMissing(t)
        PROVE  Rest' /\ Held'
    BY <2>8
       DEF RequestSignature, CountError, SignSucceeds, Broadcast,
           SendResolves, SaveSendError, Confirm, AnswerMissing, nodeVars,
           HeldInv
  <2>9. ASSUME \/ \E t \in Txs : AcceptTx(t) \/ Evict(t)
               \/ \E n \in chainCount..MaxNonce : ExternalSend(n)
               \/ UNCHANGED vars
        PROVE  Rest' /\ Held'
    BY <2>9 DEF AcceptTx, Evict, ExternalSend, Announced, vars, walletVars,
                nodeVars, HeldInv
  <2>10. ASSUME Mine PROVE Rest' /\ Held'
    BY <2>10, HeldStutter, NonceAssumption
       DEF Mine, walletVars, HeldInv, TypeInv, TypeOK
  <2> QED
    BY <2>1, <2>2, <2>3, <2>4, <2>5, <2>6, <2>7, <2>8, <2>9, <2>10
       DEF Next, WalletStep
<1> QED BY <1>1, <1>2 DEF HeldInv

\* Without pending-transaction events, and once the account has a confirmed
\* transaction, every nonce from the chain's next one to the last one handed
\* out is held by a request that did not give it back, through any
\* interleaving of refused signatures, failed broadcasts, dropped
\* transactions and restarts.
THEOREM NoneAbandoned ==
    ASSUME HasMempool, ~PendingFeed, InitialCount >= 1
    PROVE  Spec => []NoAbandonedNonce
<1>1. HeldInv /\ [Next]_vars => HeldInv'
  BY HeldNext
<1>2. HeldInv => NoAbandonedNonce
  BY DEF HeldInv, NoAbandonedNonce, InUse
<1> QED BY HeldInit, <1>1, <1>2, PTL DEF Spec
=============================================================================
