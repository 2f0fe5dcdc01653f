--------------------------- MODULE NonceAllocation ---------------------------
(***************************************************************************)
(* How the wallet hands out, and takes back, the nonces of one account on  *)
(* one chain: ChainService.populateEVMTransactionNonce and                 *)
(* releaseEVMTransactionNonce, and everything that calls them -- signing   *)
(* (SigningService.signTransaction), broadcasting                          *)
(* (broadcastSignedTransaction), the pending-transaction feed              *)
(* (handlePendingTransaction) and the lookup that gives a transaction up   *)
(* (getOrCancelTransaction).  The bookkeeping is one number in memory,     *)
(* `lastSeen`; the node's view is its confirmed count and its mempool.     *)
(* Every `await` of the code separates two actions here.                   *)
(***************************************************************************)
EXTENDS Integers

CONSTANTS
    Txs,              \* transaction requests the account may make
    InitialCount,     \* confirmed transactions when the extension starts
    HasMempool,       \* the chain is in CHAINS_WITH_MEMPOOL
    PendingFeed,      \* the provider delivers pending-transaction events
    RequestNonces,    \* nonces a dApp may put in its own request
    MaxNonce,         \* bound: highest nonce another wallet of the account uses
    MaxRestarts       \* bound: how often the extension restarts

Unseen  == -2         \* lastSeen: the map has no entry for the address
NoNonce == -3         \* nonce: the request's nonce is still undefined

ASSUME NonceAssumption ==
    /\ InitialCount \in Nat
    /\ HasMempool \in BOOLEAN
    /\ PendingFeed \in BOOLEAN
    /\ RequestNonces \subseteq Nat
    /\ MaxNonce \in Nat
    /\ MaxRestarts \in Nat

Phases == {"new",        \* not requested yet
           "counting",   \* eth_getTransactionCount on its way to the node
           "answered",   \* the count is on its way back
           "signing",    \* nonce fixed, the signer is working
           "signed",     \* signed, not broadcast
           "sending",    \* eth_sendRawTransaction in flight
           "sent",       \* the node answered with the hash
           "rejected",   \* signing failed
           "sendError",  \* broadcast failed, its status is not saved yet
           "failed",     \* broadcast failed, status 0 saved
           "lost"}       \* given up (no count, or a restart) before it was broadcast

VARIABLES
    lastSeen,   \* evmChainLastSeenNoncesByNormalizedAddress[chain][address]
    phase,      \* where each request is in the wallet
    nonce,      \* its nonce
    count,      \* the transaction count on its way back from the node, else 0
    auto,       \* the requests whose nonce the service allocated
    status,     \* its record in ChainDatabase: absent, no status, status 1 / 0
    missing,    \* lookups the node has answered with null
    node,       \* what the node holds
    external,   \* nonces of mempool transactions sent from another wallet
    chainCount, \* confirmed transactions of the account
    events,     \* nonces of pending-transaction events on their way
    released,   \* history: requests whose nonce was released
    earlier,    \* history: requests made before the last restart
    restarts

walletVars == <<lastSeen, phase, nonce, count, auto, status, missing>>
nodeVars   == <<node, external, chainCount>>
vars == <<walletVars, nodeVars, events, released, earlier, restarts>>

Max2(a, b) == IF a > b THEN a ELSE b

TypeOK ==
    /\ lastSeen \in {Unseen, -1} \cup Nat
    /\ phase \in [Txs -> Phases]
    /\ nonce \in [Txs -> {NoNonce} \cup Nat]
    /\ count \in [Txs -> Nat]
    /\ auto \subseteq Txs
    /\ status \in [Txs -> {"absent", "open", "confirmed", "failed"}]
    /\ missing \subseteq Txs
    /\ node \in [Txs -> {"unknown", "pool", "mined", "gone"}]
    /\ external \subseteq Nat
    /\ chainCount \in Nat
    /\ events \subseteq Nat
    /\ released \subseteq Txs
    /\ earlier \subseteq Txs
    /\ restarts \in Nat

Init ==
    /\ lastSeen = Unseen
    /\ phase = [t \in Txs |-> "new"]
    /\ nonce = [t \in Txs |-> NoNonce]
    /\ count = [t \in Txs |-> 0]
    /\ auto = {}
    /\ status = [t \in Txs |-> "absent"]
    /\ missing = {}
    /\ node = [t \in Txs |-> "unknown"]
    /\ external = {}
    /\ chainCount = InitialCount
    /\ events = {}
    /\ released = {}
    /\ earlier = {}
    /\ restarts = 0

-----------------------------------------------------------------------------
(* Signing: SigningService.signTransaction around the allocation.          *)

\* A request without a nonce asks the node for the account's count.
RequestSignature(t) ==
    /\ phase[t] = "new"
    /\ phase' = [phase EXCEPT ![t] = "counting"]
    /\ UNCHANGED <<lastSeen, nonce, count, auto, status, missing, nodeVars,
                   events, released, earlier, restarts>>

\* A request that brings its own nonce keeps it: nothing is allocated.
RequestWithNonce(t, n) ==
    /\ phase[t] = "new"
    /\ phase' = [phase EXCEPT ![t] = "signing"]
    /\ nonce' = [nonce EXCEPT ![t] = n]
    /\ UNCHANGED <<lastSeen, count, auto, status, missing, nodeVars,
                   events, released, earlier, restarts>>

\* The node reads its count of confirmed ("latest") transactions.
AnswerCount(t) ==
    /\ phase[t] = "counting"
    /\ phase' = [phase EXCEPT ![t] = "answered"]
    /\ count' = [count EXCEPT ![t] = chainCount]
    /\ UNCHANGED <<lastSeen, nonce, auto, status, missing, nodeVars,
                   events, released, earlier, restarts>>

\* Mutant of CountError: the allocation inside SigningService's try block.
CountErrorReleases(t) ==
    /\ phase[t] = "counting"
    /\ phase' = [phase EXCEPT ![t] = "lost"]
    /\ lastSeen' = IF nonce[t] <= lastSeen THEN nonce[t] - 1 ELSE lastSeen
    /\ UNCHANGED <<nonce, count, auto, status, missing, nodeVars,
                   events, released, earlier, restarts>>

\* The node cannot be reached: populateEVMTransactionNonce throws before it
\* has touched the bookkeeping.
CountError(t) ==
    /\ phase[t] = "counting"
    /\ phase' = [phase EXCEPT ![t] = "lost"]
    /\ UNCHANGED <<lastSeen, nonce, count, auto, status, missing, nodeVars,
                   events, released, earlier, restarts>>

\* The nonce that follows both the last one seen and the count the node gave.
NextNonce(c) ==
    IF lastSeen = Unseen THEN c ELSE Max2(lastSeen, c - 1) + 1

PopulateNonce(t) ==
    /\ phase[t] = "answered"
    /\ phase' = [phase EXCEPT ![t] = "signing"]
    /\ auto' = auto \cup {t}
    /\ IF HasMempool
       THEN /\ lastSeen' = NextNonce(count[t])
            /\ nonce' = [nonce EXCEPT ![t] = NextNonce(count[t])]
       ELSE /\ nonce' = [nonce EXCEPT ![t] = count[t]]
            /\ UNCHANGED lastSeen
    /\ count' = [count EXCEPT ![t] = 0]
    /\ UNCHANGED <<status, missing, nodeVars,
                   events, released, earlier, restarts>>

SignSucceeds(t) ==
    /\ phase[t] = "signing"
    /\ phase' = [phase EXCEPT ![t] = "signed"]
    /\ UNCHANGED <<lastSeen, nonce, count, auto, status, missing, nodeVars,
                   events, released, earlier, restarts>>

-----------------------------------------------------------------------------
(* Releasing.  The early return of releaseEVMTransactionNonce tests the    *)
(* stored number for truth, so a stored 0 is treated like a missing entry. *)

Tracked == lastSeen \notin {Unseen, 0}

\* Mutant of LastSeenAfterRelease: only the latest nonce can be released.
OnlyLatestReleased(n) ==
    IF HasMempool /\ Tracked /\ n = lastSeen THEN n - 1 ELSE lastSeen

LastSeenAfterRelease(n) ==
    IF HasMempool /\ Tracked /\ n <= lastSeen THEN n - 1 ELSE lastSeen

Release(t) ==
    /\ lastSeen' = LastSeenAfterRelease(nonce[t])
    /\ released' = released \cup {t}

\* The signer refuses or fails: the error is reported and the nonce released.
SignFails(t) ==
    /\ phase[t] = "signing"
    /\ phase' = [phase EXCEPT ![t] = "rejected"]
    /\ Release(t)
    /\ UNCHANGED <<nonce, count, auto, status, missing, nodeVars, events,
                   earlier, restarts>>

-----------------------------------------------------------------------------
(* Broadcasting.  The transaction is saved without a status and its hash   *)
(* queued for lookup in the same turn that sends it.                       *)

\* A local save of a known transaction merges into the record and keeps the
\* status the record has.
SavedOpen(s) == IF s = "absent" THEN "open" ELSE s

Broadcast(t) ==
    /\ phase[t] = "signed"
    /\ phase' = [phase EXCEPT ![t] = "sending"]
    /\ status' = [status EXCEPT ![t] = SavedOpen(status[t])]
    /\ UNCHANGED <<lastSeen, nonce, count, auto, missing, nodeVars, events,
                   released, earlier, restarts>>

\* The transaction cannot be serialized, or its chain has no provider: nothing
\* is sent or saved, and the nonce is released.
BroadcastThrows(t) ==
    /\ phase[t] = "signed"
    /\ phase' = [phase EXCEPT ![t] = "failed"]
    /\ Release(t)
    /\ UNCHANGED <<nonce, count, auto, status, missing, nodeVars, events,
                   earlier, restarts>>

\* sendTransaction resolves: "transactionSend" is emitted.
SendResolves(t) ==
    /\ phase[t] = "sending"
    /\ node[t] # "unknown"
    /\ phase' = [phase EXCEPT ![t] = "sent"]
    /\ UNCHANGED <<lastSeen, nonce, count, auto, status, missing, nodeVars,
                   events, released, earlier, restarts>>

\* sendTransaction rejects: the node refused the transaction, could not be
\* reached, or took it and its answer was lost.  The nonce is released before
\* the failed status is saved.
SendFails(t) ==
    /\ phase[t] = "sending"
    /\ phase' = [phase EXCEPT ![t] = "sendError"]
    /\ Release(t)
    /\ UNCHANGED <<nonce, count, auto, status, missing, nodeVars, events,
                   earlier, restarts>>

SaveSendError(t) ==
    /\ phase[t] = "sendError"
    /\ phase' = [phase EXCEPT ![t] = "failed"]
    /\ status' = [status EXCEPT ![t] = "failed"]
    /\ UNCHANGED <<lastSeen, nonce, count, auto, missing, nodeVars, events,
                   released, earlier, restarts>>

-----------------------------------------------------------------------------
(* What the service hears of its transactions.                             *)

\* The receipt listener saves the receipt's status.
Confirm(t) ==
    /\ node[t] = "mined"
    /\ status[t] = "open"
    /\ status' = [status EXCEPT ![t] = "confirmed"]
    /\ UNCHANGED <<lastSeen, phase, nonce, count, auto, missing, nodeVars,
                   events, released, earlier, restarts>>

\* A queued lookup is answered with null: the node does not hold the hash.
AnswerMissing(t) ==
    /\ status[t] # "absent"
    /\ node[t] \in {"unknown", "gone"}
    /\ t \notin missing
    /\ missing' = missing \cup {t}
    /\ UNCHANGED <<lastSeen, phase, nonce, count, auto, status, nodeVars,
                   events, released, earlier, restarts>>

\* The null answer is handled: a record that still has no status is marked as
\* dropped and its nonce released; any other record is left alone.
CancelMissing(t) ==
    /\ t \in missing
    /\ missing' = missing \ {t}
    /\ \/ /\ status[t] = "open"
          /\ status' = [status EXCEPT ![t] = "failed"]
          /\ Release(t)
       \/ /\ status[t] # "open"
          /\ UNCHANGED <<lastSeen, status, released>>
    /\ UNCHANGED <<phase, nonce, count, auto, nodeVars, events, earlier,
                   restarts>>

\* Mutant of HandlePending: the event's nonce is stored whatever it is.
HandlePendingAlways(n) ==
    /\ n \in events
    /\ events' = events \ {n}
    /\ lastSeen' = IF lastSeen # Unseen THEN n ELSE lastSeen
    /\ UNCHANGED <<phase, nonce, count, auto, status, missing, nodeVars,
                   released, earlier, restarts>>

\* A pending transaction of the account is announced, its own or another
\* wallet's: a nonce at or above the last one seen becomes the last one seen.
HandlePending(n) ==
    /\ n \in events
    /\ events' = events \ {n}
    /\ lastSeen' = IF lastSeen # Unseen /\ lastSeen <= n THEN n ELSE lastSeen
    /\ UNCHANGED <<phase, nonce, count, auto, status, missing, nodeVars,
                   released, earlier, restarts>>

\* The extension restarts: the bookkeeping, the requests under way and the
\* subscriptions are gone; the records of broadcast transactions stay.
Unbroadcast == {"counting", "answered", "signing", "signed"}

AfterRestart(p) == IF p \in Unbroadcast THEN "lost"
                   ELSE IF p = "sending" THEN "sent" ELSE p

Restart ==
    /\ restarts < MaxRestarts
    /\ restarts' = restarts + 1
    /\ lastSeen' = Unseen
    /\ phase' = [t \in Txs |-> AfterRestart(phase[t])]
    /\ missing' = {}
    /\ events' = {}
    /\ earlier' = {t \in Txs : phase[t] # "new"}
    /\ count' = [t \in Txs |-> 0]
    /\ UNCHANGED <<nonce, auto, status, nodeVars, released>>

-----------------------------------------------------------------------------
(* The node and the account's other wallet.                                *)

Announced(n) == IF PendingFeed THEN events \cup {n} ELSE events

Pooled == {t \in Txs : node[t] = "pool"}

\* The node takes a transaction whose nonce is not used up; it replaces one
\* with the same nonce.
AcceptTx(t) ==
    /\ phase[t] = "sending"
    /\ node[t] = "unknown"
    /\ nonce[t] >= chainCount
    /\ node' = [u \in Txs |->
                  IF u = t THEN "pool"
                  ELSE IF u \in Pooled /\ nonce[u] = nonce[t] THEN "gone"
                  ELSE node[u]]
    /\ external' = external \ {nonce[t]}
    /\ events' = Announced(nonce[t])
    /\ UNCHANGED <<chainCount, walletVars, released, earlier, restarts>>

\* The account's other wallet uses the first nonce the mempool has free.
ExternalSend(n) ==
    /\ n \in chainCount..MaxNonce
    /\ \A m \in chainCount..n :
         (m < n) <=> (m \in external \/ \E t \in Pooled : nonce[t] = m)
    /\ external' = external \cup {n}
    /\ events' = Announced(n)
    /\ UNCHANGED <<node, chainCount, walletVars, released, earlier, restarts>>

\* A block takes the mempool transaction with the account's next nonce.
Mine ==
    /\ chainCount \in external \/ \E t \in Pooled : nonce[t] = chainCount
    /\ node' = [t \in Txs |-> IF t \in Pooled /\ nonce[t] = chainCount
                              THEN "mined" ELSE node[t]]
    /\ external' = external \ {chainCount}
    /\ chainCount' = chainCount + 1
    /\ UNCHANGED <<walletVars, events, released, earlier, restarts>>

\* The mempool evicts a transaction.
Evict(t) ==
    /\ node[t] = "pool"
    /\ node' = [node EXCEPT ![t] = "gone"]
    /\ UNCHANGED <<external, chainCount, walletVars, events, released,
                   earlier, restarts>>

-----------------------------------------------------------------------------

WalletStep(t) ==
    \/ RequestSignature(t) \/ AnswerCount(t) \/ CountError(t)
    \/ PopulateNonce(t) \/ SignSucceeds(t) \/ SignFails(t)
    \/ Broadcast(t) \/ BroadcastThrows(t)
    \/ SendResolves(t) \/ SendFails(t) \/ SaveSendError(t)
    \/ Confirm(t) \/ AnswerMissing(t) \/ CancelMissing(t)

Next ==
    \/ \E t \in Txs : WalletStep(t)
    \/ \E t \in Txs, n \in RequestNonces : RequestWithNonce(t, n)
    \/ \E n \in events : HandlePending(n)
    \/ Restart
    \/ \E t \in Txs : AcceptTx(t) \/ Evict(t)
    \/ \E n \in chainCount..MaxNonce : ExternalSend(n)
    \/ Mine

Spec == Init /\ [][Next]_vars

-----------------------------------------------------------------------------
(* Properties.                                                             *)

\* Requests of this run of the extension whose nonce the service allocated.
Current == auto \ earlier

\* On a chain with a mempool the service gives the same nonce to two requests
\* only after it released that nonce or a lower one: the stored number, not the
\* node's lagging count, separates requests that are under way together
\* (populateEVMTransactionNonce, releaseEVMTransactionNonce).
ReuseNeedsRelease ==
    \A t, u \in Current :
        t # u /\ nonce[t] = nonce[u] =>
            \E f \in released : nonce[f] <= nonce[t]

\* Every nonce between the chain's next one and the last one handed out is
\* still in use -- by a request that has not given it back, or by a transaction
\* of the mempool -- so that what is allocated next can be mined: the purpose
\* releaseEVMTransactionNonce states for releasing the intervening nonces ("we
\* don't start allocating nonces that will never mine").
InUse(n) ==
    \/ n \in external
    \/ \E t \in Txs : nonce[t] = n /\ (t \notin released \/ node[t] = "pool")

NoAbandonedNonce == \A n \in chainCount..lastSeen : InUse(n)
=============================================================================
