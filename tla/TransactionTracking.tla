------------------------- MODULE TransactionTracking -------------------------
(***************************************************************************)
(* How ChainService follows transactions until they have a status: the     *)
(* retrieval queue with its timer, lookups at the node                     *)
(* (retrieveTransaction, getOrCancelTransaction), confirmation listeners,  *)
(* the pending-transaction feed, asset transfers, and the saves that merge *)
(* all their results into the database (saveTransaction).                  *)
(*                                                                         *)
(* A save reads the record, awaits, and writes the merged record.  The     *)
(* database serves requests in the order they are made, so saves are a     *)
(* queue whose reads and whose writes happen in order, but two saves may   *)
(* both read before either writes.  A database access is taken to be       *)
(* shorter than the two seconds between ticks of the timer.                *)
(***************************************************************************)
EXTENDS RetrievalQueue, FiniteSets

CONSTANTS
    Sent,          \* transactions the wallet broadcasts
    Seen,          \* other transactions of the account
    Slots,         \* bound: lookups under way together
    PendingFeed,   \* the provider delivers pending-transaction events
    MaxFailures,   \* bound: requests that fail
    MaxRestarts    \* bound: restarts of the extension

ASSUME TrackingAssumption ==
    /\ Sent \cap Seen = {}
    /\ IsFiniteSet(Sent \cup Seen)
    /\ "end" \notin Slots /\ "watch" \notin Slots
    /\ PendingFeed \in BOOLEAN
    /\ MaxFailures \in Nat /\ MaxRestarts \in Nat

Hashes  == Sent \cup Seen
Network == "evm"

VARIABLES
    node,        \* what the node holds
    sending,     \* broadcastSignedTransaction's request, per transaction
    record,      \* the transaction's record in ChainDatabase
    saves,       \* saveTransaction calls under way, oldest first
    queue,       \* transactionsToRetrieve
    timer,       \* transactionToRetrieveGranularTimer is set
    lookup,      \* lookups under way
    listeners,   \* hashes with a confirmation listener at the provider
    announced,   \* hashes whose pending event was handled
    booting,     \* started, stored pending transactions not queued yet
    failures, restarts

local == <<saves, queue, timer, lookup, listeners, announced, booting>>
vars  == <<node, sending, record, local, failures, restarts>>

\* Status of a record.  "open" has no status; status 1 or 0 from a receipt is
\* "confirmed"; the others are a status 0 the wallet gave, by reason.
Final    == {"confirmed", "sendFailed", "dropped", "expired"}
Statuses == {"absent", "open"} \cup Final
Record   == [status : Statuses, block : BOOLEAN]
Absent   == [status |-> "absent", block |-> FALSE]

Unread   == [status |-> "unread", block |-> FALSE]
Save     == [hash : Hashes, status : Statuses \ {"absent"}, block : BOOLEAN,
             base : Record \cup {Unread}, next : {"end", "watch"} \cup Slots]

Entries  == [network : {Network}, hash : Hashes, old : BOOLEAN, priority : {0, 1}]

Idle     == [stage |-> "idle"]
Stages   == {"asked", "null", "pending", "mined", "cancel",
             "savingPending", "savingMined", "block", "receipt", "expire"}
Lookup   == {Idle} \cup [stage : Stages, hash : Hashes, old : BOOLEAN]

TypeOK ==
    /\ node \in [Hashes -> {"unknown", "pool", "mined", "gone"}]
    /\ sending \in [Sent -> {"ready", "inFlight", "answered", "rejected"}]
    /\ record \in [Hashes -> Record]
    /\ saves \in Seq(Save)
    /\ queue \in Seq(Entries)
    /\ timer \in BOOLEAN
    /\ lookup \in [Slots -> Lookup]
    /\ listeners \subseteq Hashes
    /\ announced \subseteq Hashes
    /\ booting \in BOOLEAN
    /\ failures \in 0..MaxFailures
    /\ restarts \in 0..MaxRestarts

Init ==
    /\ node \in [Hashes -> {"unknown", "pool", "mined"}]
    /\ \A h \in Hashes : node[h] = "unknown" <=> h \in Sent
    /\ sending = [h \in Sent |-> "ready"]
    /\ record = [h \in Hashes |-> Absent]
    /\ saves = <<>>
    /\ queue = <<>>
    /\ timer = FALSE
    /\ lookup = [s \in Slots |-> Idle]
    /\ listeners = {}
    /\ announced = {}
    /\ booting = FALSE
    /\ failures = 0
    /\ restarts = 0

-----------------------------------------------------------------------------
(* Saving.                                                                 *)

NewSave(h, status, block, next) ==
    [hash |-> h, status |-> status, block |-> block, base |-> Unread, next |-> next]

Saving(h, status, block, next) ==
    saves' = Append(saves, NewSave(h, status, block, next))

\* Fresh entries carry the present time as firstSeen.
FreshEntry(h) == Entry(Network, h, FALSE, 0)

\* Mutant of Subscribe: a listener alone.
SubscribeOnly(h) ==
    /\ listeners' = listeners \cup {h}
    /\ UNCHANGED queue

\* subscribeToTransactionConfirmation: a listener, and a lookup in case the
\* confirmation never arrives.
Subscribe(h) ==
    /\ listeners' = listeners \cup {h}
    /\ queue' = Enqueue(queue, FreshEntry(h))

\* The oldest unread save reads the record it will merge into.
ReadExisting ==
    \E i \in DOMAIN saves :
        /\ saves[i].base = Unread
        /\ \A j \in 1..(i - 1) : saves[j].base # Unread
        /\ saves' = [saves EXCEPT ![i].base = record[saves[i].hash]]
        /\ UNCHANGED <<node, sending, record, queue, timer, lookup, listeners,
                       announced, booting, failures, restarts>>

\* Fields of the new data win; a status the new data lacks is taken from the
\* record that was read.  blockHash is always among the new data, even as null.
Merge(base, s) ==
    [status |-> IF s.status = "open" /\ base.status # "absent"
                THEN base.status ELSE s.status,
     block  |-> s.block]

\* The merged record is written and the code behind the await goes on: a
\* pending transaction is subscribed to, a mined one's block is asked for.
PutRecord ==
    /\ saves # <<>>
    /\ LET s == Head(saves)
       IN  /\ s.base # Unread
           /\ record' = [record EXCEPT ![s.hash] = Merge(s.base, s)]
           /\ \/ /\ s.next = "end"
                 /\ UNCHANGED <<lookup, listeners, queue>>
              \/ /\ s.next = "watch"
                 /\ Subscribe(s.hash)
                 /\ UNCHANGED lookup
              \/ /\ s.next \in Slots
                 /\ \/ /\ lookup[s.next].stage = "savingPending"
                       /\ lookup' = [lookup EXCEPT ![s.next] = Idle]
                       /\ Subscribe(s.hash)
                    \/ /\ lookup[s.next].stage = "savingMined"
                       /\ lookup' = [lookup EXCEPT ![s.next].stage = "block"]
                       /\ UNCHANGED <<listeners, queue>>
    /\ saves' = Tail(saves)
    /\ UNCHANGED <<node, sending, timer, announced, booting, failures, restarts>>

-----------------------------------------------------------------------------
(* Broadcasting.                                                           *)

\* In one turn the request is sent, the confirmation subscribed to, and the
\* local save started.
Broadcast(h) ==
    /\ sending[h] = "ready"
    /\ sending' = [sending EXCEPT ![h] = "inFlight"]
    /\ Subscribe(h)
    /\ Saving(h, "open", FALSE, "end")
    /\ UNCHANGED <<node, record, timer, lookup, announced, booting, failures,
                   restarts>>

SendAnswered(h) ==
    /\ sending[h] = "inFlight"
    /\ node[h] # "unknown"
    /\ sending' = [sending EXCEPT ![h] = "answered"]
    /\ UNCHANGED <<node, record, local, failures, restarts>>

\* The node refuses the transaction, or its answer is lost: the failed status
\* is saved.
SendRejected(h) ==
    /\ sending[h] = "inFlight"
    /\ failures < MaxFailures
    /\ failures' = failures + 1
    /\ sending' = [sending EXCEPT ![h] = "rejected"]
    /\ Saving(h, "sendFailed", FALSE, "end")
    /\ UNCHANGED <<node, record, queue, timer, lookup, listeners, announced,
                   booting, restarts>>

-----------------------------------------------------------------------------
(* The timer and the lookups.                                              *)

\* handleQueuedTransactionAlarm, once a minute
Alarm ==
    /\ ~timer
    /\ queue # <<>>
    /\ timer' = TRUE
    /\ UNCHANGED <<node, sending, record, saves, queue, lookup, listeners,
                   announced, booting, failures, restarts>>

\* Every two seconds: an empty queue stops the timer, ...
StopTimer ==
    /\ timer
    /\ queue = <<>>
    /\ timer' = FALSE
    /\ UNCHANGED <<node, sending, record, saves, queue, lookup, listeners,
                   announced, booting, failures, restarts>>

\* ... otherwise the first hash is removed from the queue and looked up.
Tick(s) ==
    /\ timer
    /\ queue # <<>>
    /\ lookup[s] = Idle
    /\ LET e == Head(queue)
       IN  /\ \A i \in DOMAIN saves : saves[i].hash # e.hash
           /\ queue' = Dequeue(queue, e.network, e.hash)
           /\ lookup' = [lookup EXCEPT ![s] =
                 [stage |-> "asked", hash |-> e.hash, old |-> e.old]]
    /\ UNCHANGED <<node, sending, record, saves, timer, listeners, announced,
                   booting, failures, restarts>>

At(s, stage) == lookup[s] # Idle /\ lookup[s].stage = stage

\* The node's answer to eth_getTransactionByHash; it then travels back.
Found(h) == CASE node[h] = "pool"  -> "pending"
              [] node[h] = "mined" -> "mined"
              [] OTHER             -> "null"

AnswerLookup(s) ==
    /\ At(s, "asked")
    /\ lookup' = [lookup EXCEPT ![s].stage = Found(lookup[s].hash)]
    /\ UNCHANGED <<node, sending, record, saves, queue, timer, listeners,
                   announced, booting, failures, restarts>>

\* getOrCancelTransaction without a result: the hash leaves the queue and the
\* provider's listeners for it are removed; then the record is read.
HandleNull(s) ==
    /\ At(s, "null")
    /\ queue' = Dequeue(queue, Network, lookup[s].hash)
    /\ listeners' = listeners \ {lookup[s].hash}
    /\ lookup' = [lookup EXCEPT ![s].stage = "cancel"]
    /\ UNCHANGED <<node, sending, record, saves, timer, announced, booting,
                   failures, restarts>>

\* Mutant of CancelLookup: nothing is marked.
ForgetLookup(s) ==
    /\ At(s, "cancel")
    /\ UNCHANGED saves
    /\ lookup' = [lookup EXCEPT ![s] = Idle]
    /\ UNCHANGED <<node, sending, record, queue, timer, listeners, announced,
                   booting, failures, restarts>>

\* A record without a status is marked as dropped.
CancelLookup(s) ==
    /\ At(s, "cancel")
    /\ LET h == lookup[s].hash
       IN  IF record[h].status = "open"
           THEN Saving(h, "dropped", FALSE, "end")
           ELSE UNCHANGED saves
    /\ lookup' = [lookup EXCEPT ![s] = Idle]
    /\ UNCHANGED <<node, sending, record, queue, timer, listeners, announced,
                   booting, failures, restarts>>

HandleFound(s) ==
    /\ \/ /\ At(s, "pending")
          /\ Saving(lookup[s].hash, "open", FALSE, s)
          /\ lookup' = [lookup EXCEPT ![s].stage = "savingPending"]
       \/ /\ At(s, "mined")
          /\ Saving(lookup[s].hash, "open", TRUE, s)
          /\ lookup' = [lookup EXCEPT ![s].stage = "savingMined"]
    /\ UNCHANGED <<node, sending, record, queue, timer, listeners, announced,
                   booting, failures, restarts>>

\* getBlockData; the receipt is then asked for, without awaiting it.
AnswerBlock(s) ==
    /\ At(s, "block")
    /\ lookup' = [lookup EXCEPT ![s].stage = "receipt"]
    /\ UNCHANGED <<node, sending, record, saves, queue, timer, listeners,
                   announced, booting, failures, restarts>>

\* retrieveTransactionReceipt; its failure is nobody's to handle.
AnswerReceipt(s) ==
    /\ At(s, "receipt")
    /\ lookup' = [lookup EXCEPT ![s] = Idle]
    /\ \/ /\ Saving(lookup[s].hash, "confirmed", TRUE, "end")
          /\ UNCHANGED failures
       \/ /\ failures < MaxFailures
          /\ failures' = failures + 1
          /\ UNCHANGED saves
    /\ UNCHANGED <<node, sending, record, queue, timer, listeners, announced,
                   booting, restarts>>

\* Mutant of FailLookup: a failed lookup is not queued again.
FailLookupForGood(s) ==
    /\ At(s, "asked") \/ At(s, "block")
    /\ failures < MaxFailures
    /\ failures' = failures + 1
    /\ lookup' = [lookup EXCEPT ![s] = Idle]
    /\ UNCHANGED queue
    /\ UNCHANGED <<node, sending, record, saves, timer, listeners, announced,
                   booting, restarts>>

\* The lookup, or the block's, fails: the hash is queued again with its
\* firstSeen, or, past its lifetime, its record is read to expire it.
FailLookup(s) ==
    /\ At(s, "asked") \/ At(s, "block")
    /\ failures < MaxFailures
    /\ failures' = failures + 1
    /\ IF lookup[s].old
       THEN /\ lookup' = [lookup EXCEPT ![s].stage = "expire"]
            /\ UNCHANGED queue
       ELSE /\ lookup' = [lookup EXCEPT ![s] = Idle]
            /\ queue' = Enqueue(queue, FreshEntry(lookup[s].hash))
    /\ UNCHANGED <<node, sending, record, saves, timer, listeners, announced,
                   booting, restarts>>

\* An existing record is saved again with status 0, unless it has a status.
ExpireLookup(s) ==
    /\ At(s, "expire")
    /\ LET h == lookup[s].hash
           r == record[h]
       IN  IF r.status = "absent" THEN UNCHANGED saves
           ELSE Saving(h, IF r.status = "open" THEN "expired" ELSE r.status,
                       r.block, "end")
    /\ lookup' = [lookup EXCEPT ![s] = Idle]
    /\ UNCHANGED <<node, sending, record, queue, timer, listeners, announced,
                   booting, failures, restarts>>

\* TRANSACTION_CHECK_LIFETIME_MS pass.
GrowOld ==
    /\ queue' = [i \in DOMAIN queue |-> [queue[i] EXCEPT !.old = TRUE]]
    /\ lookup' = [s \in Slots |->
                    IF lookup[s] = Idle THEN Idle
                    ELSE [lookup[s] EXCEPT !.old = TRUE]]
    /\ UNCHANGED <<node, sending, record, saves, timer, listeners, announced,
                   booting, failures, restarts>>

-----------------------------------------------------------------------------
(* What the provider and the asset data bring.                             *)

\* A confirmation listener fires, once: the enriched transaction is saved and
\* its hash leaves the queue.
ReceiptEvent(h) ==
    /\ h \in listeners
    /\ node[h] = "mined"
    /\ listeners' = listeners \ {h}
    /\ Saving(h, "confirmed", TRUE, "end")
    /\ queue' = Dequeue(queue, Network, h)
    /\ UNCHANGED <<node, sending, record, timer, lookup, announced, booting,
                   failures, restarts>>

\* handlePendingTransaction: saved, then subscribed to.  The event may arrive
\* when the transaction is no longer pending.
PendingEvent(h) ==
    /\ PendingFeed
    /\ node[h] # "unknown"
    /\ h \notin announced
    /\ announced' = announced \cup {h}
    /\ Saving(h, "open", FALSE, "watch")
    /\ UNCHANGED <<node, sending, record, queue, timer, lookup, listeners,
                   booting, failures, restarts>>

\* loadAssetTransfers queues the mined transactions that have no record, at
\* either priority.
LoadTransfers ==
    \E p \in {0, 1} :
        LET unsaved == {h \in Hashes : node[h] = "mined" /\ record[h].status = "absent"}
        IN  /\ unsaved # {}
            /\ queue' = EnqueueAll(queue, Network, unsaved, [h \in Hashes |-> FALSE], p)
            /\ queue' # queue
            /\ UNCHANGED <<node, sending, record, saves, timer, lookup,
                           listeners, announced, booting, failures, restarts>>

\* The extension restarts: all but the database is gone.
Restart ==
    /\ restarts < MaxRestarts
    /\ restarts' = restarts + 1
    /\ saves' = <<>>
    /\ queue' = <<>>
    /\ timer' = FALSE
    /\ lookup' = [s \in Slots |-> Idle]
    /\ listeners' = {}
    /\ announced' = {}
    /\ booting' = TRUE
    /\ UNCHANGED <<node, sending, record, failures>>

\* getNetworkPendingTransactions
StoredPending == {h \in Hashes : record[h] = [status |-> "open", block |-> FALSE]}

\* Start-up queues the stored pending transactions, with their own firstSeen.
QueueStored ==
    /\ booting
    /\ booting' = FALSE
    /\ \E old \in [StoredPending -> BOOLEAN] :
           queue' = EnqueueAll(queue, Network, StoredPending, old, 0)
    /\ UNCHANGED <<node, sending, record, saves, timer, lookup, listeners,
                   announced, failures, restarts>>

-----------------------------------------------------------------------------
(* The node.                                                               *)

Move(h, from, to) ==
    /\ node[h] = from
    /\ node' = [node EXCEPT ![h] = to]
    /\ UNCHANGED <<sending, record, local, failures, restarts>>

Accept(h) == sending[h] = "inFlight" /\ Move(h, "unknown", "pool")
Mine(h)   == Move(h, "pool", "mined")
Evict(h)  == Move(h, "pool", "gone")

-----------------------------------------------------------------------------

SlotStep(s) ==
    \/ AnswerLookup(s) \/ HandleNull(s) \/ CancelLookup(s) \/ HandleFound(s)
    \/ AnswerBlock(s) \/ AnswerReceipt(s) \/ ExpireLookup(s)

Timing == Alarm \/ StopTimer \/ \E s \in Slots : Tick(s)

Next ==
    \/ \E h \in Sent : Broadcast(h) \/ SendAnswered(h) \/ SendRejected(h) \/ Accept(h)
    \/ ReadExisting \/ PutRecord
    \/ Timing
    \/ \E s \in Slots : SlotStep(s) \/ FailLookup(s)
    \/ \E h \in Hashes : ReceiptEvent(h) \/ PendingEvent(h) \/ Mine(h) \/ Evict(h)
    \/ LoadTransfers
    \/ GrowOld
    \/ Restart \/ QueueStored

\* Alarms, ticks, database accesses and answers come; the provider polls for
\* receipts; a block takes or the mempool evicts every transaction.
Fairness ==
    /\ WF_vars(ReadExisting) /\ WF_vars(PutRecord)
    /\ WF_vars(Timing)
    /\ \A s \in Slots : WF_vars(SlotStep(s))
    /\ \A h \in Hashes : WF_vars(ReceiptEvent(h)) /\ WF_vars(Mine(h) \/ Evict(h))
    /\ \A h \in Sent : WF_vars(Accept(h) \/ SendRejected(h)) /\ WF_vars(SendAnswered(h))
    /\ WF_vars(QueueStored)

Spec     == Init /\ [][Next]_vars
FairSpec == Spec /\ Fairness

-----------------------------------------------------------------------------
(* Properties.                                                             *)

\* The queue holds a hash once, and entries of higher priority first
\* (queueTransactionHashToRetrieve).
QueueOrdered ==
    \A i, j \in DOMAIN queue : i < j =>
        /\ queue[i].hash # queue[j].hash
        /\ queue[i].priority >= queue[j].priority

\* Something will still look at the transaction or settle it.
Followed(h) ==
    \/ Queued(queue, Network, h)
    \/ \E s \in Slots : lookup[s] # Idle /\ lookup[s].hash = h
    \/ \E i \in DOMAIN saves : saves[i].hash = h /\
          (saves[i].status \in Final \/ saves[i].next # "end")
    \/ booting

\* A transaction stored as pending is never left to itself, whatever the order
\* of listeners, answers, failures, expiry, overlapping saves and restarts:
\* retrieveTransaction re-queues, subscribes to, or settles it.
PendingFollowed == \A h \in StoredPending : Followed(h)

\* A stored pending transaction gets a status or is seen in a block, even if
\* requests fail and the extension restarts: "Schedule any stored unconfirmed
\* transactions for retrieval" (start-up, retrieveTransaction).
PendingResolved ==
    \A h \in Hashes : h \in StoredPending ~> h \notin StoredPending

\* Without failures and restarts every broadcast transaction ends with a
\* status, in spite of saves that overwrite one another.
SentSettles ==
    [](failures = 0 /\ restarts = 0) =>
        \A h \in Sent : sending[h] # "ready" ~> [](record[h].status \in Final)
=============================================================================
