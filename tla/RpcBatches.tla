------------------------------ MODULE RpcBatches ------------------------------
(***************************************************************************)
(* TahoRPCProvider: requests are collected for a moment and sent in        *)
(* batches, bounded in number and in bytes.  SerialFallbackProvider.       *)
(* routeRpcCall lowers the bound on their number when a node refuses a     *)
(* batch.  disconnect and reconnect are part of the class, although        *)
(* nothing in the repository calls them.                                   *)
(***************************************************************************)
EXTENDS Integers, Sequences, SequencesExt

CONSTANTS
    MaxId,        \* bound: requests are numbered 1..MaxId, as by _nextId
    Sizes,        \* bytes a request may take
    MaxBytes,     \* MAX_BATCH_BYTE_SIZE
    DefaultLength \* defaultOptions.maxBatchLength

Ids == 1..MaxId

VARIABLES
    pending,   \* requests not sent yet
    timer,     \* #sendTimer: null, a running timer, or one that was cleared
    destroyed, \* #destroyed
    limit,     \* #options.maxBatchLength
    size,      \* bytes of each request, 0 before it is made
    flying,    \* batches sent and not answered
    outcome,   \* what became of each request
    blame      \* #errorToBatch: length of the batch an error not yet looked at
               \* came from, 0 without one

vars == <<pending, timer, destroyed, limit, size, flying, outcome, blame>>

TypeOK ==
    /\ pending \in Seq(Ids)
    /\ timer \in {"null", "running", "cleared"}
    /\ destroyed \in BOOLEAN
    /\ limit \in 1..DefaultLength
    /\ size \in [Ids -> Sizes \cup {0}]
    /\ flying \subseteq Seq(Ids)
    /\ outcome \in [Ids -> {"none", "waiting", "resolved", "rejected"}]
    /\ blame \in [Ids -> 0..DefaultLength]

Init ==
    /\ pending = <<>>
    /\ timer = "null"
    /\ destroyed = FALSE
    /\ limit = DefaultLength
    /\ size = [r \in Ids |-> 0]
    /\ flying = {}
    /\ outcome = [r \in Ids |-> "none"]
    /\ blame = [r \in Ids |-> 0]

-----------------------------------------------------------------------------

\* The timer field after sendNextBatch: it starts one only where it is null.
Started(t) == IF t = "null" THEN "running" ELSE t

\* A destroyed provider rejects at once, and nothing changes.
Send(r) ==
    /\ outcome[r] = "none"
    /\ \A q \in 1..(r - 1) : outcome[q] # "none"
    /\ ~destroyed
    /\ \E s \in Sizes : size' = [size EXCEPT ![r] = s]
    /\ outcome' = [outcome EXCEPT ![r] = "waiting"]
    /\ pending' = Append(pending, r)
    /\ timer' = Started(timer)
    /\ UNCHANGED <<destroyed, limit, flying, blame>>

Bytes(batch, sizes) == FoldSeq(LAMBDA r, sum : sum + sizes[r], 0, batch)

\* The first n of the pending requests make a batch: as many as the limit allows,
\* less those put back until the rest fits.
Fits(n) == n <= limit /\ Bytes(SubSeq(pending, 1, n), size) <= MaxBytes

Longest(n) == Fits(n) /\ \A k \in (n + 1)..Len(pending) : ~Fits(k)

\* Mutant of PutBack: the rest goes behind what came later.
PutBackLast(n) ==
    LET rest == SubSeq(pending, n + 1, Len(pending))
    IN  IF Len(rest) > 1 THEN Tail(rest) \o <<Head(rest)>> ELSE rest

PutBack(n) == SubSeq(pending, n + 1, Len(pending))

\* Mutant of SendBatch: what is left waits for the next request.
SendBatchOnce ==
    /\ timer = "running"
    /\ \E n \in 1..Len(pending) :
          /\ Longest(n)
          /\ flying' = flying \cup {SubSeq(pending, 1, n)}
          /\ pending' = PutBack(n)
    /\ timer' = "null"
    /\ UNCHANGED <<destroyed, limit, size, outcome, blame>>

SendBatch ==
    /\ timer = "running"
    /\ \E n \in 1..Len(pending) :
          /\ Longest(n)
          /\ flying' = flying \cup {SubSeq(pending, 1, n)}
          /\ pending' = PutBack(n)
    /\ timer' = IF pending' = <<>> THEN "null" ELSE "running"
    /\ UNCHANGED <<destroyed, limit, size, outcome, blame>>

\* Not even one request fits: INVALID_MAX_BATCH_SIZE is thrown in the timer,
\* where nobody hears of it, and the request stays first.
RefuseBatch ==
    /\ timer = "running"
    /\ \A n \in 1..Len(pending) : ~Fits(n)
    /\ timer' = "null"
    /\ UNCHANGED <<pending, destroyed, limit, size, flying, outcome, blame>>

\* The answer, or the failure, of a batch: each request has a result, an error
\* or no match.  All errors of a batch are noted with it.
Respond(batch) ==
    /\ batch \in flying
    /\ flying' = flying \ {batch}
    /\ \E good \in SUBSET ToSet(batch) :
          /\ outcome' = [r \in Ids |-> IF r \in good THEN "resolved"
                                       ELSE IF r \in ToSet(batch) THEN "rejected"
                                       ELSE outcome[r]]
          /\ blame' = [r \in Ids |-> IF r \in ToSet(batch) \ good THEN Len(batch)
                                     ELSE blame[r]]
    /\ UNCHANGED <<pending, timer, destroyed, limit, size>>

\* The limit after an error of a batch of this length; errors of batches longer
\* than the limit come too late to matter.
Halved(length) ==
    IF length > limit THEN limit
    ELSE IF length \div 2 > 1 THEN length \div 2 ELSE 1

\* routeRpcCall looks at the error of a request, which is that of a batch the
\* node found too long, or not.
LookAtError(r) ==
    /\ blame[r] # 0
    /\ limit' \in {limit, Halved(blame[r])}
    /\ blame' = [blame EXCEPT ![r] = 0]
    /\ UNCHANGED <<pending, timer, destroyed, size, flying, outcome>>

\* The timer is cleared, the field keeps it.
Disconnect ==
    /\ ~destroyed
    /\ destroyed' = TRUE
    /\ timer' = IF timer = "running" THEN "cleared" ELSE timer
    /\ outcome' = [r \in Ids |-> IF r \in ToSet(pending) THEN "rejected" ELSE outcome[r]]
    /\ pending' = <<>>
    /\ UNCHANGED <<limit, size, flying, blame>>

Reconnect ==
    /\ destroyed
    /\ destroyed' = FALSE
    /\ UNCHANGED <<pending, timer, limit, size, flying, outcome, blame>>

Next ==
    \/ \E r \in Ids : Send(r) \/ LookAtError(r)
    \/ SendBatch \/ RefuseBatch
    \/ \E batch \in flying : Respond(batch)
    \/ Disconnect \/ Reconnect

Spec == Init /\ [][Next]_vars

-----------------------------------------------------------------------------
(* Properties.                                                             *)

\* Requests leave in the order they came in and none is lost or sent twice,
\* whatever was put back: those that wait are the pending ones in their order
\* and, all before these, those of the batches in flight (the loops of
\* sendNextBatch; a refused or disconnected batch does not come back).
Flown(r) == {batch \in flying : r \in ToSet(batch)}

InOrder ==
    /\ \A i, j \in DOMAIN pending : i < j => pending[i] < pending[j]
    /\ \A r \in Ids : Flown(r) # {} => \A i \in DOMAIN pending : r < pending[i]
    /\ \A batch, other \in flying :
          batch # other => ToSet(batch) \cap ToSet(other) = {}
    /\ \A r \in Ids : outcome[r] = "waiting" <=>
                          r \in ToSet(pending) \/ Flown(r) # {}

\* Every request gets its answer, under a fair timer and a node or a timeout
\* that ends each batch, except behind one that is too large for any batch, and
\* except after a disconnect whose timer was running: the field then keeps a
\* timer that never fires, and the requests made after a reconnect are never
\* sent (sendNextBatch, disconnect).  As requests are finitely many, again and
\* again none but those is waiting.
Stuck ==
    \/ timer = "cleared"
    \/ pending # <<>> /\ size[Head(pending)] > MaxBytes

EveryAnswered ==
    []<>\A r \in Ids : outcome[r] = "waiting" => r \in ToSet(pending) /\ Stuck

\* What EveryAnswered rests on: nothing waits without a timer, except behind a
\* request that is too large for any batch (send, sendNextBatch).
TimerIsSet == pending # <<>> => timer # "null" \/ \A n \in 1..Len(pending) : ~Fits(n)
=============================================================================
