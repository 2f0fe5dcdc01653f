---------------------------- MODULE RetrievalQueue ----------------------------
(***************************************************************************)
(* The queue of transaction hashes ChainService still has to look up       *)
(* (transactionsToRetrieve): a FIFO with priorities.  An entry is a record *)
(* [network, hash, old, priority]; `old` says that its firstSeen lies more *)
(* than TRANSACTION_CHECK_LIFETIME_MS back.  These are the operators; the  *)
(* modules that use them hold the queue.                                   *)
(***************************************************************************)
EXTENDS Integers, Sequences, SequencesExt

Entry(network, hash, old, priority) ==
    [network |-> network, hash |-> hash, old |-> old, priority |-> priority]

\* isTransactionHashQueued
Queued(queue, network, hash) ==
    \E i \in DOMAIN queue :
        queue[i].hash = hash /\ queue[i].network = network

\* Mutant of LineUp: priorities are ignored.
AddLast(queue, entries, priority) == queue \o entries

\* Entries of one priority line up in front of the first one of lower priority.
LineUp(queue, entries, priority) ==
    LET behind == SelectInSeq(queue, LAMBDA x : priority > x.priority)
    IN  IF behind = 0 THEN queue \o entries
        ELSE SubSeq(queue, 1, behind - 1) \o entries \o SubSeq(queue, behind, Len(queue))

\* queueTransactionHashToRetrieve: nothing when the hash is queued, otherwise
\* in front of the first entry of lower priority.
Enqueue(queue, e) ==
    IF Queued(queue, e.network, e.hash) THEN queue
    ELSE LineUp(queue, <<e>>, e.priority)

\* The same for each hash of a set in turn, with one priority: each comes to
\* stand behind the one before it.
EnqueueAll(queue, network, hashes, old, priority) ==
    LET new == SetToSeq({h \in hashes : ~Queued(queue, network, h)})
    IN  LineUp(queue,
               [i \in 1..Len(new) |-> Entry(network, new[i], old[new[i]], priority)],
               priority)

\* removeTransactionHashFromQueue: only the check looks at the network, the
\* filter goes by the hash, which is queued once.
Dequeue(queue, network, hash) ==
    IF Queued(queue, network, hash)
    THEN RemoveFirstMatch(queue, LAMBDA x : x.hash = hash)
    ELSE queue
=============================================================================
