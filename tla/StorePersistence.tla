---------------------------- MODULE StorePersistence ----------------------------
(***************************************************************************)
(* How the redux store of the background is kept in local storage          *)
(* (redux/store.ts, persistStore): behind a debounce, one write at a time, *)
(* the latest state queued behind a slow write.  A state is the number of  *)
(* the change that made it.                                                *)
(***************************************************************************)
EXTENDS Integers, Sequences, SequencesExt

CONSTANTS
    MaxChanges,  \* bound: changes of the store
    MaxFailures, \* bound: writes to local storage that fail
    MaxRestarts  \* bound: restarts of the background

VARIABLES
    store,     \* the state of the store
    unwritten, \* persistStore waits for its debounce
    writing,   \* states being written to local storage
    queued,    \* persistQueued: a sequence of one state, or empty
    disk,      \* the state in local storage
    failures,  \* writes that failed
    failed,    \* history: the last write to end failed
    restarts

vars == <<store, unwritten, writing, queued, disk, failures, failed, restarts>>

States == 0..MaxChanges

TypeOK ==
    /\ {store, disk} \cup writing \subseteq States
    /\ {unwritten, failed} \subseteq BOOLEAN
    /\ queued \in Seq(States) /\ Len(queued) <= 1
    /\ failures \in 0..MaxFailures /\ restarts \in 0..MaxRestarts

Init ==
    /\ store = 0 /\ disk = 0
    /\ unwritten = FALSE
    /\ writing = {} /\ queued = <<>>
    /\ failures = 0 /\ failed = FALSE
    /\ restarts = 0

-----------------------------------------------------------------------------

\* reduxCache hands the state of every action to persistStore.
Change ==
    /\ store < MaxChanges
    /\ store' = store + 1
    /\ unwritten' = TRUE
    /\ UNCHANGED <<writing, queued, disk, failures, failed, restarts>>

\* Mutant of Persist: writes overlap.
PersistAlways ==
    /\ unwritten
    /\ unwritten' = FALSE
    /\ writing' = writing \cup {store}
    /\ UNCHANGED <<store, queued, disk, failures, failed, restarts>>

\* Mutant of Persist: what comes during a write is dropped.
PersistOrDrop ==
    /\ unwritten
    /\ unwritten' = FALSE
    /\ writing' = IF writing = {} THEN {store} ELSE writing
    /\ UNCHANGED <<store, queued, disk, failures, failed, restarts>>

Persist ==
    /\ unwritten
    /\ unwritten' = FALSE
    /\ IF writing = {}
       THEN writing' = {store} /\ UNCHANGED queued
       ELSE queued' = <<store>> /\ UNCHANGED writing
    /\ UNCHANGED <<store, disk, failures, failed, restarts>>

\* The finally block: the next write takes what was queued.
WriteNext(s) ==
    /\ writing' = (writing \ {s}) \cup ToSet(queued)
    /\ queued' = <<>>
    /\ UNCHANGED <<store, unwritten, restarts>>

Written(s) ==
    /\ s \in writing
    /\ disk' = s
    /\ failed' = FALSE
    /\ WriteNext(s)
    /\ UNCHANGED failures

WriteFails(s) ==
    /\ s \in writing
    /\ failures < MaxFailures
    /\ failures' = failures + 1
    /\ failed' = TRUE
    /\ WriteNext(s)
    /\ UNCHANGED disk

\* The background is stopped and starts again with what local storage holds,
\* which it writes back at once.  A write that was under way has ended by then,
\* or is lost.
Restart ==
    /\ restarts < MaxRestarts
    /\ restarts' = restarts + 1
    /\ store' = disk
    /\ unwritten' = FALSE
    /\ writing' = {disk} /\ queued' = <<>>
    /\ UNCHANGED <<disk, failures, failed>>

Save == Persist \/ \E s \in writing : Written(s) \/ WriteFails(s)

Next == Change \/ Save \/ Restart

Spec == Init /\ [][Next]_vars

-----------------------------------------------------------------------------
(* Properties.                                                             *)

\* Local storage only ever goes forward through states the store had, and the
\* background comes back with one of them, however slow the writes are and
\* whenever it stops ("Guard against overlapping persist calls").
Stored == INSTANCE FollowingCopy WITH source <- store, copy <- disk
StorageFollows == Stored!Spec

\* The last state of the store is written in the end, also when it was queued
\* behind a slow write, unless the last write failed ("stash the latest state so
\* it gets written once the current pass finishes").
LastStateStored == <>[](disk = store \/ failed)

\* What LastStateStored rests on: the last state is not lost between two writes.
\* The debounce will take it, or it is queued, or being written with nothing
\* queued behind it; and when nothing is under way it is in local storage,
\* unless its write failed (persistStore).
LastStateKept ==
    \/ unwritten
    \/ queued = <<store>>
    \/ queued = <<>> /\ writing = {store}
    \/ queued = <<>> /\ writing = {} /\ (disk = store \/ failed)
=============================================================================
