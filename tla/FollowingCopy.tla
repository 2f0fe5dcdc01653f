----------------------------- MODULE FollowingCopy -----------------------------
(***************************************************************************)
(* What a stored copy of a changing state promises: it only takes states   *)
(* the source has had, never goes back to an older one, and is what the    *)
(* source comes back with when it is lost.  States are numbered by the     *)
(* change that made them.  StorePersistence implements it.                 *)
(***************************************************************************)
EXTENDS Integers

VARIABLES source, copy

Init == source = 0 /\ copy = 0

Change  == source' = source + 1 /\ UNCHANGED copy
CatchUp == copy' \in copy..source /\ UNCHANGED source
Restore == source' = copy /\ UNCHANGED copy

Next == Change \/ CatchUp \/ Restore

Spec == Init /\ [][Next]_<<source, copy>>
=============================================================================
