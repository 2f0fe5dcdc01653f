--------------------------- MODULE BalanceRefresh ---------------------------
(***************************************************************************)
(* Timers of IndexingService: the refresh of balances, of the accounts in  *)
(* use and of all accounts, and of the prices of the assets that it finds. *)
(* An asset is tracked or not; which balance or price it has, and whether  *)
(* the asset is trusted, is left out.                                      *)
(***************************************************************************)
CONSTANTS
    Assets,
    Loads,         \* bound: calls of loadAccountBalances under way together
    AccountLoads   \* bound: loads of a new account under way together

VARIABLES
    activeAlarm,  \* #activeAccountBalanceAlarm
    allAlarm,     \* #allAccountBalanceAlarm is set
    pricesTimer,  \* #pricesUpdateTimer is set
    load,         \* per call, where it is and the tracked assets it began with
    tracked,      \* assetsToTrack
    reading,      \* getTrackedAssetsPrices reads the tracked assets
    priced,       \* assets whose price was asked for
    found,        \* history: assets found by a refresh
    owed,         \* history: an alarm for the accounts in use is not served yet
    hurried       \* history: a confirmed transaction has hurried a refresh

vars == <<activeAlarm, allAlarm, pricesTimer, load, tracked, reading, priced,
          found, owed, hurried>>

Calls == Loads \cup AccountLoads

Idle == [at |-> "idle", before |-> {}]

TypeOK ==
    \* A field may be set although its timer has run.
    /\ activeAlarm \in {"none", "slow", "fast", "run"}
    /\ {allAlarm, pricesTimer, reading, owed, hurried} \subseteq BOOLEAN
    /\ load \in [Calls -> [at : {"idle", "begin", "refresh", "account"},
                           before : SUBSET Assets]]
    /\ tracked \subseteq Assets
    /\ priced \subseteq tracked
    /\ found \subseteq tracked

Init ==
    /\ activeAlarm = "none"
    /\ allAlarm = FALSE /\ pricesTimer = FALSE
    /\ load = [l \in Calls |-> Idle]
    /\ tracked \in SUBSET Assets
    /\ reading = FALSE
    /\ priced = tracked
    /\ found = {}
    /\ owed = FALSE /\ hurried = FALSE

loading == <<load, tracked, found>>
prices  == <<pricesTimer, reading, priced>>

-----------------------------------------------------------------------------
(* Refreshes.                                                              *)

\* The alarm of the accounts in use: a refresh that waits already is enough.
RefreshActive ==
    /\ owed' = TRUE
    /\ activeAlarm' = IF activeAlarm = "none" THEN "slow" ELSE activeAlarm
    /\ UNCHANGED <<allAlarm, loading, prices, hurried>>

\* Mutant of RefreshAll: the timer is cleared, its field is not.
RefreshAllOnly ==
    /\ activeAlarm' = IF activeAlarm = "none" THEN "none" ELSE "run"
    /\ allAlarm' = TRUE
    /\ UNCHANGED <<loading, prices, owed, hurried>>

\* The alarm of all accounts, and the start, take the place of the other.
RefreshAll ==
    /\ activeAlarm' = "none"
    /\ allAlarm' = TRUE
    /\ UNCHANGED <<loading, prices, owed, hurried>>

\* A transaction was confirmed lately: its refresh takes the place of the
\* waiting one.
Hurry ==
    /\ activeAlarm' = "fast"
    /\ hurried' = TRUE
    /\ UNCHANGED <<allAlarm, loading, prices, owed>>

Begin(l, at) ==
    /\ load[l] = Idle
    /\ load' = [load EXCEPT ![l].at = at]
    /\ UNCHANGED <<tracked, found, prices, hurried>>

\* A hurried refresh leaves the field as it is.
FireActive(l) ==
    /\ activeAlarm \in {"slow", "fast"}
    /\ activeAlarm' = IF activeAlarm = "slow" THEN "none" ELSE "run"
    /\ owed' = FALSE
    /\ Begin(l, "begin")
    /\ UNCHANGED allAlarm

FireAll(l) ==
    /\ allAlarm
    /\ allAlarm' = FALSE
    /\ owed' = FALSE
    /\ Begin(l, "begin")
    /\ UNCHANGED activeAlarm

-----------------------------------------------------------------------------
(* Loading.                                                                *)

\* A new account is loaded on its own.
NewAccount(l) ==
    /\ Begin(l, "account")
    /\ UNCHANGED <<activeAlarm, allAlarm, owed>>

Loaded(l, r) ==
    /\ load' = [load EXCEPT ![l] = r]
    /\ UNCHANGED <<activeAlarm, allAlarm, reading, priced, owed, hurried>>

\* loadAccountBalances notes which assets are tracked.
NoteTracked(l) ==
    /\ load[l].at = "begin"
    /\ Loaded(l, [at |-> "refresh", before |-> tracked])
    /\ UNCHANGED <<tracked, found, pricesTimer>>

\* retrieveTokenBalances finds a balance of an asset.
FindAsset(l, a) ==
    /\ load[l].at \in {"refresh", "account"}
    /\ a \notin tracked
    /\ tracked' = tracked \cup {a}
    /\ found' = IF load[l].at = "refresh" THEN found \cup {a} ELSE found
    /\ Loaded(l, load[l])
    /\ UNCHANGED pricesTimer

\* A load whose account fails schedules nothing.
EndAccount(l) ==
    /\ load[l].at = "account"
    /\ pricesTimer' \in {pricesTimer, TRUE}
    /\ Loaded(l, Idle)
    /\ UNCHANGED <<tracked, found>>

\* Mutant of EndRefresh: prices are scheduled for the first assets only.
EndRefreshOnce(l) ==
    /\ load[l].at = "refresh"
    /\ pricesTimer' = (pricesTimer \/ (load[l].before = {} /\ tracked # {}))
    /\ Loaded(l, Idle)
    /\ UNCHANGED <<tracked, found>>

\* scheduleUpdateAssetsPrices, if the number of tracked assets has changed.
EndRefresh(l) ==
    /\ load[l].at = "refresh"
    /\ pricesTimer' = (pricesTimer \/ load[l].before # tracked)
    /\ Loaded(l, Idle)
    /\ UNCHANGED <<tracked, found>>

-----------------------------------------------------------------------------
(* Prices.                                                                 *)

\* The alarm of prices, or the start.
SchedulePrices ==
    /\ pricesTimer' = TRUE
    /\ UNCHANGED <<activeAlarm, allAlarm, loading, reading, priced, owed, hurried>>

FirePrices ==
    /\ pricesTimer
    /\ pricesTimer' = FALSE
    /\ reading' = TRUE
    /\ UNCHANGED <<activeAlarm, allAlarm, loading, priced, owed, hurried>>

ReadTracked ==
    /\ reading
    /\ reading' = FALSE
    /\ priced' = tracked
    /\ UNCHANGED <<activeAlarm, allAlarm, loading, pricesTimer, owed, hurried>>

Refresh(l) == FireActive(l) \/ FireAll(l)

Proceed(l) == NoteTracked(l) \/ EndAccount(l) \/ EndRefresh(l)

Next ==
    \/ RefreshActive \/ RefreshAll \/ Hurry
    \/ \E l \in Loads : Refresh(l)
    \/ \E l \in AccountLoads : NewAccount(l)
    \/ \E l \in Calls : Proceed(l) \/ \E a \in Assets : FindAsset(l, a)
    \/ SchedulePrices \/ FirePrices \/ ReadTracked

Spec == Init /\ [][Next]_vars

-----------------------------------------------------------------------------
(* Properties.                                                             *)

\* What the alarm asks for is done, by its own timer or by the refresh of all
\* accounts that takes its place, unless a confirmed transaction has left the
\* field of the timer set (refreshAccountBalances, acceleratedBalanceRefresh).
ActiveRefreshed == owed ~> ~owed \/ hurried

\* The price of an asset that a refresh found is asked for, even if other
\* refreshes and price updates are under way (loadAccountBalances,
\* scheduleUpdateAssetsPrices).
FoundIsPriced == \A a \in Assets : a \in found ~> a \in priced

\* What ActiveRefreshed rests on: an alarm that is not served has a timer
\* (refreshAccountBalances, acceleratedBalanceRefresh).
OwedHasTimer == owed => hurried \/ activeAlarm \in {"slow", "fast"} \/ allAlarm

\* What FoundIsPriced rests on: an asset that a refresh found, and whose price
\* nobody has asked for, is younger than a refresh that is still under way, or
\* prices are due (loadAccountBalances, scheduleUpdateAssetsPrices).
UnpricedIsDue ==
    \A a \in found \ priced :
        \/ pricesTimer \/ reading
        \/ \E l \in Calls : load[l].at = "refresh" /\ a \notin load[l].before
=============================================================================
