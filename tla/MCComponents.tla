------------------------------ MODULE MCComponents ------------------------------
(***************************************************************************)
(* The components that are small and share no state, each checked on its   *)
(* own and all in one run: focus is the component a behaviour is about,    *)
(* the others rest.                                                        *)
(***************************************************************************)
EXTENDS CircuitBreaker

\* The constants of the components, where the theorems hold for any value.
CONSTANTS
    MaxId, Sizes, MaxBytes, DefaultLength,          \* RpcBatches
    StoreChanges, WriteFailures, StoreRestarts,     \* StorePersistence
    Pages, PageChanges, PageRestarts,               \* StoreWindows
    Devices, NoDevice, MaxPlugs, LedgerRequests,    \* LedgerDevice
    SiteRequests, SiteClicks, Nothing               \* Permissions

ASSUME ComponentConstants ==
    /\ MaxId \in Nat /\ DefaultLength \in Nat \ {0}
    /\ StoreChanges \in Nat /\ WriteFailures \in Nat /\ StoreRestarts \in Nat
    /\ PageChanges \in Nat /\ PageRestarts \in Nat
    /\ NoDevice \notin Devices /\ MaxPlugs \in Nat /\ LedgerRequests \in Nat

VARIABLES
    focus,
    bPending, bTimer, bDestroyed, bLimit, bSize, bFlying, bOutcome, bBlame,
    pStore, pUnwritten, pWriting, pQueued, pDisk, pFailures, pFailed, pRestarts,
    wStore, wDisk, wSent, wUnsent, wWindow, wAsked, wCopy, wInbox, wDispatch,
    wSeen, wRestarts,
    sState, sStartHook, sStop, sWait,
    lPlugged, lPlugs, lRequests, lService, lArrivals, lRefreshes, lRemovals,
    lTransport, lCurrentId, lQueue, lOperation, lMessage,
    aSelected, aAllowed, aNetwork, aSupported, aPending, aOffer, aFlow, aPopup,
    aGrants, aDenials, aDeletions, aMoves, aClicks, aHeld,
    nBook, nEdited, nOnChain, nCached, nExpired, nLookup, nShown, nChanges,
    iActive, iAll, iPrices, iLoad, iTracked, iReading, iPriced, iFound, iOwed,
    iHurried

batches == <<bPending, bTimer, bDestroyed, bLimit, bSize, bFlying, bOutcome, bBlame>>

persistence == <<pStore, pUnwritten, pWriting, pQueued, pDisk, pFailures, pFailed,
                 pRestarts>>

windows == <<wStore, wDisk, wSent, wUnsent, wWindow, wAsked, wCopy, wInbox,
             wDispatch, wSeen, wRestarts>>

lifecycle == <<sState, sStartHook, sStop, sWait>>

ledger == <<lPlugged, lPlugs, lRequests, lService, lArrivals, lRefreshes, lRemovals,
            lTransport, lCurrentId, lQueue, lOperation, lMessage>>

access == <<aSelected, aAllowed, aNetwork, aSupported, aPending, aOffer, aFlow,
            aPopup, aGrants, aDenials, aDeletions, aMoves, aClicks, aHeld>>

names == <<nBook, nEdited, nOnChain, nCached, nExpired, nLookup, nShown, nChanges>>

refresh == <<iActive, iAll, iPrices, iLoad, iTracked, iReading, iPriced, iFound,
             iOwed, iHurried>>

Batches == INSTANCE RpcBatches WITH
    pending <- bPending, timer <- bTimer, destroyed <- bDestroyed, limit <- bLimit,
    size <- bSize, flying <- bFlying, outcome <- bOutcome, blame <- bBlame

Persistence == INSTANCE StorePersistence WITH
    MaxChanges <- StoreChanges, MaxFailures <- WriteFailures,
    MaxRestarts <- StoreRestarts,
    store <- pStore, unwritten <- pUnwritten, writing <- pWriting,
    queued <- pQueued, disk <- pDisk, failures <- pFailures, failed <- pFailed,
    restarts <- pRestarts

Copies == INSTANCE StoreWindows WITH
    Windows <- Pages, MaxChanges <- PageChanges, MaxRestarts <- PageRestarts,
    store <- wStore, disk <- wDisk, sent <- wSent, unsent <- wUnsent,
    window <- wWindow, asked <- wAsked, copy <- wCopy, inbox <- wInbox,
    dispatch <- wDispatch, seen <- wSeen, restarts <- wRestarts

Lifecycle == INSTANCE ServiceLifecycle WITH
    Stoppers <- {"s1", "s2"}, Waiters <- {"w1", "w2"},
    serviceState <- sState, startHook <- sStartHook, stop <- sStop, wait <- sWait

Ledger == INSTANCE LedgerDevice WITH
    MaxRequests <- LedgerRequests,
    plugged <- lPlugged, plugs <- lPlugs, requests <- lRequests,
    service <- lService, arrivals <- lArrivals, refreshes <- lRefreshes,
    removals <- lRemovals, transport <- lTransport, currentId <- lCurrentId,
    queue <- lQueue, operation <- lOperation, message <- lMessage

\* Two sites connect, and one of them also switches to the wallet's network and
\* adds another; the other one gives its permissions back.
Asks ==
    {<<"o1", "accounts", Nothing>>, <<"o2", "accounts", Nothing>>,
     <<"o1", "switch", "main">>, <<"o1", "add", "extra">>, <<"o2", "revoke", Nothing>>}

Access == INSTANCE Permissions WITH
    MaxRequests <- SiteRequests, Origins <- {"o1", "o2"}, Accounts <- {"x", "y"},
    Chains <- {"main", "extra"}, Main <- "main", MaxClicks <- SiteClicks,
    selected <- aSelected, allowed <- aAllowed, network <- aNetwork,
    supported <- aSupported, pending <- aPending, offer <- aOffer, flow <- aFlow,
    popup <- aPopup, grants <- aGrants, denials <- aDenials,
    deletions <- aDeletions, moves <- aMoves, clicks <- aClicks, held <- aHeld

ASSUME AccessConstants ==
    /\ SiteRequests \in Nat /\ SiteClicks \in Nat
    /\ Nothing \notin {"o1", "o2"}
    /\ Nothing \notin Access!RequestIds /\ Nothing \notin Access!Methods

Names == INSTANCE NameCache WITH
    Lookups <- {1, 2}, BookNames <- {"b", "c"}, ChainNames <- {"x", "y"},
    NoName <- "-", MaxChanges <- 3,
    book <- nBook, edited <- nEdited, onChain <- nOnChain, cached <- nCached,
    expired <- nExpired, lookup <- nLookup, shown <- nShown, changes <- nChanges

\* One refresh and the load of a new account at a time.
Indexing == INSTANCE BalanceRefresh WITH
    Assets <- {"t", "u"}, Loads <- {1}, AccountLoads <- {2},
    activeAlarm <- iActive, allAlarm <- iAll, pricesTimer <- iPrices,
    load <- iLoad, tracked <- iTracked, reading <- iReading, priced <- iPriced,
    found <- iFound, owed <- iOwed, hurried <- iHurried

others == <<batches, persistence, windows, lifecycle, ledger, access, names, refresh>>

everything == <<focus, vars, others>>

-----------------------------------------------------------------------------

InitAll ==
    /\ focus \in {"breaker", "batches", "persistence", "windows", "lifecycle",
                  "ledger", "access", "names", "refresh"}
    /\ Init
    /\ Batches!Init /\ Persistence!Init /\ Copies!Init /\ Lifecycle!Init
    /\ Ledger!Init /\ Access!Init /\ Names!Init /\ Indexing!Init
    /\ focus # "ledger" => lPlugged = NoDevice
    /\ focus # "access" => aSelected = "x"
    /\ focus # "names" => nOnChain = "-"
    /\ focus # "refresh" => iTracked = {}

\* The component in focus takes a step, the others rest.
NextAll ==
    /\ UNCHANGED focus
    /\ IF focus = "breaker" THEN Next ELSE UNCHANGED vars
    /\ IF focus = "batches" THEN Batches!Next ELSE UNCHANGED batches
    /\ IF focus = "persistence" THEN Persistence!Next ELSE UNCHANGED persistence
    /\ IF focus = "windows" THEN Copies!Next ELSE UNCHANGED windows
    /\ IF focus = "lifecycle" THEN Lifecycle!Next ELSE UNCHANGED lifecycle
    /\ IF focus = "ledger" THEN Ledger!Next ELSE UNCHANGED ledger
    /\ IF focus = "access" THEN Access!Next ELSE UNCHANGED access
    /\ IF focus = "names" THEN Names!Next ELSE UNCHANGED names
    /\ IF focus = "refresh" THEN Indexing!Next ELSE UNCHANGED refresh

-----------------------------------------------------------------------------
(* Fairness, per component.                                                *)

\* The timer fires and a batch ends, by its answer or by its timeout.
FairBatches ==
    /\ WF_batches(focus = "batches" /\ Batches!SendBatch)
    /\ WF_batches(focus = "batches" /\ (\E batch \in bFlying : Batches!Respond(batch)))

\* The debounce ends, and so does a write to local storage.
FairPersistence == WF_persistence(focus = "persistence" /\ Persistence!Save)

\* ReduxService starts every service, and their hooks end.
FairLifecycle ==
    /\ WF_lifecycle(focus = "lifecycle" /\ Lifecycle!Start)
    /\ \A c \in {"s1", "s2"} :
          WF_lifecycle(focus = "lifecycle" /\ sStop[c] # "none" /\ Lifecycle!Stops(c))

\* The service starts, and the device answers or is gone.
FairLedger ==
    /\ WF_ledger(focus = "ledger" /\ Ledger!Start)
    /\ WF_ledger(focus = "ledger" /\ Ledger!Operate)

\* The databases answer, popups are closed at some time, and the browser tells.
FairAccess ==
    \A r \in Access!RequestIds :
        /\ WF_access(focus = "access" /\ Access!Step(r))
        /\ WF_access(focus = "access" /\ Access!AnswerAddChain(r))
        /\ WF_access(focus = "access" /\ (Access!ClickGrant(r) \/ Access!ClosePopup(r)))
        /\ WF_access(focus = "access" /\ Access!PopupRemoved(r))

\* The event is handled, name services answer or fail, cached names expire, and
\* the address is shown, so looked up, again and again.
FairNames ==
    /\ WF_names(focus = "names" /\ Names!HandleAny)
    /\ WF_names(focus = "names" /\ Names!LookUpAny)
    /\ WF_names(focus = "names" /\ Names!Expire)
    /\ \A l \in {1, 2} : WF_names(focus = "names" /\ Names!ChainAnswers(l))

\* Timers run and requests end; the alarms need not come.
FairRefresh ==
    /\ WF_refresh(focus = "refresh" /\ Indexing!Refresh(1))
    /\ \A l \in {1, 2} : WF_refresh(focus = "refresh" /\ Indexing!Proceed(l))
    /\ WF_refresh(focus = "refresh" /\ Indexing!FirePrices)
    /\ WF_refresh(focus = "refresh" /\ Indexing!ReadTracked)

SpecAll ==
    /\ InitAll /\ [][NextAll]_everything
    /\ FairBatches /\ FairPersistence /\ FairLifecycle
    /\ FairLedger /\ FairAccess /\ FairNames /\ FairRefresh

-----------------------------------------------------------------------------
(* Properties, stated where their component is specified.                  *)

TypesOK ==
    CASE focus = "breaker"     -> TypeOK
      [] focus = "batches"     -> Batches!TypeOK
      [] focus = "persistence" -> Persistence!TypeOK
      [] focus = "windows"     -> Copies!TypeOK
      [] focus = "lifecycle"   -> Lifecycle!TypeOK
      [] focus = "ledger"      -> Ledger!TypeOK
      [] focus = "access"      -> Access!TypeOK
      [] focus = "names"       -> Names!TypeOK
      [] focus = "refresh"     -> Indexing!TypeOK

\* RpcBatches: requests leave in the order they came in, none is lost or sent
\* twice (sendNextBatch).
InOrder == Batches!InOrder

\* RpcBatches: every request is answered, except behind one that is too large
\* and after a disconnect that left its timer in the field (sendNextBatch).
EveryAnswered == Batches!EveryAnswered

\* StorePersistence: local storage goes forward through states the store had
\* (persistStore).
StorageFollows == Persistence!StorageFollows

\* StorePersistence: the last state is written in the end (persistStore).
LastStateStored == Persistence!LastStateStored

\* StoreWindows: a window that has received all there is misses no change
\* (wrapStore, newProxyStore).
NothingMissing == Copies!NothingMissing

\* StoreWindows: the reply to a dispatch does not overtake the update of the
\* state (dispatchResponder, releaseLock).
RepliesSeeChanges == Copies!RepliesSeeChanges

\* ServiceLifecycle: every call of started and of stopService ends, unless the
\* start hook throws (started, stopService).
EveryCallEnds == Lifecycle!EveryCallEnds

\* LedgerDevice: a signature is asked of the device that holds its account
\* (runSerialized, checkCanSign).
RightDevice == Ledger!RightDevice

\* LedgerDevice: every serialised operation ends (runSerialized).
OperationsEnd == Ledger!OperationsEnd

\* Permissions: whoever waits for its user is the pending request of its origin
\* (requestPermission).
OneRequestPerOrigin == Access!OneRequestPerOrigin

\* Permissions: a site is told of accounts it was permitted to see only
\* (onMessageListener).
DisclosedWasAllowed == Access!DisclosedWasAllowed

\* Permissions: every request ends once its popup is closed (requestPermission).
RequestsEnd == Access!RequestsEnd

\* NameCache: the name the user gave is shown in the end (lookUpName).
NameSettles == Names!NameSettles

\* BalanceRefresh: what the alarm for the accounts in use asks for is done,
\* unless a confirmed transaction came before (refreshAccountBalances).
ActiveRefreshed == Indexing!ActiveRefreshed

\* BalanceRefresh: the price of an asset that a refresh found is asked for
\* (loadAccountBalances, scheduleUpdateAssetsPrices).
FoundIsPriced == Indexing!FoundIsPriced
=============================================================================
