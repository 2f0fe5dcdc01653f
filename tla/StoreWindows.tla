------------------------------ MODULE StoreWindows ------------------------------
(***************************************************************************)
(* The copies of the redux store that the open popups and tabs hold        *)
(* (redux/store.ts, newProxyStore, webext-redux as patched in patches/):   *)
(* fetched once, then kept up by differences that are sent behind a        *)
(* debounce.  A state is the number of the last change and the list it     *)
(* grows by; other data is set, and set again without harm.  What local    *)
(* storage holds at a restart is any state since the one before, as        *)
(* FollowingCopy promises.                                                 *)
(***************************************************************************)
EXTENDS Integers, Sequences, SequencesExt

CONSTANTS
    Windows,     \* popups and tabs
    MaxChanges,  \* bound: changes of the store
    MaxRestarts  \* bound: restarts of the background

VARIABLES
    store,     \* the state of the store
    disk,      \* the state in local storage
    sent,      \* currentState: the state the last difference led to
    unsent,    \* queueUpdate waits for its debounce, storeUpdateLock is set
    window,    \* closed, opening or ready
    asked,     \* windows whose FETCH_STATE is not answered yet
    copy,      \* the state of the proxy store of a window
    inbox,     \* messages on their way to a window
    dispatch,  \* where the thunk a window dispatched is
    seen,      \* change number of the store when that thunk ended
    restarts

windows == <<window, asked, copy, inbox, dispatch, seen>>
vars    == <<store, disk, sent, unsent, windows, restarts>>

Empty  == [change |-> 0, list |-> <<>>]
States == [change : 0..MaxChanges, list : Seq(1..MaxChanges)]

Messages ==
    [type : {"state"}, state : States]
      \cup [type : {"patch"}, from : 0..MaxChanges, state : States]
      \cup {[type |-> "reply"]}

TypeOK ==
    /\ {store, disk, sent} \subseteq States
    /\ unsent \in BOOLEAN
    /\ window \in [Windows -> {"closed", "opening", "ready"}]
    /\ asked \subseteq Windows
    /\ copy \in [Windows -> States]
    /\ inbox \in [Windows -> Seq(Messages)]
    /\ dispatch \in [Windows -> {"idle", "running", "locked", "answered"}]
    /\ seen \in [Windows -> 0..MaxChanges]
    /\ restarts \in 0..MaxRestarts

Init ==
    /\ store = Empty /\ disk = Empty /\ sent = Empty
    /\ unsent = FALSE
    /\ window = [w \in Windows |-> "closed"]
    /\ asked = {}
    /\ copy = [w \in Windows |-> Empty]
    /\ inbox = [w \in Windows |-> <<>>]
    /\ dispatch = [w \in Windows |-> "idle"]
    /\ seen = [w \in Windows |-> 0]
    /\ restarts = 0

-----------------------------------------------------------------------------

\* An action of the background, or of a thunk that is running: diffStrategy puts
\* the new state behind the debounce of queueUpdate and sets storeUpdateLock.
Change ==
    /\ store.change < MaxChanges
    /\ \E grows \in BOOLEAN :
          LET number == store.change + 1
          IN  store' = [change |-> number,
                        list |-> IF grows THEN Append(store.list, number) ELSE store.list]
    /\ unsent' = TRUE
    /\ UNCHANGED <<disk, sent, windows, restarts>>

Store ==
    /\ disk' = store
    /\ UNCHANGED <<store, sent, unsent, windows, restarts>>

-----------------------------------------------------------------------------
(* The windows.                                                            *)

OpenWindow(w) ==
    /\ window[w] = "closed"
    /\ window' = [window EXCEPT ![w] = "opening"]
    /\ asked' = asked \cup {w}
    /\ UNCHANGED <<store, disk, sent, unsent, copy, inbox, dispatch, seen, restarts>>

\* The answer to FETCH_STATE is the present state, sent or not.
AnswerFetch(w) ==
    /\ w \in asked
    /\ asked' = asked \ {w}
    /\ inbox' = [inbox EXCEPT ![w] = Append(@, [type |-> "state", state |-> store])]
    /\ UNCHANGED <<store, disk, sent, unsent, window, copy, dispatch, seen, restarts>>

CloseWindow(w) ==
    /\ window[w] # "closed"
    /\ window' = [window EXCEPT ![w] = "closed"]
    /\ asked' = asked \ {w}
    /\ copy' = [copy EXCEPT ![w] = Empty]
    /\ inbox' = [inbox EXCEPT ![w] = <<>>]
    /\ dispatch' = [dispatch EXCEPT ![w] = "idle"]
    /\ seen' = [seen EXCEPT ![w] = 0]
    /\ UNCHANGED <<store, disk, sent, unsent, restarts>>

Reply == [type |-> "reply"]

\* The difference from the last state sent, and the replies it was waited for.
Posted(w) ==
    <<[type |-> "patch", from |-> Len(sent.list), state |-> store]>>
      \o IF dispatch[w] = "locked" THEN <<Reply>> ELSE <<>>

\* Mutant of SendUpdate: only windows that are ready are told.
SendUpdateToReady ==
    /\ unsent
    /\ unsent' = FALSE
    /\ sent' = store
    /\ inbox' = [w \in Windows |->
                    IF window[w] = "ready" THEN inbox[w] \o Posted(w) ELSE inbox[w]]
    /\ dispatch' = [w \in Windows |->
                       IF dispatch[w] = "locked" THEN "answered" ELSE dispatch[w]]
    /\ UNCHANGED <<store, disk, window, asked, copy, seen, restarts>>

\* The debounced queueUpdate tells every window there is, then releaseLock lets
\* the replies follow.
SendUpdate ==
    /\ unsent
    /\ unsent' = FALSE
    /\ sent' = store
    /\ inbox' = [w \in Windows |->
                    IF window[w] # "closed" THEN inbox[w] \o Posted(w) ELSE inbox[w]]
    /\ dispatch' = [w \in Windows |->
                       IF dispatch[w] = "locked" THEN "answered" ELSE dispatch[w]]
    /\ UNCHANGED <<store, disk, window, asked, copy, seen, restarts>>

\* What a difference makes of a copy: data is set, new members of the list are
\* inserted at their place, whether the copy has them already or not.
Patched(s, message) ==
    [change |-> message.state.change,
     list |-> SubSeq(s.list, 1, message.from)
              \o SubSeq(message.state.list, message.from + 1, Len(message.state.list))
              \o SubSeq(s.list, message.from + 1, Len(s.list))]

Received(w, type) ==
    /\ inbox[w] # <<>>
    /\ Head(inbox[w]).type = type
    /\ inbox' = [inbox EXCEPT ![w] = Tail(@)]

ReceiveState(w) ==
    /\ Received(w, "state")
    /\ copy' = [copy EXCEPT ![w] = Head(inbox[w]).state]
    /\ window' = [window EXCEPT ![w] = "ready"]
    /\ UNCHANGED <<store, disk, sent, unsent, asked, dispatch, seen, restarts>>

\* Nothing is patched before the first state is there.
ReceivePatch(w) ==
    /\ Received(w, "patch")
    /\ copy' = IF window[w] = "ready"
               THEN [copy EXCEPT ![w] = Patched(@, Head(inbox[w]))] ELSE copy
    /\ UNCHANGED <<store, disk, sent, unsent, window, asked, dispatch, seen, restarts>>

ReceiveReply(w) ==
    /\ Received(w, "reply")
    /\ dispatch' = [dispatch EXCEPT ![w] = "idle"]
    /\ seen' = [seen EXCEPT ![w] = 0]
    /\ UNCHANGED <<store, disk, sent, unsent, window, asked, copy, restarts>>

Dispatch(w) ==
    /\ window[w] = "ready"
    /\ dispatch[w] = "idle"
    /\ dispatch' = [dispatch EXCEPT ![w] = "running"]
    /\ UNCHANGED <<store, disk, sent, unsent, window, asked, copy, inbox, seen, restarts>>

\* Mutant of EndDispatch: the reply does not wait for the update.
EndDispatchAtOnce(w) ==
    /\ dispatch[w] = "running"
    /\ seen' = [seen EXCEPT ![w] = store.change]
    /\ dispatch' = [dispatch EXCEPT ![w] = "answered"]
    /\ inbox' = [inbox EXCEPT ![w] = Append(@, Reply)]
    /\ UNCHANGED <<store, disk, sent, unsent, window, asked, copy, restarts>>

\* dispatchResponder: the thunk has a result or an error; the reply waits for
\* the update that is due, if any.
EndDispatch(w) ==
    /\ dispatch[w] = "running"
    /\ seen' = [seen EXCEPT ![w] = store.change]
    /\ dispatch' = [dispatch EXCEPT ![w] = IF unsent THEN "locked" ELSE "answered"]
    /\ inbox' = IF unsent THEN inbox ELSE [inbox EXCEPT ![w] = Append(@, Reply)]
    /\ UNCHANGED <<store, disk, sent, unsent, window, asked, copy, restarts>>

-----------------------------------------------------------------------------

\* The background is stopped and starts again from local storage; wrapStore
\* sends its state to the windows.  A thunk that was running is lost.
Restart ==
    /\ restarts < MaxRestarts
    /\ restarts' = restarts + 1
    /\ store' = disk /\ sent' = disk
    /\ unsent' = FALSE
    /\ inbox' = [w \in Windows |->
                    IF window[w] = "closed" THEN <<>>
                    ELSE Append(inbox[w], [type |-> "state", state |-> disk])]
    /\ dispatch' = [w \in Windows |->
                       IF dispatch[w] = "answered" THEN "answered" ELSE "idle"]
    /\ seen' = [w \in Windows |-> IF dispatch[w] = "answered" THEN seen[w] ELSE 0]
    /\ UNCHANGED <<disk, window, asked, copy>>

Answer(w)  == AnswerFetch(w) \/ EndDispatch(w)
Receive(w) == ReceiveState(w) \/ ReceivePatch(w) \/ ReceiveReply(w)

Next ==
    \/ Change \/ Store \/ SendUpdate \/ Restart
    \/ \E w \in Windows :
          OpenWindow(w) \/ CloseWindow(w) \/ Dispatch(w) \/ Answer(w) \/ Receive(w)

Spec == Init /\ [][Next]_vars

-----------------------------------------------------------------------------
(* Properties.                                                             *)

\* A window that gets the reply to what it dispatched has the changes made by
\* then ("to prevent race conditions where the UI expects the store to be
\* updated before the thunk has finished dispatching"): the reply never
\* overtakes the update.
RepliesSeeChanges ==
    [][\A w \in Windows : ReceiveReply(w) => copy[w].change >= seen[w]]_vars

\* A window that has received all there is has every change, whenever it was
\* opened: no difference is lost between the state it fetched and the first
\* difference it applies.
Settled(w) == window[w] = "ready" /\ inbox[w] = <<>> /\ ~unsent

NothingMissing ==
    \A w \in Windows :
        Settled(w) => /\ copy[w].change = store.change
                      /\ ToSet(store.list) \subseteq ToSet(copy[w].list)
=============================================================================
