------------------------- MODULE EventSubscriptions -------------------------
(***************************************************************************)
(* Event listeners of a SerialFallbackProvider, which follow it from one   *)
(* underlying provider to the next: on, once, the reconnects, and the      *)
(* return to the first provider.  Every listener has an event of its own   *)
(* (ChainService listens for the receipt of one transaction).              *)
(*                                                                         *)
(* An underlying provider calls its listeners in any order and at any time *)
(* as long as it lives, whether it is the current one or not: it polls.    *)
(* Direct subscriptions of sockets and off(), which nothing in the         *)
(* extension calls, are left out.                                          *)
(***************************************************************************)
EXTENDS Integers, Sequences

CONSTANTS
    OnceListeners,     \* listeners for once()
    LastingListeners,  \* listeners for on()
    LastProvider,      \* index of the last provider creator
    SocketCreators,    \* indices whose creator makes a WebSocketProvider
    MaxProviders       \* bound: underlying providers created

Listeners == OnceListeners \cup LastingListeners
Indices   == 0..LastProvider
NoProvider == 0

VARIABLES
    providers,  \* the underlying providers, in the order of their creation
    current,    \* currentProvider
    index,      \* currentProviderIndex
    cached,     \* cachedProvidersByIndex
    joining,    \* attemptToReconnectToPrimaryProvider waits with this one
    saved,      \* eventSubscriptions
    registered, \* listeners passed to on() or once()
    calls       \* history: how often each listener was called

vars == <<providers, current, index, cached, joining, saved, registered, calls>>

\* A listener as a provider knows it: cleanup is the wrapper that takes it out
\* of eventSubscriptions after its call.
Heard == [listener : Listeners, cleanup : BOOLEAN]

TypeOK ==
    /\ providers \in Seq([index : Indices, ready : BOOLEAN, heard : Seq(Heard),
                          socket : {"none", "connecting", "open", "closed"}])
    /\ current \in DOMAIN providers
    /\ index \in Indices
    /\ cached \in [Indices -> {NoProvider} \cup DOMAIN providers]
    /\ joining \in {NoProvider} \cup DOMAIN providers
    /\ saved \in Seq(Heard)
    /\ registered \subseteq Listeners
    /\ calls \in [Listeners -> Nat]

\* A provider that was just created has not learnt its network yet.
Created(i) ==
    [index |-> i, ready |-> FALSE, heard |-> <<>>,
     socket |-> IF i \in SocketCreators THEN "connecting" ELSE "none"]

Init ==
    /\ providers = <<Created(0)>>
    /\ current = 1
    /\ index = 0
    /\ cached = [i \in Indices |-> IF i = 0 THEN 1 ELSE NoProvider]
    /\ joining = NoProvider
    /\ saved = <<>>
    /\ registered = {}
    /\ calls = [l \in Listeners |-> 0]

-----------------------------------------------------------------------------
(* Listeners.                                                              *)

\* What is noted and what the current provider is given.
Register(l, noted, given) ==
    /\ l \notin registered
    /\ registered' = registered \cup {l}
    /\ saved' = Append(saved, noted)
    /\ providers' = [providers EXCEPT ![current].heard = Append(@, given)]
    /\ UNCHANGED <<current, index, cached, joining, calls>>

Bare(l)    == [listener |-> l, cleanup |-> FALSE]
Wrapped(l) == [listener |-> l, cleanup |-> TRUE]

On(l) == l \in LastingListeners /\ Register(l, Bare(l), Bare(l))

\* The wrapper is noted, the bare listener is given to the provider.
Once(l) == l \in OnceListeners /\ Register(l, Wrapped(l), Bare(l))

Of(l, heard)      == SelectSeq(heard, LAMBDA h : h.listener = l)
Without(l, heard) == SelectSeq(heard, LAMBDA h : h.listener # l)

\* What the cleanup of l leaves of eventSubscriptions.
Unwrapped(l, noted) == SelectSeq(noted, LAMBDA h : h # Wrapped(l))

\* The event of l at a living provider: all its listeners are called, those
\* attached by once go, and a wrapper cleans up.
Emit(p, l) ==
    LET heard  == providers[p].heard
        called == Of(l, heard)
    IN  /\ providers[p].ready /\ providers[p].socket \in {"none", "open"}
        /\ called # <<>>
        /\ calls' = [calls EXCEPT ![l] = @ + Len(called)]
        /\ saved' = IF Wrapped(l) \in {called[i] : i \in DOMAIN called}
                    THEN Unwrapped(l, saved)
                    ELSE saved
        /\ providers' = IF l \in OnceListeners
                        THEN [providers EXCEPT ![p].heard = Without(l, heard)]
                        ELSE providers
        /\ UNCHANGED <<current, index, cached, joining, registered>>

-----------------------------------------------------------------------------
(* Reconnects.                                                             *)

\* disconnectCurrentProvider: a socket is destroyed.  From other providers
\* nothing is taken: removeAllListeners is called on the SerialFallbackProvider
\* itself, which has no listeners of its own.
Disconnected ==
    IF providers[current].socket # "none"
    THEN [providers EXCEPT ![current].socket = "closed"]
    ELSE providers

\* resubscribe
Takes(p) == p.socket \in {"none", "open"} /\ p.ready

WithSaved(p) == IF Takes(p) THEN [p EXCEPT !.heard = @ \o saved] ELSE p

\* reconnectProvider, after the index was set to i.
Reconnect(i) ==
    LET created == cached[i] = NoProvider
        all     == IF created THEN Append(Disconnected, Created(i)) ELSE Disconnected
        p       == IF created THEN Len(all) ELSE cached[i]
    IN  /\ Len(all) <= MaxProviders
        /\ providers' = [all EXCEPT ![p] = WithSaved(@)]
        /\ current' = p
        /\ index' = i
        /\ cached' = [cached EXCEPT ![i] = p]
        /\ UNCHANGED <<joining, saved, registered, calls>>

\* Failures of messages go on to the next provider and at last back to the
\* first one; a closed socket is connected again.
FailOver ==
    \/ index < LastProvider /\ Reconnect(index + 1)
    \/ index = LastProvider /\ Reconnect(0)
    \/ providers[current].socket = "closed" /\ Reconnect(index)

TryPrimary ==
    /\ index # 0
    /\ joining = NoProvider
    /\ Len(providers) < MaxProviders
    /\ providers' = Append(providers, Created(0))
    /\ joining' = Len(providers')
    /\ UNCHANGED <<current, index, cached, saved, registered, calls>>

\* The provider of the attempt becomes current, without being cached.
Rejoin ==
    /\ joining # NoProvider
    /\ joining' = NoProvider
    /\ IF Takes(providers[joining])
       THEN /\ providers' = [Disconnected EXCEPT ![joining] = WithSaved(@)]
            /\ current' = joining
            /\ index' = 0
       ELSE UNCHANGED <<providers, current, index>>
    /\ UNCHANGED <<cached, saved, registered, calls>>

\* A provider learns its network, once its socket is open; a socket may close.
Change(p) ==
    /\ \/ /\ providers[p].socket \in {"none", "open"} /\ ~providers[p].ready
          /\ providers' = [providers EXCEPT ![p].ready = TRUE]
       \/ /\ providers[p].socket = "connecting"
          /\ \E s \in {"open", "closed"} : providers' = [providers EXCEPT ![p].socket = s]
       \/ /\ providers[p].socket = "open"
          /\ providers' = [providers EXCEPT ![p].socket = "closed"]
    /\ UNCHANGED <<current, index, cached, joining, saved, registered, calls>>

Next ==
    \/ \E l \in Listeners : On(l) \/ Once(l) \/ \E p \in DOMAIN providers : Emit(p, l)
    \/ FailOver \/ TryPrimary \/ Rejoin
    \/ \E p \in DOMAIN providers : Change(p)

Spec == Init /\ [][Next]_vars

-----------------------------------------------------------------------------
(* Properties.                                                             *)

\* A listener passed to once() is called once, also across a switch of
\* provider: it is "meant to only be invoked once with cleanup to ensure it
\* won't be resubscribed in case of a provider switch" (listenerWithCleanup).
CalledOnce == \A l \in OnceListeners : calls[l] <= 1

\* The current provider is one of the creator at currentProviderIndex, whichever
\* of a failing message, a closed socket and the return to the first provider
\* moved them last; so is every cached one of the creator at its index, and what
\* waits to become the first is of the first creator.
CreatorsMatch ==
    /\ providers[current].index = index
    /\ \A i \in Indices : cached[i] # NoProvider => providers[cached[i]].index = i
    /\ joining # NoProvider => providers[joining].index = 0
=============================================================================
