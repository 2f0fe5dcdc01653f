------------------------------- MODULE NameCache -------------------------------
(***************************************************************************)
(* NameService: the name the wallet shows for one address.  The user's     *)
(* address book is asked first and answers at once; the name services on   *)
(* chain answer later, in any order.  What was found is cached for ten     *)
(* seconds, and the UI is told of a name only when it differs from the     *)
(* cached one that the lookup started with.                                *)
(***************************************************************************)
EXTENDS Integers

CONSTANTS
    Lookups,    \* lookups at the name services under way together, at most
    BookNames,  \* names the user may give the address
    ChainNames, \* names it may have on chain, others than the user's
    NoName,     \* no name
    MaxChanges  \* bound: changes of the book and of the name on chain

VARIABLES
    book,      \* the name in the address book
    edited,    \* addressBookEntryModified is on its way
    onChain,   \* the name at the name services
    cached,    \* cachedResolvedNames
    expired,   \* expiresAt has passed
    lookup,    \* per lookup under way: the cached name it started with
    shown,     \* the name in the store
    changes

vars == <<book, edited, onChain, cached, expired, lookup, shown, changes>>

Names == BookNames \cup ChainNames \cup {NoName}

\* A lookup that is not under way.
None == "none"

TypeOK ==
    /\ book \in BookNames \cup {NoName}
    /\ onChain \in ChainNames \cup {NoName}
    /\ {cached, shown} \subseteq Names
    /\ {edited, expired} \subseteq BOOLEAN
    /\ lookup \in [Lookups -> Names \cup {None}]
    /\ changes \in 0..MaxChanges

Init ==
    /\ book = NoName
    /\ edited = FALSE
    /\ onChain \in ChainNames \cup {NoName}
    /\ cached = NoName
    /\ expired = FALSE
    /\ lookup = [l \in Lookups |-> None]
    /\ shown = NoName
    /\ changes = 0

-----------------------------------------------------------------------------

\* A name was found by a lookup that started with the cached name `before`.
Found(name, before) ==
    /\ cached' = name
    /\ expired' = FALSE
    /\ shown' = IF name # before THEN name ELSE shown

\* lookUpName past the cache, which holds `before`: the book answers, or the name
\* services are asked.
Resolve(l, before) ==
    IF book # NoName
    THEN Found(book, before) /\ UNCHANGED lookup
    ELSE /\ lookup[l] = None
         /\ lookup' = [lookup EXCEPT ![l] = before]
         /\ cached' = before
         /\ UNCHANGED <<expired, shown>>

\* Mutant of LookUp: a cached name is good for ever.
LookUpUncached(l) ==
    /\ cached = NoName
    /\ Resolve(l, cached)
    /\ UNCHANGED <<book, edited, onChain, changes>>

\* Whoever shows the address looks its name up; a fresh name is returned.
LookUp(l) ==
    /\ cached = NoName \/ expired
    /\ Resolve(l, cached)
    /\ UNCHANGED <<book, edited, onChain, changes>>

\* The name services answer with the name of that time, or fail.
ChainAnswers(l) ==
    /\ lookup[l] # None
    /\ lookup' = [lookup EXCEPT ![l] = None]
    /\ \/ onChain # NoName /\ Found(onChain, lookup[l])
       \/ UNCHANGED <<cached, expired, shown>>
    /\ UNCHANGED <<book, edited, onChain, changes>>

EditBook(name) ==
    /\ changes < MaxChanges
    /\ changes' = changes + 1
    /\ book' = name
    /\ edited' = TRUE
    /\ UNCHANGED <<onChain, cached, expired, lookup, shown>>

\* The listener of addressBookEntryModified clears the cache and looks up.
HandleEdit(l) ==
    /\ edited
    /\ edited' = FALSE
    /\ Resolve(l, NoName)
    /\ UNCHANGED <<book, onChain, changes>>

\* removeAccount.
ClearEntry ==
    /\ cached # NoName
    /\ cached' = NoName
    /\ expired' = FALSE
    /\ UNCHANGED <<book, edited, onChain, lookup, shown, changes>>

Register(name) ==
    /\ changes < MaxChanges
    /\ changes' = changes + 1
    /\ onChain' = name
    /\ UNCHANGED <<book, edited, cached, expired, lookup, shown>>

Expire ==
    /\ cached # NoName
    /\ ~expired
    /\ expired' = TRUE
    /\ UNCHANGED <<book, edited, onChain, cached, lookup, shown, changes>>

LookUpAny == \E l \in Lookups : LookUp(l)
HandleAny == \E l \in Lookups : HandleEdit(l)

Next ==
    \/ LookUpAny \/ HandleAny
    \/ \E l \in Lookups : ChainAnswers(l)
    \/ \E name \in BookNames : EditBook(name)
    \/ \E name \in ChainNames \cup {NoName} : Register(name)
    \/ ClearEntry \/ Expire

Spec == Init /\ [][Next]_vars

-----------------------------------------------------------------------------
(* Properties.                                                             *)

\* The name the user gave is shown in the end, whatever lookups were under way
\* when it was given and whatever they bring back later ("User-controlled
\* resolvers are higher priority"): an old answer is shown, and cached, until
\* the cache expires and the address is looked up again.
NameSettles == <>[](book # NoName => shown = book)

\* What NameSettles rests on: once the change is handled, the name the user gave
\* is not cached unless it is shown; cached but not shown, it would be taken for
\* old news by every later lookup, which tells the UI of a name only when it
\* differs from the cached one (lookUpName).
CachedIsShown == book # NoName /\ ~edited /\ cached = book => shown = book
=============================================================================
