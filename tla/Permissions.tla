------------------------------ MODULE Permissions ------------------------------
(***************************************************************************)
(* How sites get to see the accounts of the wallet: the permissions that   *)
(* ProviderBridgeService keeps for an origin, an account and a chain, the  *)
(* popups that ask for them, and the network of each origin, which         *)
(* InternalEthereumProviderService keeps.  Every await of the code         *)
(* separates two actions.                                                  *)
(***************************************************************************)
EXTENDS Integers

CONSTANTS
    MaxRequests, \* bound: requests of sites
    Origins,     \* sites
    Accounts,    \* accounts of the wallet
    Chains,      \* networks
    Main,        \* the wallet's own network, supported from the start
    Nothing,     \* no origin, no request, no account, no network
    Asks,        \* what sites ask for: origin, method and network
    MaxClicks    \* bound: accounts selected and sites disconnected

RequestIds == 1..MaxRequests

VARIABLES
    selected,  \* the selected account
    allowed,   \* dAppPermissions: triples of origin, account and chain
    network,   \* currentNetwork: the network of an origin, if it has its own
    supported, \* ChainService.supportedNetworks
    pending,   \* #pendingPermissionsRequests: the request of an origin
    offer,     \* permissionRequests: the store keeps the latest origin only
    flow,      \* where each request is in onMessageListener
    popup,     \* the popup of each request: none, open or closing
    grants,    \* grants on their way from a popup: origin and account
    denials,   \* denials and disconnections on their way: origins
    deletions, \* denials that know the selected account: origin and account
    moves,     \* calls of switchToSupportedNetwork: origin and chain
    clicks,    \* bound: how often
    held       \* history: accounts the origin of a request was permitted to
               \* see at some time since the request was made

windows == <<popup, grants, denials>>
vars == <<selected, allowed, network, supported, pending, offer, flow, windows,
          deletions, moves, clicks, held>>

\* A request: who asks for what, the network to switch to or to add, where the
\* request is, the network and the account read on the way, and the answer.
Methods == {"accounts", "switch", "add", "revoke"}

Stages ==
    {"idle", "network", "account", "permission", "asking", "checking", "waiting",
     "resolved", "reread", "persist", "revoking", "moving", "popup", "confirmed",
     "adding", "done"}

Idle ==
    [origin |-> Nothing, method |-> Nothing, target |-> Nothing, at |-> "idle",
     home |-> Nothing, chain |-> Nothing, account |-> Nothing, answer |-> Nothing]

TypeOK ==
    /\ selected \in Accounts
    /\ allowed \subseteq Origins \X Accounts \X Chains
    /\ network \in [Origins -> Chains \cup {Nothing}]
    /\ supported \subseteq Chains
    /\ pending \in [Origins -> RequestIds \cup {Nothing}]
    /\ offer \in Origins \cup {Nothing}
    /\ flow \in [RequestIds -> [origin : Origins \cup {Nothing},
                              method : Methods \cup {Nothing},
                              target : Chains \cup {Nothing},
                              at : Stages,
                              home : Chains \cup {Nothing},
                              chain : Chains \cup {Nothing},
                              account : Accounts \cup {Nothing},
                              answer : Accounts \cup {Nothing}]]
    /\ popup \in [RequestIds -> {"none", "open", "closing"}]
    /\ grants \subseteq Origins \X Accounts
    /\ denials \subseteq Origins
    /\ deletions \subseteq Origins \X Accounts
    /\ moves \subseteq Origins \X Chains
    /\ clicks \in 0..MaxClicks
    /\ held \in [RequestIds -> SUBSET Accounts]

Init ==
    /\ selected \in Accounts
    /\ allowed = {}
    /\ network = [o \in Origins |-> Nothing]
    /\ supported = {Main}
    /\ pending = [o \in Origins |-> Nothing]
    /\ offer = Nothing
    /\ flow = [r \in RequestIds |-> Idle]
    /\ popup = [r \in RequestIds |-> "none"]
    /\ grants = {} /\ denials = {} /\ deletions = {} /\ moves = {}
    /\ clicks = 0
    /\ held = [r \in RequestIds |-> {}]

-----------------------------------------------------------------------------
(* A request goes through onMessageListener.                               *)

Permitted(o, permissions) == {a \in Accounts : \E c \in Chains : <<o, a, c>> \in permissions}

Ask(r, o, method, c) ==
    /\ flow[r].at = "idle"
    /\ \A q \in 1..(r - 1) : flow[q].at # "idle"
    /\ flow' = [flow EXCEPT ![r].origin = o, ![r].method = method,
                            ![r].target = c, ![r].at = "network"]
    /\ held' = [held EXCEPT ![r] = Permitted(o, allowed)]
    /\ UNCHANGED <<selected, allowed, network, supported, pending, offer, windows,
                   deletions, moves, clicks>>

\* getCurrentOrDefaultNetworkForOrigin.
Current(o) == IF network[o] = Nothing THEN Main ELSE network[o]

Goes(r, place) == flow' = [flow EXCEPT ![r].at = place]

\* A request that is answered leaves nothing behind.
Ends(r, answer) == flow' = [flow EXCEPT ![r] = [Idle EXCEPT !.at = "done", !.answer = answer]]

\* What a step of a request leaves alone when it only reads.
Reading == UNCHANGED <<selected, allowed, network, supported, pending, offer,
                       windows, deletions, moves, held, clicks>>

ReadNetwork(r) ==
    /\ flow[r].at = "network"
    /\ flow' = [flow EXCEPT ![r].home = Current(flow[r].origin),
                            ![r].chain = Current(flow[r].origin), ![r].at = "account"]
    /\ Reading

ReadAccount(r) ==
    /\ flow[r].at = "account"
    /\ flow' = [flow EXCEPT ![r].account = selected, ![r].at = "permission"]
    /\ Reading

Has(r) == <<flow[r].origin, flow[r].account, flow[r].chain>> \in allowed

\* A request with a permission is answered or goes on; without one, a site may
\* ask for it, and only for that.  A revocation needs none.
ReadPermission(r) ==
    /\ flow[r].at = "permission"
    /\ CASE flow[r].method = "revoke" ->
                Goes(r, "revoking")
         [] flow[r].method = "accounts" /\ Has(r) ->
                Ends(r, flow[r].account)
         [] flow[r].method = "accounts" /\ ~Has(r) ->
                Goes(r, "asking")
         [] flow[r].method \in {"switch", "add"} ->
                IF Has(r) THEN Goes(r, "moving") ELSE Ends(r, Nothing)
    /\ Reading

\* wallet_revokePermissions: whatever the account and the chain.
RevokeOrigin(r) ==
    /\ flow[r].at = "revoking"
    /\ allowed' = {p \in allowed : p[1] # flow[r].origin}
    /\ Ends(r, Nothing)
    /\ UNCHANGED <<selected, network, supported, pending, offer, windows, deletions,
                   moves, held, clicks>>

\* The network is read once more, as eth_chainId.
ReadChain(r) ==
    /\ flow[r].at = "asking"
    /\ flow' = [flow EXCEPT ![r].chain = Current(flow[r].origin), ![r].at = "checking"]
    /\ Reading

\* Mutant of RequestPermission: whether a request is pending is not looked at.
RequestPermissionAnyway(r) ==
    /\ flow[r].at = "checking"
    /\ pending' = [pending EXCEPT ![flow[r].origin] = r]
    /\ offer' = flow[r].origin
    /\ popup' = [popup EXCEPT ![r] = "open"]
    /\ Goes(r, "waiting")
    /\ UNCHANGED <<selected, allowed, network, supported, grants, denials, deletions,
                   moves, held, clicks>>

\* After the existing permission is read (a stored one is always an "allow", so
\* it makes no difference): one request of an origin at a time, and the popup
\* shows the latest of all origins.
RequestPermission(r) ==
    /\ flow[r].at = "checking"
    /\ IF pending[flow[r].origin] = Nothing
       THEN /\ pending' = [pending EXCEPT ![flow[r].origin] = r]
            /\ offer' = flow[r].origin
            /\ popup' = [popup EXCEPT ![r] = "open"]
            /\ Goes(r, "waiting")
       ELSE /\ Ends(r, Nothing)
            /\ UNCHANGED <<pending, offer, popup>>
    /\ UNCHANGED <<selected, allowed, network, supported, grants, denials, deletions,
                   moves, held, clicks>>

\* The promise of the pending request of an origin is resolved: its request goes
\* on and the entry is deleted.
ResolvePending(o) ==
    /\ flow' = [r \in RequestIds |-> IF r = pending[o] THEN [flow[r] EXCEPT !.at = "resolved"]
                                                     ELSE flow[r]]
    /\ pending' = [pending EXCEPT ![o] = Nothing]

ReadAccountAgain(r) ==
    /\ flow[r].at = "resolved"
    /\ flow' = [flow EXCEPT ![r].account = selected, ![r].at = "reread"]
    /\ Reading

\* Mutant of ReadGranted: the end of the popup is taken for a grant.
TrustPopup(r) ==
    /\ flow[r].at = "reread"
    /\ flow' = [flow EXCEPT ![r].answer = flow[r].account, ![r].at = "persist"]
    /\ Reading

\* What was granted is what is in the database by now.
ReadGranted(r) ==
    /\ flow[r].at = "reread"
    /\ IF Has(r)
       THEN flow' = [flow EXCEPT ![r].answer = flow[r].account, ![r].at = "persist"]
       ELSE Ends(r, Nothing)
    /\ Reading

\* "on dApp connection, persist the current network/origin state": the network
\* that was read first.
PersistNetwork(r) ==
    /\ flow[r].at = "persist"
    /\ network' = [network EXCEPT ![flow[r].origin] = flow[r].home]
    /\ Ends(r, flow[r].answer)
    /\ UNCHANGED <<selected, allowed, supported, pending, offer, windows, deletions,
                   moves, held, clicks>>

-----------------------------------------------------------------------------
(* Networks: wallet_switchEthereumChain and wallet_addEthereumChain.       *)

\* A supported network is switched to, which is not waited for; for another one
\* that is to be added, the user is asked.
SwitchNetwork(r) ==
    /\ flow[r].at = "moving"
    /\ IF flow[r].target \in supported
       THEN /\ moves' = moves \cup {<<flow[r].origin, flow[r].target>>}
            /\ Ends(r, Nothing)
       ELSE /\ IF flow[r].method = "add" THEN Goes(r, "popup") ELSE Ends(r, Nothing)
            /\ UNCHANGED moves
    /\ UNCHANGED <<selected, allowed, network, supported, pending, offer, windows,
                   deletions, held, clicks>>

Move(m) ==
    /\ m \in moves
    /\ moves' = moves \ {m}
    /\ network' = [network EXCEPT ![m[1]] = m[2]]
    /\ UNCHANGED <<selected, allowed, supported, pending, offer, flow, windows,
                   deletions, held, clicks>>

\* handleAddNetworkRequest, from the page or from its closing.
AnswerAddChain(r) ==
    /\ flow[r].at = "popup"
    /\ Goes(r, "confirmed") \/ Ends(r, Nothing)
    /\ Reading

\* What a grant does: the database first, then whoever waits.
Grant(o, a, chains) ==
    /\ allowed' = allowed \cup ({o} \X {a} \X chains)
    /\ held' = [q \in RequestIds |-> IF flow[q].origin = o THEN held[q] \cup {a} ELSE held[q]]

\* The permission that was there when the network was asked for is given for the
\* new network, whatever became of it.
GrantChain(r) ==
    /\ flow[r].at = "confirmed"
    /\ Grant(flow[r].origin, flow[r].account, {flow[r].target})
    /\ pending' = [pending EXCEPT ![flow[r].origin] = Nothing]
    /\ flow' = [q \in RequestIds |->
                    IF q = r THEN [flow[q] EXCEPT !.at = "adding"]
                    ELSE IF q = pending[flow[r].origin] THEN [flow[q] EXCEPT !.at = "resolved"]
                    ELSE flow[q]]
    /\ UNCHANGED <<selected, network, supported, offer, windows, deletions, moves, clicks>>

\* addCustomChain, which may fail.
AddChain(r) ==
    /\ flow[r].at = "adding"
    /\ supported' \in {supported, supported \cup {flow[r].target}}
    /\ Ends(r, Nothing)
    /\ UNCHANGED <<selected, allowed, network, pending, offer, windows, deletions,
                   moves, held, clicks>>

-----------------------------------------------------------------------------
(* The user, and what comes of a click.                                    *)

Select(a) ==
    /\ selected # a
    /\ clicks < MaxClicks
    /\ clicks' = clicks + 1
    /\ selected' = a
    /\ UNCHANGED <<allowed, network, supported, pending, offer, flow, windows,
                   deletions, moves, held>>

\* The popup grants what is on offer to the account selected by now, and closes
\* itself.
ClickGrant(r) ==
    /\ popup[r] = "open"
    /\ grants' = grants \cup {<<offer, selected>>}
    /\ popup' = [popup EXCEPT ![r] = "closing"]
    /\ UNCHANGED <<selected, allowed, network, supported, pending, offer, flow,
                   denials, deletions, moves, held, clicks>>

\* A popup that is closed denies what is on offer.
ClosePopup(r) ==
    /\ popup[r] = "open"
    /\ denials' = denials \cup {offer}
    /\ popup' = [popup EXCEPT ![r] = "closing"]
    /\ UNCHANGED <<selected, allowed, network, supported, pending, offer, flow,
                   grants, deletions, moves, held, clicks>>

\* The list of connected sites.
Disconnect(o) ==
    /\ clicks < MaxClicks
    /\ clicks' = clicks + 1
    /\ \E c \in Chains : <<o, selected, c>> \in allowed
    /\ denials' = denials \cup {o}
    /\ UNCHANGED <<selected, allowed, network, supported, pending, offer, flow,
                   popup, grants, deletions, moves, held>>

\* Mutant of PopupRemoved: nobody is told that the window is gone.
PopupRemovedQuietly(r) ==
    /\ popup[r] = "closing"
    /\ popup' = [popup EXCEPT ![r] = "none"]
    /\ UNCHANGED <<selected, allowed, network, supported, pending, offer, flow,
                   grants, denials, deletions, moves, held, clicks>>

\* onClose resolves the promise of the request the popup was opened for, before
\* or after what was clicked there has come in.
PopupRemoved(r) ==
    /\ popup[r] = "closing"
    /\ popup' = [popup EXCEPT ![r] = "none"]
    /\ IF flow[r].at = "waiting" THEN ResolvePending(flow[r].origin)
                                 ELSE UNCHANGED <<flow, pending>>
    /\ UNCHANGED <<selected, allowed, network, supported, offer, grants, denials,
                   deletions, moves, held, clicks>>

\* A grant is for every supported network.
GrantPermission(g) ==
    /\ g \in grants
    /\ grants' = grants \ {g}
    /\ Grant(g[1], g[2], supported)
    /\ ResolvePending(g[1])
    /\ UNCHANGED <<selected, network, supported, offer, popup, denials, deletions,
                   moves, clicks>>

\* denyOrRevokePermission: it is the selected account that loses its permission.
DenyPermission(o) ==
    /\ o \in denials
    /\ denials' = denials \ {o}
    /\ deletions' = deletions \cup {<<o, selected>>}
    /\ UNCHANGED <<selected, allowed, network, supported, pending, offer, flow,
                   popup, grants, moves, held, clicks>>

DeletePermission(d) ==
    /\ d \in deletions
    /\ deletions' = deletions \ {d}
    /\ allowed' = allowed \ ({d[1]} \X {d[2]} \X supported)
    /\ network' = [network EXCEPT ![d[1]] = IF @ \in supported THEN Nothing ELSE @]
    /\ ResolvePending(d[1])
    /\ UNCHANGED <<selected, supported, offer, windows, moves, held, clicks>>

\* revokePermissionsForAddress, when an account is removed.
RemoveAccount(a) ==
    /\ selected # a
    /\ \E p \in allowed : p[2] = a
    /\ allowed' = {p \in allowed : p[2] # a}
    /\ UNCHANGED <<selected, network, supported, pending, offer, flow, windows,
                   deletions, moves, clicks, held>>

-----------------------------------------------------------------------------

\* The steps of a request that nobody but the wallet's databases delays.
Step(r) ==
    \/ ReadNetwork(r) \/ ReadAccount(r) \/ ReadPermission(r) \/ RevokeOrigin(r)
    \/ ReadChain(r) \/ RequestPermission(r) \/ ReadAccountAgain(r) \/ ReadGranted(r)
    \/ PersistNetwork(r) \/ SwitchNetwork(r) \/ GrantChain(r) \/ AddChain(r)

Next ==
    \/ \E r \in RequestIds, ask \in Asks : Ask(r, ask[1], ask[2], ask[3])
    \/ \E r \in RequestIds :
           Step(r) \/ AnswerAddChain(r) \/ ClickGrant(r) \/ ClosePopup(r) \/ PopupRemoved(r)
    \/ \E m \in moves : Move(m)
    \/ \E g \in grants : GrantPermission(g)
    \/ \E o \in Origins : Disconnect(o) \/ DenyPermission(o)
    \/ \E d \in deletions : DeletePermission(d)
    \/ \E a \in Accounts : Select(a) \/ RemoveAccount(a)

Spec == Init /\ [][Next]_vars

-----------------------------------------------------------------------------
(* Properties.                                                             *)

\* "We only allow one in-flight permissions request for a given domain at a
\* time": whoever waits for its user is the pending request of its origin,
\* although the check comes four awaits after the request.
OneRequestPerOrigin ==
    \A r \in RequestIds, o \in Origins :
        flow[r].at = "waiting" /\ flow[r].origin = o <=> pending[o] = r

\* A site is told of an account only if it had a permission for that account at
\* some time since it asked, whichever account is selected, and whatever is
\* granted, denied or closed meanwhile in its popup or in that of another site.
DisclosedWasAllowed ==
    \A r \in RequestIds : flow[r].answer # Nothing => flow[r].answer \in held[r]

\* Every request ends once its popup is closed, also when that popup showed the
\* request of another site and denied or granted that one.
RequestsEnd ==
    \A r \in RequestIds : flow[r].at = "network" ~> flow[r].at = "done"

\* What RequestsEnd rests on: whoever waits for its user still has the popup that
\* was opened for it, or the news of its removal on the way, although another
\* site's popup, a grant of a network or a denial may settle it first
\* (requestPermission).
WaitersHavePopups ==
    \A r \in RequestIds : flow[r].at = "waiting" => popup[r] \in {"open", "closing"}
=============================================================================
