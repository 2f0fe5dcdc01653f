-------------------------- MODULE PermissionsProofs --------------------------
(***************************************************************************)
(* Theorems about Permissions for every set of sites, accounts and chains  *)
(* and any number of requests: type correctness, one pending request per   *)
(* origin, what a site is told, and that whoever waits for its user has a  *)
(* popup.                                                                  *)
(***************************************************************************)
EXTENDS Permissions, TLAPS

\* The constants are what they stand for.
Sensible ==
    /\ MaxRequests \in Nat /\ MaxClicks \in Nat
    /\ Main \in Chains
    /\ Nothing \notin Origins \cup RequestIds \cup Methods
    /\ \A ask \in Asks :
          /\ ask[1] \in Origins /\ ask[2] \in Methods
          /\ ask[3] \in Chains \cup {Nothing}
          /\ ask[2] \in {"switch", "add"} => ask[3] \in Chains

Flows ==
    [origin : Origins \cup {Nothing}, method : Methods \cup {Nothing},
     target : Chains \cup {Nothing}, at : Stages, home : Chains \cup {Nothing},
     chain : Chains \cup {Nothing}, account : Accounts \cup {Nothing},
     answer : Accounts \cup {Nothing}]

Active(f) == f.at \notin {"idle", "done"}

\* What a request has by the time it is where it is.
Ready(f) ==
    /\ Active(f) => f.origin \in Origins /\ f.method \in Methods
    /\ f.at \in {"idle", "network", "account", "done"} \/ f.account \in Accounts
    /\ f.method \in {"switch", "add"} => f.target \in Chains
    /\ f.at \in {"moving", "popup", "confirmed", "adding"} => f.target \in Chains
    /\ f.at = "idle" => f.answer = Nothing

Offered == \A r \in RequestIds : popup[r] = "open" => offer \in Origins

TypeInv == TypeOK /\ (\A r \in RequestIds : Ready(flow[r])) /\ Offered

-----------------------------------------------------------------------------
(* Type correctness.                                                       *)

LEMMA TypeInit == ASSUME Sensible, Init PROVE TypeInv
<1>1. Idle \in Flows /\ Ready(Idle)
  BY DEF Sensible, Idle, Flows, Stages, Ready, Active, Methods
<1> QED BY <1>1 DEF Sensible, Init, TypeInv, TypeOK, Offered, Flows

\* A step of one request.
LEMMA FlowStep ==
    ASSUME TypeInv, NEW r \in RequestIds, NEW f \in Flows, Ready(f),
           flow' = [flow EXCEPT ![r] = f]
    PROVE  flow' \in [RequestIds -> Flows] /\ \A q \in RequestIds : Ready(flow'[q])
BY DEF TypeInv, TypeOK, Flows

\* A request that ends.
LEMMA EndsStep ==
    ASSUME Sensible, TypeInv, NEW r \in RequestIds, NEW a \in Accounts \cup {Nothing}, Ends(r, a)
    PROVE  flow' \in [RequestIds -> Flows] /\ \A q \in RequestIds : Ready(flow'[q])
<1> DEFINE f == [Idle EXCEPT !.at = "done", !.answer = a]
<1>1. f \in Flows /\ Ready(f)
  BY DEF Sensible, Idle, Flows, Stages, Ready, Active, Methods
<1> QED BY <1>1, FlowStep DEF Ends

\* A request that goes on, where it has what it needs there.
LEMMA GoesStep ==
    ASSUME TypeInv, NEW r \in RequestIds, NEW place \in Stages, Goes(r, place),
           Active(flow[r]), place # "idle",
           place \in {"network", "account", "done"} \/ flow[r].account \in Accounts,
           place \in {"moving", "popup", "confirmed", "adding"} => flow[r].target \in Chains
    PROVE  flow' \in [RequestIds -> Flows] /\ \A q \in RequestIds : Ready(flow'[q])
<1> DEFINE f == [flow[r] EXCEPT !.at = place]
<1>1. f \in Flows /\ Ready(f)
  BY DEF TypeInv, TypeOK, Flows, Ready, Active
<1> QED BY <1>1, FlowStep DEF Goes

\* A promise that is resolved.
LEMMA ResolveStep ==
    ASSUME Sensible, TypeInv, OneRequestPerOrigin, NEW o \in Origins, ResolvePending(o)
    PROVE  /\ flow' \in [RequestIds -> Flows] /\ \A q \in RequestIds : Ready(flow'[q])
           /\ pending' \in [Origins -> RequestIds \cup {Nothing}]
<1>1. ASSUME NEW q \in RequestIds PROVE flow'[q] \in Flows /\ Ready(flow'[q])
  <2>1. CASE q # pending[o]
    BY <2>1 DEF ResolvePending, TypeInv, TypeOK, Flows
  <2>2. CASE q = pending[o]
    <3>1. flow[q].at = "waiting" /\ flow[q] \in Flows /\ Ready(flow[q])
      BY <2>2 DEF OneRequestPerOrigin, TypeInv, TypeOK, Flows
    <3>2. flow'[q] = [flow[q] EXCEPT !.at = "resolved"]
      BY <2>2 DEF ResolvePending
    <3> QED BY <3>1, <3>2 DEF Flows, Ready, Active, Stages
  <2> QED BY <2>1, <2>2
<1>2. flow' \in [RequestIds -> Flows]
  BY <1>1 DEF ResolvePending
<1> QED BY <1>1, <1>2 DEF ResolvePending, TypeInv, TypeOK

\* A step that only moves one request.
LEMMA ReadingType ==
    ASSUME TypeInv, Reading,
           flow' \in [RequestIds -> Flows], \A q \in RequestIds : Ready(flow'[q])
    PROVE  TypeInv'
BY DEF Reading, windows, TypeInv, TypeOK, Offered, Flows

LEMMA AskType ==
    ASSUME Sensible, TypeInv, NEW r \in RequestIds, NEW ask \in Asks,
           Ask(r, ask[1], ask[2], ask[3])
    PROVE  TypeInv'
<1> DEFINE f == [flow[r] EXCEPT !.origin = ask[1], !.method = ask[2],
                                !.target = ask[3], !.at = "network"]
<1>1. f \in Flows /\ Ready(f)
  BY DEF Ask, Sensible, TypeInv, TypeOK, Flows, Ready, Active, Stages
<1>2. flow' = [flow EXCEPT ![r] = f]
  BY DEF Ask
<1>3. flow' \in [RequestIds -> Flows] /\ \A q \in RequestIds : Ready(flow'[q])
  BY <1>1, <1>2, FlowStep
<1>4. held' \in [RequestIds -> SUBSET Accounts]
  BY DEF Ask, TypeInv, TypeOK, Permitted
<1> QED BY <1>3, <1>4 DEF Ask, windows, TypeInv, TypeOK, Offered, Flows

\* The steps of a request that only read.
LEMMA ReadType ==
    ASSUME Sensible, TypeInv, NEW r \in RequestIds,
           \/ ReadNetwork(r) \/ ReadAccount(r) \/ ReadPermission(r) \/ ReadChain(r)
           \/ ReadAccountAgain(r) \/ ReadGranted(r) \/ AnswerAddChain(r)
    PROVE  TypeInv'
<1>0. flow[r] \in Flows /\ Ready(flow[r])
  BY DEF TypeInv, TypeOK, Flows
<1>1. Reading
  BY DEF ReadNetwork, ReadAccount, ReadPermission, ReadChain, ReadAccountAgain,
         ReadGranted, AnswerAddChain
<1>2. Current(flow[r].origin) \in Chains \cup {Nothing} \/ flow[r].origin \notin Origins
  BY DEF Current, Sensible, TypeInv, TypeOK
<1>3. CASE ReadNetwork(r)
  <2> DEFINE f == [flow[r] EXCEPT !.home = Current(flow[r].origin),
                                  !.chain = Current(flow[r].origin), !.at = "account"]
  <2>1. flow[r].origin \in Origins
    BY <1>0, <1>3 DEF ReadNetwork, Ready, Active
  <2>2. f \in Flows /\ Ready(f)
    BY <1>0, <1>2, <1>3, <2>1 DEF ReadNetwork, Flows, Ready, Active, Stages
  <2>3. flow' = [flow EXCEPT ![r] = f]
    BY <1>3 DEF ReadNetwork
  <2> QED BY <1>1, <2>2, <2>3, FlowStep, ReadingType
<1>4. CASE ReadAccount(r) \/ ReadAccountAgain(r)
  <2>1. PICK place \in {"permission", "reread"} :
            flow' = [flow EXCEPT ![r] = [flow[r] EXCEPT !.account = selected, !.at = place]]
    BY <1>4 DEF ReadAccount, ReadAccountAgain
  <2> DEFINE f == [flow[r] EXCEPT !.account = selected, !.at = place]
  <2>2. f \in Flows /\ Ready(f)
    BY <1>0, <1>4 DEF ReadAccount, ReadAccountAgain, TypeInv, TypeOK, Flows, Ready,
                      Active, Stages
  <2> QED BY <1>1, <2>1, <2>2, FlowStep, ReadingType
<1>5. CASE ReadPermission(r)
  <2>1. \/ \E a \in Accounts \cup {Nothing} : Ends(r, a)
        \/ Goes(r, "revoking") \/ Goes(r, "asking")
        \/ Goes(r, "moving") /\ flow[r].method \in {"switch", "add"}
    BY <1>0, <1>5 DEF ReadPermission, Ready, Active, Methods
  <2>2. Active(flow[r]) /\ flow[r].account \in Accounts
    BY <1>0, <1>5 DEF ReadPermission, Ready, Active
  <2>3. flow[r].method \in {"switch", "add"} => flow[r].target \in Chains
    BY <1>0 DEF Ready
  <2>4. flow' \in [RequestIds -> Flows] /\ \A q \in RequestIds : Ready(flow'[q])
    BY <2>1, <2>2, <2>3, EndsStep, GoesStep DEF Stages
  <2> QED BY <1>1, <2>4, ReadingType
<1>6. CASE ReadChain(r)
  <2> DEFINE f == [flow[r] EXCEPT !.chain = Current(flow[r].origin), !.at = "checking"]
  <2>1. flow[r].origin \in Origins
    BY <1>0, <1>6 DEF ReadChain, Ready, Active
  <2>2. f \in Flows /\ Ready(f)
    BY <1>0, <1>2, <1>6, <2>1 DEF ReadChain, Flows, Ready, Active, Stages
  <2>3. flow' = [flow EXCEPT ![r] = f]
    BY <1>6 DEF ReadChain
  <2> QED BY <1>1, <2>2, <2>3, FlowStep, ReadingType
<1>7. CASE ReadGranted(r)
  <2> DEFINE f == [flow[r] EXCEPT !.answer = flow[r].account, !.at = "persist"]
  <2>1. flow' = [flow EXCEPT ![r] = f] \/ Ends(r, Nothing)
    BY <1>7 DEF ReadGranted
  <2>2. f \in Flows /\ Ready(f)
    BY <1>0, <1>7 DEF ReadGranted, Flows, Ready, Active, Stages
  <2> QED BY <1>1, <2>1, <2>2, FlowStep, EndsStep, ReadingType
<1>8. CASE AnswerAddChain(r)
  <2>1. Goes(r, "confirmed") \/ Ends(r, Nothing)
    BY <1>8 DEF AnswerAddChain
  <2>2. Active(flow[r]) /\ flow[r].account \in Accounts /\ flow[r].target \in Chains
    BY <1>0, <1>8 DEF AnswerAddChain, Ready, Active
  <2>3. flow' \in [RequestIds -> Flows] /\ \A q \in RequestIds : Ready(flow'[q])
    BY <2>1, <2>2, EndsStep, GoesStep DEF Stages
  <2> QED BY <1>1, <2>3, ReadingType
<1> QED BY <1>3, <1>4, <1>5, <1>6, <1>7, <1>8

\* The steps of a request that change the databases, the store or the networks.
LEMMA WriteType ==
    ASSUME Sensible, TypeInv, OneRequestPerOrigin, NEW r \in RequestIds,
           \/ RevokeOrigin(r) \/ RequestPermission(r) \/ PersistNetwork(r)
           \/ SwitchNetwork(r) \/ GrantChain(r) \/ AddChain(r)
    PROVE  TypeInv'
<1>0. flow[r] \in Flows /\ Ready(flow[r])
  BY DEF TypeInv, TypeOK, Flows
<1>1. CASE RevokeOrigin(r)
  <2>1. flow' \in [RequestIds -> Flows] /\ \A q \in RequestIds : Ready(flow'[q])
    BY <1>1, EndsStep DEF RevokeOrigin
  <2> QED BY <1>1, <2>1 DEF RevokeOrigin, windows, TypeInv, TypeOK, Offered, Flows
<1>2. CASE RequestPermission(r)
  <2>1. flow[r].at = "checking" /\ flow[r].origin \in Origins /\ flow[r].account \in Accounts
    BY <1>0, <1>2 DEF RequestPermission, Ready, Active
  <2>2. CASE pending[flow[r].origin] = Nothing
    <3>1. Goes(r, "waiting")
      BY <1>2, <2>2 DEF RequestPermission
    <3>2. flow' \in [RequestIds -> Flows] /\ \A q \in RequestIds : Ready(flow'[q])
      BY <2>1, <3>1, GoesStep DEF Active, Stages
    <3>3. /\ pending' \in [Origins -> RequestIds \cup {Nothing}]
          /\ popup' \in [RequestIds -> {"none", "open", "closing"}]
          /\ offer' \in Origins
      BY <1>2, <2>1, <2>2 DEF RequestPermission, TypeInv, TypeOK
    <3>4. UNCHANGED <<selected, allowed, network, supported, grants, denials,
                      deletions, moves, held, clicks>>
      BY <1>2 DEF RequestPermission
    <3> QED BY <3>2, <3>3, <3>4 DEF TypeInv, TypeOK, Offered, Flows
  <2>3. CASE pending[flow[r].origin] # Nothing
    <3>1. flow' \in [RequestIds -> Flows] /\ \A q \in RequestIds : Ready(flow'[q])
      BY <1>2, <2>3, EndsStep DEF RequestPermission
    <3> QED BY <1>2, <2>3, <3>1 DEF RequestPermission, TypeInv, TypeOK, Offered, Flows
  <2> QED BY <2>2, <2>3
<1>3. CASE PersistNetwork(r)
  <2>1. flow[r].answer \in Accounts \cup {Nothing} /\ flow[r].home \in Chains \cup {Nothing}
    BY <1>0 DEF Flows
  <2>2. flow' \in [RequestIds -> Flows] /\ \A q \in RequestIds : Ready(flow'[q])
    BY <1>3, <2>1, EndsStep DEF PersistNetwork
  <2> QED BY <1>3, <2>1, <2>2 DEF PersistNetwork, windows, TypeInv, TypeOK, Offered, Flows
<1>4. CASE SwitchNetwork(r)
  <2>1. /\ Active(flow[r]) /\ flow[r].account \in Accounts
        /\ flow[r].origin \in Origins /\ flow[r].target \in Chains
    BY <1>0, <1>4 DEF SwitchNetwork, Ready, Active
  <2>2. Goes(r, "popup") \/ Ends(r, Nothing)
    BY <1>4 DEF SwitchNetwork
  <2>3. flow' \in [RequestIds -> Flows] /\ \A q \in RequestIds : Ready(flow'[q])
    BY <2>1, <2>2, GoesStep, EndsStep DEF Stages
  <2>4. moves' \subseteq Origins \X Chains
    BY <1>4, <2>1 DEF SwitchNetwork, TypeInv, TypeOK
  <2> QED BY <1>4, <2>3, <2>4 DEF SwitchNetwork, windows, TypeInv, TypeOK, Offered, Flows
<1>5. CASE GrantChain(r)
  <2>1. /\ flow[r].origin \in Origins /\ flow[r].account \in Accounts
        /\ flow[r].target \in Chains
    BY <1>0, <1>5 DEF GrantChain, Ready, Active
  <2>2. ASSUME NEW q \in RequestIds PROVE flow'[q] \in Flows /\ Ready(flow'[q])
    <3>1. flow[q] \in Flows /\ Ready(flow[q])
      BY DEF TypeInv, TypeOK, Flows
    <3>2. CASE q = r
      <4>1. flow'[q] = [flow[q] EXCEPT !.at = "adding"] /\ flow[q].at = "confirmed"
        BY <1>5, <3>2 DEF GrantChain
      <4> QED BY <3>1, <4>1 DEF Flows, Ready, Active, Stages
    <3>3. CASE q # r /\ q = pending[flow[r].origin]
      <4>1. flow'[q] = [flow[q] EXCEPT !.at = "resolved"]
        BY <1>5, <3>3 DEF GrantChain
      <4>2. flow[q].at = "waiting"
        BY <2>1, <3>3 DEF OneRequestPerOrigin
      <4> QED BY <3>1, <4>1, <4>2 DEF Flows, Ready, Active, Stages
    <3>4. CASE q # r /\ q # pending[flow[r].origin]
      BY <1>5, <3>1, <3>4 DEF GrantChain
    <3> QED BY <3>2, <3>3, <3>4
  <2>3. flow' \in [RequestIds -> Flows]
    BY <1>5, <2>2 DEF GrantChain
  <2>4. allowed' \subseteq Origins \X Accounts \X Chains
    BY <1>5, <2>1 DEF GrantChain, Grant, TypeInv, TypeOK
  <2>5. held' \in [RequestIds -> SUBSET Accounts]
    BY <1>5, <2>1 DEF GrantChain, Grant, TypeInv, TypeOK
  <2> QED BY <1>5, <2>2, <2>3, <2>4, <2>5
          DEF GrantChain, windows, TypeInv, TypeOK, Offered, Flows
<1>6. CASE AddChain(r)
  <2>1. flow[r].target \in Chains
    BY <1>0, <1>6 DEF AddChain, Ready
  <2>2. flow' \in [RequestIds -> Flows] /\ \A q \in RequestIds : Ready(flow'[q])
    BY <1>6, EndsStep DEF AddChain
  <2> QED BY <1>6, <2>1, <2>2 DEF AddChain, windows, TypeInv, TypeOK, Offered, Flows
<1> QED BY <1>1, <1>2, <1>3, <1>4, <1>5, <1>6

\* The user, the popups, and what comes of a click.
LEMMA UserType ==
    ASSUME Sensible, TypeInv, OneRequestPerOrigin,
           \/ \E m \in moves : Move(m)
           \/ \E a \in Accounts : Select(a) \/ RemoveAccount(a)
           \/ \E r \in RequestIds : ClickGrant(r) \/ ClosePopup(r) \/ PopupRemoved(r)
           \/ \E g \in grants : GrantPermission(g)
           \/ \E o \in Origins : Disconnect(o) \/ DenyPermission(o)
           \/ \E d \in deletions : DeletePermission(d)
    PROVE  TypeInv'
<1>1. ASSUME NEW m \in moves, Move(m) PROVE TypeInv'
  <2>1. network' \in [Origins -> Chains \cup {Nothing}]
    BY <1>1 DEF Move, TypeInv, TypeOK
  <2> QED BY <1>1, <2>1 DEF Move, windows, TypeInv, TypeOK, Offered, Flows
<1>2. ASSUME NEW a \in Accounts, Select(a) \/ RemoveAccount(a) PROVE TypeInv'
  <2>1. clicks' \in 0..MaxClicks
    BY <1>2 DEF Sensible, Select, RemoveAccount, TypeInv, TypeOK
  <2> QED BY <1>2, <2>1 DEF Select, RemoveAccount, windows, TypeInv, TypeOK, Offered, Flows
<1>3. ASSUME NEW r \in RequestIds, ClickGrant(r) \/ ClosePopup(r) PROVE TypeInv'
  <2>1. offer \in Origins
    BY <1>3 DEF ClickGrant, ClosePopup, TypeInv, Offered
  <2>2. popup' \in [RequestIds -> {"none", "open", "closing"}]
    BY <1>3 DEF ClickGrant, ClosePopup, TypeInv, TypeOK
  <2>3. \A q \in RequestIds : popup'[q] = "open" => popup[q] = "open"
    BY <1>3 DEF ClickGrant, ClosePopup, TypeInv, TypeOK
  <2> QED BY <1>3, <2>1, <2>2, <2>3 DEF ClickGrant, ClosePopup, TypeInv, TypeOK, Offered, Flows
<1>4. ASSUME NEW r \in RequestIds, PopupRemoved(r) PROVE TypeInv'
  <2>1. popup' \in [RequestIds -> {"none", "open", "closing"}]
    BY <1>4 DEF PopupRemoved, TypeInv, TypeOK
  <2>2. \A q \in RequestIds : popup'[q] = "open" => popup[q] = "open"
    BY <1>4 DEF PopupRemoved, TypeInv, TypeOK
  <2>3. /\ flow' \in [RequestIds -> Flows] /\ \A q \in RequestIds : Ready(flow'[q])
        /\ pending' \in [Origins -> RequestIds \cup {Nothing}]
    <3>1. CASE flow[r].at = "waiting"
      <4>1. flow[r].origin \in Origins
        BY <3>1 DEF TypeInv, Ready, Active
      <4> QED BY <1>4, <3>1, <4>1, ResolveStep DEF PopupRemoved
    <3>2. CASE flow[r].at # "waiting"
      BY <1>4, <3>2 DEF PopupRemoved, TypeInv, TypeOK, Flows
    <3> QED BY <3>1, <3>2
  <2> QED BY <1>4, <2>1, <2>2, <2>3 DEF PopupRemoved, TypeInv, TypeOK, Offered, Flows
<1>5. ASSUME NEW g \in grants, GrantPermission(g) PROVE TypeInv'
  <2>1. g[1] \in Origins /\ g[2] \in Accounts
    BY DEF TypeInv, TypeOK
  <2>2. /\ flow' \in [RequestIds -> Flows] /\ \A q \in RequestIds : Ready(flow'[q])
        /\ pending' \in [Origins -> RequestIds \cup {Nothing}]
    BY <1>5, <2>1, ResolveStep DEF GrantPermission
  <2>3. allowed' \subseteq Origins \X Accounts \X Chains
    BY <1>5, <2>1 DEF GrantPermission, Grant, TypeInv, TypeOK
  <2>4. held' \in [RequestIds -> SUBSET Accounts]
    BY <1>5, <2>1 DEF GrantPermission, Grant, TypeInv, TypeOK
  <2> QED BY <1>5, <2>2, <2>3, <2>4 DEF GrantPermission, TypeInv, TypeOK, Offered, Flows
<1>6. ASSUME NEW o \in Origins, Disconnect(o) \/ DenyPermission(o) PROVE TypeInv'
  <2>1. clicks' \in 0..MaxClicks
    BY <1>6 DEF Sensible, Disconnect, DenyPermission, TypeInv, TypeOK
  <2> QED BY <1>6, <2>1 DEF Disconnect, DenyPermission, TypeInv, TypeOK, Offered, Flows
<1>7. ASSUME NEW d \in deletions, DeletePermission(d) PROVE TypeInv'
  <2>1. d[1] \in Origins
    BY DEF TypeInv, TypeOK
  <2>2. /\ flow' \in [RequestIds -> Flows] /\ \A q \in RequestIds : Ready(flow'[q])
        /\ pending' \in [Origins -> RequestIds \cup {Nothing}]
    BY <1>7, <2>1, ResolveStep DEF DeletePermission
  <2>3. network' \in [Origins -> Chains \cup {Nothing}]
    BY <1>7, <2>1 DEF DeletePermission, TypeInv, TypeOK
  <2> QED BY <1>7, <2>2, <2>3 DEF DeletePermission, windows, TypeInv, TypeOK, Offered, Flows
<1> QED BY <1>1, <1>2, <1>3, <1>4, <1>5, <1>6, <1>7

LEMMA TypeStep ==
    ASSUME Sensible, TypeInv, OneRequestPerOrigin, [Next]_vars
    PROVE  TypeInv'
<1>1. CASE UNCHANGED vars
  BY <1>1 DEF vars, windows, TypeInv, TypeOK, Offered
<1>2. ASSUME NEW r \in RequestIds, NEW ask \in Asks, Ask(r, ask[1], ask[2], ask[3])
      PROVE  TypeInv'
  BY <1>2, AskType
<1>3. ASSUME NEW r \in RequestIds, Step(r) \/ AnswerAddChain(r) PROVE TypeInv'
  BY <1>3, ReadType, WriteType DEF Step
<1> QED BY <1>1, <1>2, <1>3, UserType DEF Next

-----------------------------------------------------------------------------
(* One pending request per origin.                                         *)

\* Nobody begins or ceases to wait.
SameWaiting ==
    \A q \in RequestIds :
        /\ flow'[q].at = "waiting" <=> flow[q].at = "waiting"
        /\ flow[q].at = "waiting" => flow'[q].origin = flow[q].origin

LEMMA PendingSame ==
    ASSUME OneRequestPerOrigin, SameWaiting, UNCHANGED pending
    PROVE  OneRequestPerOrigin'
BY DEF OneRequestPerOrigin, SameWaiting

LEMMA PendingResolved ==
    ASSUME Sensible, TypeInv, OneRequestPerOrigin, NEW o \in Origins, ResolvePending(o)
    PROVE  OneRequestPerOrigin'
<1> SUFFICES ASSUME NEW r \in RequestIds, NEW p \in Origins
             PROVE  (flow'[r].at = "waiting" /\ flow'[r].origin = p) <=> pending'[p] = r
  BY DEF OneRequestPerOrigin
<1>1. CASE r = pending[o]
  <2>1. flow[r].at = "waiting" /\ flow[r].origin = o
    BY <1>1 DEF OneRequestPerOrigin
  <2>2. flow'[r].at = "resolved"
    BY <1>1 DEF ResolvePending, TypeInv, TypeOK
  <2>3. pending'[p] # r
    BY <1>1, <2>1 DEF ResolvePending, OneRequestPerOrigin, TypeInv, TypeOK, Sensible
  <2> QED BY <2>2, <2>3
<1>2. CASE r # pending[o]
  <2>1. flow'[r] = flow[r]
    BY <1>2 DEF ResolvePending
  <2>2. pending'[p] = r <=> pending[p] = r
    BY <1>2 DEF ResolvePending, TypeInv, TypeOK, Sensible
  <2> QED BY <2>1, <2>2 DEF OneRequestPerOrigin
<1> QED BY <1>1, <1>2

\* The steps that neither ask the user nor end a wait, and open no popup.
AloneStep(r) ==
    \/ ReadNetwork(r) \/ ReadAccount(r) \/ ReadPermission(r) \/ RevokeOrigin(r)
    \/ ReadChain(r) \/ ReadAccountAgain(r) \/ ReadGranted(r) \/ PersistNetwork(r)
    \/ SwitchNetwork(r) \/ AddChain(r) \/ AnswerAddChain(r)

LEMMA AloneSame ==
    ASSUME TypeInv, NEW r \in RequestIds, AloneStep(r)
    PROVE  SameWaiting /\ UNCHANGED <<pending, popup>>
<1> USE DEF AloneStep
<1>1. flow[r].at # "waiting" /\ UNCHANGED <<pending, popup>>
  BY DEF ReadNetwork, ReadAccount, ReadPermission, RevokeOrigin, ReadChain,
         ReadAccountAgain, ReadGranted, PersistNetwork, SwitchNetwork, AddChain,
         AnswerAddChain, Reading, windows
<1>2. flow'[r].at # "waiting"
  <2>1. flow \in [RequestIds -> Flows]
    BY DEF TypeInv, TypeOK, Flows
  <2>2. ASSUME NEW a, Ends(r, a) PROVE flow'[r].at = "done"
    BY <2>1, <2>2 DEF Ends, Idle
  <2>3. ASSUME NEW place, Goes(r, place) PROVE flow'[r].at = place
    BY <2>1, <2>3 DEF Goes, Flows
  <2>4. CASE ReadNetwork(r) \/ ReadAccount(r) \/ ReadChain(r) \/ ReadAccountAgain(r)
    BY <2>1, <2>4 DEF ReadNetwork, ReadAccount, ReadChain, ReadAccountAgain, Flows
  <2>5. CASE ReadPermission(r)
    <3>1. flow[r].method \in Methods
      BY <2>5 DEF ReadPermission, TypeInv, Ready, Active
    <3>2. \/ \E a : Ends(r, a)
          \/ Goes(r, "revoking") \/ Goes(r, "asking") \/ Goes(r, "moving")
      BY <2>5, <3>1 DEF ReadPermission, Methods
    <3> QED BY <2>2, <2>3, <3>2
  <2>6. CASE ReadGranted(r)
    BY <2>1, <2>2, <2>6 DEF ReadGranted, Flows
  <2>7. CASE \/ RevokeOrigin(r) \/ PersistNetwork(r) \/ SwitchNetwork(r)
             \/ AddChain(r) \/ AnswerAddChain(r)
    BY <2>2, <2>3, <2>7
       DEF RevokeOrigin, PersistNetwork, SwitchNetwork, AddChain, AnswerAddChain
  <2> QED BY <2>4, <2>5, <2>6, <2>7
<1>3. \A q \in RequestIds \ {r} : flow'[q] = flow[q]
  BY DEF ReadNetwork, ReadAccount, ReadPermission, RevokeOrigin, ReadChain,
         ReadAccountAgain, ReadGranted, PersistNetwork, SwitchNetwork, AddChain,
         AnswerAddChain, Goes, Ends, TypeInv, TypeOK, Ready, Active, Methods
<1>4. SameWaiting
  BY <1>1, <1>2, <1>3 DEF SameWaiting
<1> QED BY <1>1, <1>4

LEMMA PendingStep ==
    ASSUME Sensible, TypeInv, OneRequestPerOrigin, [Next]_vars
    PROVE  OneRequestPerOrigin'
<1>1. CASE UNCHANGED vars
  BY <1>1 DEF vars, OneRequestPerOrigin
<1>2. ASSUME NEW r \in RequestIds, NEW ask \in Asks, Ask(r, ask[1], ask[2], ask[3])
      PROVE  OneRequestPerOrigin'
  <2>1. SameWaiting
    BY <1>2 DEF Ask, SameWaiting, TypeInv, TypeOK
  <2> QED BY <1>2, <2>1, PendingSame DEF Ask
<1>3. ASSUME NEW r \in RequestIds, AloneStep(r) PROVE OneRequestPerOrigin'
  BY <1>3, AloneSame, PendingSame
<1>4. ASSUME NEW r \in RequestIds, RequestPermission(r) PROVE OneRequestPerOrigin'
  <2>1. flow[r].at = "checking" /\ flow[r].origin \in Origins
    BY <1>4 DEF RequestPermission, TypeInv, Ready, Active
  <2>2. CASE pending[flow[r].origin] # Nothing
    <3>1. Ends(r, Nothing) /\ UNCHANGED pending
      BY <1>4, <2>2 DEF RequestPermission
    <3>2. flow' = [flow EXCEPT ![r] = [Idle EXCEPT !.at = "done", !.answer = Nothing]]
      BY <3>1 DEF Ends
    <3>3. flow'[r].at = "done"
      <4>1. [Idle EXCEPT !.at = "done", !.answer = Nothing].at = "done" BY DEF Idle
      <4> QED BY <3>2, <4>1 DEF TypeInv, TypeOK
    <3>4. \A q \in RequestIds \ {r} : flow'[q] = flow[q]
      BY <3>2 DEF TypeInv, TypeOK
    <3>5. SameWaiting BY <2>1, <3>3, <3>4 DEF SameWaiting
    <3> QED BY <3>1, <3>5, PendingSame
  <2>3. CASE pending[flow[r].origin] = Nothing
    <3> SUFFICES ASSUME NEW q \in RequestIds, NEW p \in Origins
                 PROVE  (flow'[q].at = "waiting" /\ flow'[q].origin = p) <=> pending'[p] = q
      BY DEF OneRequestPerOrigin
    <3>1. /\ pending' = [pending EXCEPT ![flow[r].origin] = r]
          /\ flow' = [flow EXCEPT ![r].at = "waiting"]
      BY <1>4, <2>3 DEF RequestPermission, Goes
    <3>2. q # Nothing
      BY DEF Sensible
    <3>3. CASE q = r
      <4>1. flow'[q].at = "waiting" /\ flow'[q].origin = flow[r].origin
        BY <3>1, <3>3 DEF TypeInv, TypeOK
      <4>2. pending[p] # r
        BY <2>1 DEF OneRequestPerOrigin
      <4> QED BY <2>1, <3>1, <3>3, <4>1, <4>2 DEF TypeInv, TypeOK
    <3>4. CASE q # r
      <4>1. flow'[q] = flow[q]
        BY <3>1, <3>4 DEF TypeInv, TypeOK
      <4>2. pending'[p] = q <=> pending[p] = q
        BY <2>1, <2>3, <3>1, <3>2, <3>4 DEF TypeInv, TypeOK
      <4> QED BY <4>1, <4>2 DEF OneRequestPerOrigin
    <3> QED BY <3>3, <3>4
  <2> QED BY <2>2, <2>3
<1>5. ASSUME NEW r \in RequestIds, GrantChain(r) PROVE OneRequestPerOrigin'
  <2> DEFINE o == flow[r].origin
  <2>1. flow[r].at = "confirmed" /\ o \in Origins
    BY <1>5 DEF GrantChain, TypeInv, Ready, Active
  <2> SUFFICES ASSUME NEW q \in RequestIds, NEW p \in Origins
               PROVE  (flow'[q].at = "waiting" /\ flow'[q].origin = p) <=> pending'[p] = q
    BY DEF OneRequestPerOrigin
  <2>2. q # Nothing /\ pending' = [pending EXCEPT ![o] = Nothing]
    BY <1>5 DEF Sensible, GrantChain
  <2>3. CASE q = r
    <3>1. flow'[q].at = "adding" /\ pending[p] # q
      BY <1>5, <2>1, <2>3 DEF GrantChain, OneRequestPerOrigin, TypeInv, TypeOK
    <3> QED BY <2>1, <2>2, <3>1 DEF TypeInv, TypeOK
  <2>4. CASE q # r /\ q = pending[o]
    <3>1. flow'[q].at = "resolved" /\ flow[q].origin = o
      BY <1>5, <2>1, <2>4 DEF GrantChain, OneRequestPerOrigin, TypeInv, TypeOK
    <3>2. pending'[p] # q
      BY <2>1, <2>2, <3>1 DEF OneRequestPerOrigin, TypeInv, TypeOK
    <3> QED BY <3>1, <3>2
  <2>5. CASE q # r /\ q # pending[o]
    <3>1. flow'[q] = flow[q]
      BY <1>5, <2>5 DEF GrantChain
    <3>2. pending'[p] = q <=> pending[p] = q
      BY <2>1, <2>2, <2>5 DEF TypeInv, TypeOK
    <3> QED BY <3>1, <3>2 DEF OneRequestPerOrigin
  <2> QED BY <2>3, <2>4, <2>5
<1>6. ASSUME \/ \E m \in moves : Move(m)
             \/ \E a \in Accounts : Select(a) \/ RemoveAccount(a)
             \/ \E r \in RequestIds : ClickGrant(r) \/ ClosePopup(r)
             \/ \E o \in Origins : Disconnect(o) \/ DenyPermission(o)
      PROVE  OneRequestPerOrigin'
  <2>1. UNCHANGED <<flow, pending>>
    BY <1>6 DEF Move, Select, RemoveAccount, ClickGrant, ClosePopup, Disconnect,
                DenyPermission
  <2> QED BY <2>1, PendingSame DEF SameWaiting
<1>7. ASSUME NEW r \in RequestIds, PopupRemoved(r) PROVE OneRequestPerOrigin'
  <2>1. flow[r].at = "waiting" => flow[r].origin \in Origins
    BY DEF TypeInv, Ready, Active
  <2>2. \/ flow[r].at = "waiting" /\ ResolvePending(flow[r].origin)
        \/ UNCHANGED <<flow, pending>>
    BY <1>7 DEF PopupRemoved
  <2> QED BY <2>1, <2>2, PendingResolved, PendingSame DEF SameWaiting
<1>8. ASSUME NEW g \in grants, GrantPermission(g) PROVE OneRequestPerOrigin'
  BY <1>8, PendingResolved DEF GrantPermission, TypeInv, TypeOK
<1>9. ASSUME NEW d \in deletions, DeletePermission(d) PROVE OneRequestPerOrigin'
  BY <1>9, PendingResolved DEF DeletePermission, TypeInv, TypeOK
<1> QED BY <1>1, <1>2, <1>3, <1>4, <1>5, <1>6, <1>7, <1>8, <1>9 DEF Next, Step, AloneStep

LEMMA PendingInit == ASSUME Sensible, Init PROVE OneRequestPerOrigin
BY DEF Sensible, Init, Idle, OneRequestPerOrigin

\* The state stays well typed, for every set of constants that is Sensible.
THEOREM TypeCorrect == ASSUME Sensible PROVE Spec => []TypeOK
<1>1. Init => TypeInv /\ OneRequestPerOrigin
  BY TypeInit, PendingInit
<1>2. TypeInv /\ OneRequestPerOrigin /\ [Next]_vars => (TypeInv /\ OneRequestPerOrigin)'
  BY TypeStep, PendingStep
<1>3. TypeInv => TypeOK
  BY DEF TypeInv
<1> QED BY <1>1, <1>2, <1>3, PTL DEF Spec

\* Two requests of an origin never wait for the user together, and who waits is
\* the one whose promise a grant, a denial or a closed popup resolves.
THEOREM OnePending == ASSUME Sensible PROVE Spec => []OneRequestPerOrigin
<1>1. Init => TypeInv /\ OneRequestPerOrigin
  BY TypeInit, PendingInit
<1>2. TypeInv /\ OneRequestPerOrigin /\ [Next]_vars => (TypeInv /\ OneRequestPerOrigin)'
  BY TypeStep, PendingStep
<1> QED BY <1>1, <1>2, PTL DEF Spec

-----------------------------------------------------------------------------
(* What a site is told.                                                    *)

\* What the site of a request is permitted to see now has been noted for it.
Noted ==
    \A r \in RequestIds :
        Active(flow[r]) => Permitted(flow[r].origin, allowed) \subseteq held[r]

ToldInv == TypeInv /\ OneRequestPerOrigin /\ Noted /\ DisclosedWasAllowed

\* A request that is under way was so before, and its answer is not a new one.
Quiet(q) ==
    /\ Active(flow'[q]) => Active(flow[q]) /\ flow'[q].origin = flow[q].origin
    /\ flow'[q].answer \in {flow[q].answer, Nothing}

LEMMA ToldSame ==
    ASSUME ToldInv, allowed' \subseteq allowed, UNCHANGED held,
           \A q \in RequestIds : Quiet(q)
    PROVE  Noted' /\ DisclosedWasAllowed'
BY DEF ToldInv, Noted, DisclosedWasAllowed, Quiet, Permitted

LEMMA ToldGranted ==
    ASSUME ToldInv, NEW o \in Origins, NEW a \in Accounts, NEW C \in SUBSET Chains,
           Grant(o, a, C), \A q \in RequestIds : Quiet(q)
    PROVE  Noted' /\ DisclosedWasAllowed'
<1>1. ASSUME NEW q \in RequestIds PROVE held[q] \subseteq held'[q]
  BY DEF Grant
<1>2. ASSUME NEW q \in RequestIds, Active(flow'[q])
      PROVE  Permitted(flow'[q].origin, allowed') \subseteq held'[q]
  <2>1. Active(flow[q]) /\ flow'[q].origin = flow[q].origin
    BY <1>2 DEF Quiet
  <2>2. Permitted(flow[q].origin, allowed) \subseteq held[q]
    BY <2>1 DEF ToldInv, Noted
  <2>3. CASE flow[q].origin = o
    <3>1. Permitted(o, allowed') \subseteq Permitted(o, allowed) \cup {a}
      BY DEF Grant, Permitted
    <3>2. held'[q] = held[q] \cup {a}
      BY <2>3 DEF Grant
    <3> QED BY <2>1, <2>2, <2>3, <3>1, <3>2
  <2>4. CASE flow[q].origin # o
    <3>1. Permitted(flow[q].origin, allowed') \subseteq Permitted(flow[q].origin, allowed)
      BY <2>4 DEF Grant, Permitted
    <3> QED BY <1>1, <2>1, <2>2, <3>1
  <2> QED BY <2>3, <2>4
<1>3. DisclosedWasAllowed'
  BY <1>1 DEF ToldInv, DisclosedWasAllowed, Quiet
<1> QED BY <1>2, <1>3 DEF Noted

\* A permission read from the database is one that was noted.
LEMMA HasNoted ==
    ASSUME ToldInv, NEW r \in RequestIds, Active(flow[r]), Has(r)
    PROVE  flow[r].account \in held[r]
<1>1. flow[r].account \in Permitted(flow[r].origin, allowed)
  BY DEF Has, Permitted, ToldInv, TypeInv, TypeOK
<1> QED BY <1>1 DEF ToldInv, Noted

\* What the places of the other requests, and the parts of a request, come to.
LEMMA EndsTold ==
    ASSUME TypeInv, NEW r \in RequestIds, NEW a, Ends(r, a)
    PROVE  /\ flow'[r].at = "done" /\ flow'[r].answer = a
           /\ \A q \in RequestIds \ {r} : flow'[q] = flow[q]
BY DEF Ends, Idle, TypeInv, TypeOK

LEMMA GoesTold ==
    ASSUME TypeInv, NEW r \in RequestIds, NEW place, Goes(r, place), Active(flow[r])
    PROVE  \A q \in RequestIds : Quiet(q)
<1>1. flow'[r] = [flow[r] EXCEPT !.at = place] /\ flow[r] \in Flows
  BY DEF Goes, TypeInv, TypeOK, Flows
<1>2. Quiet(r)
  BY <1>1 DEF Quiet, Flows
<1>3. \A q \in RequestIds \ {r} : flow'[q] = flow[q]
  BY DEF Goes, TypeInv, TypeOK
<1> QED BY <1>2, <1>3 DEF Quiet

LEMMA ResolveTold ==
    ASSUME ToldInv, NEW o \in Origins, ResolvePending(o)
    PROVE  \A q \in RequestIds : Quiet(q)
<1> SUFFICES ASSUME NEW q \in RequestIds PROVE Quiet(q)
  OBVIOUS
<1>1. CASE q = pending[o]
  <2>1. flow'[q] = [flow[q] EXCEPT !.at = "resolved"] /\ flow[q] \in Flows
    BY <1>1 DEF ResolvePending, ToldInv, TypeInv, TypeOK, Flows
  <2>2. Active(flow[q])
    BY <1>1 DEF ToldInv, OneRequestPerOrigin, Active
  <2> QED BY <2>1, <2>2 DEF Quiet, Flows
<1>2. CASE q # pending[o]
  BY <1>2 DEF ResolvePending, Quiet
<1> QED BY <1>1, <1>2

LEMMA ToldStep ==
    ASSUME Sensible, ToldInv, [Next]_vars
    PROVE  Noted' /\ DisclosedWasAllowed'
<1>0. TypeInv /\ flow \in [RequestIds -> Flows]
  BY DEF ToldInv, TypeInv, TypeOK, Flows
<1>1. CASE UNCHANGED vars
  <2>1. UNCHANGED <<flow, allowed, held>>
    BY <1>1 DEF vars
  <2> QED BY <2>1, ToldSame DEF Quiet
<1>2. ASSUME NEW r \in RequestIds, NEW ask \in Asks, Ask(r, ask[1], ask[2], ask[3])
      PROVE  Noted' /\ DisclosedWasAllowed'
  <2>1. /\ flow'[r].answer = Nothing /\ flow'[r].origin = ask[1]
        /\ held'[r] = Permitted(ask[1], allowed)
    BY <1>0, <1>2 DEF Ask, TypeInv, Ready, TypeOK, Flows
  <2>2. \A q \in RequestIds \ {r} : flow'[q] = flow[q] /\ held'[q] = held[q]
    BY <1>0, <1>2 DEF Ask, TypeInv, TypeOK
  <2>3. UNCHANGED allowed
    BY <1>2 DEF Ask
  <2> QED BY <2>1, <2>2, <2>3 DEF ToldInv, Noted, DisclosedWasAllowed
<1>3. ASSUME NEW r \in RequestIds, ReadPermission(r) \/ ReadGranted(r)
      PROVE  Noted' /\ DisclosedWasAllowed'
  <2>1. Active(flow[r]) /\ UNCHANGED <<allowed, held>>
    BY <1>3 DEF ReadPermission, ReadGranted, Reading, Active
  <2>2. \/ Has(r) /\ Ends(r, flow[r].account)
        \/ Has(r) /\ flow' = [flow EXCEPT ![r].answer = flow[r].account, ![r].at = "persist"]
        \/ Ends(r, Nothing)
        \/ \E place : Goes(r, place)
    BY <1>0, <1>3, <2>1 DEF ReadPermission, ReadGranted, TypeInv, Ready, Methods
  <2>3. CASE \E place : Goes(r, place)
    BY <1>0, <2>1, <2>3, GoesTold, ToldSame
  <2>4. CASE Ends(r, Nothing)
    BY <1>0, <2>1, <2>4, EndsTold, ToldSame DEF Quiet, Active
  <2>5. CASE Has(r) /\ Ends(r, flow[r].account)
    <3>1. flow[r].account \in held'[r]
      BY <2>1, <2>5, HasNoted
    <3> QED BY <1>0, <2>1, <2>5, <3>1, EndsTold
            DEF ToldInv, Noted, DisclosedWasAllowed, Active
  <2>6. CASE Has(r) /\ flow' = [flow EXCEPT ![r].answer = flow[r].account, ![r].at = "persist"]
    <3>1. flow[r].account \in held'[r]
      BY <2>1, <2>6, HasNoted
    <3>2. /\ flow'[r].answer = flow[r].account /\ flow'[r].origin = flow[r].origin
          /\ \A q \in RequestIds \ {r} : flow'[q] = flow[q]
      BY <1>0, <2>6 DEF Flows
    <3> QED BY <2>1, <3>1, <3>2 DEF ToldInv, Noted, DisclosedWasAllowed
  <2> QED BY <2>2, <2>3, <2>4, <2>5, <2>6
<1>4. ASSUME NEW r \in RequestIds,
             ReadNetwork(r) \/ ReadAccount(r) \/ ReadChain(r) \/ ReadAccountAgain(r)
      PROVE  Noted' /\ DisclosedWasAllowed'
  <2>1. Active(flow[r]) /\ UNCHANGED <<allowed, held>>
    BY <1>4 DEF ReadNetwork, ReadAccount, ReadChain, ReadAccountAgain, Reading, Active
  <2>2. /\ flow'[r].origin = flow[r].origin /\ flow'[r].answer = flow[r].answer
        /\ \A q \in RequestIds \ {r} : flow'[q] = flow[q]
    BY <1>0, <1>4 DEF ReadNetwork, ReadAccount, ReadChain, ReadAccountAgain, Flows
  <2> QED BY <2>1, <2>2, ToldSame DEF Quiet
<1>5. ASSUME NEW r \in RequestIds,
             \/ RevokeOrigin(r) \/ RequestPermission(r) \/ PersistNetwork(r)
             \/ SwitchNetwork(r) \/ AddChain(r) \/ AnswerAddChain(r)
      PROVE  Noted' /\ DisclosedWasAllowed'
  <2>1. Active(flow[r]) /\ allowed' \subseteq allowed /\ UNCHANGED held
    BY <1>5 DEF RevokeOrigin, RequestPermission, PersistNetwork, SwitchNetwork,
                AddChain, AnswerAddChain, Reading, Active
  <2>2. \/ \E a \in {Nothing, flow[r].answer} : Ends(r, a)
        \/ \E place : Goes(r, place)
    BY <1>5 DEF RevokeOrigin, RequestPermission, PersistNetwork, SwitchNetwork,
                AddChain, AnswerAddChain
  <2>3. \A q \in RequestIds : Quiet(q)
    <3>1. CASE \E place : Goes(r, place)
      BY <1>0, <2>1, <3>1, GoesTold
    <3>2. CASE \E a \in {Nothing, flow[r].answer} : Ends(r, a)
      BY <1>0, <3>2, EndsTold DEF Quiet, Active
    <3> QED BY <2>2, <3>1, <3>2
  <2> QED BY <2>1, <2>3, ToldSame
<1>6. ASSUME NEW r \in RequestIds, GrantChain(r) PROVE Noted' /\ DisclosedWasAllowed'
  <2> DEFINE o == flow[r].origin
  <2>1. /\ flow[r].at = "confirmed" /\ o \in Origins
        /\ flow[r].account \in Accounts /\ flow[r].target \in Chains
    BY <1>0, <1>6 DEF GrantChain, TypeInv, Ready, Active
  <2>2. ASSUME NEW q \in RequestIds PROVE Quiet(q)
    <3>1. CASE flow'[q] = flow[q]
      BY <3>1 DEF Quiet
    <3>2. CASE q = r \/ q = pending[o]
      <4>1. Active(flow[q])
        BY <2>1, <3>2 DEF ToldInv, OneRequestPerOrigin, Active
      <4>2. flow[q] \in Flows
        BY <1>0
      <4>3. PICK place : flow'[q] = [flow[q] EXCEPT !.at = place]
        BY <1>6, <3>2 DEF GrantChain
      <4> QED BY <4>1, <4>2, <4>3 DEF Quiet, Flows
    <3> QED BY <1>6, <3>1, <3>2 DEF GrantChain
  <2>3. Grant(o, flow[r].account, {flow[r].target})
    BY <1>6 DEF GrantChain
  <2> QED BY <2>1, <2>2, <2>3, ToldGranted
<1>7. ASSUME \/ \E m \in moves : Move(m)
             \/ \E a \in Accounts : Select(a) \/ RemoveAccount(a)
             \/ \E r \in RequestIds : ClickGrant(r) \/ ClosePopup(r)
             \/ \E o \in Origins : Disconnect(o) \/ DenyPermission(o)
      PROVE  Noted' /\ DisclosedWasAllowed'
  <2>1. UNCHANGED <<flow, held>> /\ allowed' \subseteq allowed
    BY <1>7 DEF Move, Select, RemoveAccount, ClickGrant, ClosePopup, Disconnect,
                DenyPermission
  <2> QED BY <2>1, ToldSame DEF Quiet
<1>8. ASSUME NEW r \in RequestIds, PopupRemoved(r) PROVE Noted' /\ DisclosedWasAllowed'
  <2>1. flow[r].at = "waiting" => flow[r].origin \in Origins
    BY <1>0 DEF TypeInv, Ready, Active
  <2>2. \A q \in RequestIds : Quiet(q)
    BY <1>8, <2>1, ResolveTold DEF PopupRemoved, Quiet
  <2>3. UNCHANGED <<allowed, held>>
    BY <1>8 DEF PopupRemoved
  <2> QED BY <2>2, <2>3, ToldSame
<1>9. ASSUME NEW g \in grants, GrantPermission(g) PROVE Noted' /\ DisclosedWasAllowed'
  <2>1. g[1] \in Origins /\ g[2] \in Accounts /\ supported \in SUBSET Chains
    BY <1>0 DEF TypeInv, TypeOK
  <2>2. \A q \in RequestIds : Quiet(q)
    BY <1>9, <2>1, ResolveTold DEF GrantPermission
  <2> QED BY <1>9, <2>1, <2>2, ToldGranted DEF GrantPermission
<1>10. ASSUME NEW d \in deletions, DeletePermission(d) PROVE Noted' /\ DisclosedWasAllowed'
  <2>1. d[1] \in Origins
    BY <1>0 DEF TypeInv, TypeOK
  <2>2. \A q \in RequestIds : Quiet(q)
    BY <1>10, <2>1, ResolveTold DEF DeletePermission
  <2>3. allowed' \subseteq allowed /\ UNCHANGED held
    BY <1>10 DEF DeletePermission
  <2> QED BY <2>2, <2>3, ToldSame
<1> QED BY <1>1, <1>2, <1>3, <1>4, <1>5, <1>6, <1>7, <1>8, <1>9, <1>10 DEF Next, Step

LEMMA ToldInit == ASSUME Sensible, Init PROVE Noted /\ DisclosedWasAllowed
BY DEF Init, Idle, Noted, DisclosedWasAllowed, Active

\* A site is only told of an account that it had a permission for at some time
\* since it asked, whatever is selected, granted, denied, revoked or closed
\* between the awaits of onMessageListener.
THEOREM ToldOnlyAllowed == ASSUME Sensible PROVE Spec => []DisclosedWasAllowed
<1>1. Init => ToldInv
  BY TypeInit, PendingInit, ToldInit DEF ToldInv
<1>2. ToldInv /\ [Next]_vars => ToldInv'
  <2> SUFFICES ASSUME ToldInv, [Next]_vars PROVE ToldInv'
    OBVIOUS
  <2>1. TypeInv' /\ OneRequestPerOrigin'
    BY TypeStep, PendingStep DEF ToldInv
  <2>2. Noted' /\ DisclosedWasAllowed'
    BY ToldStep
  <2> QED BY <2>1, <2>2 DEF ToldInv
<1>3. ToldInv => DisclosedWasAllowed
  BY DEF ToldInv
<1> QED BY <1>1, <1>2, <1>3, PTL DEF Spec
-----------------------------------------------------------------------------
(* Whoever waits has a popup.                                              *)

\* A step that begins no wait, and takes no popup from who goes on waiting.
LEMMA PopupKept ==
    ASSUME WaitersHavePopups,
           \A q \in RequestIds : flow'[q].at = "waiting" =>
               flow[q].at = "waiting" /\ popup'[q] = popup[q]
    PROVE  WaitersHavePopups'
BY DEF WaitersHavePopups

\* Who waits is the pending one of its origin, so its promise is the one that the
\* end of its popup resolves.
LEMMA ResolveEndsWait ==
    ASSUME TypeInv, OneRequestPerOrigin, NEW o \in Origins, ResolvePending(o)
    PROVE  \A q \in RequestIds : flow'[q].at = "waiting" =>
               flow[q].at = "waiting" /\ flow[q].origin # o
<1> SUFFICES ASSUME NEW q \in RequestIds, flow'[q].at = "waiting"
             PROVE  flow[q].at = "waiting" /\ flow[q].origin # o
  OBVIOUS
<1>1. q # pending[o]
  <2> SUFFICES ASSUME q = pending[o] PROVE FALSE
    OBVIOUS
  <2>1. flow'[q] = [flow[q] EXCEPT !.at = "resolved"] /\ flow[q] \in Flows
    BY DEF ResolvePending, TypeInv, TypeOK, Flows
  <2> QED BY <2>1 DEF Flows
<1>2. flow'[q] = flow[q] BY <1>1 DEF ResolvePending
<1> QED BY <1>1, <1>2 DEF OneRequestPerOrigin

LEMMA WaitersStep ==
    ASSUME TypeInv, OneRequestPerOrigin, WaitersHavePopups, [Next]_vars
    PROVE  WaitersHavePopups'
<1>0. /\ flow \in [RequestIds -> Flows]
      /\ popup \in [RequestIds -> {"none", "open", "closing"}]
  BY DEF TypeInv, TypeOK, Flows
<1>1. CASE UNCHANGED vars
  BY <1>1, PopupKept DEF vars, windows
<1>2. ASSUME NEW r \in RequestIds, NEW ask \in Asks, Ask(r, ask[1], ask[2], ask[3])
      PROVE  WaitersHavePopups'
  <2>1. flow'[r].at = "network" BY <1>0, <1>2 DEF Ask, Flows
  <2>2. \A q \in RequestIds \ {r} : flow'[q] = flow[q] BY <1>0, <1>2 DEF Ask
  <2>3. UNCHANGED popup BY <1>2 DEF Ask, windows
  <2> QED BY <2>1, <2>2, <2>3, PopupKept
<1>3. ASSUME NEW r \in RequestIds, AloneStep(r) PROVE WaitersHavePopups'
  BY <1>3, AloneSame, PopupKept DEF SameWaiting
<1>4. ASSUME NEW r \in RequestIds, RequestPermission(r) PROVE WaitersHavePopups'
  <2>1. \A q \in RequestIds \ {r} : flow'[q] = flow[q] /\ popup'[q] = popup[q]
    BY <1>0, <1>4 DEF RequestPermission, Goes, Ends
  <2>2. CASE pending[flow[r].origin] = Nothing
    <3>1. popup'[r] = "open" BY <1>0, <1>4, <2>2 DEF RequestPermission
    <3> QED BY <2>1, <3>1 DEF WaitersHavePopups
  <2>3. CASE pending[flow[r].origin] # Nothing
    <3>1. Ends(r, Nothing) BY <1>4, <2>3 DEF RequestPermission
    <3>2. flow'[r].at = "done" BY <3>1, EndsTold
    <3> QED BY <2>1, <3>2, PopupKept
  <2> QED BY <2>2, <2>3
<1>5. ASSUME NEW r \in RequestIds, GrantChain(r) PROVE WaitersHavePopups'
  <2>1. UNCHANGED popup BY <1>5 DEF GrantChain, windows
  <2>2. ASSUME NEW q \in RequestIds, flow'[q].at = "waiting"
        PROVE  flow[q].at = "waiting"
    <3>1. \/ flow'[q] = [flow[q] EXCEPT !.at = "adding"]
          \/ flow'[q] = [flow[q] EXCEPT !.at = "resolved"]
          \/ flow'[q] = flow[q]
      BY <1>5 DEF GrantChain
    <3> QED BY <1>0, <2>2, <3>1 DEF Flows
  <2> QED BY <2>1, <2>2, PopupKept
<1>6. ASSUME \/ \E m \in moves : Move(m)
             \/ \E a \in Accounts : Select(a) \/ RemoveAccount(a)
             \/ \E o \in Origins : Disconnect(o) \/ DenyPermission(o)
      PROVE  WaitersHavePopups'
  <2>1. UNCHANGED <<flow, popup>>
    BY <1>6 DEF Move, Select, RemoveAccount, Disconnect, DenyPermission, windows
  <2> QED BY <2>1, PopupKept
<1>7. ASSUME NEW r \in RequestIds, ClickGrant(r) \/ ClosePopup(r)
      PROVE  WaitersHavePopups'
  <2>1. UNCHANGED flow /\ popup' = [popup EXCEPT ![r] = "closing"]
    BY <1>7 DEF ClickGrant, ClosePopup
  <2> QED BY <1>0, <2>1 DEF WaitersHavePopups
<1>8. ASSUME NEW r \in RequestIds, PopupRemoved(r) PROVE WaitersHavePopups'
  <2>1. \A q \in RequestIds \ {r} : popup'[q] = popup[q]
    BY <1>0, <1>8 DEF PopupRemoved
  <2>2. CASE flow[r].at = "waiting"
    <3>1. flow[r].origin \in Origins BY <2>2 DEF TypeInv, Ready, Active
    <3>2. ResolvePending(flow[r].origin) BY <1>8, <2>2 DEF PopupRemoved
    <3>3. \A q \in RequestIds : flow'[q].at = "waiting" =>
              flow[q].at = "waiting" /\ q # r
      BY <3>1, <3>2, ResolveEndsWait
    <3> QED BY <2>1, <3>3, PopupKept
  <2>3. CASE flow[r].at # "waiting"
    <3>1. UNCHANGED flow BY <1>8, <2>3 DEF PopupRemoved
    <3> QED BY <2>1, <2>3, <3>1, PopupKept
  <2> QED BY <2>2, <2>3
<1>9. ASSUME NEW o \in Origins, ResolvePending(o), UNCHANGED popup
      PROVE  WaitersHavePopups'
  BY <1>9, ResolveEndsWait, PopupKept
<1>10. ASSUME NEW g \in grants, GrantPermission(g) PROVE WaitersHavePopups'
  <2>1. g[1] \in Origins BY DEF TypeInv, TypeOK
  <2> QED BY <1>9, <1>10, <2>1 DEF GrantPermission
<1>11. ASSUME NEW d \in deletions, DeletePermission(d) PROVE WaitersHavePopups'
  <2>1. d[1] \in Origins BY DEF TypeInv, TypeOK
  <2> QED BY <1>9, <1>11, <2>1 DEF DeletePermission, windows
<1> QED
  BY <1>1, <1>2, <1>3, <1>4, <1>5, <1>6, <1>7, <1>8, <1>10, <1>11
     DEF Next, Step, AloneStep

\* No request waits for a user who is not asked: who waits for an answer has an
\* open popup, or the news that it was closed are on their way, whatever the
\* popups of other requests have granted or denied meanwhile (requestPermission,
\* onPopupDisconnected).
THEOREM NoWaitWithoutPopup == ASSUME Sensible PROVE Spec => []WaitersHavePopups
<1>1. Init => TypeInv /\ OneRequestPerOrigin /\ WaitersHavePopups
  BY TypeInit, PendingInit DEF Init, Idle, WaitersHavePopups
<1>2. TypeInv /\ OneRequestPerOrigin /\ WaitersHavePopups /\ [Next]_vars
          => (TypeInv /\ OneRequestPerOrigin /\ WaitersHavePopups)'
  BY TypeStep, PendingStep, WaitersStep
<1> QED BY <1>1, <1>2, PTL DEF Spec
=============================================================================
