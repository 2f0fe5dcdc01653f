------------------------ MODULE SigningRequestsProofs ------------------------
(***************************************************************************)
(* Theorems about SigningRequests for every set of requests and payloads:  *)
(* type correctness, the entries of #pendingSigningRequests, what a        *)
(* request can be given, that its outcome is final, and that no request    *)
(* that listens is forgotten when a popup closes.                          *)
(***************************************************************************)
EXTENDS SigningRequests, TLAPS

-----------------------------------------------------------------------------
(* Type correctness.                                                       *)

LEMMA KindType ==
    ASSUME NEW c
    PROVE  /\ Kind(c) \in Kinds
           /\ c \in Transactions => Kind(c) = "transaction"
           /\ Kind(c) = "transaction" => c \in Transactions
BY DEF Kind, Kinds

\* What the store offers: nothing, or a payload of the kind.
OfferOK ==
    /\ offer \in [Kinds -> Payloads \cup {Nothing}]
    /\ \A k \in Kinds : offer[k] # Nothing => Kind(offer[k]) = k

StatusOK == status \in {"idle", "pending", "loaded", "signed"}

\* A request asks for something, and has an answer, only once it is made.
Asked ==
    \A r \in Requests :
        /\ payload[r] = Nothing <=> flow[r] = "unsent"
        /\ flow[r] = "unsent" => signature[r] = Nothing

TypeInv == TypeOK /\ Asked

LEMMA TypeInit == Init => TypeInv
BY DEF Init, TypeInv, TypeOK, Asked, Flows, Kinds

\* What settles requests keeps the types of their flows and entries.
LEMMA SettleType ==
    ASSUME TypeOK, NEW R, NEW end \in Flows, Settle(R, end)
    PROVE  /\ flow' \in [Requests -> Flows]
           /\ pending' \in [Payloads -> Requests \cup {Nothing}]
BY DEF Settle, PendingWithout, TypeOK

\* The ways an offer changes.
LEMMA OfferType ==
    ASSUME OfferOK, NEW c \in Payloads,
           \/ UNCHANGED offer
           \/ offer' = [offer EXCEPT ![Kind(c)] = c]
           \/ \E k \in Kinds : offer' = [offer EXCEPT ![k] = Nothing]
           \/ \E K : offer' = Cleared(K)
    PROVE  OfferOK'
<1>1. CASE UNCHANGED offer
  BY <1>1 DEF OfferOK
<1>2. CASE offer' = [offer EXCEPT ![Kind(c)] = c]
  BY <1>2, KindType DEF OfferOK
<1>3. CASE \E k \in Kinds : offer' = [offer EXCEPT ![k] = Nothing]
  BY <1>3 DEF OfferOK
<1>4. CASE \E K : offer' = Cleared(K)
  BY <1>4 DEF OfferOK, Cleared
<1> QED BY <1>1, <1>2, <1>3, <1>4

LEMMA ClearType ==
    ASSUME OfferOK, IdleState \/ \E K : offer' = Cleared(K)
    PROVE  OfferOK'
BY DEF OfferOK, IdleState, Cleared, Kinds

LEMMA RejectionType ==
    ASSUME TypeOK, RejectTransaction
    PROVE  rejections' \in Seq(SUBSET Requests) /\ StatusOK'
<1>1. Listening({"transaction"}) \in SUBSET Requests
  BY DEF Listening
<1>2. CASE Listening({"transaction"}) = {}
  BY <1>2 DEF RejectTransaction, TypeOK, StatusOK
<1>3. CASE Listening({"transaction"}) # {}
  <2> DEFINE caught == Listening({"transaction"})
  <2>1. rejections' = Append(rejections, caught) /\ UNCHANGED status
    BY <1>3 DEF RejectTransaction
  <2> HIDE DEF caught
  <2>2. caught \in SUBSET Requests
    BY <1>1 DEF caught
  <2> QED BY <2>1, <2>2 DEF TypeOK, StatusOK
<1> QED BY <1>2, <1>3

LEMMA TypeNext == TypeInv /\ [Next]_vars => TypeOK'
<1> SUFFICES ASSUME TypeOK, Asked, [Next]_vars PROVE TypeOK'
  BY DEF TypeInv
<1> USE DEF store, history
<1>o. OfferOK
  BY DEF TypeOK, OfferOK
<1>1. ASSUME NEW r \in Requests, NEW c \in Payloads, Send(r, c) PROVE TypeOK'
  <2>1. Leftovers \cap OfKind(c) \in SUBSET Payloads
    BY DEF OfKind
  <2>2. ({c} \cup {payload[o] : o \in Open}) \cap OfKind(c) \in SUBSET Payloads
    BY DEF OfKind
  <2>3. beside' \in [Requests -> SUBSET Payloads]
    BY <1>1, <2>2 DEF Send, TypeOK
  <2> QED BY <1>1, <2>1, <2>3 DEF Send, Arrives, TypeOK, Flows
<1>2. ASSUME NEW r \in Requests, NEW c \in Payloads, SendEqual(r, c) PROVE TypeOK'
  BY <1>2 DEF SendEqual, Arrives, TypeOK, Flows
<1>3. ASSUME NEW r \in Requests, Malformed(r) PROVE TypeOK'
  BY <1>3, SettleType DEF Malformed, TypeOK, Flows
<1>4. ASSUME NEW r \in Requests, PrepareFails(r) PROVE TypeOK'
  BY <1>4 DEF PrepareFails, TypeOK, Flows
<1>5. ASSUME NEW r \in Requests, Prepared(r) PROVE TypeOK'
  <2>1. payload[r] \in Payloads
    BY <1>5 DEF Prepared, TypeOK, Asked
  <2>2. OfferOK'
    BY <1>5, <1>o, <2>1, OfferType DEF Prepared, Kinds
  <2> QED BY <1>5, <2>2 DEF Prepared, TypeOK, OfferOK, Flows
<1>6. ASSUME NEW c \in Transactions, Populated(c) PROVE TypeOK'
  <2>1. OfferOK'
    BY <1>6, <1>o, KindType, OfferType DEF Populated, Payloads
  <2> QED BY <1>6, <2>1 DEF Populated, TypeOK, OfferOK
<1>7. ASSUME NEW c \in Transactions, PopulateFails(c) PROVE TypeOK'
  BY <1>7 DEF PopulateFails, TypeOK
<1>8. ASSUME NEW p \in Requests, PopupOpens(p) \/ DropPopup(p) PROVE TypeOK'
  BY <1>8 DEF PopupOpens, DropPopup, TypeOK
<1>9. ASSUME NEW p \in Requests, Repopulate(p) PROVE TypeOK'
  <2>1. Shown(p) \in Transactions
    BY <1>9, <1>o, KindType DEF Repopulate, CanAnswer, Shown, OfferOK, Kinds
  <2> QED BY <1>9, <2>1 DEF Repopulate, TypeOK
<1>10. ASSUME NEW p \in Requests, Sign(p) PROVE TypeOK'
  <2>1. Page(p) \in Kinds
    BY KindType DEF Page, Kinds
  <2> QED BY <1>10, <2>1 DEF Sign, Shown, TypeOK
<1>11. ASSUME NEW p \in Requests, Signed(p) PROVE TypeOK'
  <2> DEFINE c == signing[p]
             R == Listening(AnswerKinds(c))
  <2>1. c \in Payloads
    BY <1>11 DEF Signed, TypeOK
  <2>2. /\ flow' \in [Requests -> Flows]
        /\ signature' \in [Requests -> Payloads \cup {Nothing}]
        /\ pending' \in [Payloads -> Requests \cup {Nothing}]
    <3>1. GivenSignature(R, c)
      BY <1>11 DEF Signed
    <3> HIDE DEF c, R
    <3> QED BY <2>1, <3>1 DEF GivenSignature, PendingWithout, TypeOK, Flows
  <2>3. OfferOK' /\ StatusOK'
    <3>1. OfferOK'
      BY <1>11, <1>o, <2>1, KindType, OfferType DEF Signed
    <3>2. StatusOK'
      BY <1>11 DEF Signed, TypeOK, StatusOK
    <3> QED BY <3>1, <3>2
  <2> QED BY <1>11, <2>2, <2>3 DEF Signed, Finished, TypeOK, OfferOK, StatusOK
<1>12. ASSUME NEW p \in Requests, SignFails(p) PROVE TypeOK'
  <2> DEFINE R == Listening(AnswerKinds(signing[p]))
  <2>1. /\ flow' \in [Requests -> Flows]
        /\ pending' \in [Payloads -> Requests \cup {Nothing}]
    <3>1. Settle(R, "rejected")
      BY <1>12 DEF SignFails
    <3> HIDE DEF R
    <3> QED BY <3>1, SettleType DEF Flows
  <2>2. OfferOK' /\ StatusOK'
    BY <1>12, <1>o, ClearType DEF SignFails, OfferOK, StatusOK, IdleState, TypeOK
  <2> QED BY <1>12, <2>1, <2>2 DEF SignFails, Finished, TypeOK, OfferOK, StatusOK
<1>13. ASSUME NEW p \in Requests, NonceFails(p) PROVE TypeOK'
  <2>1. OfferOK'
    BY <1>13, <1>o, ClearType DEF NonceFails
  <2> QED BY <1>13, <2>1 DEF NonceFails, Finished, IdleState, TypeOK, OfferOK
<1>14. ASSUME NEW r \in Requests, BroadcastDone(r) PROVE TypeOK'
  <2>1. OfferOK'
    BY <1>14, <1>o, ClearType DEF BroadcastDone
  <2>2. /\ flow' \in [Requests -> Flows]
        /\ pending' \in [Payloads -> Requests \cup {Nothing}]
    BY <1>14, SettleType DEF BroadcastDone, Flows
  <2> QED BY <1>14, <2>1, <2>2 DEF BroadcastDone, IdleState, TypeOK, OfferOK
<1>15. ASSUME NEW r \in Requests, BroadcastFails(r) PROVE TypeOK'
  BY <1>15, SettleType DEF BroadcastFails, TypeOK, Flows
<1>16. ASSUME NEW p \in Requests, RejectButton(p) PROVE TypeOK'
  <2>1. OfferOK'
    BY <1>16, <1>o, ClearType DEF RejectButton
  <2>2. /\ flow' \in [Requests -> Flows]
        /\ pending' \in [Payloads -> Requests \cup {Nothing}]
    BY <1>16, SettleType DEF RejectButton, TypeOK, Flows
  <2>3. rejections' \in Seq(SUBSET Requests) /\ StatusOK'
    BY <1>16, RejectionType DEF RejectButton, TypeOK, StatusOK
  <2> QED BY <1>16, <2>1, <2>2, <2>3 DEF RejectButton, TypeOK, OfferOK, StatusOK
<1>17. ASSUME NEW p \in Requests, ClosePopup(p) PROVE TypeOK'
  <2>1. OfferOK'
    BY <1>17, <1>o, ClearType DEF ClosePopup
  <2>2. /\ flow' \in [Requests -> Flows]
        /\ pending' \in [Payloads -> Requests \cup {Nothing}]
    BY <1>17, SettleType DEF ClosePopup, Flows
  <2>3. rejections' \in Seq(SUBSET Requests) /\ StatusOK'
    BY <1>17, RejectionType DEF ClosePopup
  <2> QED BY <1>17, <2>1, <2>2, <2>3 DEF ClosePopup, TypeOK, OfferOK, StatusOK
<1>18. ASSUME FinishRejection PROVE TypeOK'
  <2>1. OfferOK'
    BY <1>18, <1>o, ClearType DEF FinishRejection
  <2>2. /\ flow' \in [Requests -> Flows]
        /\ pending' \in [Payloads -> Requests \cup {Nothing}]
    BY <1>18, SettleType DEF FinishRejection, Flows
  <2>3. rejections' \in Seq(SUBSET Requests)
    BY <1>18 DEF FinishRejection, TypeOK
  <2> QED BY <1>18, <2>1, <2>2, <2>3 DEF FinishRejection, IdleState, TypeOK, OfferOK
<1>19. ASSUME UNCHANGED vars PROVE TypeOK'
  BY <1>19 DEF vars, TypeOK
<1> QED
  BY <1>1, <1>2, <1>3, <1>4, <1>5, <1>6, <1>7, <1>8, <1>9, <1>10, <1>11, <1>12,
     <1>13, <1>14, <1>15, <1>16, <1>17, <1>18, <1>19
  DEF Next, OfRequest, AtPopup

LEMMA AskedNext == TypeInv /\ [Next]_vars => Asked'
<1> SUFFICES ASSUME TypeOK, Asked, [Next]_vars PROVE Asked'
  BY DEF TypeInv
<1> USE DEF Asked, TypeOK
<1>1. ASSUME NEW r \in Requests, NEW c \in Payloads, Send(r, c) \/ SendEqual(r, c)
      PROVE Asked'
  BY <1>1, RequestsAssumption DEF Send, SendEqual, Arrives
<1>2. ASSUME NEW r \in Requests, OfRequest(r) PROVE Asked'
  BY <1>2 DEF OfRequest, Malformed, PrepareFails, Prepared, BroadcastDone,
              BroadcastFails, Settle
<1>3. ASSUME NEW p \in Requests, Signed(p) PROVE Asked'
  BY <1>3 DEF Signed, GivenSignature, Listening
<1>4. ASSUME NEW p \in Requests, SignFails(p) \/ RejectButton(p) \/ ClosePopup(p)
      PROVE Asked'
  BY <1>4 DEF SignFails, RejectButton, ClosePopup, Settle, Listening
<1>5. ASSUME FinishRejection PROVE Asked'
  BY <1>5 DEF FinishRejection, Settle, Listening
<1>6. ASSUME UNCHANGED <<flow, payload, signature>> PROVE Asked'
  BY <1>6
<1> QED
  BY <1>1, <1>2, <1>3, <1>4, <1>5, <1>6
  DEF Next, AtPopup, PopupOpens, DropPopup, Repopulate, Sign, NonceFails, Populated,
      PopulateFails, vars

\* The state of the signing requests stays well typed (redux/index.ts,
\* provider-bridge/index.ts).
THEOREM TypeCorrect == Spec => []TypeOK
<1>1. Init => TypeInv
  BY TypeInit
<1>2. TypeInv /\ [Next]_vars => TypeInv'
  BY TypeNext, AskedNext DEF TypeInv
<1>3. TypeInv => TypeOK
  BY DEF TypeInv
<1> QED BY <1>1, <1>2, <1>3, PTL DEF Spec

-----------------------------------------------------------------------------
(* The entries of #pendingSigningRequests.                                 *)

\* Settling open requests removes their entries, and theirs only.
LEMMA SettleKeepsPending ==
    ASSUME TypeOK, PendingIsOpen, NEW R \in SUBSET Open,
           Settle(R, "answered") \/ Settle(R, "rejected"),
           UNCHANGED payload
    PROVE  PendingIsOpen'
<1>1. Open' = Open \ R
  BY DEF Settle, Open
<1>2. ASSUME NEW c \in Payloads, NEW r \in Requests
      PROVE  pending'[c] = r <=> r \in Open' /\ payload'[r] = c
  BY <1>1, RequestsAssumption DEF Settle, PendingWithout, PendingIsOpen, TypeOK
<1> QED BY <1>2 DEF PendingIsOpen

LEMMA ListeningOpen == ASSUME NEW K PROVE Listening(K) \in SUBSET Open
BY DEF Listening, Open

LEMMA PendingNext == TypeInv /\ PendingIsOpen /\ [Next]_vars => PendingIsOpen'
<1> SUFFICES ASSUME TypeOK, Asked, PendingIsOpen, [Next]_vars PROVE PendingIsOpen'
  BY DEF TypeInv
<1>1. ASSUME NEW r \in Requests, NEW c \in Payloads, Send(r, c) PROVE PendingIsOpen'
  <2>1. Open' = Open \cup {r} /\ r \notin Open
    BY <1>1 DEF Send, Arrives, Open, TypeOK
  <2>2. \A q \in Open : payload[q] # c
    BY <1>1, RequestsAssumption DEF Send, PendingIsOpen, Open
  <2>3. \A d \in Payloads : pending[d] # r
    BY <2>1 DEF PendingIsOpen
  <2> QED BY <1>1, <2>1, <2>2, <2>3 DEF Send, Arrives, PendingIsOpen, TypeOK
<1>2. ASSUME NEW r \in Requests, NEW c \in Payloads, SendEqual(r, c)
      PROVE PendingIsOpen'
  <2>1. Open' = Open /\ r \notin Open
    BY <1>2 DEF SendEqual, Arrives, Open, TypeOK
  <2> QED BY <1>2, <2>1 DEF SendEqual, Arrives, PendingIsOpen, TypeOK
<1>3. ASSUME NEW r \in Requests, Malformed(r) \/ BroadcastDone(r) \/ BroadcastFails(r)
      PROVE PendingIsOpen'
  <2>1. {r} \in SUBSET Open
    BY <1>3 DEF Malformed, BroadcastDone, BroadcastFails, Open
  <2> QED BY <1>3, <2>1, SettleKeepsPending DEF Malformed, BroadcastDone, BroadcastFails
<1>4. ASSUME NEW r \in Requests, PrepareFails(r) \/ Prepared(r) PROVE PendingIsOpen'
  <2>1. Open' = Open
    BY <1>4 DEF PrepareFails, Prepared, Open, TypeOK
  <2> QED BY <1>4, <2>1 DEF PrepareFails, Prepared, PendingIsOpen
<1>5. ASSUME NEW p \in Requests, Signed(p) PROVE PendingIsOpen'
  <2> DEFINE R == Listening(AnswerKinds(signing[p]))
             E == {r \in R : payload[r] \notin Transactions \ SignOnly}
  <2>1. R \in SUBSET Open /\ GivenSignature(R, signing[p]) /\ UNCHANGED payload
    BY <1>5, ListeningOpen DEF Signed
  <2> HIDE DEF R
  <2>2. Open' = Open \ E
    BY <2>1 DEF GivenSignature, Open
  <2>3. pending' = PendingWithout(E)
    BY <2>1 DEF GivenSignature
  <2> HIDE DEF E
  <2> QED BY <2>1, <2>2, <2>3, RequestsAssumption DEF PendingWithout, PendingIsOpen, TypeOK
<1>6. ASSUME NEW p \in Requests, SignFails(p) PROVE PendingIsOpen'
  BY <1>6, ListeningOpen, SettleKeepsPending DEF SignFails
<1>7. ASSUME NEW p \in Requests, RejectButton(p) PROVE PendingIsOpen'
  <2>1. CASE UNCHANGED <<flow, pending, payload>>
    BY <2>1 DEF PendingIsOpen, Open
  <2>2. CASE Settle(Listening(DataKinds), "rejected")
    BY <1>7, <2>2, ListeningOpen, SettleKeepsPending DEF RejectButton
  <2> QED BY <1>7, <2>1, <2>2 DEF RejectButton
<1>8. ASSUME NEW p \in Requests, ClosePopup(p) PROVE PendingIsOpen'
  BY <1>8, ListeningOpen, SettleKeepsPending DEF ClosePopup
<1>9. ASSUME FinishRejection PROVE PendingIsOpen'
  <2>1. Head(rejections) \cap Listening({"transaction"}) \in SUBSET Open
    BY ListeningOpen
  <2> QED BY <1>9, <2>1, SettleKeepsPending DEF FinishRejection
<1>10. ASSUME UNCHANGED <<flow, payload, pending>> PROVE PendingIsOpen'
  BY <1>10 DEF PendingIsOpen, Open
<1> QED
  BY <1>1, <1>2, <1>3, <1>4, <1>5, <1>6, <1>7, <1>8, <1>9, <1>10
  DEF Next, OfRequest, AtPopup, PopupOpens, DropPopup, Repopulate, Sign, NonceFails,
      Populated, PopulateFails, store, vars

\* Equal requests share one flow that is not over: the entries of
\* #pendingSigningRequests are the open requests (routeSafeRequest).
THEOREM OneFlowPerPayload == Spec => []PendingIsOpen
<1>1. Init => PendingIsOpen
  <2> SUFFICES ASSUME Init, NEW c \in Payloads, NEW r \in Requests
               PROVE  pending[c] = r <=> r \in Open /\ payload[r] = c
    BY DEF PendingIsOpen
  <2>1. pending[c] = Nothing /\ flow[r] = "unsent" BY DEF Init
  <2>2. r # Nothing BY RequestsAssumption
  <2>3. r \notin Open BY <2>1 DEF Open
  <2> QED BY <2>1, <2>2, <2>3
<1>2. Init => TypeInv
  BY TypeInit
<1>3. TypeInv /\ PendingIsOpen /\ [Next]_vars => (TypeInv /\ PendingIsOpen)'
  BY TypeNext, AskedNext, PendingNext DEF TypeInv
<1> QED BY <1>1, <1>2, <1>3, PTL DEF Spec

-----------------------------------------------------------------------------
(* What a request can be given.  AnswerIsKnown is not inductive: what a    *)
(* request may still be given is what the wallet holds of its kind, and    *)
(* that must be known to every request that is open.                       *)

Holds == Leftovers \cup {payload[o] : o \in Open} \cup {Nothing}

HoldsKnown ==
    \A r \in Open : Holds \cap OfKind(payload[r]) \subseteq left[r] \cup beside[r]

KnownInv == TypeInv /\ AnswerIsKnown /\ HoldsKnown

LEMMA KnownInit == Init => AnswerIsKnown /\ HoldsKnown
BY DEF Init, AnswerIsKnown, HoldsKnown, Open

\* No step but Send brings anything new into the wallet.
LEMMA HoldsKept ==
    ASSUME KnownInv, Open' \subseteq Open, UNCHANGED <<payload, history>>,
           populating' \subseteq Holds,
           \A k \in Kinds : offer'[k] \in Holds,
           \A p \in Requests : signing'[p] \in Holds
    PROVE  HoldsKnown'
<1>1. Holds' \subseteq Holds
  BY DEF Holds, Leftovers
<1>2. \A r \in Open' : Holds' \cap OfKind(payload[r]) \subseteq left[r] \cup beside[r]
  BY <1>1 DEF KnownInv, HoldsKnown
<1> QED BY <1>2 DEF HoldsKnown, OfKind, history

\* What the store and the signers hold.
LEMMA HoldsAll ==
    /\ populating \subseteq Holds
    /\ \A k \in Kinds : offer[k] \in Holds
    /\ \A p \in Requests : signing[p] \in Holds
    /\ \A r \in Open : payload[r] \in Holds
    /\ Nothing \in Holds
BY DEF Holds, Leftovers

LEMMA SettleShrinks ==
    ASSUME NEW R, Settle(R, "answered") \/ Settle(R, "rejected")
    PROVE  Open' \subseteq Open
BY DEF Settle, Open

LEMMA ClearShrinks ==
    ASSUME TypeOK, (\E K : offer' = Cleared(K)) \/ IdleState
    PROVE  \A k \in Kinds : offer'[k] \in Holds
BY HoldsAll DEF Cleared, IdleState, TypeOK, Kinds

LEMMA SendKnown ==
    ASSUME KnownInv, NEW r \in Requests, NEW c \in Payloads, Send(r, c)
    PROVE  AnswerIsKnown' /\ HoldsKnown'
<1>1. /\ Open' = Open \cup {r} /\ r \notin Open
      /\ payload' = [payload EXCEPT ![r] = c]
      /\ signature' = signature /\ signature[r] = Nothing
      /\ Leftovers' = Leftovers
  BY DEF Send, Arrives, Open, Leftovers, KnownInv, TypeInv, TypeOK, Asked, store
<1>2. \A q \in Open : payload'[q] = payload[q] /\ q # r
  BY <1>1 DEF KnownInv, TypeInv, TypeOK, Open
<1>3. Holds' = Holds \cup {c}
  BY <1>1, <1>2 DEF Holds, KnownInv, TypeInv, TypeOK
<1>4. /\ left'[r] = Leftovers \cap OfKind(c)
      /\ beside'[r] = ({c} \cup {payload[o] : o \in Open}) \cap OfKind(c)
      /\ \A q \in Requests \ {r} :
           /\ left'[q] = left[q]
           /\ beside[q] \subseteq beside'[q]
           /\ q \in Open => {c} \cap OfKind(payload[q]) \subseteq beside'[q]
  BY DEF Send, KnownInv, TypeInv, TypeOK
<1>5. AnswerIsKnown'
  BY <1>1, <1>4 DEF AnswerIsKnown, KnownInv
<1>6. ASSUME NEW q \in Open'
      PROVE  Holds' \cap OfKind(payload'[q]) \subseteq left'[q] \cup beside'[q]
  <2>1. CASE q = r
    <3>1. Holds' \cap OfKind(c) = (Leftovers \cup {c} \cup {payload[o] : o \in Open}) \cap OfKind(c)
      BY <1>3, RequestsAssumption DEF Holds, OfKind
    <3> QED BY <1>1, <1>4, <2>1, <3>1 DEF KnownInv, TypeInv, TypeOK
  <2>2. CASE q \in Open
    <3>1. Holds \cap OfKind(payload[q]) \subseteq left[q] \cup beside[q]
      BY <2>2 DEF KnownInv, HoldsKnown
    <3>2. q \in Requests \ {r}
      BY <1>2, <2>2 DEF Open
    <3> QED BY <1>2, <1>3, <1>4, <2>2, <3>1, <3>2
  <2> QED BY <1>1, <2>1, <2>2
<1>7. HoldsKnown'
  BY <1>6 DEF HoldsKnown, OfKind
<1> QED BY <1>5, <1>7

LEMMA SendEqualKnown ==
    ASSUME KnownInv, NEW r \in Requests, NEW c \in Payloads, SendEqual(r, c)
    PROVE  AnswerIsKnown' /\ HoldsKnown'
<1>1. /\ Open' = Open /\ r \notin Open
      /\ payload' = [payload EXCEPT ![r] = c]
      /\ UNCHANGED <<signature, history>>
      /\ Leftovers' = Leftovers
  BY DEF SendEqual, Arrives, Open, Leftovers, KnownInv, TypeInv, TypeOK, store
<1>2. \A q \in Open : payload'[q] = payload[q]
  BY <1>1 DEF KnownInv, TypeInv, TypeOK, Open
<1>3. Holds' = Holds
  BY <1>1, <1>2 DEF Holds
<1>4. \A q \in Open' : Holds' \cap OfKind(payload'[q]) \subseteq left'[q] \cup beside'[q]
  BY <1>1, <1>2, <1>3 DEF KnownInv, HoldsKnown, history
<1> QED BY <1>1, <1>4 DEF AnswerIsKnown, HoldsKnown, KnownInv, OfKind, history

LEMMA SignedKnown ==
    ASSUME KnownInv, NEW p \in Requests, Signed(p)
    PROVE  AnswerIsKnown' /\ HoldsKnown'
<1> DEFINE c == signing[p]
           R == Listening(AnswerKinds(c))
<1>1. c \in Payloads /\ c \in Holds
  BY HoldsAll DEF Signed, KnownInv, TypeInv, TypeOK
<1>2. R \subseteq Open /\ \A r \in R : c \in OfKind(payload[r])
  BY <1>1 DEF Listening, Open, AnswerKinds, OfKind
<1>3. /\ GivenSignature(R, c)
      /\ UNCHANGED <<payload, populating, history>>
      /\ Finished(p)
      /\ offer' = offer \/ offer' = [offer EXCEPT ![Kind(c)] = Nothing]
  BY DEF Signed
<1> HIDE DEF c, R
<1>4. \A r \in R : c \in left[r] \cup beside[r]
  BY <1>1, <1>2 DEF KnownInv, HoldsKnown
<1>5. AnswerIsKnown'
  BY <1>3, <1>4 DEF GivenSignature, AnswerIsKnown, KnownInv, history
<1>6. Open' \subseteq Open
  BY <1>2, <1>3 DEF GivenSignature, Open
<1>7. \A k \in Kinds : offer'[k] \in Holds
  BY <1>3, HoldsAll DEF KnownInv, TypeInv, TypeOK
<1>8. \A q \in Requests : signing'[q] \in Holds
  BY <1>3, HoldsAll DEF Finished, KnownInv, TypeInv, TypeOK
<1> QED BY <1>3, <1>5, <1>6, <1>7, <1>8, HoldsAll, HoldsKept

LEMMA KnownNext == KnownInv /\ [Next]_vars => AnswerIsKnown' /\ HoldsKnown'
<1> SUFFICES ASSUME KnownInv, [Next]_vars PROVE AnswerIsKnown' /\ HoldsKnown'
  OBVIOUS
<1>t. TypeOK
  BY DEF KnownInv, TypeInv
<1>a. ASSUME UNCHANGED <<signature, history>> PROVE AnswerIsKnown'
  BY <1>a DEF AnswerIsKnown, KnownInv, history
<1>1. ASSUME NEW r \in Requests, NEW c \in Payloads, Send(r, c) \/ SendEqual(r, c)
      PROVE AnswerIsKnown' /\ HoldsKnown'
  BY <1>1, SendKnown, SendEqualKnown
<1>2. ASSUME NEW r \in Requests, Malformed(r) \/ PrepareFails(r) \/ BroadcastFails(r)
      PROVE AnswerIsKnown' /\ HoldsKnown'
  <2>1. Open' \subseteq Open
    BY <1>2, <1>t, SettleShrinks DEF Malformed, PrepareFails, BroadcastFails, Open, TypeOK
  <2> QED BY <1>2, <1>a, <2>1, HoldsAll, HoldsKept
          DEF Malformed, PrepareFails, BroadcastFails, store
<1>3. ASSUME NEW r \in Requests, BroadcastDone(r) PROVE AnswerIsKnown' /\ HoldsKnown'
  BY <1>3, <1>a, <1>t, SettleShrinks, ClearShrinks, HoldsAll, HoldsKept DEF BroadcastDone
<1>4. ASSUME NEW r \in Requests, Prepared(r) PROVE AnswerIsKnown' /\ HoldsKnown'
  <2>1. Open' \subseteq Open /\ r \in Open
    BY <1>4, <1>t DEF Prepared, Open, TypeOK
  <2>2. populating' \subseteq Holds
    BY <1>4, <2>1, HoldsAll DEF Prepared
  <2>3. \A k \in Kinds : offer'[k] \in Holds
    BY <1>4, <1>t, <2>1, HoldsAll DEF Prepared, TypeOK
  <2> QED BY <1>4, <1>a, <2>1, <2>2, <2>3, HoldsAll, HoldsKept DEF Prepared
<1>5. ASSUME NEW c \in Transactions, Populated(c) PROVE AnswerIsKnown' /\ HoldsKnown'
  <2>1. \A k \in Kinds : offer'[k] \in Holds
    BY <1>5, <1>t, HoldsAll DEF Populated, TypeOK
  <2> QED BY <1>5, <1>a, <2>1, HoldsAll, HoldsKept DEF Populated, Open
<1>6. ASSUME NEW c \in Transactions, PopulateFails(c) PROVE AnswerIsKnown' /\ HoldsKnown'
  BY <1>6, <1>a, HoldsAll, HoldsKept DEF PopulateFails, Open
<1>7. ASSUME NEW p \in Requests, PopupOpens(p) \/ DropPopup(p)
      PROVE AnswerIsKnown' /\ HoldsKnown'
  BY <1>7, <1>a, HoldsAll, HoldsKept DEF PopupOpens, DropPopup, Open, store
<1>8. ASSUME NEW p \in Requests, Repopulate(p) PROVE AnswerIsKnown' /\ HoldsKnown'
  <2>1. Shown(p) \in Holds
    BY HoldsAll, KindType DEF Shown, Page, Kinds
  <2> QED BY <1>8, <1>a, <2>1, HoldsAll, HoldsKept DEF Repopulate, Open
<1>9. ASSUME NEW p \in Requests, Sign(p) PROVE AnswerIsKnown' /\ HoldsKnown'
  <2>1. Shown(p) \in Holds
    BY HoldsAll, KindType DEF Shown, Page, Kinds
  <2>2. \A q \in Requests : signing'[q] \in Holds
    BY <1>9, <1>t, <2>1, HoldsAll DEF Sign, TypeOK
  <2> QED BY <1>9, <1>a, <2>2, HoldsAll, HoldsKept DEF Sign, Open, store
<1>10. ASSUME NEW p \in Requests, Signed(p) PROVE AnswerIsKnown' /\ HoldsKnown'
  BY <1>10, SignedKnown
<1>11. ASSUME NEW p \in Requests, SignFails(p) \/ NonceFails(p)
       PROVE AnswerIsKnown' /\ HoldsKnown'
  <2>1. Open' \subseteq Open
    BY <1>11, SettleShrinks DEF SignFails, NonceFails, Open
  <2>2. \A k \in Kinds : offer'[k] \in Holds
    BY <1>11, <1>t, ClearShrinks, HoldsAll DEF SignFails, NonceFails
  <2>3. \A q \in Requests : signing'[q] \in Holds
    BY <1>11, <1>t, HoldsAll DEF SignFails, NonceFails, Finished, TypeOK
  <2> QED BY <1>11, <1>a, <2>1, <2>2, <2>3, HoldsAll, HoldsKept DEF SignFails, NonceFails
<1>12. ASSUME NEW p \in Requests, RejectButton(p) \/ ClosePopup(p)
       PROVE AnswerIsKnown' /\ HoldsKnown'
  <2>1. Open' \subseteq Open
    BY <1>12, SettleShrinks DEF RejectButton, ClosePopup, Open
  <2>2. \A k \in Kinds : offer'[k] \in Holds
    BY <1>12, <1>t, ClearShrinks DEF RejectButton, ClosePopup
  <2> QED BY <1>12, <1>a, <2>1, <2>2, HoldsAll, HoldsKept DEF RejectButton, ClosePopup
<1>13. ASSUME FinishRejection PROVE AnswerIsKnown' /\ HoldsKnown'
  BY <1>13, <1>a, <1>t, SettleShrinks, ClearShrinks, HoldsAll, HoldsKept
  DEF FinishRejection
<1>14. ASSUME UNCHANGED vars PROVE AnswerIsKnown' /\ HoldsKnown'
  BY <1>14, <1>a, HoldsAll, HoldsKept DEF vars, Open, store
<1> QED
  BY <1>1, <1>2, <1>3, <1>4, <1>5, <1>6, <1>7, <1>8, <1>9, <1>10, <1>11, <1>12, <1>13,
     <1>14
  DEF Next, OfRequest, AtPopup

\* However answers, popups, rejections and populations interleave, a request is
\* given the signature of its own payload or of one of its kind that was left in
\* the wallet when it was made or was asked for beside it.
THEOREM AnswerKnown == Spec => []AnswerIsKnown
<1>1. Init => KnownInv
  BY TypeInit, KnownInit DEF KnownInv
<1>2. KnownInv /\ [Next]_vars => KnownInv'
  BY TypeNext, AskedNext, KnownNext DEF KnownInv, TypeInv
<1>3. KnownInv => AnswerIsKnown
  BY DEF KnownInv
<1> QED BY <1>1, <1>2, <1>3, PTL DEF Spec

-----------------------------------------------------------------------------
(* The course of a request.                                                *)

Sent(c) == c \in Transactions \ SignOnly

\* What a step may make of a request.
Course(r) ==
    \/ UNCHANGED <<flow[r], signature[r], payload[r]>>
    \/ /\ UNCHANGED signature[r]
       /\ \/ flow[r] = "unsent" /\ flow'[r] \in {"preparing", "shared"}
          \/ /\ UNCHANGED payload[r]
             /\ \/ flow[r] = "preparing" /\ flow'[r] \in {"hung", "listening", "rejected"}
                \/ flow[r] = "listening" /\ flow'[r] = "rejected"
                \/ flow[r] = "sending" /\ flow'[r] \in {"answered", "rejected"}
    \/ /\ flow[r] = "listening"
       /\ flow'[r] = IF Sent(payload[r]) THEN "sending" ELSE "answered"
       /\ signature'[r] \in Payloads
       /\ UNCHANGED payload[r]

LEMMA RejectCourse ==
    ASSUME TypeOK, NEW R, Settle(R, "rejected"), UNCHANGED <<payload, signature>>,
           \A r \in R : flow[r] = "listening", NEW q \in Requests
    PROVE  Course(q)
BY DEF Settle, Course, TypeOK

LEMMA CourseStep ==
    ASSUME TypeInv, [Next]_vars, NEW q \in Requests
    PROVE  Course(q)
<1>t. TypeOK
  BY DEF TypeInv
<1>1. ASSUME NEW r \in Requests, NEW c \in Payloads, Send(r, c) \/ SendEqual(r, c)
      PROVE Course(q)
  BY <1>1, <1>t DEF Send, SendEqual, Arrives, Course, TypeOK
<1>2. ASSUME NEW r \in Requests, PrepareFails(r) \/ Prepared(r) PROVE Course(q)
  BY <1>2, <1>t DEF PrepareFails, Prepared, Course, TypeOK
<1>3. ASSUME NEW r \in Requests, Malformed(r) \/ BroadcastDone(r) \/ BroadcastFails(r)
      PROVE Course(q)
  BY <1>3, <1>t DEF Malformed, BroadcastDone, BroadcastFails, Settle, Course, TypeOK
<1>4. ASSUME NEW p \in Requests, Signed(p) PROVE Course(q)
  <2> DEFINE c == signing[p]
             R == Listening(AnswerKinds(c))
  <2>1. c \in Payloads /\ GivenSignature(R, c) /\ UNCHANGED payload
    BY <1>4, <1>t DEF Signed, TypeOK
  <2>2. \A r \in R : flow[r] = "listening"
    BY DEF Listening
  <2> HIDE DEF c, R
  <2> QED BY <2>1, <2>2 DEF GivenSignature, Course, Sent
<1>5. ASSUME NEW p \in Requests, SignFails(p) PROVE Course(q)
  <2> DEFINE R == Listening(AnswerKinds(signing[p]))
  <2>1. Settle(R, "rejected") /\ UNCHANGED <<payload, signature>>
    BY <1>5 DEF SignFails
  <2>2. \A r \in R : flow[r] = "listening"
    BY DEF Listening
  <2> HIDE DEF R
  <2> QED BY <1>t, <2>1, <2>2, RejectCourse
<1>6. ASSUME NEW p \in Requests, RejectButton(p) \/ ClosePopup(p) PROVE Course(q)
  <2> DEFINE R == Listening(DataKinds)
  <2>1. /\ Settle(R, "rejected") \/ UNCHANGED flow
        /\ UNCHANGED <<payload, signature>>
    BY <1>6 DEF RejectButton, ClosePopup
  <2>2. \A r \in R : flow[r] = "listening"
    BY DEF Listening
  <2> HIDE DEF R
  <2>3. CASE UNCHANGED flow
    BY <2>1, <2>3 DEF Course
  <2> QED BY <1>t, <2>1, <2>2, <2>3, RejectCourse
<1>7. ASSUME FinishRejection PROVE Course(q)
  <2> DEFINE R == Head(rejections) \cap Listening({"transaction"})
  <2>1. Settle(R, "rejected") /\ UNCHANGED <<payload, signature>>
    BY <1>7 DEF FinishRejection
  <2>2. \A r \in R : flow[r] = "listening"
    BY DEF Listening
  <2> HIDE DEF R
  <2> QED BY <1>t, <2>1, <2>2, RejectCourse
<1>8. ASSUME UNCHANGED <<flow, signature, payload>> PROVE Course(q)
  BY <1>8 DEF Course
<1> QED
  BY <1>1, <1>2, <1>3, <1>4, <1>5, <1>6, <1>7, <1>8
  DEF Next, OfRequest, AtPopup, PopupOpens, DropPopup, Repopulate, Sign, NonceFails,
      Populated, PopulateFails, vars

\* A request is answered, or its transaction sent, only with a signature; and
\* what was given a signature is answered, unless it is a transaction whose
\* broadcast failed.
AnsweredIsSigned ==
    \A r \in Requests :
        /\ flow[r] \in {"sending", "answered"} => signature[r] # Nothing
        /\ flow[r] = "sending" => Sent(payload[r])
        /\ signature[r] # Nothing =>
              \/ flow[r] \in {"sending", "answered"}
              \/ flow[r] = "rejected" /\ Sent(payload[r])

LEMMA SignedStep == TypeInv /\ AnsweredIsSigned /\ [Next]_vars => AnsweredIsSigned'
<1> SUFFICES ASSUME TypeInv, AnsweredIsSigned, [Next]_vars, NEW r \in Requests
             PROVE  /\ flow'[r] \in {"sending", "answered"} => signature'[r] # Nothing
                    /\ flow'[r] = "sending" => Sent(payload'[r])
                    /\ signature'[r] # Nothing =>
                          \/ flow'[r] \in {"sending", "answered"}
                          \/ flow'[r] = "rejected" /\ Sent(payload'[r])
  BY DEF AnsweredIsSigned, Sent
<1>1. Course(r)
  BY CourseStep
<1>2. Nothing \notin Payloads
  BY RequestsAssumption
<1> QED BY <1>1, <1>2 DEF AnsweredIsSigned, Course

\* No answer without a signature, and no signature that is neither sent on nor
\* returned: shared outcomes, second popups and late answers of the signer
\* included (signTransaction, signTypedData, signData of redux/index.ts and the
\* promises of InternalEthereumProviderService).
THEOREM AnswersAreSigned == Spec => []AnsweredIsSigned
<1>1. Init => TypeInv /\ AnsweredIsSigned
  BY TypeInit DEF Init, AnsweredIsSigned
<1>2. TypeInv /\ AnsweredIsSigned /\ [Next]_vars => (TypeInv /\ AnsweredIsSigned)'
  BY TypeNext, AskedNext, SignedStep DEF TypeInv
<1> QED BY <1>1, <1>2, PTL DEF Spec

\* A request with an outcome keeps it, and one with a signature keeps that.
OutcomeIsFinal ==
    [][\A r \in Requests :
          /\ flow[r] \in {"answered", "rejected"} => UNCHANGED <<flow[r], signature[r]>>
          /\ signature[r] # Nothing => UNCHANGED signature[r]]_vars

\* An outcome is final, and a request is given one signature: the answers of the
\* signer and the rejections of closing popups settle every listener of their
\* kind, and none that has its outcome hears of them, since the first answer
\* removes its listeners (signTransaction, signTypedData, signData of
\* redux/index.ts).
THEOREM OutcomesAreFinal == Spec => OutcomeIsFinal
<1> DEFINE Kept ==
      \A r \in Requests :
          /\ flow[r] \in {"answered", "rejected"} => UNCHANGED <<flow[r], signature[r]>>
          /\ signature[r] # Nothing => UNCHANGED signature[r]
<1>1. Init => TypeInv /\ AnsweredIsSigned
  BY TypeInit DEF Init, AnsweredIsSigned
<1>2. TypeInv /\ AnsweredIsSigned /\ [Next]_vars => (TypeInv /\ AnsweredIsSigned)'
  BY TypeNext, AskedNext, SignedStep DEF TypeInv
<1>3. TypeInv /\ AnsweredIsSigned /\ [Next]_vars => [Kept]_vars
  BY CourseStep DEF Course, AnsweredIsSigned
<1>4. OutcomeIsFinal <=> [][Kept]_vars
  BY DEF OutcomeIsFinal
<1> QED BY <1>1, <1>2, <1>3, <1>4, PTL DEF Spec

-----------------------------------------------------------------------------
(* What OpenPopupAnswers rests on.                                         *)

\* The request is one that a rejection under way will reject.
Caught(r) == \E i \in 1..Len(rejections) : r \in rejections[i]

\* A request that listens while a popup closes is settled or caught, and a
\* rejection lets go of what it caught only when that is settled.
ClosingCatches ==
    [][\A r \in Requests :
          /\ flow[r] = "listening" /\ flow'[r] = "listening"
          /\ \/ Caught(r)
             \/ \E p \in Requests : popup[p] = "open" /\ popup'[p] = "closed"
          => Caught(r)']_vars

CaughtInv ==
    \A r \in Requests :
        Caught(r) => flow[r] # "unsent" /\ Kind(payload[r]) = "transaction"

LEMMA RejectCatches ==
    ASSUME TypeOK, RejectTransaction, NEW r \in Requests
    PROVE  /\ Caught(r) => Caught(r)'
           /\ flow[r] = "listening" /\ Kind(payload[r]) = "transaction" => Caught(r)'
           /\ Caught(r)' => \/ Caught(r)
                            \/ flow[r] = "listening" /\ Kind(payload[r]) = "transaction"
<1> DEFINE caught == Listening({"transaction"})
<1>1. caught \in SUBSET Requests
  BY DEF Listening
<1>2. flow[r] = "listening" /\ Kind(payload[r]) = "transaction" <=> r \in caught
  BY DEF Listening
<1>3. rejections' = IF caught = {} THEN rejections ELSE Append(rejections, caught)
  BY DEF RejectTransaction
<1> HIDE DEF caught
<1>4. CASE caught = {}
  BY <1>2, <1>3, <1>4 DEF Caught
<1>5. CASE caught # {}
  <2>1. /\ Len(rejections') = Len(rejections) + 1 /\ Len(rejections) \in Nat
        /\ rejections'[Len(rejections) + 1] = caught
        /\ \A i \in 1..Len(rejections) : rejections'[i] = rejections[i]
    BY <1>1, <1>3, <1>5 DEF TypeOK
  <2> QED BY <1>2, <2>1 DEF Caught
<1> QED BY <1>4, <1>5

LEMMA FinishCatches ==
    ASSUME TypeOK, CaughtInv, FinishRejection, NEW r \in Requests
    PROVE  /\ Caught(r)' => Caught(r)
           /\ Caught(r) /\ flow'[r] = "listening" => Caught(r)'
<1>1. /\ rejections # <<>> /\ rejections \in Seq(SUBSET Requests)
      /\ rejections' = Tail(rejections)
      /\ Settle(Head(rejections) \cap Listening({"transaction"}), "rejected")
  BY DEF FinishRejection, TypeOK
<1>2. /\ Len(rejections') = Len(rejections) - 1 /\ Len(rejections) \in Nat \ {0}
      /\ Head(rejections) = rejections[1]
      /\ \A i \in 1..(Len(rejections) - 1) : rejections'[i] = rejections[i + 1]
  BY <1>1
<1>3. ASSUME Caught(r)' PROVE Caught(r)
  <2>1. PICK i \in 1..(Len(rejections) - 1) : r \in rejections[i + 1]
    BY <1>2, <1>3 DEF Caught
  <2>2. i + 1 \in 1..Len(rejections)
    BY <1>2
  <2> QED BY <2>1, <2>2 DEF Caught
<1>4. ASSUME Caught(r), flow'[r] = "listening" PROVE Caught(r)'
  <2>1. r \notin Head(rejections)
    <3>1. Kind(payload[r]) = "transaction"
      BY <1>4 DEF CaughtInv
    <3>2. flow'[r] = "listening" => flow[r] = "listening"
      BY <1>1 DEF Settle
    <3> QED BY <1>1, <1>4, <3>1, <3>2 DEF Settle, Listening
  <2>2. PICK i \in 1..Len(rejections) : r \in rejections[i]
    BY <1>4 DEF Caught
  <2>3. i - 1 \in 1..(Len(rejections) - 1)
    BY <1>2, <2>1, <2>2
  <2>4. rejections'[i - 1] = rejections[i]
    BY <1>2, <2>3
  <2> QED BY <1>2, <2>2, <2>3, <2>4 DEF Caught
<1> QED BY <1>3, <1>4

\* What becomes of the caught.
LEMMA CaughtStep ==
    ASSUME TypeInv, CaughtInv, [Next]_vars, NEW r \in Requests
    PROVE  /\ Caught(r)' => \/ Caught(r)
                            \/ flow[r] = "listening" /\ Kind(payload[r]) = "transaction"
           /\ Caught(r) /\ flow'[r] = "listening" => Caught(r)'
           /\ \A p \in Requests :
                 /\ flow[r] = "listening" /\ flow'[r] = "listening"
                 /\ popup[p] = "open" /\ popup'[p] = "closed"
                 => Caught(r)'
<1> DEFINE Goal ==
      /\ Caught(r)' => \/ Caught(r)
                       \/ flow[r] = "listening" /\ Kind(payload[r]) = "transaction"
      /\ Caught(r) /\ flow'[r] = "listening" => Caught(r)'
      /\ \A p \in Requests :
            /\ flow[r] = "listening" /\ flow'[r] = "listening"
            /\ popup[p] = "open" /\ popup'[p] = "closed"
            => Caught(r)'
<1>t. TypeOK
  BY DEF TypeInv
<1>0. ASSUME UNCHANGED rejections, \A p \in Requests : popup[p] = "open" => popup'[p] # "closed"
      PROVE  Goal
  BY <1>0 DEF Caught
<1>1. ASSUME NEW p \in Requests, ClosePopup(p) PROVE Goal
  <2>1. RejectTransaction
    BY <1>1 DEF ClosePopup
  <2>2. flow[r] = "listening" /\ flow'[r] = "listening" => Kind(payload[r]) = "transaction"
    <3>1. Settle(Listening(DataKinds), "rejected")
      BY <1>1 DEF ClosePopup
    <3>2. flow[r] = "listening" /\ Kind(payload[r]) # "transaction"
            => r \in Listening(DataKinds)
      BY KindType DEF Listening, DataKinds, Kinds
    <3> QED BY <3>1, <3>2 DEF Settle
  <2> QED BY <1>t, <2>1, <2>2, RejectCatches
<1>2. ASSUME NEW p \in Requests, RejectButton(p) PROVE Goal
  <2>1. UNCHANGED popup /\ (RejectTransaction \/ UNCHANGED rejections)
    BY <1>2 DEF RejectButton
  <2> QED BY <1>0, <1>t, <2>1, RejectCatches
<1>3. ASSUME FinishRejection PROVE Goal
  <2>1. UNCHANGED popup
    BY <1>3 DEF FinishRejection
  <2> QED BY <1>3, <1>t, <2>1, FinishCatches
<1>4. ASSUME NEW q \in Requests, PopupOpens(q) \/ DropPopup(q) PROVE Goal
  BY <1>0, <1>4, <1>t DEF PopupOpens, DropPopup, TypeOK
<1>5. ASSUME NEW q \in Requests, NEW c \in Payloads, Send(q, c) \/ SendEqual(q, c)
      PROVE  Goal
  <2>1. flow[q] = "unsent" /\ popup' = [popup EXCEPT ![q] = "opening"]
        /\ UNCHANGED rejections
    BY <1>5 DEF Send, SendEqual, Arrives
  <2> QED BY <1>0, <1>t, <2>1 DEF TypeOK
<1>6. ASSUME UNCHANGED <<rejections, popup>> PROVE Goal
  BY <1>0, <1>6
<1> QED
  BY <1>1, <1>2, <1>3, <1>4, <1>5, <1>6
  DEF Next, OfRequest, AtPopup, Malformed, PrepareFails, Prepared, BroadcastDone,
      BroadcastFails, Repopulate, Sign, Signed, SignFails, NonceFails, Populated,
      PopulateFails, vars

LEMMA CaughtNext == TypeInv /\ CaughtInv /\ [Next]_vars => CaughtInv'
<1> SUFFICES ASSUME TypeInv, CaughtInv, [Next]_vars, NEW r \in Requests, Caught(r)'
             PROVE  flow'[r] # "unsent" /\ Kind(payload'[r]) = "transaction"
  BY DEF CaughtInv, Kind
<1>1. flow[r] # "unsent" /\ Kind(payload[r]) = "transaction"
  BY CaughtStep DEF CaughtInv
<1>2. Course(r)
  BY CourseStep
<1> QED BY <1>1, <1>2 DEF Course

\* Whatever closes a popup settles the requests that listen, or leaves them to a
\* rejection that waits for the Flashbots toggle; and that rejection forgets
\* none of them, however many popups close meanwhile
\* (rejectTransactionSignature, rejectDataSignature, the popup monitor).
THEOREM ClosedPopupsReject == Spec => ClosingCatches
<1> DEFINE Kept ==
      \A r \in Requests :
          /\ flow[r] = "listening" /\ flow'[r] = "listening"
          /\ \/ Caught(r)
             \/ \E p \in Requests : popup[p] = "open" /\ popup'[p] = "closed"
          => Caught(r)'
<1>1. Init => TypeInv /\ CaughtInv
  <2>1. Init => CaughtInv
    BY DEF Init, CaughtInv, Caught
  <2> QED BY <2>1, TypeInit
<1>2. TypeInv /\ CaughtInv /\ [Next]_vars => (TypeInv /\ CaughtInv)'
  BY TypeNext, AskedNext, CaughtNext DEF TypeInv
<1>3. TypeInv /\ CaughtInv /\ [Next]_vars => [Kept]_vars
  BY CaughtStep
<1>4. ClosingCatches <=> [][Kept]_vars
  BY DEF ClosingCatches
<1> QED BY <1>1, <1>2, <1>3, <1>4, PTL DEF Spec
=============================================================================
