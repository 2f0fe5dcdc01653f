---------------------------- MODULE SigningRequests ----------------------------
(***************************************************************************)
(* What becomes of a dApp's request for a signature.  ProviderBridge       *)
(* shares the outcome among equal requests and opens a popup for each;     *)
(* InternalEthereumProvider makes a promise of it; ReduxService prepares   *)
(* it, puts it on offer in the store and listens for an answer.  There is  *)
(* one offer per kind in the store, whatever was asked, every popup shows  *)
(* it, and an answer carries no request: it settles every request of its   *)
(* kind that listens.                                                      *)
(*                                                                         *)
(* Requests are those of one origin; a payload is a method and its         *)
(* parameters.  Populations of one transaction that are under way together *)
(* are taken as one.                                                       *)
(***************************************************************************)
EXTENDS Integers, Sequences

CONSTANTS
    Requests,
    Transactions,   \* payloads of eth_sendTransaction and eth_signTransaction,
    SignOnly,       \* the latter of them,
    TypedData,      \* of eth_signTypedData,
    Messages,       \* and of eth_sign and personal_sign
    Nothing

Payloads == Transactions \cup TypedData \cup Messages

ASSUME RequestsAssumption ==
    /\ SignOnly \subseteq Transactions
    /\ Transactions \cap TypedData = {}
    /\ Messages \cap (Transactions \cup TypedData) = {}
    /\ Nothing \notin Payloads
    /\ Nothing \notin Requests

VARIABLES
    flow,        \* where each request is
    payload,     \* what it asks to sign
    signature,   \* the payload whose signature it was given
    pending,     \* #pendingSigningRequests: the request that is open for a payload
    popup,       \* the window opened for each request
    offer,       \* what the store offers to sign, of each kind
    status,      \* transactionConstruction.status
    populating,  \* transactions whose population is under way
    signing,     \* per popup, what the user agreed to there while it is signed
    clicked,     \* popups whose sign button was pressed
    rejections,  \* rejections of transactions that wait for the Flashbots toggle
    left,        \* history: what was left of its kind when a request was made
    beside       \* history: what requests open together with it asked to sign

store == <<offer, status, populating>>
history == <<left, beside>>
vars == <<flow, payload, signature, pending, popup, store, signing, clicked,
          rejections, history>>

Kinds == {"transaction", "typedData", "message"}

Kind(c) == IF c \in Transactions THEN "transaction"
           ELSE IF c \in TypedData THEN "typedData" ELSE "message"

Flows == {"unsent",
          "preparing",  \* on its way through InternalEthereumProvider and ReduxService
          "listening",  \* on offer, with listeners for an answer
          "sending",    \* signed, broadcast under way
          "answered", "rejected",
          "shared",     \* awaits the promise of an equal request
          "hung"}       \* its preparation failed: nobody will answer

TypeOK ==
    /\ flow \in [Requests -> Flows]
    /\ payload \in [Requests -> Payloads \cup {Nothing}]
    /\ signature \in [Requests -> Payloads \cup {Nothing}]
    /\ pending \in [Payloads -> Requests \cup {Nothing}]
    /\ popup \in [Requests -> {"none", "opening", "open", "closed"}]
    /\ offer \in [Kinds -> Payloads \cup {Nothing}]
    /\ \A k \in Kinds : offer[k] # Nothing => Kind(offer[k]) = k
    /\ status \in {"idle", "pending", "loaded", "signed"}
    /\ populating \subseteq Transactions
    /\ signing \in [Requests -> Payloads \cup {Nothing}]
    /\ clicked \subseteq Requests
    /\ rejections \in Seq(SUBSET Requests)
    /\ left \in [Requests -> SUBSET Payloads]
    /\ beside \in [Requests -> SUBSET Payloads]

Init ==
    /\ flow = [r \in Requests |-> "unsent"]
    /\ payload = [r \in Requests |-> Nothing]
    /\ signature = [r \in Requests |-> Nothing]
    /\ pending = [c \in Payloads |-> Nothing]
    /\ popup = [r \in Requests |-> "none"]
    /\ offer = [k \in Kinds |-> Nothing]
    /\ status = "idle"
    /\ populating = {}
    /\ signing = [r \in Requests |-> Nothing]
    /\ clicked = {}
    /\ rejections = <<>>
    /\ left = [r \in Requests |-> {}]
    /\ beside = [r \in Requests |-> {}]

-----------------------------------------------------------------------------
(* A request arrives.                                                      *)

Open == {r \in Requests : flow[r] \in {"preparing", "listening", "sending", "hung"}}

OfKind(c) == {d \in Payloads : Kind(d) = Kind(c)}

\* What is on its way to an offer, on offer, or being signed.
Leftovers == populating \cup {offer[k] : k \in Kinds} \cup {signing[p] : p \in Requests}

Arrives(r, c) ==
    /\ flow[r] = "unsent"
    /\ payload' = [payload EXCEPT ![r] = c]
    /\ popup' = [popup EXCEPT ![r] = "opening"]
    /\ UNCHANGED <<signature, store, signing, clicked, rejections>>

\* The first of its payload starts on its way and is registered.
Send(r, c) ==
    /\ pending[c] = Nothing
    /\ Arrives(r, c)
    /\ flow' = [flow EXCEPT ![r] = "preparing"]
    /\ pending' = [pending EXCEPT ![c] = r]
    /\ left' = [left EXCEPT ![r] = Leftovers \cap OfKind(c)]
    /\ beside' = [q \in Requests |->
          IF q = r THEN ({c} \cup {payload[o] : o \in Open}) \cap OfKind(c)
          ELSE beside[q] \cup (IF q \in Open THEN {c} \cap OfKind(payload[q]) ELSE {})]

\* An equal one awaits the promise of the first.
SendEqual(r, c) ==
    /\ pending[c] # Nothing
    /\ Arrives(r, c)
    /\ flow' = [flow EXCEPT ![r] = "shared"]
    /\ UNCHANGED <<pending, history>>

-----------------------------------------------------------------------------
(* Settling.  The entry of a request's payload goes with it.               *)

\* Mutant of PendingWithout: the entry stays.
PendingKept(R) == pending

PendingWithout(R) ==
    [c \in Payloads |-> IF pending[c] \in R THEN Nothing ELSE pending[c]]

Settle(R, end) ==
    /\ flow' = [r \in Requests |-> IF r \in R THEN end ELSE flow[r]]
    /\ pending' = PendingWithout(R)

Listening(kinds) ==
    {r \in Requests : flow[r] = "listening" /\ Kind(payload[r]) \in kinds}

\* clearTransactionState(Idle)
IdleState == status' = "idle" /\ offer' = [offer EXCEPT !["transaction"] = Nothing]

\* The request is malformed: signTransaction, signTypedData or signData throws.
Malformed(r) ==
    /\ flow[r] = "preparing"
    /\ Settle({r}, "rejected")
    /\ UNCHANGED <<payload, signature, popup, store, signing, clicked, rejections, history>>

\* The Ledger refresh or the enrichment fails in a listener nobody awaits.
PrepareFails(r) ==
    /\ flow[r] = "preparing"
    /\ flow' = [flow EXCEPT ![r] = "hung"]
    /\ UNCHANGED <<payload, signature, pending, popup, store, signing, clicked,
                   rejections, history>>

\* Mutant of Prepared: data is populated like a transaction.
PreparedPopulates(r) ==
    /\ flow[r] = "preparing"
    /\ flow' = [flow EXCEPT ![r] = "listening"]
    /\ offer' = [offer EXCEPT !["transaction"] = Nothing]
    /\ status' = "pending"
    /\ populating' = populating \cup {payload[r]}
    /\ UNCHANGED <<payload, signature, pending, popup, signing, clicked,
                   rejections, history>>

\* The request is put on offer and listens.  A transaction is populated first.
Prepared(r) ==
    /\ flow[r] = "preparing"
    /\ flow' = [flow EXCEPT ![r] = "listening"]
    /\ IF payload[r] \in Transactions
       THEN /\ offer' = [offer EXCEPT !["transaction"] = Nothing]
            /\ status' = "pending"
            /\ populating' = populating \cup {payload[r]}
       ELSE /\ offer' = [offer EXCEPT ![Kind(payload[r])] = payload[r]]
            /\ UNCHANGED <<status, populating>>
    /\ UNCHANGED <<payload, signature, pending, popup, signing, clicked,
                   rejections, history>>

\* The populated transaction is put on offer, whatever was asked meanwhile.
Populated(c) ==
    /\ c \in populating
    /\ populating' = populating \ {c}
    /\ offer' = [offer EXCEPT !["transaction"] = c]
    /\ status' = "loaded"
    /\ UNCHANGED <<flow, payload, signature, pending, popup, signing, clicked,
                   rejections, history>>

PopulateFails(c) ==
    /\ c \in populating
    /\ populating' = populating \ {c}
    /\ UNCHANGED <<flow, payload, signature, pending, popup, offer, status, signing,
                   clicked, rejections, history>>

-----------------------------------------------------------------------------
(* The popups and their user.                                              *)

\* The window is there and its page has connected the popup monitor.
PopupOpens(p) ==
    /\ popup[p] = "opening"
    /\ popup' = [popup EXCEPT ![p] = "open"]
    /\ UNCHANGED <<flow, payload, signature, pending, store, signing, clicked,
                   rejections, history>>

\* Every popup shows a transaction that is pending or loaded, otherwise the
\* offer of the kind it was opened for.
Page(p) == IF status \in {"pending", "loaded"} THEN "transaction" ELSE Kind(payload[p])

Shown(p) == offer[Page(p)]

\* Its buttons are ready if the transaction is loaded, or there is data to sign.
Ready == status = "loaded" \/ offer["typedData"] # Nothing \/ offer["message"] # Nothing

CanAnswer(p) ==
    popup[p] = "open" /\ p \notin clicked /\ Shown(p) # Nothing /\ Ready

\* The details of a transaction populate it again when its fees change.
Repopulate(p) ==
    /\ CanAnswer(p)
    /\ Page(p) = "transaction"
    /\ Shown(p) \notin populating
    /\ populating' = populating \cup {Shown(p)}
    /\ status' = "pending"
    /\ UNCHANGED <<flow, payload, signature, pending, popup, offer, signing, clicked,
                   rejections, history>>

\* The user agrees to what is shown, and it goes to the signer.  The page keeps
\* to itself that it was signed: a popup signs once.
Sign(p) ==
    /\ CanAnswer(p)
    /\ signing' = [signing EXCEPT ![p] = Shown(p)]
    /\ clicked' = clicked \cup {p}
    /\ UNCHANGED <<flow, payload, signature, pending, popup, store, rejections, history>>

-----------------------------------------------------------------------------
(* Answers of the signer.                                                  *)

Finished(p) == signing' = [signing EXCEPT ![p] = Nothing]

\* Mutant of AnswerKinds: messages are answered by the event of typed data.
AnswerKindsOfData(c) ==
    IF c \in Transactions THEN {"transaction"} ELSE {"typedData", "message"}

\* The kinds whose listeners hear of the answer for c.
AnswerKinds(c) == {Kind(c)}

\* Every listener of the kind is given the signature; a transaction to be sent
\* is then broadcast by its own request.
GivenSignature(R, c) ==
    /\ signature' = [r \in Requests |-> IF r \in R THEN c ELSE signature[r]]
    /\ flow' = [r \in Requests |->
          IF r \notin R THEN flow[r]
          ELSE IF payload[r] \in Transactions \ SignOnly THEN "sending" ELSE "answered"]
    /\ pending' = PendingWithout({r \in R : payload[r] \notin Transactions \ SignOnly})

Signed(p) ==
    LET c == signing[p]
    IN  /\ c # Nothing
        /\ GivenSignature(Listening(AnswerKinds(c)), c)
        /\ IF c \in Transactions
           THEN status' = "signed" /\ UNCHANGED offer
           ELSE offer' = [offer EXCEPT ![Kind(c)] = Nothing] /\ UNCHANGED status
        /\ Finished(p)
        /\ UNCHANGED <<payload, popup, populating, clicked, rejections, history>>

\* The signer fails or refuses.  Only a transaction is taken off the offer: the
\* failure of typed data dispatches clearSigningState without calling it.
SignFails(p) ==
    LET c == signing[p]
    IN  /\ c # Nothing
        /\ Settle(Listening(AnswerKinds(c)), "rejected")
        /\ IF c \in Transactions THEN IdleState ELSE UNCHANGED <<offer, status>>
        /\ Finished(p)
        /\ UNCHANGED <<payload, signature, popup, populating, clicked, rejections, history>>

\* No nonce: the count of transactions fails before the block that reports it.
NonceFails(p) ==
    /\ signing[p] \in Transactions
    /\ IdleState
    /\ Finished(p)
    /\ UNCHANGED <<flow, payload, signature, pending, popup, populating, clicked,
                   rejections, history>>

\* "transactionSend" clears the offer, whatever it is by now.
BroadcastDone(r) ==
    /\ flow[r] = "sending"
    /\ Settle({r}, "answered")
    /\ IdleState
    /\ UNCHANGED <<payload, signature, popup, populating, signing, clicked, rejections,
                   history>>

BroadcastFails(r) ==
    /\ flow[r] = "sending"
    /\ Settle({r}, "rejected")
    /\ UNCHANGED <<payload, signature, popup, store, signing, clicked, rejections, history>>

-----------------------------------------------------------------------------
(* Rejections.                                                             *)

DataKinds == {"typedData", "message"}

\* rejectTransactionSignature: the listeners there are will reject after the
\* Flashbots toggle has had its turn at the database; without any, the offer is
\* cleared at once.
RejectTransaction ==
    LET caught == Listening({"transaction"})
    IN  IF caught = {}
        THEN status' = "idle" /\ UNCHANGED rejections
        ELSE rejections' = Append(rejections, caught) /\ UNCHANGED status

Cleared(kinds) == [k \in Kinds |-> IF k \in kinds THEN Nothing ELSE offer[k]]

ClearedNow == IF Listening({"transaction"}) = {} THEN {"transaction"} ELSE {}

\* The reject button.  It can be pressed again while a rejection waits: here it
\* is not.
RejectButton(p) ==
    /\ CanAnswer(p)
    /\ \/ /\ Page(p) = "transaction"
          /\ rejections = <<>>
          /\ RejectTransaction
          /\ offer' = Cleared(ClearedNow)
          /\ UNCHANGED <<flow, pending>>
       \/ /\ Page(p) \in DataKinds
          /\ Settle(Listening(DataKinds), "rejected")
          /\ offer' = Cleared(DataKinds)
          /\ UNCHANGED <<status, rejections>>
    /\ UNCHANGED <<payload, signature, popup, populating, signing, clicked, history>>

\* Mutant of ClosePopup: a popup that closes rejects nothing.
CloseQuietly(p) ==
    /\ popup[p] = "open"
    /\ popup' = [popup EXCEPT ![p] = "closed"]
    /\ UNCHANGED <<flow, payload, signature, pending, store, signing, clicked,
                   rejections, history>>

\* A popup is closed, by its user or because its request has an outcome: the
\* monitor rejects all there is.
ClosePopup(p) ==
    /\ popup[p] = "open"
    /\ popup' = [popup EXCEPT ![p] = "closed"]
    /\ RejectTransaction
    /\ Settle(Listening(DataKinds), "rejected")
    /\ offer' = Cleared(DataKinds \cup ClearedNow)
    /\ UNCHANGED <<payload, signature, populating, signing, clicked, history>>

\* The popup of a request with an outcome, or of an equal one, is removed before
\* its page has connected.
DropPopup(p) ==
    /\ popup[p] = "opening"
    /\ flow[p] \in {"answered", "rejected", "shared"}
    /\ popup' = [popup EXCEPT ![p] = "closed"]
    /\ UNCHANGED <<flow, payload, signature, pending, store, signing, clicked,
                   rejections, history>>

\* The toggle is done: those caught that still listen reject, the offer is cleared.
FinishRejection ==
    /\ rejections # <<>>
    /\ rejections' = Tail(rejections)
    /\ Settle(Head(rejections) \cap Listening({"transaction"}), "rejected")
    /\ IdleState
    /\ UNCHANGED <<payload, signature, popup, populating, signing, clicked, history>>

-----------------------------------------------------------------------------

OfRequest(r) ==
    \/ Malformed(r) \/ PrepareFails(r) \/ Prepared(r)
    \/ BroadcastDone(r) \/ BroadcastFails(r)

AtPopup(p) ==
    \/ PopupOpens(p) \/ ClosePopup(p) \/ DropPopup(p)
    \/ Repopulate(p) \/ Sign(p) \/ RejectButton(p)
    \/ Signed(p) \/ SignFails(p) \/ NonceFails(p)

Next ==
    \/ \E r \in Requests, c \in Payloads : Send(r, c) \/ SendEqual(r, c)
    \/ \E r \in Requests : OfRequest(r) \/ AtPopup(r)
    \/ \E c \in Transactions : Populated(c) \/ PopulateFails(c)
    \/ FinishRejection

\* Every popup is closed at some time, by its user if not by its request; the
\* database and the node answer.
Fairness ==
    /\ \A p \in Requests : WF_vars(ClosePopup(p))
    /\ \A r \in Requests : WF_vars(BroadcastDone(r) \/ BroadcastFails(r))
    /\ WF_vars(FinishRejection)

Spec     == Init /\ [][Next]_vars
FairSpec == Spec /\ Fairness

-----------------------------------------------------------------------------
(* Properties.                                                             *)

\* An entry of #pendingSigningRequests is an open request for that payload, and
\* every open request has the entry of its payload: equal requests that are
\* made together have one flow, and none waits for one that is over ("Checks
\* if a duplicate signing request is pending").
PendingIsOpen ==
    \A c \in Payloads, r \in Requests :
        pending[c] = r <=> r \in Open /\ payload[r] = c

\* What a request is given is the signature of its own payload, or else of a
\* payload of its kind that was left in the wallet when it was made, or that was
\* asked for beside it: a single request in a clean wallet gets what it asked for.
AnswerIsKnown ==
    \A r \in Requests :
        signature[r] # Nothing => signature[r] \in left[r] \cup beside[r]

\* A request that listens while a popup is open is settled, whatever the others
\* do: signed, refused, or rejected with a popup that closes.
OpenPopupAnswers ==
    \A r \in Requests :
        flow[r] = "listening" /\ (\E p \in Requests : popup[p] = "open")
            ~> flow[r] \in {"answered", "rejected"}

\* A rejection is to "Provide a clean slate for future transactions"
\* (rejectTransactionSignature, rejectDataSignature): what was asked for and
\* rejected before a request was made never answers it.
CleanSlate ==
    \A r \in Requests : signature[r] # Nothing => signature[r] \in beside[r]
=============================================================================
