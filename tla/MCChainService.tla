--------------------------- MODULE MCChainService ---------------------------
(***************************************************************************)
(* The tracking of transactions and the nonces of an account, each on its  *)
(* own and both in one run: focus is the part a behaviour is about, the    *)
(* other one rests.                                                        *)
(***************************************************************************)
EXTENDS TransactionTracking, TLC

CONSTANTS
    Txs, InitialCount, HasMempool, RequestNonces, MaxNonce
                            \* those of NonceAllocation

ASSUME NonceConstants ==
    /\ InitialCount \in Nat
    /\ HasMempool \in BOOLEAN
    /\ RequestNonces \subseteq Nat
    /\ MaxNonce \in Nat

VARIABLES
    focus,
    nLastSeen, nPhase, nNonce, nCount, nAuto, nStatus, nMissing, nNode, nExternal,
    nChainCount, nEvents, nReleased, nEarlier, nRestarts

Nonces == INSTANCE NonceAllocation WITH
    lastSeen <- nLastSeen, phase <- nPhase, nonce <- nNonce, count <- nCount,
    auto <- nAuto, status <- nStatus, missing <- nMissing, node <- nNode,
    external <- nExternal, chainCount <- nChainCount, events <- nEvents,
    released <- nReleased, earlier <- nEarlier, restarts <- nRestarts

nonces == <<nLastSeen, nPhase, nNonce, nCount, nAuto, nStatus, nMissing, nNode,
            nExternal, nChainCount, nEvents, nReleased, nEarlier, nRestarts>>

everything == <<focus, vars, nonces>>

InitAll ==
    /\ focus \in {"nonces", "tracking"}
    /\ Init /\ Nonces!Init
    /\ focus = "nonces" => \A h \in Seen : node[h] = "pool"

NextAll ==
    /\ UNCHANGED focus
    /\ IF focus = "tracking" THEN Next ELSE UNCHANGED vars
    /\ IF focus = "nonces" THEN Nonces!Next ELSE UNCHANGED nonces

SpecAll == InitAll /\ [][NextAll]_everything

Symmetry == Permutations(Txs)

-----------------------------------------------------------------------------
(* Properties, stated where their part is specified: QueueOrdered and      *)
(* PendingFollowed in TransactionTracking, NoAbandonedNonce in             *)
(* NonceAllocation.                                                        *)

TypesOK == TypeOK /\ Nonces!TypeOK

\* NonceAllocation: every nonce from the chain's next one to the last one handed
\* out is held by a request that did not give it back (releaseEVMTransactionNonce).
NoAbandonedNonce == Nonces!NoAbandonedNonce
=============================================================================
