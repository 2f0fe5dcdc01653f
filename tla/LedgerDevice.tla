------------------------------ MODULE LedgerDevice ------------------------------
(***************************************************************************)
(* LedgerService: one Ledger may be plugged in, and exchanged for another. *)
(* Connections, address derivations and two kinds of signatures are        *)
(* serialised (runSerialized), from the start of the service on; the       *)
(* disconnect handler and signMessage are not.  Every await of the code    *)
(* separates two actions.                                                  *)
(***************************************************************************)
EXTENDS Integers, Sequences

CONSTANTS
    Devices,       \* the Ledgers of the user, each with accounts that are known
    NoDevice,      \* no device
    MaxPlugs,      \* bound: how often one is plugged in
    MaxRequests    \* bound: derivations and signatures asked for

VARIABLES
    plugged,   \* the device in the USB port
    plugs,     \* bound: connections so far
    requests,  \* bound: requests so far
    service,   \* unstarted, starting or started
    arrivals,  \* handlers of connect events, waiting for getDevices
    refreshes, \* calls of refreshConnectedLedger, waiting for getDevices
    removals,  \* handlers of disconnect events, waiting for getDevices
    transport, \* the device the transport was opened to
    currentId, \* #currentLedgerId
    queue,     \* operations behind #lastOperationPromise
    operation, \* the serialised operation that runs
    message    \* the call of signMessage: none, lookup (its account) or device

usb  == <<plugged, plugs>>
events == <<arrivals, refreshes, removals>>
vars == <<usb, events, requests, service, transport, currentId, queue,
          operation, message>>

\* An operation is a connection, or asks a device to sign or to derive.
Connect      == [kind |-> "connect", device |-> NoDevice]
Operations   == {Connect} \cup [kind : {"sign", "derive"}, device : Devices]
Idle         == [kind |-> "none", device |-> NoDevice, at |-> "none"]
Running(o)   == [kind |-> o.kind, device |-> o.device, at |-> "begin"]

TypeOK ==
    /\ {plugged, transport, currentId} \subseteq Devices \cup {NoDevice}
    /\ plugs \in 0..MaxPlugs /\ requests \in 0..MaxRequests
    /\ service \in {"unstarted", "starting", "started"}
    /\ {arrivals, refreshes, removals} \subseteq Nat
    /\ queue \in Seq(Operations)
    /\ operation \in {Idle} \cup
          [kind : {"connect"}, device : {NoDevice},
           at : {"begin", "identify", "failed", "accounts"}] \cup
          [kind : {"sign", "derive"}, device : Devices, at : {"begin", "lookup", "device"}]
    /\ message \in {"none", "lookup", "device"}

Init ==
    /\ plugged \in Devices \cup {NoDevice}
    /\ plugs = 0 /\ requests = 0
    /\ service = "unstarted"
    /\ arrivals = 0 /\ refreshes = 0 /\ removals = 0
    /\ transport = NoDevice /\ currentId = NoDevice
    /\ queue = <<>>
    /\ operation = Idle
    /\ message = "none"

-----------------------------------------------------------------------------
(* The USB port and its events.                                            *)

Plug(d) ==
    /\ plugged = NoDevice
    /\ plugs < MaxPlugs
    /\ plugged' = d
    /\ plugs' = plugs + 1
    /\ arrivals' = arrivals + 1
    /\ UNCHANGED <<refreshes, removals, requests, service, transport, currentId,
                   queue, operation, message>>

Unplug ==
    /\ plugged # NoDevice
    /\ plugged' = NoDevice
    /\ removals' = removals + 1
    /\ UNCHANGED <<plugs, arrivals, refreshes, requests, service, transport,
                   currentId, queue, operation, message>>

\* handleUSBConnect, after getDevices.
HandleConnect ==
    /\ arrivals > 0
    /\ arrivals' = arrivals - 1
    /\ queue' = Append(queue, Connect)
    /\ UNCHANGED <<usb, refreshes, removals, requests, service, transport,
                   currentId, operation, message>>

\* refreshConnectedLedger, after getDevices, connects to the only device.
HandleRefresh ==
    /\ refreshes > 0
    /\ refreshes' = refreshes - 1
    /\ queue' = IF plugged = NoDevice THEN queue ELSE Append(queue, Connect)
    /\ UNCHANGED <<usb, arrivals, removals, requests, service, transport,
                   currentId, operation, message>>

\* handleUSBDisconnect, after getDevices: whatever is connected by now is taken
\* for the device that left.
HandleDisconnect ==
    /\ removals > 0
    /\ removals' = removals - 1
    /\ currentId' = NoDevice
    /\ UNCHANGED <<usb, arrivals, refreshes, requests, service, transport, queue,
                   operation, message>>

-----------------------------------------------------------------------------
(* The service starts, and is asked for things.                            *)

StartService ==
    /\ service = "unstarted"
    /\ service' = "starting"
    /\ refreshes' = refreshes + 1
    /\ UNCHANGED <<usb, arrivals, removals, requests, transport, currentId,
                   queue, operation, message>>

\* Mutant of EndStart: the start waits for the connection it asked for.
EndStartAfterRefresh ==
    /\ service = "starting"
    /\ refreshes = 0 /\ queue = <<>>
    /\ service' = "started"
    /\ UNCHANGED <<usb, events, requests, transport, currentId, queue, operation,
                   message>>

EndStart ==
    /\ service = "starting"
    /\ service' = "started"
    /\ UNCHANGED <<usb, events, requests, transport, currentId, queue, operation,
                   message>>

\* deriveAddress, signTransaction, signTypedData.
Request(o) ==
    /\ requests < MaxRequests
    /\ requests' = requests + 1
    /\ queue' = Append(queue, o)
    /\ UNCHANGED <<usb, events, service, transport, currentId, operation, message>>

\* The connection page of the UI.
RequestRefresh ==
    /\ requests < MaxRequests
    /\ requests' = requests + 1
    /\ refreshes' = refreshes + 1
    /\ UNCHANGED <<usb, arrivals, removals, service, transport, currentId, queue,
                   operation, message>>

-----------------------------------------------------------------------------
(* The serialised operations.                                              *)

\* The first operations wait until the service is started.
Begin ==
    /\ service = "started"
    /\ operation = Idle
    /\ queue # <<>>
    /\ operation' = Running(Head(queue))
    /\ queue' = Tail(queue)
    /\ UNCHANGED <<usb, events, requests, service, transport, currentId, message>>

Inside == UNCHANGED <<usb, arrivals, refreshes, requests, service, queue, message>>

\* The operation goes on to, or ends from, where it is.
To(place) == operation' = [operation EXCEPT !.at = place]
End       == operation' = Idle
At(kinds, place) == operation.kind \in kinds /\ operation.at = place

\* TransportWebUSB.create: opens what is plugged in, or throws.
OpenTransport ==
    /\ At({"connect"}, "begin")
    /\ \/ plugged # NoDevice /\ transport' = plugged /\ To("identify")
       \/ To("failed") /\ UNCHANGED transport
    /\ UNCHANGED <<currentId, removals>> /\ Inside

\* generateLedgerId and getAppConfiguration: the device answers, or they throw.
Identify ==
    /\ At({"connect"}, "identify")
    /\ \/ transport = plugged /\ currentId' = transport /\ To("accounts")
       \/ To("failed") /\ UNCHANGED currentId
    /\ UNCHANGED <<transport, removals>> /\ Inside

\* The known accounts are read, to tell a new device; reading may fail.
ReadAccounts ==
    /\ At({"connect"}, "accounts")
    /\ End \/ To("failed")
    /\ UNCHANGED <<transport, currentId, removals>> /\ Inside

\* "Treating Ledger as having disconnected due to a connection error".
FailConnection ==
    /\ At({"connect"}, "failed")
    /\ End
    /\ currentId' = NoDevice
    /\ UNCHANGED <<transport, removals>> /\ Inside

Connected == transport # NoDevice /\ currentId # NoDevice

\* A derivation goes to the device at once, a signature looks up its account.
CheckConnection ==
    /\ At({"sign", "derive"}, "begin")
    /\ IF Connected
       THEN To(IF operation.kind = "derive" THEN "device" ELSE "lookup")
       ELSE End
    /\ UNCHANGED <<transport, currentId, removals>> /\ Inside

\* Mutant of CheckCanSign: the account is not compared with the device.
SignAnyway ==
    /\ At({"sign"}, "lookup")
    /\ To("device")
    /\ UNCHANGED <<transport, currentId, removals>> /\ Inside

\* checkCanSign, then the device is asked in the same turn.
CheckCanSign ==
    /\ At({"sign"}, "lookup")
    /\ IF operation.device = currentId THEN To("device") ELSE End
    /\ UNCHANGED <<transport, currentId, removals>> /\ Inside

\* The device, or its user, answers, or it is gone.
DeviceAnswers ==
    /\ At({"sign", "derive"}, "device")
    /\ End
    /\ UNCHANGED <<transport, currentId, removals>> /\ Inside

-----------------------------------------------------------------------------
(* signMessage, past the queue and without checkCanSign.                   *)

AskMessage ==
    /\ message = "none"
    /\ requests < MaxRequests
    /\ requests' = requests + 1
    /\ message' = IF Connected THEN "lookup" ELSE "none"
    /\ UNCHANGED <<usb, events, service, transport, currentId, queue, operation>>

MessageAccount ==
    /\ message = "lookup"
    /\ message' \in {"none", "device"}
    /\ UNCHANGED <<usb, events, requests, service, transport, currentId, queue,
                   operation>>

MessageAnswered ==
    /\ message = "device"
    /\ message' = "none"
    /\ UNCHANGED <<usb, events, requests, service, transport, currentId, queue,
                   operation>>

-----------------------------------------------------------------------------

Operate ==
    \/ Begin \/ OpenTransport \/ Identify \/ ReadAccounts \/ FailConnection
    \/ CheckConnection \/ CheckCanSign \/ DeviceAnswers

Start == StartService \/ EndStart

Next ==
    \/ \E d \in Devices : Plug(d)
    \/ Unplug
    \/ HandleConnect \/ HandleRefresh \/ HandleDisconnect
    \/ Start
    \/ \E o \in Operations \ {Connect} : Request(o)
    \/ RequestRefresh
    \/ Operate
    \/ AskMessage \/ MessageAccount \/ MessageAnswered

Spec == Init /\ [][Next]_vars

-----------------------------------------------------------------------------
(* Properties.                                                             *)

\* A serialised signature is only ever asked of the device that holds its
\* account: between the check and the device, and whatever is plugged in and
\* out meanwhile, the transport is the one of the device that was checked
\* (runSerialized keeps connections out, checkCanSign the wrong device).
RightDevice == At({"sign"}, "device") => transport = operation.device

\* Outside a connection the id, if there is one, is that of the open transport,
\* so that an address is noted under the device that derived it.
IdOfTransport ==
    currentId # NoDevice /\ ~At({"connect"}, "identify") /\ ~At({"connect"}, "failed")
        => currentId = transport

\* Every operation ends if the device answers: those that come before the start
\* wait for it, and the start waits for none of them ("Block serial operations
\* until the service is started").
OperationsEnd == (queue # <<>> \/ operation # Idle) ~> (queue = <<>> /\ operation = Idle)
=============================================================================
