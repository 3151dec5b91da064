--------------------------- MODULE BluetoothManager ---------------------------
(***************************************************************************)
(* The Bluetooth link: the manager that keeps a listener open and scans    *)
(* for paired machines (internal/bluetooth/manager.go), the switch of the  *)
(* user and the serving of a listener (internal/app/app_bluetooth.go), and *)
(* of the Windows backend (backend_windows.go) the listening sockets and   *)
(* the scan with its memory of devices that do not run the program.        *)
(*                                                                         *)
(* Run is one goroutine, restarted after a panic.  It reads the switch     *)
(* under the mutex and calls the backend outside it, so the user may flip  *)
(* the switch while a listener is being opened or a scan is under way.     *)
(* The radio, the devices in range and the backend's errors are the        *)
(* environment's.                                                          *)
(***************************************************************************)
EXTENDS Integers, FiniteSets

CONSTANTS
    Sockets,     \* listening sockets that may be open at once
    BtDevices,   \* remembered devices
    NoSocket

VARIABLES
    radio,     \* Available() would return nil
    nearby,    \* devices that answer a service query, by what they run
    enabled,   \* Manager.enabled
    listener,  \* Manager.listener
    tryOK,     \* listenRetryMin has passed since lastTry
    wake,      \* a token in Manager.wake
    peers,     \* Manager.peers
    run,       \* Run: where it is, and what it read or holds
    open,      \* listening sockets that are open and advertised
    checked    \* winBackend.checked: devices known not to run the program

vars == <<radio, nearby, enabled, listener, tryOK, wake, peers, run, open, checked>>

world == <<radio, nearby>>
user  == <<enabled, wake>>

Labels == {"reconcile", "listen", "install", "serve", "ask", "scan", "store",
           "clear", "wait", "restart"}

TypeOK ==
    /\ radio \in BOOLEAN /\ nearby \in [BtDevices -> {"away", "other", "peer"}]
    /\ enabled \in BOOLEAN /\ tryOK \in BOOLEAN /\ wake \in BOOLEAN
    /\ listener \in Sockets \cup {NoSocket}
    /\ peers \subseteq BtDevices /\ checked \subseteq BtDevices
    /\ open \subseteq Sockets
    /\ run \in [pc : Labels, socket : Sockets \cup {NoSocket}, found : SUBSET BtDevices]

\* The program starts with the switch on; started with it off, it is where a
\* toggle brings it.
Init ==
    /\ radio = TRUE /\ nearby = [d \in BtDevices |-> "away"]
    /\ enabled = TRUE /\ tryOK = TRUE /\ wake = FALSE
    /\ listener = NoSocket /\ peers = {} /\ open = {} /\ checked = {}
    /\ run = [pc |-> "reconcile", socket |-> NoSocket, found |-> {}]

At(label)   == run.pc = label
Goto(label) == run' = [run EXCEPT !.pc = label]

\* winBackend.Available
Available == radio

(***************************************************************************)
(* The environment and the user.                                           *)
(***************************************************************************)

RadioChanges == radio' = ~radio /\ UNCHANGED <<nearby, user, listener, tryOK, peers, run, open, checked>>

DeviceMoves(d) ==
    /\ \E state \in {"away", "other", "peer"} \ {nearby[d]} :
        nearby' = [nearby EXCEPT ![d] = state]
    /\ UNCHANGED <<radio, user, listener, tryOK, peers, run, open, checked>>

\* SetEnabled: a toggle retries immediately, and wakes Run if it changed
\* anything.
SetEnabled(on) ==
    /\ enabled' = on /\ tryOK' = TRUE
    /\ wake' = (wake \/ enabled # on)
    /\ UNCHANGED <<world, listener, peers, run, open, checked>>

Refresh == wake' = TRUE /\ UNCHANGED <<world, enabled, listener, tryOK, peers, run, open, checked>>

RetryTimePasses == ~tryOK /\ tryOK' = TRUE /\ UNCHANGED <<world, user, listener, peers, run, open, checked>>

\* negativeTTL passes for a device.
Outdated(d) ==
    /\ d \in checked /\ checked' = checked \ {d}
    /\ UNCHANGED <<world, user, listener, tryOK, peers, run, open>>

(***************************************************************************)
(* Run.                                                                    *)
(***************************************************************************)

\* Mutant: the field is cleared and the socket left to itself.
CloseListenerForgets ==
    /\ listener' = NoSocket
    /\ UNCHANGED open

\* closeListener: the field is cleared and the socket closed and withdrawn.
CloseListener ==
    /\ listener' = NoSocket
    /\ open' = open \ {listener}

\* Mutant: a listener is closed when the radio has gone, not when the switch
\* is turned off.
ReconcileKeepsOpen ==
    /\ At("reconcile")
    /\ IF ~Available \/ ~enabled
       THEN /\ IF Available THEN UNCHANGED <<listener, open>> ELSE CloseListener
            /\ Goto("ask")
       ELSE /\ Goto(IF listener = NoSocket /\ tryOK THEN "listen" ELSE "ask")
            /\ UNCHANGED <<listener, open>>
    /\ UNCHANGED <<world, user, tryOK, peers, checked>>

\* reconcile up to its switch: the radio is asked, the switch and the listener
\* are read.  Only Run changes the listener, so closing it is part of this.
Reconcile ==
    /\ At("reconcile")
    /\ IF ~Available \/ ~enabled
       THEN CloseListener /\ Goto("ask")
       ELSE /\ Goto(IF listener = NoSocket /\ tryOK THEN "listen" ELSE "ask")
            /\ UNCHANGED <<listener, open>>
    /\ UNCHANGED <<world, user, tryOK, peers, checked>>

\* winBackend.Listen: a socket that cannot be bound, listened on or registered
\* is closed again.
ListenWorks ==
    /\ At("listen") /\ Available
    /\ \E s \in Sockets \ open :
        /\ open' = open \cup {s}
        /\ run' = [run EXCEPT !.pc = "install", !.socket = s]
    /\ UNCHANGED <<world, user, listener, tryOK, peers, checked>>

ListenFails ==
    /\ At("listen")
    /\ tryOK' = FALSE
    /\ Goto("ask")
    /\ UNCHANGED <<world, user, listener, peers, open, checked>>

\* The listener becomes the manager's, whatever the switch says by now.
Install ==
    /\ At("install")
    /\ listener' = run.socket /\ tryOK' = TRUE
    /\ run' = [run EXCEPT !.pc = "serve", !.socket = NoSocket]
    /\ UNCHANGED <<world, user, peers, open, checked>>

\* The serve callback: the transport accepts on the listener, or the callback
\* closes it and the manager keeps the closed one.
Serve ==
    /\ At("serve")
    /\ open' \in {open, open \ {listener}}
    /\ Goto("ask")
    /\ UNCHANGED <<world, user, listener, tryOK, peers, checked>>

\* Run asks for the switch again.
Ask ==
    /\ At("ask")
    /\ Goto(IF enabled /\ Available THEN "scan" ELSE "clear")
    /\ UNCHANGED <<world, user, listener, tryOK, peers, open, checked>>

\* winBackend.Scan: remembered devices are queried, except those found not to
\* run the program a while ago; an answer is remembered, a device that does not
\* answer is not.  Devices whose query is not begun when the time is up are
\* left out.  Or the devices cannot be listed.
Scan ==
    /\ At("scan")
    /\ \/ \E asked \in SUBSET (BtDevices \ checked) :
            /\ checked' = checked \cup {d \in asked : nearby[d] = "other"}
            /\ run' = [run EXCEPT !.pc = "store", !.found = {d \in asked : nearby[d] = "peer"}]
       \/ Goto("wait") /\ UNCHANGED checked
    /\ UNCHANGED <<world, user, listener, tryOK, peers, open>>

\* The rest of scan.
Store ==
    /\ At("store")
    /\ peers' = run.found
    /\ run' = [run EXCEPT !.pc = "wait", !.found = {}]
    /\ UNCHANGED <<world, user, listener, tryOK, open, checked>>

ClearPeers ==
    /\ At("clear")
    /\ peers' = {}
    /\ Goto("wait")
    /\ UNCHANGED <<world, user, listener, tryOK, open, checked>>

\* The token, or the ticker.
WakesUp ==
    /\ At("wait")
    /\ wake' = FALSE
    /\ Goto("reconcile")
    /\ UNCHANGED <<world, enabled, listener, tryOK, peers, open, checked>>

\* The backend panics: Run's deferred closeListener, and SafeGoRestart.
Panics ==
    /\ run.pc \in {"listen", "scan"}
    /\ CloseListener
    /\ Goto("restart")
    /\ UNCHANGED <<world, user, tryOK, peers, checked>>

RunAgain ==
    /\ At("restart")
    /\ Goto("reconcile")
    /\ UNCHANGED <<world, user, listener, tryOK, peers, open, checked>>

Loop ==
    \/ Reconcile \/ ListenWorks \/ ListenFails \/ Install \/ Serve \/ Ask
    \/ Scan \/ Store \/ ClearPeers \/ WakesUp \/ RunAgain

Next ==
    \/ Loop \/ Panics
    \/ RadioChanges \/ Refresh \/ RetryTimePasses
    \/ \E on \in BOOLEAN : SetEnabled(on)
    \/ \E d \in BtDevices : DeviceMoves(d) \/ Outdated(d)

Spec == Init /\ [][Next]_vars /\ WF_vars(Loop)

(***************************************************************************)
(* Properties.                                                             *)
(***************************************************************************)

\* No listening socket is lost: one that is open is the manager's, or in the
\* hands of reconcile.  A lost one would be advertised and accept for ever.
OpenIsHeld == open \subseteq {listener, run.socket}

Off    == ~enabled
Silent == open = {} /\ peers = {}

\* Turned off, the link goes quiet, wherever the switch caught Run: once it
\* stays off, nothing listens and no peer is offered any more.
OffIsOff == <>[]Off => <>[]Silent
=============================================================================
