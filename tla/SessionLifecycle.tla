-------------------------- MODULE SessionLifecycle --------------------------
(***************************************************************************)
(* One machine's transport sessions and the application callbacks they     *)
(* run (internal/transport/transport_lifecycle.go, transport_session.go,   *)
(* the OnConnect and OnDisconnect of internal/app/app_startup.go).         *)
(*                                                                         *)
(* Sessions are the connection attempts, inbound or outbound, each a       *)
(* goroutine that handshakes, installs itself, runs OnConnect and then     *)
(* readLoop.  Callers are the goroutines that call Disconnect: the user,   *)
(* the revocation of trust, a suspend.  Callbacks run outside Transport.mu *)
(* and are several steps, one per lock they take; safeCall only keeps a    *)
(* panic from ending the goroutine and has no step of its own.             *)
(*                                                                         *)
(* Left to other modules: what a frame does (RemoteInput), the send lanes  *)
(* (SendMux), pairing (Pairing), and who calls ConnectTo again             *)
(* (Reconnect).                                                            *)
(***************************************************************************)
EXTENDS Integers

CONSTANTS
    Sessions,   \* connection attempts that may be under way at once
    Callers,    \* goroutines that may call Disconnect
    NoSession

ASSUME SessionsAssumption ==
    /\ NoSession \notin Sessions
    /\ Sessions \cap Callers = {}

Procs == Sessions \cup Callers

VARIABLES
    session,      \* Transport.session
    closed,       \* sessions whose Close has run
    pc,           \* where each goroutine is
    role,         \* Session.Role
    hookOn,       \* InputHook.connected
    hasSendFn,    \* FileTransferManager.sendFn is set
    sessionRole,  \* App.sessionRole; "none" is the empty string
    suspended,    \* App.suspended
    ups,          \* OnConnect calls started for a session (history)
    downs,        \* OnDisconnect calls started on account of a session (history)
    settled       \* no callback overlapped the last OnDisconnect or a later
                  \* one (history)

app     == <<hookOn, hasSendFn, sessionRole>>
history == <<ups, downs>>
vars    == <<session, closed, pc, role, app, suspended, history, settled>>

Roles == {"controller", "controlled"}
UpLabels   == {"upHook", "upFiles", "upRole"}
DownLabels == {"downHook", "downFiles", "downRole"}
Labels == {"idle", "handshake", "reading", "ending", "done", "leaving"}
              \cup UpLabels \cup DownLabels

TypeOK ==
    /\ session \in Sessions \cup {NoSession}
    /\ closed \subseteq Sessions
    /\ pc \in [Procs -> Labels]
    /\ role \in [Sessions -> Roles]
    /\ hookOn \in BOOLEAN /\ hasSendFn \in BOOLEAN
    /\ sessionRole \in Roles \cup {"none"}
    /\ suspended \in BOOLEAN /\ settled \in BOOLEAN
    /\ ups \in [Sessions -> 0..1] /\ downs \in [Sessions -> 0..1]

Init ==
    /\ session = NoSession /\ closed = {}
    /\ pc = [p \in Procs |-> "idle"]
    /\ role = [s \in Sessions |-> "controlled"]
    /\ hookOn = FALSE /\ hasSendFn = FALSE /\ sessionRole = "none"
    /\ suspended = FALSE
    /\ ups = [s \in Sessions |-> 0] /\ downs = [s \in Sessions |-> 0]
    /\ settled = TRUE

Goto(p, label) == pc' = [pc EXCEPT ![p] = label]

\* A callback is running on some other goroutine than p.
Callback(p) == \E q \in Procs \ {p} : pc[q] \in UpLabels \cup DownLabels

(***************************************************************************)
(* Connecting.                                                             *)
(***************************************************************************)

\* handleInbound and ConnectTo first look whether a session exists.  An
\* attempt that is over and forgotten (its Session is garbage) lends its
\* identity to a new one, so nothing bounds how many are made.
Begin(s) ==
    /\ pc[s] \in {"idle", "done"} /\ session = NoSession
    /\ \E r \in Roles : role' = [role EXCEPT ![s] = r]
    /\ closed' = closed \ {s}
    /\ ups' = [ups EXCEPT ![s] = 0] /\ downs' = [downs EXCEPT ![s] = 0]
    /\ Goto(s, "handshake")
    /\ UNCHANGED <<session, app, suspended, settled>>

\* The dial, the hello exchange, pairing or authorization fails.
HandshakeFails(s) ==
    /\ pc[s] = "handshake"
    /\ Goto(s, "done")
    /\ closed' = closed \cup {s}
    /\ UNCHANGED <<session, role, app, suspended, history, settled>>

\* installSession succeeds, and OnConnect starts: it empties the lanes and
\* resets the audio streams.
Install(s) ==
    /\ pc[s] = "handshake" /\ session = NoSession
    /\ session' = s
    /\ ups' = [ups EXCEPT ![s] = @ + 1]
    /\ settled' = (settled /\ ~Callback(s))
    /\ Goto(s, "upHook")
    /\ UNCHANGED <<closed, role, app, suspended, downs>>

\* installSession finds another session: the connection is closed.
InstallRefused(s) ==
    /\ pc[s] = "handshake" /\ session # NoSession
    /\ Goto(s, "done")
    /\ closed' = closed \cup {s}
    /\ UNCHANGED <<session, role, app, suspended, history, settled>>

\* OnConnect: SetConnected(true) for a controller, SetSendFn, then the
\* section under a.mu; the session's goroutine goes on to readLoop.
UpHook(s) ==
    /\ pc[s] = "upHook"
    /\ hookOn' = (hookOn \/ role[s] = "controller")
    /\ Goto(s, "upFiles")
    /\ UNCHANGED <<session, closed, role, hasSendFn, sessionRole,
                   suspended, history, settled>>

UpFiles(s) ==
    /\ pc[s] = "upFiles"
    /\ hasSendFn' = TRUE
    /\ Goto(s, "upRole")
    /\ UNCHANGED <<session, closed, role, hookOn, sessionRole,
                   suspended, history, settled>>

UpRole(s) ==
    /\ pc[s] = "upRole"
    /\ sessionRole' = role[s]
    /\ suspended' = FALSE
    /\ Goto(s, "reading")
    /\ UNCHANGED <<session, closed, role, hookOn, hasSendFn, history, settled>>

(***************************************************************************)
(* Ending.                                                                 *)
(***************************************************************************)

\* readLoop returns: closed by this side, a read error or the heartbeat
\* timeout.
ReadEnds(s) ==
    /\ pc[s] = "reading"
    /\ Goto(s, "ending")
    /\ UNCHANGED <<session, closed, role, app, suspended, history, settled>>

\* OnDisconnect starts in goroutine p on account of session s.
StartDown(p, s) ==
    /\ Goto(p, "downHook")
    /\ downs' = [downs EXCEPT ![s] = @ + 1]
    /\ settled' = ~Callback(p)

\* Mutants of the deferred function: OnDisconnect runs whether or not the
\* session is still the transport's; the slot is not given up.
EndAlwaysCallsBack(s) ==
    /\ pc[s] = "ending"
    /\ closed' = closed \cup {s}
    /\ session' = IF session = s THEN NoSession ELSE session
    /\ StartDown(s, s)
    /\ UNCHANGED <<role, app, suspended, ups>>

EndKeepsSlot(s) ==
    /\ pc[s] = "ending"
    /\ closed' = closed \cup {s}
    /\ \/ /\ session = s
          /\ StartDown(s, s)
       \/ /\ session # s
          /\ Goto(s, "done")
          /\ UNCHANGED <<downs, settled>>
    /\ UNCHANGED <<session, role, app, suspended, ups>>

\* The deferred function of readLoop.
End(s) ==
    /\ pc[s] = "ending"
    /\ closed' = closed \cup {s}
    /\ \/ /\ session = s
          /\ session' = NoSession
          /\ StartDown(s, s)
       \/ /\ session # s
          /\ Goto(s, "done")
          /\ UNCHANGED <<session, downs, settled>>
    /\ UNCHANGED <<role, app, suspended, ups>>

\* OnDisconnect: SetConnected(false) and resetControlledState, then CancelAll
\* and SetSendFn(nil), then the section under a.mu.
DownHook(p) ==
    /\ pc[p] = "downHook"
    /\ hookOn' = FALSE
    /\ Goto(p, "downFiles")
    /\ UNCHANGED <<session, closed, role, hasSendFn, sessionRole,
                   suspended, history, settled>>

\* Mutant: the file manager keeps a send function after the session.
DownFilesKeepsSendFn(p) ==
    /\ pc[p] = "downFiles"
    /\ Goto(p, "downRole")
    /\ UNCHANGED <<session, closed, role, app, suspended, history, settled>>

DownFiles(p) ==
    /\ pc[p] = "downFiles"
    /\ hasSendFn' = FALSE
    /\ Goto(p, "downRole")
    /\ UNCHANGED <<session, closed, role, hookOn, sessionRole,
                   suspended, history, settled>>

DownRole(p) ==
    /\ pc[p] = "downRole"
    /\ sessionRole' = "none"
    /\ Goto(p, IF p \in Sessions THEN "done" ELSE "idle")
    /\ UNCHANGED <<session, closed, role, hookOn, hasSendFn, suspended,
                   history, settled>>

(***************************************************************************)
(* The other goroutines.                                                   *)
(***************************************************************************)

\* The user leaves: the input hook is turned off first.
Leave(c) ==
    /\ pc[c] = "idle"
    /\ hookOn' = FALSE
    /\ Goto(c, "leaving")
    /\ UNCHANGED <<session, closed, role, hasSendFn, sessionRole, suspended,
                   history, settled>>

\* Suspend: auto-reconnect is suppressed first.
Suspend(c) ==
    /\ pc[c] = "idle"
    /\ suspended' = TRUE
    /\ Goto(c, "leaving")
    /\ UNCHANGED <<session, closed, role, app, history, settled>>

\* UntrustPeer finds the session to be the revoked peer's.
Revoke(c) ==
    /\ pc[c] = "idle" /\ session # NoSession
    /\ Goto(c, "leaving")
    /\ UNCHANGED <<session, closed, role, app, suspended, history, settled>>

\* Transport.Disconnect: takes the session out of the slot, closes it
\* and runs OnDisconnect.
Disconnect(c) ==
    /\ pc[c] = "leaving"
    /\ \/ /\ session # NoSession
          /\ session' = NoSession
          /\ closed' = closed \cup {session}
          /\ StartDown(c, session)
       \/ /\ session = NoSession
          /\ Goto(c, "idle")
          /\ UNCHANGED <<session, closed, downs, settled>>
    /\ UNCHANGED <<role, app, suspended, ups>>

Resume ==
    /\ suspended
    /\ suspended' = FALSE
    /\ UNCHANGED <<session, closed, pc, role, app, history, settled>>

\* Stop, a dropped input frame and the stall watchdog close the session's
\* connection and leave the rest to its readLoop.
CloseSession ==
    /\ session # NoSession
    /\ closed' = closed \cup {session}
    /\ UNCHANGED <<session, pc, role, app, suspended, history, settled>>

Next ==
    \/ \E s \in Sessions :
        \/ Begin(s) \/ HandshakeFails(s) \/ Install(s) \/ InstallRefused(s)
        \/ UpHook(s) \/ UpFiles(s) \/ UpRole(s) \/ ReadEnds(s) \/ End(s)
    \/ \E p \in Procs : DownHook(p) \/ DownFiles(p) \/ DownRole(p)
    \/ \E c \in Callers : Leave(c) \/ Suspend(c) \/ Revoke(c) \/ Disconnect(c)
    \/ Resume \/ CloseSession

Spec == Init /\ [][Next]_vars

(***************************************************************************)
(* Handshakes and callbacks are time-bounded and return; the read loop of  *)
(* a closed session fails its read.  A peer need not ever leave.           *)
(***************************************************************************)
Fairness ==
    /\ \A s \in Sessions :
        /\ WF_vars(HandshakeFails(s) \/ Install(s) \/ InstallRefused(s))
        /\ WF_vars(UpHook(s) \/ UpFiles(s) \/ UpRole(s))
        /\ WF_vars(s \in closed /\ ReadEnds(s))
        /\ WF_vars(End(s))
    /\ \A p \in Procs : WF_vars(DownHook(p) \/ DownFiles(p) \/ DownRole(p))
    /\ \A c \in Callers : WF_vars(Disconnect(c))

FairSpec == Spec /\ Fairness

(***************************************************************************)
(* Properties.                                                             *)
(***************************************************************************)

\* Whichever of Disconnect and the read loop gets there first, OnDisconnect
\* runs at most once for a session, and only for one whose OnConnect ran
\* (readLoop's wasActive against Disconnect).
OneCallbackEach ==
    \A s \in Sessions : downs[s] <= ups[s]

\* The slot is what decides who still owes a callback: a session is in it
\* exactly between its OnConnect and its OnDisconnect, whichever goroutine
\* takes it out.
SlotMatchesCallbacks ==
    \A s \in Sessions : (session = s) <=> (ups[s] = 1 /\ downs[s] = 0)

Abs == INSTANCE OneSession WITH current <- session

\* The race of installSession, Disconnect and readLoop's wasActive for the
\* slot implements what the application relies on: a live session is never
\* replaced, and each gets one OnConnect and then one OnDisconnect.
ImplementsOneSession == Abs!Spec

\* No callback is running and nobody is about to end the session.
Resting == \A p \in Procs : pc[p] \in {"idle", "reading", "done", "handshake"}

AppMatchesTransport ==
    IF session = NoSession
    THEN ~hookOn /\ ~hasSendFn /\ sessionRole = "none"
    ELSE /\ hasSendFn /\ sessionRole = role[session]
         /\ hookOn => role[session] = "controller"

\* Callbacks that do not overlap leave the application in agreement with the
\* transport: no hook, send function or role outlives its session.  (When an
\* OnConnect and an OnDisconnect overlap they need not: both run outside
\* Transport.mu, and the state may keep the values of the dead session until
\* an OnDisconnect runs alone.)
SettledAgrees == Resting /\ settled => AppMatchesTransport

\* A closed session gives the slot up, and its OnDisconnect completes: the
\* machine can be connected to again.
ClosedFreesSlot ==
    \A s \in Sessions : s \in closed ~> (session # s /\ pc[s] = "done")
=============================================================================
