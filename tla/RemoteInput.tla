---------------------------- MODULE RemoteInput ----------------------------
(***************************************************************************)
(* The controlled machine: inbound input frames are injected into the OS,  *)
(* every held key or mouse button is tracked, and several goroutines       *)
(* release what is held: the two-second key watchdog, the secure-desktop   *)
(* and idle monitors, the session teardown and the power events            *)
(* (internal/app/app_lifecycle.go, app_frames.go, app_background.go,       *)
(* app_control.go, internal/inputstate).                                   *)
(*                                                                         *)
(* Grain of atomicity.  A section under a.mu is one step; remoteInputMu    *)
(* is the variable lock, because the code takes a.mu, injects and stores   *)
(* atomics while it holds it.  An atomic store that no other goroutine     *)
(* can tell from its neighbour is merged with that neighbour.              *)
(*                                                                         *)
(* Abstractions.  A key (normalised KeyMsg) or tracked mouse button is an  *)
(* element of Inputs.  Instants are kept as the only facts the code        *)
(* compares: a deadline is not set, in the future or past; the stamp of    *)
(* the last input is zero, recent, or older than remoteControlIdleTimeout. *)
(* Pointer motion and scrolling hold nothing and are not kept.             *)
(***************************************************************************)
EXTENDS FiniteSets

CONSTANTS
    Readers,    \* read loops that may be inside OnFrame: the session's, and
                \* that of a closed session still busy with its last frame
    Monitors,   \* goroutines that release input outside a read loop
    Handlers,   \* bound: timer callbacks that may run at the same time
    Inputs,     \* keys and mouse buttons the peer may hold
    Modifiers,  \* the inputs ReleaseAllModifiers lifts
    NoOwner     \* remoteInputMu is free

Procs == Readers \cup Monitors \cup Handlers

ASSUME ProcsAssumption ==
    /\ Readers \cap Monitors = {}
    /\ Readers \cap Handlers = {}
    /\ Monitors \cap Handlers = {}
    /\ NoOwner \notin Procs

ASSUME InputsAssumption == Modifiers \subseteq Inputs

VARIABLES
    pc,                  \* where each goroutine is
    op,                  \* why it called releaseInjectedRemoteKeys
    frame,               \* what a read loop has still to use of its frame
    activated,           \* a move activated control: decided under a.mu
    lock,                \* owner of remoteInputMu
    held,                \* remoteKeyState and remoteMouseButtons
    toRelease,           \* local list of releaseInjectedRemoteKeysLocked
    osDown,              \* what the OS has been told is down
    deadline,            \* remoteKeyDeadline
    timer,               \* remoteKeyTimer is armed
    remoteInputActiveN,  \* fast-path flag of handleRemoteMouseMove
    injectedInputN,      \* input was injected since the last release
    active,              \* peerControlActive
    requiresWake,        \* peerControlRequiresWake
    edgeSide,            \* controllerEdgeSide is set
    stamp                \* lastRemoteInputNs

tracking == <<held, toRelease, osDown, remoteInputActiveN, injectedInputN>>
clock    == <<deadline, timer>>
control  == <<active, requiresWake, edgeSide, stamp>>
local    == <<op, frame, activated>>
vars     == <<pc, local, lock, tracking, clock, control>>

Kinds == {"down", "up", "tap", "move", "wake"}
Frames == [kind : {"down", "up"}, inputs : {{i} : i \in Inputs}]
          \cup [kind : Kinds \ {"down", "up"}, inputs : {{}}]
NoFrame == [kind |-> "wake", inputs |-> {}]
Labels == {"idle", "note", "stamp", "record", "touch", "tap", "load", "drag",
           "edge", "config", "unstamp", "release", "ups", "announce", "zero",
           "off", "inspect", "check", "recheck", "clear"}
Ops == {"release", "pause", "reset", "switchback"}

TypeOK ==
    /\ pc \in [Procs -> Labels]
    /\ op \in [Procs -> Ops]
    /\ frame \in [Readers -> [kind : Kinds, inputs : SUBSET Inputs]]
    /\ activated \in [Readers -> BOOLEAN]
    /\ lock \in Procs \cup {NoOwner}
    /\ held \subseteq Inputs
    /\ toRelease \subseteq Inputs
    /\ osDown \subseteq Inputs
    /\ deadline \in {"none", "fresh", "expired"}
    /\ timer \in BOOLEAN
    /\ remoteInputActiveN \in BOOLEAN
    /\ injectedInputN \in BOOLEAN
    /\ active \in BOOLEAN
    /\ requiresWake \in BOOLEAN
    /\ edgeSide \in BOOLEAN
    /\ stamp \in {"zero", "fresh", "stale"}

Init ==
    /\ pc = [p \in Procs |-> "idle"]
    /\ op = [p \in Procs |-> "release"]
    /\ frame = [r \in Readers |-> NoFrame]
    /\ activated = [r \in Readers |-> FALSE]
    /\ lock = NoOwner
    /\ held = {} /\ toRelease = {} /\ osDown = {}
    /\ deadline = "none" /\ timer = FALSE
    /\ remoteInputActiveN = FALSE /\ injectedInputN = FALSE
    /\ active = FALSE /\ requiresWake = FALSE /\ edgeSide = FALSE
    /\ stamp = "zero"

Goto(p, label) == pc' = [pc EXCEPT ![p] = label]
Because(p, why) == op' = [op EXCEPT ![p] = why]
Used(r) == frame' = [frame EXCEPT ![r] = NoFrame]

(***************************************************************************)
(* Read loops: handleFrame.                                                *)
(***************************************************************************)

\* The peer's next frame reaches handleFrame: an input frame, an EdgeConfig or
\* a SwitchBack.  Key and click frames take the same path; scroll and Unicode
\* text are the frames that only tap.
Receive(r) ==
    /\ pc[r] = "idle"
    /\ \/ /\ \E f \in Frames : frame' = [frame EXCEPT ![r] = f]
          /\ Goto(r, "note") /\ UNCHANGED op
       \/ Goto(r, "config") /\ UNCHANGED <<op, frame>>
       \/ Goto(r, "release") /\ Because(r, "pause") /\ UNCHANGED frame
    /\ UNCHANGED <<activated, lock, tracking, clock, control>>

\* A frame that is not a wake is dropped while a wake is required.
NoteRefused(r) ==
    /\ pc[r] = "note"
    /\ frame[r].kind # "wake" /\ ~active /\ requiresWake
    /\ Goto(r, "idle") /\ Used(r)
    /\ UNCHANGED <<op, activated, lock, tracking, clock, control>>

\* notePeerControlInput, the section under a.mu.
NoteAllowed(r) ==
    /\ pc[r] = "note"
    /\ frame[r].kind = "wake" \/ active \/ ~requiresWake
    /\ activated' = [activated EXCEPT ![r] = frame[r].kind = "move" /\ ~active]
    /\ active' = TRUE
    /\ requiresWake' = (active /\ requiresWake)
    /\ Goto(r, "stamp")
    /\ UNCHANGED <<op, frame, lock, tracking, clock, edgeSide, stamp>>

\* Its two stores after a.mu; the caller goes on to its own part.
Stamp(r) ==
    /\ pc[r] = "stamp"
    /\ injectedInputN' = (injectedInputN \/ frame[r].kind # "wake")
    /\ stamp' = "fresh"
    /\ \/ frame[r].kind = "wake" /\ Goto(r, "release") /\ Used(r)
       \/ frame[r].kind = "tap"  /\ Goto(r, "tap")     /\ Used(r)
       \/ frame[r].kind = "move" /\ Goto(r, "load")    /\ Used(r)
       \/ frame[r].kind \in {"down", "up"} /\ Goto(r, "record") /\ UNCHANGED frame
    /\ UNCHANGED <<op, activated, lock, held, toRelease, osDown,
                   remoteInputActiveN, clock, active, requiresWake, edgeSide>>

\* Key or button: take remoteInputMu, record under a.mu, inject.
Record(r) ==
    /\ pc[r] = "record" /\ lock = NoOwner
    /\ lock' = r
    /\ \/ /\ frame[r].kind = "down"
          /\ held' = held \cup frame[r].inputs
          /\ osDown' = osDown \cup frame[r].inputs
       \/ /\ frame[r].kind # "down"
          /\ held' = held \ frame[r].inputs
          /\ osDown' = osDown \ frame[r].inputs
    /\ Goto(r, "touch") /\ Used(r)
    /\ UNCHANGED <<op, activated, toRelease, remoteInputActiveN, injectedInputN, clock,
                   control>>

\* Mutants of TouchWatchdog: the timer is stopped and not reset once it
\* exists; the injected mark is left to notePeerControlInput.
TouchNoReset ==
    /\ injectedInputN' = TRUE
    /\ stamp' = "fresh"
    /\ remoteInputActiveN' = (held # {})
    /\ timer' = (held # {} /\ deadline = "none")
    /\ deadline' = IF held = {} THEN "none" ELSE "fresh"
    /\ UNCHANGED <<held, toRelease, osDown, active, requiresWake, edgeSide>>

TouchNoMark ==
    /\ stamp' = "fresh"
    /\ remoteInputActiveN' = (held # {})
    /\ timer' = (held # {})
    /\ deadline' = IF held = {} THEN "none" ELSE "fresh"
    /\ UNCHANGED <<held, toRelease, osDown, injectedInputN, active,
                   requiresWake, edgeSide>>

\* touchRemoteKeyWatchdog.
TouchWatchdog ==
    /\ injectedInputN' = TRUE
    /\ stamp' = "fresh"
    /\ remoteInputActiveN' = (held # {})
    /\ timer' = (held # {})
    /\ deadline' = IF held = {} THEN "none" ELSE "fresh"
    /\ UNCHANGED <<held, toRelease, osDown, active, requiresWake, edgeSide>>

\* The touch of a key or click frame, under remoteInputMu.
TouchLocked(r) ==
    /\ pc[r] = "touch"
    /\ TouchWatchdog
    /\ lock' = NoOwner
    /\ Goto(r, "idle")
    /\ UNCHANGED <<local>>

\* Scroll and Unicode text touch without remoteInputMu.
TouchUnlocked(r) ==
    /\ pc[r] = "tap"
    /\ TouchWatchdog
    /\ Goto(r, "idle")
    /\ UNCHANGED <<local, lock>>

\* After a mouse move: the one that activated control skips the edge check.
AfterMove(r) ==
    /\ Goto(r, IF activated[r] THEN "idle" ELSE "edge")
    /\ activated' = [activated EXCEPT ![r] = FALSE]

\* handleRemoteMouseMove reads the fast-path flag without any lock, and
\* touches only when it is set.
MoveUnheld(r) ==
    /\ pc[r] = "load"
    /\ ~remoteInputActiveN
    /\ AfterMove(r)
    /\ UNCHANGED <<op, frame, lock, tracking, clock, control>>

MoveHeld(r) ==
    /\ pc[r] = "load"
    /\ remoteInputActiveN
    /\ Goto(r, "drag")
    /\ UNCHANGED <<local, lock, tracking, clock, control>>

MoveTouch(r) ==
    /\ pc[r] = "drag"
    /\ TouchWatchdog
    /\ AfterMove(r)
    /\ UNCHANGED <<op, frame, lock>>

\* checkReturnEdge; where the cursor is, is the environment's choice.
CheckReturnEdge(r) ==
    /\ pc[r] = "edge"
    /\ \/ Goto(r, "idle") /\ UNCHANGED op
       \/ /\ edgeSide /\ active
          /\ Because(r, "switchback") /\ Goto(r, "release")
    /\ UNCHANGED <<frame, activated, lock, tracking, clock, control>>

\* Mutant: the stamp is zeroed even when the peer is already in control.
ConfigureAlwaysUnstamps(r) ==
    /\ pc[r] = "config"
    /\ edgeSide' = TRUE
    /\ requiresWake' = (active /\ requiresWake)
    /\ Goto(r, "unstamp")
    /\ UNCHANGED <<local, lock, tracking, clock, active, stamp>>

\* configurePeerControl: the section under a.mu, then the stamp.
ConfigurePeerControl(r) ==
    /\ pc[r] = "config"
    /\ edgeSide' = TRUE
    /\ requiresWake' = (active /\ requiresWake)
    /\ Goto(r, IF active THEN "idle" ELSE "unstamp")
    /\ UNCHANGED <<local, lock, tracking, clock, active, stamp>>

ConfigureStamp(r) ==
    /\ pc[r] = "unstamp"
    /\ stamp' = "zero"
    /\ Goto(r, "idle")
    /\ UNCHANGED <<local, lock, tracking, clock, active, requiresWake,
                   edgeSide>>

(***************************************************************************)
(* releaseInjectedRemoteKeys and the procedures built on it.               *)
(***************************************************************************)

\* Mutant: buttons are forgotten without being lifted.
ClearHeldKeysOnly ==
    /\ deadline' = "none"
    /\ timer' = FALSE
    /\ toRelease' = held \cap Modifiers
    /\ held' = {}

\* The section under a.mu of releaseInjectedRemoteKeysLocked.
ClearHeld ==
    /\ deadline' = "none"
    /\ timer' = FALSE
    /\ toRelease' = held
    /\ held' = {}

TakeAndClear(p) ==
    /\ pc[p] = "release" /\ lock = NoOwner
    /\ lock' = p
    /\ ClearHeld
    /\ Goto(p, "ups")
    /\ UNCHANGED <<local, osDown, remoteInputActiveN, injectedInputN, control>>

\* Lift what was held, the modifiers when anything was injected, clear the
\* fast-path flag and give remoteInputMu back.
InjectUps(p) ==
    /\ pc[p] = "ups"
    /\ osDown' = osDown \ (toRelease \cup {m \in Modifiers : injectedInputN})
    /\ toRelease' = {}
    /\ injectedInputN' = FALSE
    /\ remoteInputActiveN' = FALSE
    /\ lock' = NoOwner
    /\ Goto(p, CASE op[p] = "release" -> "idle"
                 [] op[p] = "switchback" -> "announce"
                 [] OTHER -> "zero")
    /\ UNCHANGED <<local, held, clock, control>>

\* enqueueSend(SwitchBack), then pausePeerControlUntilWake.
Announce(p) ==
    /\ pc[p] = "announce"
    /\ Because(p, "pause") /\ Goto(p, "release")
    /\ UNCHANGED <<frame, activated, lock, tracking, clock, active,
                   requiresWake, edgeSide, stamp>>

\* pausePeerControlUntilWake and resetControlledState after the release: the
\* stamp first, then the section under a.mu.
ZeroStamp(p) ==
    /\ pc[p] = "zero"
    /\ stamp' = "zero"
    /\ Goto(p, "off")
    /\ UNCHANGED <<local, lock, tracking, clock, active, requiresWake,
                   edgeSide>>

ControlOff(p) ==
    /\ pc[p] = "off"
    /\ active' = FALSE
    /\ requiresWake' = (op[p] = "pause")
    /\ edgeSide' = (edgeSide /\ op[p] = "pause")
    /\ Because(p, "release") /\ Goto(p, "idle")
    /\ UNCHANGED <<frame, activated, lock, tracking, clock, stamp>>

(***************************************************************************)
(* Monitors: the goroutines that release outside a read loop.              *)
(***************************************************************************)

\* secureDesktopMonitor, after its second hit in a row.
SecureDesktop(m) ==
    /\ pc[m] = "idle"
    /\ active
    /\ Goto(m, "announce")
    /\ UNCHANGED <<local, lock, tracking, clock, control>>

\* controlledModeWatchdog: reads peerControlActive, then the stamp.
IdleWatch(m) ==
    /\ pc[m] = "idle"
    /\ active
    /\ Goto(m, "inspect")
    /\ UNCHANGED <<local, lock, tracking, clock, control>>

IdleInspect(m) ==
    /\ pc[m] = "inspect"
    /\ \/ stamp # "stale" /\ Goto(m, "idle") /\ UNCHANGED op
       \/ stamp = "stale" /\ Goto(m, "release") /\ Because(m, "pause")
    /\ UNCHANGED <<frame, activated, lock, tracking, clock, control>>

\* OnDisconnect calls resetControlledState; suspend, shutdown and the user's
\* Disconnect call releaseInjectedRemoteKeys.
ReleaseCall(m) ==
    /\ pc[m] = "idle"
    /\ \E why \in {"reset", "release"} : Because(m, why)
    /\ Goto(m, "release")
    /\ UNCHANGED <<frame, activated, lock, tracking, clock, control>>

(***************************************************************************)
(* The key watchdog: time.AfterFunc and handleRemoteKeyWatchdog.           *)
(***************************************************************************)

\* The timer is always set to fire at the deadline.
TimerFire(h) ==
    /\ timer /\ deadline = "expired"
    /\ pc[h] = "idle"
    /\ timer' = FALSE
    /\ Goto(h, "check")
    /\ UNCHANGED <<local, lock, tracking, deadline, control>>

\* First look, under a.mu only.
WatchdogCheck(h) ==
    /\ pc[h] = "check"
    /\ \/ /\ held = {} \/ deadline = "none"
          /\ Goto(h, "idle") /\ UNCHANGED timer
       \/ /\ held # {} /\ deadline = "fresh"
          /\ timer' = TRUE
          /\ Goto(h, "idle")
       \/ /\ held # {} /\ deadline = "expired"
          /\ Goto(h, "recheck") /\ UNCHANGED timer
    /\ UNCHANGED <<local, lock, tracking, deadline, control>>

\* Second look, under remoteInputMu: a fresh deadline re-arms the timer.
WatchdogRearm(h) ==
    /\ pc[h] = "recheck" /\ lock = NoOwner
    /\ deadline = "fresh"
    /\ timer' = TRUE
    /\ Goto(h, "idle")
    /\ UNCHANGED <<local, lock, tracking, deadline, control>>

WatchdogRecheck(h) ==
    /\ pc[h] = "recheck" /\ lock = NoOwner
    /\ deadline # "fresh"
    /\ lock' = h
    /\ Goto(h, "clear")
    /\ UNCHANGED <<local, tracking, clock, control>>

\* releaseInjectedRemoteKeysLocked takes a.mu again.
WatchdogClear(h) ==
    /\ pc[h] = "clear"
    /\ ClearHeld
    /\ Goto(h, "ups")
    /\ UNCHANGED <<local, lock, osDown, remoteInputActiveN, injectedInputN,
                   control>>

(***************************************************************************)
(* Time and the environment.                                               *)
(***************************************************************************)

\* remoteKeyIdleTimeout has passed since the last touch.
DeadlinePasses ==
    /\ deadline = "fresh"
    /\ deadline' = "expired"
    /\ UNCHANGED <<pc, local, lock, tracking, timer, control>>

\* remoteControlIdleTimeout has passed since the last input; it is longer
\* than remoteKeyIdleTimeout.
IdlePasses ==
    /\ stamp = "fresh" /\ deadline # "fresh"
    /\ stamp' = "stale"
    /\ UNCHANGED <<pc, local, lock, tracking, clock, active, requiresWake,
                   edgeSide>>

ReaderStep(r) ==
    \/ NoteRefused(r) \/ NoteAllowed(r) \/ Stamp(r) \/ Record(r)
    \/ TouchLocked(r) \/ TouchUnlocked(r) \/ MoveUnheld(r) \/ MoveHeld(r)
    \/ MoveTouch(r) \/ CheckReturnEdge(r)
    \/ ConfigurePeerControl(r) \/ ConfigureStamp(r)

ReleaseStep(p) ==
    TakeAndClear(p) \/ InjectUps(p) \/ Announce(p) \/ ZeroStamp(p) \/ ControlOff(p)

HandlerStep(h) ==
    \/ WatchdogCheck(h) \/ WatchdogRearm(h) \/ WatchdogRecheck(h)
    \/ WatchdogClear(h)

Next ==
    \/ \E r \in Readers : Receive(r) \/ ReaderStep(r)
    \/ \E m \in Monitors :
        SecureDesktop(m) \/ IdleWatch(m) \/ IdleInspect(m) \/ ReleaseCall(m)
    \/ \E h \in Handlers : TimerFire(h) \/ HandlerStep(h)
    \/ \E p \in Procs : ReleaseStep(p)
    \/ DeadlinePasses \/ IdlePasses

Spec == Init /\ [][Next]_vars

(***************************************************************************)
(* Goroutines that can run do run, mutexes are handed on, time passes and  *)
(* the controlled-mode ticker keeps ticking.  Nothing is assumed of Event: *)
(* the peer's frames, the secure desktop, sessions ending, power events.   *)
(***************************************************************************)
Event ==
    \/ \E r \in Readers : Receive(r)
    \/ \E m \in Monitors : SecureDesktop(m) \/ ReleaseCall(m)

Fairness ==
    /\ \A r \in Readers : WF_vars(ReaderStep(r))
    /\ \A m \in Monitors : WF_vars(IdleWatch(m)) /\ WF_vars(IdleInspect(m))
    /\ \A h \in Handlers : WF_vars(TimerFire(h)) /\ WF_vars(HandlerStep(h))
    /\ \A p \in Procs : WF_vars(ReleaseStep(p))
    /\ WF_vars(DeadlinePasses) /\ WF_vars(IdlePasses)

FairSpec == Spec /\ Fairness

(***************************************************************************)
(* Properties.                                                             *)
(***************************************************************************)

Locked(p) == pc[p] \in {"touch", "ups", "clear"}

\* remoteInputMu excludes: a goroutine inside a section it guards owns it.
LockOwned ==
    /\ \A p \in Procs : Locked(p) <=> lock = p
    /\ lock # NoOwner => Locked(lock)

\* Whenever no goroutine is inside remoteInputMu, exactly the inputs that the
\* OS was told are down are tracked: no key is stuck that no release knows of
\* (handleFrame against releaseInjectedRemoteKeysLocked).
DownIsTracked == lock = NoOwner => osDown = held

\* A held input is always watched: its deadline is set, and the timer is armed
\* or a watchdog callback has still to look, whatever Stop and Reset raced
\* (touchRemoteKeyWatchdog, handleRemoteKeyWatchdog).
HeldIsWatched ==
    lock = NoOwner /\ held # {} =>
        /\ deadline # "none"
        /\ timer \/ \E h \in Handlers : pc[h] \in {"check", "recheck"}

\* The lock-free flag that lets mouse moves skip the watchdog never hides a
\* held input from them, and is not left behind by a release
\* (remoteInputActiveN).
FastPathAgrees == lock = NoOwner => (remoteInputActiveN <=> held # {})

\* ReleaseAllModifiers is due whenever the peer holds something here
\* (injectedInputN).
ModifierReleaseDue == lock = NoOwner /\ osDown # {} => injectedInputN

Silence == <>[][~Event]_vars

\* Once the peer falls silent everything it holds is released, even when its
\* key-ups were lost (the two-second watchdog).
SilenceReleases == Silence => <>[](osDown = {})

\* Once the peer falls silent the machine leaves controlled mode
\* (controlledModeWatchdog), if frames of two sessions do not overlap.
SilenceEndsControl == Silence => <>[](~active)
=============================================================================
