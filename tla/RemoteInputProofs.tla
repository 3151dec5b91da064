------------------------- MODULE RemoteInputProofs -------------------------
(***************************************************************************)
(* Proofs about RemoteInput for every set of read loops, monitors, timer   *)
(* callbacks and inputs.                                                   *)
(***************************************************************************)
EXTENDS RemoteInput, TLAPS

-----------------------------------------------------------------------------
(* Types.                                                                  *)

\* Every variable keeps its type (the state the App structure declares for
\* the controlled side).
THEOREM TypeCorrect == Spec => []TypeOK
<1> USE DEF TypeOK, Labels, Ops, Kinds, NoFrame, Goto, Because, Used
<1>0. NoFrame \in [kind : Kinds, inputs : SUBSET Inputs]
  OBVIOUS
<1>1. Init => TypeOK
  <2> SUFFICES ASSUME Init PROVE TypeOK
    OBVIOUS
  <2>1. frame \in [Readers -> [kind : Kinds, inputs : SUBSET Inputs]]
    BY <1>0 DEF Init
  <2> QED BY <2>1 DEF Init
<1>2. TypeOK /\ [Next]_vars => TypeOK'
  <2> SUFFICES ASSUME TypeOK, [Next]_vars PROVE TypeOK'
    OBVIOUS
  <2> USE DEF vars, local, tracking, clock, control
  <2>1. ASSUME NEW r \in Readers, Receive(r) PROVE TypeOK'
    <3>1. \A f \in Frames : f \in [kind : Kinds, inputs : SUBSET Inputs]
      BY DEF Frames
    <3> QED BY <2>1, <3>1 DEF Receive, Procs
  <2>2. ASSUME NEW r \in Readers, ReaderStep(r) PROVE TypeOK'
    <3>1. CASE NoteRefused(r) BY <3>1 DEF NoteRefused, Procs
    <3>2. CASE NoteAllowed(r) BY <3>2 DEF NoteAllowed, Procs
    <3>3. CASE Stamp(r) BY <3>3 DEF Stamp, Procs
    <3>4. CASE Record(r) BY <3>4 DEF Record, Procs
    <3>5. CASE TouchLocked(r) BY <3>5 DEF TouchLocked, TouchWatchdog, Procs
    <3>6. CASE TouchUnlocked(r) BY <3>6 DEF TouchUnlocked, TouchWatchdog, Procs
    <3>7. CASE MoveUnheld(r) BY <3>7 DEF MoveUnheld, AfterMove, Procs
    <3>8. CASE MoveHeld(r) BY <3>8 DEF MoveHeld, Procs
    <3>9. CASE MoveTouch(r) BY <3>9 DEF MoveTouch, AfterMove, TouchWatchdog, Procs
    <3>10. CASE CheckReturnEdge(r) BY <3>10 DEF CheckReturnEdge, Procs
    <3>11. CASE ConfigurePeerControl(r) BY <3>11 DEF ConfigurePeerControl, Procs
    <3>12. CASE ConfigureStamp(r) BY <3>12 DEF ConfigureStamp, Procs
    <3> QED BY <2>2, <3>1, <3>2, <3>3, <3>4, <3>5, <3>6, <3>7, <3>8, <3>9,
               <3>10, <3>11, <3>12 DEF ReaderStep
  <2>3. ASSUME NEW m \in Monitors,
               SecureDesktop(m) \/ IdleWatch(m) \/ IdleInspect(m) \/ ReleaseCall(m)
        PROVE TypeOK'
    BY <2>3 DEF SecureDesktop, IdleWatch, IdleInspect, ReleaseCall, Procs
  <2>4. ASSUME NEW h \in Handlers, TimerFire(h) \/ HandlerStep(h) PROVE TypeOK'
    <3>1. CASE TimerFire(h) BY <3>1 DEF TimerFire, Procs
    <3>2. CASE WatchdogCheck(h)
      <4>1. pc' \in [Procs -> Labels] BY <3>2 DEF WatchdogCheck, Procs
      <4>2. timer' \in BOOLEAN BY <3>2 DEF WatchdogCheck
      <4> QED BY <3>2, <4>1, <4>2 DEF WatchdogCheck
    <3>3. CASE WatchdogRearm(h) BY <3>3 DEF WatchdogRearm, Procs
    <3>4. CASE WatchdogRecheck(h) BY <3>4 DEF WatchdogRecheck, Procs
    <3>5. CASE WatchdogClear(h) BY <3>5 DEF WatchdogClear, ClearHeld, Procs
    <3> QED BY <2>4, <3>1, <3>2, <3>3, <3>4, <3>5 DEF HandlerStep
  <2>5. ASSUME NEW p \in Procs, ReleaseStep(p) PROVE TypeOK'
    <3>1. CASE TakeAndClear(p) BY <3>1 DEF TakeAndClear, ClearHeld
    <3>2. CASE InjectUps(p) BY <3>2 DEF InjectUps
    <3>3. CASE Announce(p) BY <3>3 DEF Announce
    <3>4. CASE ZeroStamp(p) BY <3>4 DEF ZeroStamp
    <3>5. CASE ControlOff(p) BY <3>5 DEF ControlOff
    <3> QED BY <2>5, <3>1, <3>2, <3>3, <3>4, <3>5 DEF ReleaseStep
  <2>6. CASE DeadlinePasses BY <2>6 DEF DeadlinePasses
  <2>7. CASE IdlePasses BY <2>7 DEF IdlePasses
  <2>8. CASE UNCHANGED vars BY <2>8
  <2> QED BY <2>1, <2>2, <2>3, <2>4, <2>5, <2>6, <2>7, <2>8 DEF Next
<1> QED BY <1>1, <1>2, PTL DEF Spec

-----------------------------------------------------------------------------
(* The inductive invariant.  Between the section under a.mu and the end of *)
(* a release the owner of remoteInputMu still has ups to inject, and       *)
(* between recording an input and touching the watchdog the owner still    *)
(* has the timer to arm: the parts below say what holds meanwhile.         *)

OwnerAt(label) == lock # NoOwner /\ pc[lock] = label

ReleaseCleared ==
    /\ OwnerAt("ups") => held = {}
    /\ toRelease # {} => OwnerAt("ups")

DownIsHeldOrDue == osDown = held \cup toRelease

Watched ==
    held # {} /\ ~OwnerAt("touch") =>
        /\ deadline # "none"
        /\ timer \/ \E h \in Handlers : pc[h] \in {"check", "recheck", "clear"}

FlagAgrees ==
    ~OwnerAt("touch") /\ ~OwnerAt("ups") => (remoteInputActiveN <=> held # {})

ModifiersDue == osDown # {} /\ ~OwnerAt("touch") => injectedInputN

TrackingInv ==
    /\ LockOwned
    /\ ReleaseCleared
    /\ DownIsHeldOrDue
    /\ Watched
    /\ FlagAgrees
    /\ ModifiersDue

\* Steps that leave the tracking alone keep its invariant.
LEMMA ControlStepKeepsTracking ==
    ASSUME TypeOK, TrackingInv, UNCHANGED <<lock, held, toRelease, osDown,
                                    remoteInputActiveN, deadline, timer>>,
           injectedInputN => injectedInputN',
           NEW p \in Procs, NEW label \in Labels, Goto(p, label),
           ~Locked(p), label \notin {"touch", "ups", "clear"},
           pc[p] \notin {"check", "recheck"}
    PROVE  TrackingInv'
<1> USE ProcsAssumption
    DEF TypeOK, Goto, Locked, OwnerAt
<1>1. LockOwned' BY DEF TrackingInv, LockOwned
<1>2. ReleaseCleared' BY DEF TrackingInv, ReleaseCleared, LockOwned
<1>3. DownIsHeldOrDue' BY DEF TrackingInv, DownIsHeldOrDue
<1>4. Watched' BY DEF TrackingInv, Watched, LockOwned, Procs
<1>5. FlagAgrees' BY DEF TrackingInv, FlagAgrees, LockOwned
<1>6. ModifiersDue' BY DEF TrackingInv, ModifiersDue, LockOwned
<1> QED BY <1>1, <1>2, <1>3, <1>4, <1>5, <1>6 DEF TrackingInv

\* Whatever the interleaving: what is down is tracked or about to be lifted,
\* what is held is watched, and the lock-free flags agree with both.
THEOREM TrackingInvariant == Spec => []TrackingInv
<1>1. Init => TrackingInv
  BY ProcsAssumption DEF Init, TrackingInv, LockOwned, Locked, ReleaseCleared, OwnerAt,
         DownIsHeldOrDue, Watched, FlagAgrees, ModifiersDue
<1>2. TypeOK /\ TypeOK' /\ TrackingInv /\ [Next]_vars => TrackingInv'
  <2> SUFFICES ASSUME TypeOK, TypeOK', TrackingInv, [Next]_vars
               PROVE  TrackingInv'
    OBVIOUS
  <2> USE DEF vars, local, tracking, clock, control
  <2>1. ASSUME NEW r \in Readers, Receive(r) PROVE TrackingInv'
    <3>1. r \in Procs /\ pc[r] = "idle" BY <2>1 DEF Receive, Procs
    <3>2. PICK label \in {"note", "config", "release"} : Goto(r, label)
      BY <2>1 DEF Receive
    <3> QED BY <2>1, <3>1, <3>2, ControlStepKeepsTracking
            DEF Receive, Labels, Locked
  <2>2. ASSUME NEW r \in Readers, ReaderStep(r) PROVE TrackingInv'
    <3>1. r \in Procs BY DEF Procs
    <3>2. CASE NoteRefused(r)
      BY <3>1, <3>2, ControlStepKeepsTracking DEF NoteRefused, Labels, Locked
    <3>3. CASE NoteAllowed(r)
      BY <3>1, <3>3, ControlStepKeepsTracking DEF NoteAllowed, Labels, Locked
    <3>4. CASE Stamp(r)
      <4>1. PICK label \in {"release", "tap", "load", "record"} : Goto(r, label)
        BY <3>4 DEF Stamp
      <4> QED BY <3>1, <3>4, <4>1, ControlStepKeepsTracking
              DEF Stamp, Labels, Locked
    <3>5. CASE Record(r)
      BY <3>1, <3>5, ProcsAssumption
      DEF Record, Goto, TypeOK, TrackingInv, LockOwned, Locked, ReleaseCleared,
          OwnerAt, DownIsHeldOrDue, Watched, FlagAgrees, ModifiersDue
    <3>6. CASE TouchLocked(r)
      BY <3>1, <3>6, ProcsAssumption
      DEF TouchLocked, TouchWatchdog, Goto, TypeOK, TrackingInv, LockOwned,
          Locked, ReleaseCleared, OwnerAt, DownIsHeldOrDue, Watched, FlagAgrees,
          ModifiersDue
    <3>7. CASE TouchUnlocked(r) \/ MoveTouch(r)
      <4>1. PICK label \in {"idle", "edge"} : Goto(r, label)
        BY <3>7 DEF TouchUnlocked, MoveTouch, AfterMove
      <4>2. TouchWatchdog /\ lock' = lock /\ pc[r] \in {"tap", "drag"}
        BY <3>7 DEF TouchUnlocked, MoveTouch
      <4> QED
        BY <3>1, <4>1, <4>2, ProcsAssumption
        DEF TouchWatchdog, Goto, TypeOK, TrackingInv, LockOwned, Locked,
            ReleaseCleared, OwnerAt, DownIsHeldOrDue, Watched, FlagAgrees,
            ModifiersDue
    <3>8. CASE MoveUnheld(r)
      <4>1. PICK label \in {"idle", "edge"} : Goto(r, label)
        BY <3>8 DEF MoveUnheld, AfterMove
      <4> QED BY <3>1, <3>8, <4>1, ControlStepKeepsTracking
              DEF MoveUnheld, Labels, Locked
    <3>9. CASE MoveHeld(r)
      BY <3>1, <3>9, ControlStepKeepsTracking DEF MoveHeld, Labels, Locked
    <3>10. CASE CheckReturnEdge(r)
      <4>1. PICK label \in {"idle", "release"} : Goto(r, label)
        BY <3>10 DEF CheckReturnEdge
      <4> QED BY <3>1, <3>10, <4>1, ControlStepKeepsTracking
              DEF CheckReturnEdge, Labels, Locked
    <3>11. CASE ConfigurePeerControl(r)
      <4>1. PICK label \in {"idle", "unstamp"} : Goto(r, label)
        BY <3>11 DEF ConfigurePeerControl
      <4> QED BY <3>1, <3>11, <4>1, ControlStepKeepsTracking
              DEF ConfigurePeerControl, Labels, Locked
    <3>12. CASE ConfigureStamp(r)
      BY <3>1, <3>12, ControlStepKeepsTracking
      DEF ConfigureStamp, Labels, Locked
    <3> QED BY <2>2, <3>2, <3>3, <3>4, <3>5, <3>6, <3>7, <3>8, <3>9, <3>10,
               <3>11, <3>12 DEF ReaderStep
  <2>3. ASSUME NEW m \in Monitors,
               SecureDesktop(m) \/ IdleWatch(m) \/ IdleInspect(m) \/ ReleaseCall(m)
        PROVE TrackingInv'
    <3>1. m \in Procs BY DEF Procs
    <3>2. PICK label \in {"announce", "inspect", "idle", "release"} : Goto(m, label)
      BY <2>3 DEF SecureDesktop, IdleWatch, IdleInspect, ReleaseCall
    <3>3. pc[m] \in {"idle", "inspect"}
      BY <2>3 DEF SecureDesktop, IdleWatch, IdleInspect, ReleaseCall
    <3> QED BY <2>3, <3>1, <3>2, <3>3, ControlStepKeepsTracking
            DEF SecureDesktop, IdleWatch, IdleInspect, ReleaseCall, Labels, Locked
  <2>4. ASSUME NEW h \in Handlers, TimerFire(h) \/ HandlerStep(h)
        PROVE TrackingInv'
    <3>1. h \in Procs BY DEF Procs
    <3> USE ProcsAssumption
        DEF Goto, TypeOK, TrackingInv, LockOwned, Locked, ReleaseCleared,
            OwnerAt, DownIsHeldOrDue, Watched, FlagAgrees, ModifiersDue
    <3>2. CASE TimerFire(h) BY <3>1, <3>2 DEF TimerFire
    <3>3. CASE WatchdogCheck(h) BY <3>1, <3>3 DEF WatchdogCheck
    <3>4. CASE WatchdogRearm(h) BY <3>1, <3>4 DEF WatchdogRearm
    <3>5. CASE WatchdogRecheck(h) BY <3>1, <3>5 DEF WatchdogRecheck
    <3>6. CASE WatchdogClear(h) BY <3>1, <3>6 DEF WatchdogClear, ClearHeld
    <3> QED BY <2>4, <3>2, <3>3, <3>4, <3>5, <3>6 DEF HandlerStep
  <2>5. ASSUME NEW p \in Procs, ReleaseStep(p) PROVE TrackingInv'
    <3>1. CASE TakeAndClear(p)
      BY <3>1, ProcsAssumption
      DEF TakeAndClear, ClearHeld, Goto, TypeOK, TrackingInv, LockOwned, Locked,
          ReleaseCleared, OwnerAt, DownIsHeldOrDue, Watched, FlagAgrees,
          ModifiersDue
    <3>2. CASE InjectUps(p)
      <4>1. PICK label \in {"idle", "announce", "zero"} : Goto(p, label)
        BY <3>2 DEF InjectUps
      <4>2. lock = p /\ held = {}
        BY <3>2, ProcsAssumption
        DEF InjectUps, TrackingInv, LockOwned, Locked, ReleaseCleared, OwnerAt,
            TypeOK
      <4>3. osDown' = {}
        BY <3>2, <4>2 DEF InjectUps, TrackingInv, DownIsHeldOrDue
      <4> QED
        BY <3>2, <4>1, <4>2, <4>3, ProcsAssumption
        DEF InjectUps, Goto, TypeOK, TrackingInv, LockOwned, Locked,
            ReleaseCleared, OwnerAt, DownIsHeldOrDue, Watched, FlagAgrees,
            ModifiersDue
    <3>3. CASE Announce(p)
      BY <3>3, ControlStepKeepsTracking DEF Announce, Labels, Locked
    <3>4. CASE ZeroStamp(p)
      BY <3>4, ControlStepKeepsTracking DEF ZeroStamp, Labels, Locked
    <3>5. CASE ControlOff(p)
      BY <3>5, ControlStepKeepsTracking DEF ControlOff, Labels, Locked
    <3> QED BY <2>5, <3>1, <3>2, <3>3, <3>4, <3>5 DEF ReleaseStep
  <2>6. CASE DeadlinePasses
    BY <2>6 DEF DeadlinePasses, TrackingInv, LockOwned, Locked, ReleaseCleared,
       OwnerAt, DownIsHeldOrDue, Watched, FlagAgrees, ModifiersDue
  <2>7. CASE IdlePasses \/ UNCHANGED vars
    BY <2>7 DEF IdlePasses, TrackingInv, LockOwned, Locked, ReleaseCleared,
       OwnerAt, DownIsHeldOrDue, Watched, FlagAgrees, ModifiersDue
  <2> QED BY <2>1, <2>2, <2>3, <2>4, <2>5, <2>6, <2>7 DEF Next
<1> QED BY <1>1, <1>2, TypeCorrect, PTL DEF Spec

-----------------------------------------------------------------------------
(* What the runs check, for every value of the constants.                  *)

\* No input is down that no release knows of (DownIsTracked).
THEOREM NothingStuckUntracked == Spec => []DownIsTracked
<1>1. TypeOK /\ TrackingInv => DownIsTracked
  BY DEF TrackingInv, ReleaseCleared, OwnerAt, DownIsHeldOrDue, DownIsTracked
<1> QED BY <1>1, TypeCorrect, TrackingInvariant, PTL

\* Every held input has a watchdog that will look at it (HeldIsWatched).
THEOREM HeldInputsAreWatched == Spec => []HeldIsWatched
<1>1. TypeOK /\ TrackingInv => HeldIsWatched
  BY ProcsAssumption
  DEF TypeOK, TrackingInv, LockOwned, Locked, Watched, OwnerAt, HeldIsWatched,
      Procs
<1> QED BY <1>1, TypeCorrect, TrackingInvariant, PTL

\* Mouse moves never miss a held input (FastPathAgrees), and the modifiers are
\* lifted whenever something is down (ModifierReleaseDue).
THEOREM LockFreeFlagsAgree == Spec => [](FastPathAgrees /\ ModifierReleaseDue)
<1>1. TypeOK /\ TrackingInv => FastPathAgrees /\ ModifierReleaseDue
  BY DEF TrackingInv, FlagAgrees, ModifiersDue, OwnerAt, FastPathAgrees,
         ModifierReleaseDue
<1> QED BY <1>1, TypeCorrect, TrackingInvariant, PTL
=============================================================================
