----------------------- MODULE SessionLifecycleProofs -----------------------
(***************************************************************************)
(* Proofs about SessionLifecycle: who owes a callback, that the slot is    *)
(* never overwritten, and that callbacks that do not overlap keep the      *)
(* application in agreement with the transport.                            *)
(***************************************************************************)
EXTENDS SessionLifecycle, TLAPS

\* The strengthening of TypeOK, OneCallbackEach and SlotMatchesCallbacks: an
\* attempt still handshaking has run no OnConnect.
SlotInv ==
    /\ TypeOK
    /\ OneCallbackEach
    /\ SlotMatchesCallbacks
    /\ \A s \in Sessions : pc[s] = "handshake" => ups[s] = 0

\* The initial state satisfies the invariant.
LEMMA SlotInit == Init => SlotInv
<1> SUFFICES ASSUME Init PROVE SlotInv
  OBVIOUS
<1>1. TypeOK
  <2>1. pc \in [Procs -> Labels] BY DEF Init, Labels
  <2>2. role \in [Sessions -> Roles] BY DEF Init, Roles
  <2>3. ups \in [Sessions -> 0..1] /\ downs \in [Sessions -> 0..1]
    BY DEF Init
  <2> QED BY <2>1, <2>2, <2>3 DEF Init, TypeOK
<1>2. OneCallbackEach /\ SlotMatchesCallbacks
  <2>1. \A s \in Sessions : ups[s] = 0 /\ downs[s] = 0 /\ session # s
    BY SessionsAssumption, Zenon DEF Init
  <2> QED BY <2>1 DEF Init, OneCallbackEach, SlotMatchesCallbacks
<1>3. \A s \in Sessions : pc[s] = "handshake" => ups[s] = 0
  BY DEF Init
<1> QED BY <1>1, <1>2, <1>3 DEF SlotInv

\* Every step keeps it.
LEMMA SlotStep == SlotInv /\ [Next]_vars => SlotInv'
<1> SUFFICES ASSUME SlotInv, [Next]_vars
             PROVE  SlotInv'
    OBVIOUS
<1> USE SessionsAssumption
    DEF SlotInv, TypeOK, OneCallbackEach, SlotMatchesCallbacks, Procs, Labels,
        UpLabels, DownLabels, Roles, app, history, Goto
<1>1. ASSUME NEW s \in Sessions, Begin(s) PROVE SlotInv'
  <2>1. TypeOK'
    BY <1>1 DEF Begin
  <2>2. OneCallbackEach'
    BY <1>1 DEF Begin
  <2>3. SlotMatchesCallbacks'
    BY <1>1 DEF Begin
  <2>4. (\A t \in Sessions : pc[t] = "handshake" => ups[t] = 0)'
    BY <1>1 DEF Begin
  <2> QED BY <2>1, <2>2, <2>3, <2>4
<1>2. ASSUME NEW s \in Sessions, HandshakeFails(s) PROVE SlotInv'
  BY <1>2 DEF HandshakeFails
<1>3. ASSUME NEW s \in Sessions, Install(s) PROVE SlotInv'
  <2>1. TypeOK'
    BY <1>3 DEF Install, Callback
  <2>2. OneCallbackEach'
    BY <1>3 DEF Install, Callback
  <2>3. SlotMatchesCallbacks'
    BY <1>3 DEF Install, Callback
  <2>4. (\A t \in Sessions : pc[t] = "handshake" => ups[t] = 0)'
    BY <1>3 DEF Install, Callback
  <2> QED BY <2>1, <2>2, <2>3, <2>4
<1>4. ASSUME NEW s \in Sessions, InstallRefused(s) PROVE SlotInv'
  BY <1>4 DEF InstallRefused
<1>5. ASSUME NEW s \in Sessions, UpHook(s) PROVE SlotInv'
  BY <1>5 DEF UpHook
<1>6. ASSUME NEW s \in Sessions, UpFiles(s) PROVE SlotInv'
  BY <1>6 DEF UpFiles
<1>7. ASSUME NEW s \in Sessions, UpRole(s) PROVE SlotInv'
  BY <1>7 DEF UpRole
<1>8. ASSUME NEW s \in Sessions, ReadEnds(s) PROVE SlotInv'
  BY <1>8 DEF ReadEnds
<1>9. ASSUME NEW s \in Sessions, End(s) PROVE SlotInv'
  <2>1. TypeOK'
    <3>1. settled' \in BOOLEAN BY <1>9, Zenon DEF End, StartDown
    <3>2. downs' \in [Sessions -> 0..1] BY <1>9 DEF End, StartDown
    <3>3. pc' \in [Procs -> Labels] BY <1>9 DEF End, StartDown
    <3> QED BY <1>9, <3>1, <3>2, <3>3 DEF End, StartDown
  <2>2. OneCallbackEach'
    BY <1>9 DEF End, StartDown, Callback
  <2>3. SlotMatchesCallbacks'
    BY <1>9 DEF End, StartDown, Callback
  <2>4. (\A t \in Sessions : pc[t] = "handshake" => ups[t] = 0)'
    BY <1>9 DEF End, StartDown, Callback
  <2> QED BY <2>1, <2>2, <2>3, <2>4
<1>10. ASSUME NEW p \in Procs, DownHook(p) PROVE SlotInv'
  BY <1>10 DEF DownHook
<1>11. ASSUME NEW p \in Procs, DownFiles(p) PROVE SlotInv'
  BY <1>11 DEF DownFiles
<1>12. ASSUME NEW p \in Procs, DownRole(p) PROVE SlotInv'
  BY <1>12 DEF DownRole
<1>13. ASSUME NEW c \in Callers, Leave(c) PROVE SlotInv'
  BY <1>13 DEF Leave
<1>14. ASSUME NEW c \in Callers, Suspend(c) PROVE SlotInv'
  BY <1>14 DEF Suspend
<1>15. ASSUME NEW c \in Callers, Revoke(c) PROVE SlotInv'
  BY <1>15 DEF Revoke
<1>16. ASSUME NEW c \in Callers, Disconnect(c) PROVE SlotInv'
  <2>1. TypeOK'
    <3>1. settled' \in BOOLEAN BY <1>16, Zenon DEF Disconnect, StartDown
    <3>2. downs' \in [Sessions -> 0..1] BY <1>16 DEF Disconnect, StartDown
    <3>3. pc' \in [Procs -> Labels] BY <1>16 DEF Disconnect, StartDown
    <3> QED BY <1>16, <3>1, <3>2, <3>3 DEF Disconnect, StartDown
  <2>2. OneCallbackEach'
    BY <1>16 DEF Disconnect, StartDown, Callback
  <2>3. SlotMatchesCallbacks'
    BY <1>16 DEF Disconnect, StartDown, Callback
  <2>4. (\A t \in Sessions : pc[t] = "handshake" => ups[t] = 0)'
    BY <1>16 DEF Disconnect, StartDown, Callback
  <2> QED BY <2>1, <2>2, <2>3, <2>4
<1>17. CASE Resume
  BY <1>17 DEF Resume
<1>18. CASE CloseSession
  BY <1>18 DEF CloseSession
<1>19. CASE UNCHANGED vars
  BY <1>19 DEF vars
<1>20. QED
  BY <1>1, <1>2, <1>3, <1>4, <1>5, <1>6, <1>7, <1>8, <1>9, <1>10, <1>11,
     <1>12, <1>13, <1>14, <1>15, <1>16, <1>17, <1>18, <1>19 DEF Next

\* The invariant holds of every behaviour.
LEMMA SlotInvariant == Spec => []SlotInv
  BY SlotInit, SlotStep, PTL DEF Spec

\* Every reachable state is well typed.
THEOREM TypeCorrect == Spec => []TypeOK
<1>1. SlotInv => TypeOK
  BY DEF SlotInv
<1>2. QED
  BY <1>1, SlotInvariant, PTL

\* However Disconnect and the end of the read loop race, a session gets at
\* most one OnDisconnect, and only after its OnConnect started.
THEOREM CallbacksPaired == Spec => []OneCallbackEach
<1>1. SlotInv => OneCallbackEach
  BY DEF SlotInv
<1>2. QED
  BY <1>1, SlotInvariant, PTL

\* The session in the slot is the one whose OnDisconnect is still owed.
THEOREM SlotOwesCallback == Spec => []SlotMatchesCallbacks
<1>1. SlotInv => SlotMatchesCallbacks
  BY DEF SlotInv
<1>2. QED
  BY <1>1, SlotInvariant, PTL

-----------------------------------------------------------------------------
(* The slot implements one session at a time.                              *)

\* Every step of the implementation opens, closes or forgets a session, or
\* does nothing the application has been promised anything about.
LEMMA RefinementStep ==
    SlotInv /\ [Next]_vars => [Abs!Next]_<<session, ups, downs>>
<1> SUFFICES ASSUME SlotInv, [Next]_vars
             PROVE  Abs!Next \/ UNCHANGED <<session, ups, downs>>
  OBVIOUS
<1> USE SessionsAssumption DEF app, history
<1>0. /\ session \in Sessions \cup {NoSession}
      /\ ups \in [Sessions -> 0..1] /\ downs \in [Sessions -> 0..1]
      /\ SlotMatchesCallbacks
  BY DEF SlotInv, TypeOK
<1>1. ASSUME NEW s \in Sessions, Begin(s) PROVE Abs!Next
  <2>1. Abs!Forget(s)
    BY <1>1 DEF Begin, Abs!Forget
  <2> QED BY <2>1 DEF Abs!Next
<1>2. ASSUME NEW s \in Sessions, Install(s) PROVE Abs!Next
  <2>1. ups[s] = 0
    BY <1>2 DEF Install, SlotInv
  <2>2. Abs!Open(s)
    BY <1>0, <1>2, <2>1 DEF Install, Abs!Open
  <2> QED BY <2>2 DEF Abs!Next
<1>3. ASSUME NEW s \in Sessions, End(s)
      PROVE  Abs!Next \/ UNCHANGED <<session, ups, downs>>
  <2>1. CASE session = s
    <3>1. downs[s] = 0
      BY <1>0, <2>1 DEF SlotMatchesCallbacks
    <3>2. Abs!Close(s)
      BY <1>0, <1>3, <2>1, <3>1 DEF End, StartDown, Abs!Close
    <3> QED BY <3>2 DEF Abs!Next
  <2>2. CASE session # s
    BY <1>3, <2>2 DEF End
  <2> QED BY <2>1, <2>2
<1>4. ASSUME NEW c \in Callers, Disconnect(c)
      PROVE  Abs!Next \/ UNCHANGED <<session, ups, downs>>
  <2>1. CASE session # NoSession
    <3>1. session \in Sessions /\ downs[session] = 0
      BY <1>0, <2>1 DEF SlotMatchesCallbacks
    <3>2. Abs!Close(session)
      BY <1>0, <1>4, <2>1, <3>1 DEF Disconnect, StartDown, Abs!Close
    <3> QED BY <3>1, <3>2 DEF Abs!Next
  <2>2. CASE session = NoSession
    BY <1>4, <2>2 DEF Disconnect
  <2> QED BY <2>1, <2>2
<1>5. ASSUME NEW s \in Sessions,
             \/ HandshakeFails(s) \/ InstallRefused(s)
             \/ UpHook(s) \/ UpFiles(s) \/ UpRole(s) \/ ReadEnds(s)
      PROVE  UNCHANGED <<session, ups, downs>>
  BY <1>5 DEF HandshakeFails, InstallRefused, UpHook, UpFiles, UpRole, ReadEnds
<1>6. ASSUME NEW p \in Procs, DownHook(p) \/ DownFiles(p) \/ DownRole(p)
      PROVE  UNCHANGED <<session, ups, downs>>
  BY <1>6 DEF DownHook, DownFiles, DownRole
<1>7. ASSUME NEW c \in Callers, Leave(c) \/ Suspend(c) \/ Revoke(c)
      PROVE  UNCHANGED <<session, ups, downs>>
  BY <1>7 DEF Leave, Suspend, Revoke
<1>8. CASE Resume \/ CloseSession \/ UNCHANGED vars
  BY <1>8 DEF Resume, CloseSession, vars
<1> QED BY <1>1, <1>2, <1>3, <1>4, <1>5, <1>6, <1>7, <1>8 DEF Next

\* However connection attempts, read loops and callers of Disconnect race for
\* the slot, the application sees one session at a time, each with one
\* OnConnect and then one OnDisconnect.
THEOREM Refinement == Spec => ImplementsOneSession
<1>1. Init => Abs!Init
  BY DEF Init, Abs!Init
<1>2. QED
  BY <1>1, RefinementStep, SlotInvariant, PTL
  DEF Spec, ImplementsOneSession, Abs!Spec

-----------------------------------------------------------------------------
(* Callbacks that do not overlap.                                          *)

Running(p) == pc[p] \in UpLabels \cup DownLabels

\* As long as nothing has overlapped, at most one callback runs; an OnConnect
\* works for the session in the slot and started from the cleared state, an
\* OnDisconnect works for an empty slot, and each has done what its place in
\* the code says; with none running, the state is that of the slot.
AloneInv ==
    settled =>
        /\ \A p, q \in Procs : Running(p) /\ Running(q) => p = q
        /\ (\A p \in Procs : ~Running(p)) => AppMatchesTransport
        /\ \A p \in Procs : pc[p] \in UpLabels =>
              /\ p \in Sessions /\ session = p /\ sessionRole = "none"
              /\ hookOn => role[p] = "controller"
              /\ hasSendFn <=> pc[p] = "upRole"
        /\ \A p \in Procs : pc[p] \in DownLabels =>
              /\ session = NoSession
              /\ pc[p] \in {"downFiles", "downRole"} => ~hookOn
              /\ pc[p] = "downRole" => ~hasSendFn

\* Every step keeps it.
LEMMA AloneStep == SlotInv /\ AloneInv /\ [Next]_vars => AloneInv'
<1> SUFFICES ASSUME SlotInv, AloneInv, [Next]_vars
             PROVE  AloneInv'
  OBVIOUS
<1> USE SessionsAssumption
    DEF SlotInv, TypeOK, AloneInv, AppMatchesTransport, Running, Procs, Labels,
        UpLabels, DownLabels, Roles, app, history, Goto
<1>1. ASSUME NEW s \in Sessions, Begin(s) PROVE AloneInv'
  BY <1>1 DEF Begin
<1>2. ASSUME NEW s \in Sessions, HandshakeFails(s) PROVE AloneInv'
  BY <1>2 DEF HandshakeFails
<1>3. ASSUME NEW s \in Sessions, Install(s) PROVE AloneInv'
  BY <1>3 DEF Install, Callback
<1>4. ASSUME NEW s \in Sessions, InstallRefused(s) PROVE AloneInv'
  BY <1>4 DEF InstallRefused
<1>5. ASSUME NEW s \in Sessions, UpHook(s) PROVE AloneInv'
  BY <1>5 DEF UpHook
<1>6. ASSUME NEW s \in Sessions, UpFiles(s) PROVE AloneInv'
  BY <1>6 DEF UpFiles
<1>7. ASSUME NEW s \in Sessions, UpRole(s) PROVE AloneInv'
  BY <1>7 DEF UpRole
<1>8. ASSUME NEW s \in Sessions, ReadEnds(s) PROVE AloneInv'
  BY <1>8 DEF ReadEnds
<1>9. ASSUME NEW s \in Sessions, End(s) PROVE AloneInv'
  <2>1. CASE session = s
    <3>1. session' = NoSession /\ pc' = [pc EXCEPT ![s] = "downHook"]
      BY <1>9, <2>1 DEF End, StartDown
    <3>2. settled' => \A q \in Procs \ {s} : ~Running(q)
      BY <1>9, <2>1, Zenon DEF End, StartDown, Callback
    <3> QED BY <3>1, <3>2
  <2>2. CASE ~(session = s)
    BY <1>9, <2>2 DEF End
  <2> QED BY <2>1, <2>2
<1>10. ASSUME NEW p \in Procs, DownHook(p) PROVE AloneInv'
  BY <1>10 DEF DownHook
<1>11. ASSUME NEW p \in Procs, DownFiles(p) PROVE AloneInv'
  BY <1>11 DEF DownFiles
<1>12. ASSUME NEW p \in Procs, DownRole(p) PROVE AloneInv'
  BY <1>12 DEF DownRole
<1>13. ASSUME NEW c \in Callers, Leave(c) PROVE AloneInv'
  BY <1>13 DEF Leave
<1>14. ASSUME NEW c \in Callers, Suspend(c) PROVE AloneInv'
  BY <1>14 DEF Suspend
<1>15. ASSUME NEW c \in Callers, Revoke(c) PROVE AloneInv'
  BY <1>15 DEF Revoke
<1>16. ASSUME NEW c \in Callers, Disconnect(c) PROVE AloneInv'
  <2>1. CASE session # NoSession
    <3>1. session' = NoSession /\ pc' = [pc EXCEPT ![c] = "downHook"]
      BY <1>16, <2>1 DEF Disconnect, StartDown
    <3>2. settled' => \A q \in Procs \ {c} : ~Running(q)
      BY <1>16, <2>1, Zenon DEF Disconnect, StartDown, Callback
    <3> QED BY <3>1, <3>2
  <2>2. CASE ~(session # NoSession)
    BY <1>16, <2>2 DEF Disconnect
  <2> QED BY <2>1, <2>2
<1>17. CASE Resume
  BY <1>17 DEF Resume
<1>18. CASE CloseSession
  BY <1>18 DEF CloseSession
<1>19. CASE UNCHANGED vars
  BY <1>19 DEF vars
<1> QED
  BY <1>1, <1>2, <1>3, <1>4, <1>5, <1>6, <1>7, <1>8, <1>9, <1>10, <1>11,
     <1>12, <1>13, <1>14, <1>15, <1>16, <1>17, <1>18, <1>19 DEF Next

\* When every callback so far ran alone, a machine at rest has the hook, the
\* send function and the role of the session in the slot, and none of them
\* without one.
THEOREM SettledTheorem == Spec => []SettledAgrees
<1>1. Init => AloneInv
  BY SessionsAssumption
  DEF Init, AloneInv, AppMatchesTransport, Running, UpLabels, DownLabels
<1>2. AloneInv => SettledAgrees
  BY DEF AloneInv, SettledAgrees, Resting, Running, UpLabels, DownLabels
<1>3. QED
  BY <1>1, <1>2, AloneStep, SlotInvariant, PTL DEF Spec
=============================================================================
