-------------------------- MODULE InputHookProofs --------------------------
(***************************************************************************)
(* Proofs about InputHook: the mode and the hook thread agree, stop        *)
(* channels are closed once, the hook follows the session when calls do    *)
(* not overlap, and no transition but a late note goes unreported.         *)
(***************************************************************************)
EXTENDS InputHook, TLAPS

\* The types hold in every reachable state.
LEMMA TypeInit == Init => TypeOK
<1> SUFFICES ASSUME Init PROVE TypeOK
  OBVIOUS
<1>1. pc \in [Askers -> AskerLabels] BY DEF Init, AskerLabels
<1>2. loop \in [Loops -> LoopLabels] BY DEF Init, LoopLabels
<1>3. /\ {connected, inRemoteMode, globalHook, triggerArmed} \subseteq BOOLEAN
      /\ {stateChangePending, reported, lost, crossed} \subseteq BOOLEAN
  BY Zenon DEF Init
<1>4. \A c \in Callers : pc[c] = "idle"
  BY DEF Init, Askers
<1> QED BY <1>1, <1>2, <1>3, <1>4 DEF Init, TypeOK

LEMMA TypeStep == TypeOK /\ [Next]_vars => TypeOK'
<1> SUFFICES ASSUME TypeOK, [Next]_vars
             PROVE  TypeOK'
    OBVIOUS
<1> USE ProcessesAssumption, LoopsAssumption
    DEF TypeOK, Callers, Askers, AskerLabels, LoopLabels, flags, threads,
        channels, asking, notices, Goto, Move, Take
<1>1. ASSUME NEW c \in Starters, Connect(c) PROVE TypeOK'
  <2>1. crossed' \in BOOLEAN BY <1>1, Zenon DEF Connect, Alone, Busy
  <2> QED BY <1>1, <2>1 DEF Connect
<1>2. ASSUME NEW c \in Enders, Disconnect(c) PROVE TypeOK'
  <2>1. crossed' \in BOOLEAN BY <1>2, Zenon DEF Disconnect, Alone, Busy
  <2> QED BY <1>2, <2>1 DEF Disconnect
<1>3. ASSUME NEW c \in Callers, StartLoop(c) PROVE TypeOK'
  BY <1>3 DEF StartLoop
<1>4. ASSUME NEW c \in Callers, TakeChannels(c) PROVE TypeOK'
  BY <1>4 DEF TakeChannels
<1>5. ASSUME NEW c \in Callers, CloseStop(c) PROVE TypeOK'
  BY <1>5 DEF CloseStop
<1>6. ASSUME NEW w \in Watchers, ExitRemoteMode(w) \/ SecureDesktop(w) PROVE TypeOK'
  BY <1>6 DEF ExitRemoteMode, SecureDesktop
<1>7. ASSUME NEW p \in Askers, RequestExit(p) PROVE TypeOK'
  BY <1>7 DEF RequestExit
<1>8. ASSUME NEW p \in Askers, PostQuit(p) PROVE TypeOK'
  <2>1. quit' \in [Loops -> BOOLEAN] BY <1>8 DEF PostQuit
  <2> QED BY <1>8, <2>1 DEF PostQuit
<1>9. ASSUME NEW l \in Loops, EndLoop(l) PROVE TypeOK'
  BY <1>9 DEF EndLoop, NewThread
<1>10. ASSUME NEW l \in Loops, CursorAway(l) PROVE TypeOK'
  BY <1>10 DEF CursorAway
<1>11. ASSUME NEW l \in Loops, CursorDwells(l) PROVE TypeOK'
  BY <1>11 DEF CursorDwells, Polls
<1>12. ASSUME NEW l \in Loops, HooksFail(l) PROVE TypeOK'
  BY <1>12 DEF HooksFail
<1>13. ASSUME NEW l \in Loops, Enter(l) PROVE TypeOK'
  BY <1>13 DEF Enter, NewThread
<1>14. ASSUME NEW l \in Loops, NotifyEntered(l) PROVE TypeOK'
  BY <1>14 DEF NotifyEntered, NotifyStateChange
<1>15. ASSUME NEW l \in Loops, ExitHotkey(l) PROVE TypeOK'
  BY <1>15 DEF ExitHotkey
<1>16. ASSUME NEW l \in Loops, Quits(l) \/ OtherMessage(l) PROVE TypeOK'
  BY <1>16 DEF Quits, OtherMessage
<1>17. ASSUME NEW l \in Loops, Clear(l) PROVE TypeOK'
  BY <1>17 DEF Clear
<1>18. ASSUME NEW l \in Loops, NotifyLeft(l) PROVE TypeOK'
  BY <1>18 DEF NotifyLeft, NotifyStateChange
<1>19. CASE Callback
  BY <1>19 DEF Callback
<1>20. CASE Decide
  BY <1>20 DEF Decide
<1>21. CASE Finish
  <2>1. lost' \in BOOLEAN BY <1>21, Zenon DEF Finish
  <2> QED BY <1>21, <2>1 DEF Finish
<1>22. CASE UNCHANGED vars
  BY <1>22 DEF vars
<1>23. QED
  BY <1>1, <1>2, <1>3, <1>4, <1>5, <1>6, <1>7, <1>8, <1>9, <1>10, <1>11,
     <1>12, <1>13, <1>14, <1>15, <1>16, <1>17, <1>18, <1>19, <1>20, <1>21,
     <1>22 DEF Next, LoopStep, AskerStep, CallerStep, NotifierStep

\* Type correctness: every variable of the hook keeps its type, for any
\* number of calls, watchers and loops.
THEOREM TypeCorrect == Spec => []TypeOK
<1>1. Init => TypeOK BY TypeInit
<1>2. TypeOK /\ [Next]_vars => TypeOK' BY TypeStep
<1> QED BY <1>1, <1>2, PTL DEF Spec

(***************************************************************************)
(* Who holds which channels.                                               *)
(***************************************************************************)

\* A disconnect that has taken channels, as opposed to a connect that has
\* made some for the loop it is about to start.
Holds(c) == ref[c] # NoLoop /\ pc[c] # "start"

\* Channels that may still be closed are open, and only one call or the hook
\* itself can reach them; a loop that is about to start is not running yet.
ChannelInv ==
    /\ TypeOK
    /\ \A c \in Callers : pc[c] \in {"idle", "take"} => ref[c] = NoLoop
    /\ \A c \in Callers : pc[c] = "start" => loop[ref[c]] = "none"
    /\ \A c, d \in Callers :
          pc[c] = "start" /\ pc[d] = "start" /\ ref[c] = ref[d] => c = d
    /\ edgeStopCh # NoLoop => ~stopped[edgeStopCh]
    /\ \A c \in Callers : Holds(c) => ~stopped[ref[c]] /\ ref[c] # edgeStopCh
    /\ \A c, d \in Callers : Holds(c) /\ Holds(d) /\ ref[c] = ref[d] => c = d

LEMMA ChannelInit == Init => ChannelInv
  BY TypeInit DEF Init, ChannelInv, Holds, Askers

LEMMA ChannelStep == ChannelInv /\ [Next]_vars => ChannelInv'
<1> SUFFICES ASSUME ChannelInv, [Next]_vars
             PROVE  ChannelInv'
    OBVIOUS
<1> TypeOK /\ TypeOK'
  BY TypeStep DEF ChannelInv
<1> USE ProcessesAssumption, LoopsAssumption
    DEF TypeOK, ChannelInv, Holds, Callers, Askers, AskerLabels, LoopLabels, flags,
        threads, channels, asking, notices, Goto, Move, Take
<1>1. ASSUME NEW c \in Starters, Connect(c) PROVE ChannelInv'
  BY <1>1 DEF Connect, Forgotten, Alone, Busy
<1>2. ASSUME NEW c \in Enders, Disconnect(c) PROVE ChannelInv'
  BY <1>2 DEF Disconnect, Alone, Busy
<1>3. ASSUME NEW c \in Callers, StartLoop(c) PROVE ChannelInv'
  BY <1>3 DEF StartLoop
<1>4. ASSUME NEW c \in Callers, TakeChannels(c) PROVE ChannelInv'
  BY <1>4 DEF TakeChannels
<1>5. ASSUME NEW c \in Callers, CloseStop(c) PROVE ChannelInv'
  BY <1>5 DEF CloseStop
<1>6. ASSUME NEW w \in Watchers, ExitRemoteMode(w) \/ SecureDesktop(w) PROVE ChannelInv'
  BY <1>6 DEF ExitRemoteMode, SecureDesktop
<1>7. ASSUME NEW p \in Askers, RequestExit(p) PROVE ChannelInv'
  BY <1>7 DEF RequestExit
<1>8. ASSUME NEW p \in Askers, PostQuit(p) PROVE ChannelInv'
  BY <1>8 DEF PostQuit
<1>9. ASSUME NEW l \in Loops, EndLoop(l) PROVE ChannelInv'
  BY <1>9 DEF EndLoop, NewThread
<1>10. ASSUME NEW l \in Loops, CursorAway(l) PROVE ChannelInv'
  BY <1>10 DEF CursorAway
<1>11. ASSUME NEW l \in Loops, CursorDwells(l) PROVE ChannelInv'
  BY <1>11 DEF CursorDwells, Polls
<1>12. ASSUME NEW l \in Loops, HooksFail(l) PROVE ChannelInv'
  BY <1>12 DEF HooksFail
<1>13. ASSUME NEW l \in Loops, Enter(l) PROVE ChannelInv'
  BY <1>13 DEF Enter, NewThread
<1>14. ASSUME NEW l \in Loops, NotifyEntered(l) PROVE ChannelInv'
  BY <1>14 DEF NotifyEntered, NotifyStateChange
<1>15. ASSUME NEW l \in Loops, ExitHotkey(l) PROVE ChannelInv'
  BY <1>15 DEF ExitHotkey
<1>16. ASSUME NEW l \in Loops, Quits(l) \/ OtherMessage(l) PROVE ChannelInv'
  BY <1>16 DEF Quits, OtherMessage
<1>17. ASSUME NEW l \in Loops, Clear(l) PROVE ChannelInv'
  BY <1>17 DEF Clear
<1>18. ASSUME NEW l \in Loops, NotifyLeft(l) PROVE ChannelInv'
  BY <1>18 DEF NotifyLeft, NotifyStateChange
<1>19. CASE Callback
  BY <1>19 DEF Callback
<1>20. CASE Decide
  BY <1>20 DEF Decide
<1>21. CASE Finish
  BY <1>21 DEF Finish
<1>22. CASE UNCHANGED vars
  BY <1>22 DEF vars
<1>23. QED
  BY <1>1, <1>2, <1>3, <1>4, <1>5, <1>6, <1>7, <1>8, <1>9, <1>10, <1>11,
     <1>12, <1>13, <1>14, <1>15, <1>16, <1>17, <1>18, <1>19, <1>20, <1>21,
     <1>22 DEF Next, LoopStep, AskerStep, CallerStep, NotifierStep

\* Who holds which channels, in every reachable state.
THEOREM ChannelsHold == Spec => []ChannelInv
<1>1. Init => ChannelInv BY ChannelInit
<1>2. ChannelInv /\ [Next]_vars => ChannelInv' BY ChannelStep
<1> QED BY <1>1, <1>2, PTL DEF Spec

\* No stop channel is closed twice, in any overlap of calls.
THEOREM NoSecondClose == Spec => []StopIsClosedOnce
<1>1. ChannelInv => StopIsClosedOnce BY DEF ChannelInv, Holds, StopIsClosedOnce
<1> QED BY <1>1, ChannelsHold, PTL

(***************************************************************************)
(* The mode and the hook thread.                                           *)
(***************************************************************************)

\* Only the loop that is inside remote mode sets the mode or the identifier,
\* and it clears both together.
LEMMA RemoteStep == ChannelInv /\ RemoteCanBeAsked /\ [Next]_vars => RemoteCanBeAsked'
<1> SUFFICES ASSUME ChannelInv, RemoteCanBeAsked, [Next]_vars
             PROVE  RemoteCanBeAsked'
    OBVIOUS
<1> TypeOK
  BY DEF ChannelInv
<1>0. \A c \in Callers : pc[c] = "start" => loop[ref[c]] = "none"
  BY DEF ChannelInv
<1> USE LoopsAssumption
    DEF TypeOK, RemoteCanBeAsked, Inside, flags, threads, channels, asking,
        notices, Goto, Move, Take
<1>1. ASSUME NEW c \in Starters, Connect(c) PROVE RemoteCanBeAsked'
  BY <1>1 DEF Connect, Forgotten, Alone, Busy
<1>2. ASSUME NEW c \in Enders, Disconnect(c) PROVE RemoteCanBeAsked'
  BY <1>2 DEF Disconnect, Alone, Busy
<1>3. ASSUME NEW c \in Callers, StartLoop(c) PROVE RemoteCanBeAsked'
  BY <1>0, <1>3 DEF StartLoop
<1>4. ASSUME NEW c \in Callers, TakeChannels(c) PROVE RemoteCanBeAsked'
  BY <1>4 DEF TakeChannels
<1>5. ASSUME NEW c \in Callers, CloseStop(c) PROVE RemoteCanBeAsked'
  BY <1>5 DEF CloseStop
<1>6. ASSUME NEW w \in Watchers, ExitRemoteMode(w) \/ SecureDesktop(w) PROVE RemoteCanBeAsked'
  BY <1>6 DEF ExitRemoteMode, SecureDesktop
<1>7. ASSUME NEW p \in Askers, RequestExit(p) PROVE RemoteCanBeAsked'
  BY <1>7 DEF RequestExit
<1>8. ASSUME NEW p \in Askers, PostQuit(p) PROVE RemoteCanBeAsked'
  BY <1>8 DEF PostQuit
<1>9. ASSUME NEW l \in Loops, EndLoop(l) PROVE RemoteCanBeAsked'
  BY <1>9 DEF EndLoop, NewThread
<1>10. ASSUME NEW l \in Loops, CursorAway(l) PROVE RemoteCanBeAsked'
  BY <1>10 DEF CursorAway
<1>11. ASSUME NEW l \in Loops, CursorDwells(l) PROVE RemoteCanBeAsked'
  BY <1>11 DEF CursorDwells, Polls
<1>12. ASSUME NEW l \in Loops, HooksFail(l) PROVE RemoteCanBeAsked'
  BY <1>12 DEF HooksFail
<1>13. ASSUME NEW l \in Loops, Enter(l) PROVE RemoteCanBeAsked'
  BY <1>13 DEF Enter, NewThread
<1>14. ASSUME NEW l \in Loops, NotifyEntered(l) PROVE RemoteCanBeAsked'
  BY <1>14 DEF NotifyEntered, NotifyStateChange
<1>15. ASSUME NEW l \in Loops, ExitHotkey(l) PROVE RemoteCanBeAsked'
  BY <1>15 DEF ExitHotkey
<1>16. ASSUME NEW l \in Loops, Quits(l) \/ OtherMessage(l) PROVE RemoteCanBeAsked'
  BY <1>16 DEF Quits, OtherMessage
<1>17. ASSUME NEW l \in Loops, Clear(l) PROVE RemoteCanBeAsked'
  BY <1>17 DEF Clear
<1>18. ASSUME NEW l \in Loops, NotifyLeft(l) PROVE RemoteCanBeAsked'
  BY <1>18 DEF NotifyLeft, NotifyStateChange
<1>19. CASE Callback
  BY <1>19 DEF Callback
<1>20. CASE Decide
  BY <1>20 DEF Decide
<1>21. CASE Finish
  BY <1>21 DEF Finish
<1>22. CASE UNCHANGED vars
  BY <1>22 DEF vars
<1>23. QED
  BY <1>1, <1>2, <1>3, <1>4, <1>5, <1>6, <1>7, <1>8, <1>9, <1>10, <1>11,
     <1>12, <1>13, <1>14, <1>15, <1>16, <1>17, <1>18, <1>19, <1>20, <1>21,
     <1>22 DEF Next, LoopStep, AskerStep, CallerStep, NotifierStep

\* The mode is never claimed without a hooked thread to ask.
THEOREM RemoteIsHooked == Spec => []RemoteCanBeAsked
<1>1. Init => RemoteCanBeAsked BY DEF Init, RemoteCanBeAsked
<1>2. ChannelInv /\ RemoteCanBeAsked /\ [Next]_vars => RemoteCanBeAsked'
  BY RemoteStep
<1> QED BY <1>1, <1>2, ChannelsHold, PTL DEF Spec

(***************************************************************************)
(* A cleared mode ends the stay.                                           *)
(***************************************************************************)

\* With one loop inside, whoever clears the mode has its thread identifier.
LEMMA PostedStep ==
    ChannelInv /\ RemoteCanBeAsked /\ ExitIsPosted /\ [Next]_vars => ExitIsPosted'
<1> SUFFICES ASSUME ChannelInv, RemoteCanBeAsked, ExitIsPosted, [Next]_vars, ~PostFails
             PROVE  (\A l \in Loops :
                        OnlyStay(l) /\ loop[l] # "left" /\ ~inRemoteMode =>
                            quit[l] \/ \E p \in Askers : target[p] = l)'
    BY DEF ExitIsPosted
<1> SUFFICES ASSUME NEW k \in Loops,
                    (OnlyStay(k) /\ loop[k] # "left" /\ ~inRemoteMode)'
             PROVE  (quit[k] \/ \E q \in Askers : target[q] = k)'
    OBVIOUS
<1> TypeOK
  BY DEF ChannelInv
<1>0. \A c \in Callers : pc[c] = "start" => loop[ref[c]] = "none"
  BY DEF ChannelInv
<1> USE LoopsAssumption
    DEF TypeOK, ExitIsPosted, OnlyStay, Inside, flags, threads, channels,
        asking, notices, Goto, Move, Take
<1>1. ASSUME NEW c \in Starters, Connect(c) PROVE (quit[k] \/ \E q \in Askers : target[q] = k)'
  BY <1>1 DEF Connect, Forgotten, Alone, Busy
<1>2. ASSUME NEW c \in Enders, Disconnect(c) PROVE (quit[k] \/ \E q \in Askers : target[q] = k)'
  BY <1>2 DEF Disconnect, Alone, Busy
<1>3. ASSUME NEW c \in Callers, StartLoop(c) PROVE (quit[k] \/ \E q \in Askers : target[q] = k)'
  BY <1>0, <1>3 DEF StartLoop
<1>4. ASSUME NEW c \in Callers, TakeChannels(c) PROVE (quit[k] \/ \E q \in Askers : target[q] = k)'
  BY <1>4 DEF TakeChannels
<1>5. ASSUME NEW c \in Callers, CloseStop(c) PROVE (quit[k] \/ \E q \in Askers : target[q] = k)'
  BY <1>5 DEF CloseStop
<1>6. ASSUME NEW w \in Watchers, ExitRemoteMode(w) \/ SecureDesktop(w) PROVE (quit[k] \/ \E q \in Askers : target[q] = k)'
  BY <1>6 DEF ExitRemoteMode, SecureDesktop
<1>7. ASSUME NEW p \in Askers, RequestExit(p) PROVE (quit[k] \/ \E q \in Askers : target[q] = k)'
  BY <1>7 DEF RequestExit
<1>8. ASSUME NEW p \in Askers, PostQuit(p) PROVE (quit[k] \/ \E q \in Askers : target[q] = k)'
  BY <1>8 DEF PostQuit
<1>9. ASSUME NEW l \in Loops, EndLoop(l) PROVE (quit[k] \/ \E q \in Askers : target[q] = k)'
  <2>1. l # k BY <1>9 DEF EndLoop, RemoteCanBeAsked
  <2>2. quit'[k] = quit[k] BY <1>9, <2>1 DEF EndLoop, NewThread
  <2>3. quit[k] \/ \E q \in Askers : target[q] = k BY <1>9, <2>1 DEF EndLoop, NewThread
  <2>4. \A q \in Askers : target[q] = k => target'[q] = k
    BY <1>9, <2>1 DEF EndLoop, NewThread
  <2> QED BY <2>2, <2>3, <2>4
<1>10. ASSUME NEW l \in Loops, CursorAway(l) PROVE (quit[k] \/ \E q \in Askers : target[q] = k)'
  BY <1>10 DEF CursorAway
<1>11. ASSUME NEW l \in Loops, CursorDwells(l) PROVE (quit[k] \/ \E q \in Askers : target[q] = k)'
  BY <1>11 DEF CursorDwells, Polls
<1>12. ASSUME NEW l \in Loops, HooksFail(l) PROVE (quit[k] \/ \E q \in Askers : target[q] = k)'
  BY <1>12 DEF HooksFail
<1>13. ASSUME NEW l \in Loops, Enter(l) PROVE (quit[k] \/ \E q \in Askers : target[q] = k)'
  BY <1>13 DEF Enter, NewThread
<1>14. ASSUME NEW l \in Loops, NotifyEntered(l) PROVE (quit[k] \/ \E q \in Askers : target[q] = k)'
  BY <1>14 DEF NotifyEntered, NotifyStateChange
<1>15. ASSUME NEW l \in Loops, ExitHotkey(l) PROVE (quit[k] \/ \E q \in Askers : target[q] = k)'
  BY <1>15 DEF ExitHotkey
<1>16. ASSUME NEW l \in Loops, Quits(l) \/ OtherMessage(l) PROVE (quit[k] \/ \E q \in Askers : target[q] = k)'
  BY <1>16 DEF Quits, OtherMessage
<1>17. ASSUME NEW l \in Loops, Clear(l) PROVE (quit[k] \/ \E q \in Askers : target[q] = k)'
  BY <1>17 DEF Clear
<1>18. ASSUME NEW l \in Loops, NotifyLeft(l) PROVE (quit[k] \/ \E q \in Askers : target[q] = k)'
  BY <1>18 DEF NotifyLeft, NotifyStateChange
<1>19. CASE Callback
  BY <1>19 DEF Callback
<1>20. CASE Decide
  BY <1>20 DEF Decide
<1>21. CASE Finish
  BY <1>21 DEF Finish
<1>22. CASE UNCHANGED vars
  BY <1>22 DEF vars
<1>23. QED
  BY <1>1, <1>2, <1>3, <1>4, <1>5, <1>6, <1>7, <1>8, <1>9, <1>10, <1>11,
     <1>12, <1>13, <1>14, <1>15, <1>16, <1>17, <1>18, <1>19, <1>20, <1>21,
     <1>22 DEF Next, LoopStep, AskerStep, CallerStep, NotifierStep

\* If Windows delivers what is posted, a stay whose mode is cleared is asked
\* to leave.
THEOREM ClearedStayIsAsked == Spec => []ExitIsPosted
<1>1. Init => ExitIsPosted BY LoopsAssumption DEF Init, ExitIsPosted, OnlyStay
<1>2. ChannelInv /\ RemoteCanBeAsked /\ ExitIsPosted /\ [Next]_vars => ExitIsPosted'
  BY PostedStep
<1> QED BY <1>1, <1>2, ChannelsHold, RemoteIsHooked, PTL DEF Spec

(***************************************************************************)
(* The hook follows the session.                                           *)
(***************************************************************************)

\* While calls do not overlap, the one under way knows what it will leave
\* behind, and none under way means the hook agrees with the session.
FollowInv ==
    ~crossed =>
        /\ \A c, d \in Callers : Busy(c) /\ Busy(d) => c = d
        /\ \A c \in Callers : pc[c] = "start" =>
              connected /\ edgeStopCh = ref[c] /\ ref[c] # NoLoop
        /\ \A c \in Callers : pc[c] \in {"take", "ask", "post", "close"} => ~connected
        /\ HookFollowsSession

LEMMA FollowStep == ChannelInv /\ FollowInv /\ [Next]_vars => FollowInv'
<1> SUFFICES ASSUME ChannelInv, FollowInv, [Next]_vars
             PROVE  FollowInv'
    OBVIOUS
<1> TypeOK /\ TypeOK'
  BY TypeStep DEF ChannelInv
<1> USE ProcessesAssumption, LoopsAssumption
    DEF TypeOK, ChannelInv, Holds, FollowInv, HookFollowsSession, Busy, Alone,
        Callers, Askers, AskerLabels, LoopLabels, flags, threads, channels,
        asking, notices, Goto, Move, Take
<1>1. ASSUME NEW c \in Starters, Connect(c) PROVE FollowInv'
  <2>1. SUFFICES ASSUME ~crossed' PROVE FollowInv'
    OBVIOUS
  <2>2. \A d \in Callers : d # c => pc[d] = "idle"
    BY <1>1, <2>1, Zenon DEF Connect
  <2>3. pc' = [pc EXCEPT ![c] = "start"] /\ pc'[c] = "start"
    BY <1>1 DEF Connect
  <2>4. connected' /\ ref'[c] # NoLoop /\ edgeStopCh' = ref'[c]
    BY <1>1 DEF Connect
  <2> QED BY <2>1, <2>2, <2>3, <2>4
<1>2. ASSUME NEW c \in Enders, Disconnect(c) PROVE FollowInv'
  BY <1>2 DEF Disconnect, Alone, Busy
<1>3. ASSUME NEW c \in Callers, StartLoop(c) PROVE FollowInv'
  BY ZenonT(60), <1>3 DEF StartLoop
<1>4. ASSUME NEW c \in Callers, TakeChannels(c) PROVE FollowInv'
  BY <1>4 DEF TakeChannels
<1>5. ASSUME NEW c \in Callers, CloseStop(c) PROVE FollowInv'
  BY <1>5 DEF CloseStop
<1>6. ASSUME NEW w \in Watchers, ExitRemoteMode(w) \/ SecureDesktop(w) PROVE FollowInv'
  BY <1>6 DEF ExitRemoteMode, SecureDesktop
<1>7. ASSUME NEW p \in Askers, RequestExit(p) PROVE FollowInv'
  BY <1>7 DEF RequestExit
<1>8. ASSUME NEW p \in Askers, PostQuit(p) PROVE FollowInv'
  BY <1>8 DEF PostQuit
<1>9. ASSUME NEW l \in Loops, EndLoop(l) PROVE FollowInv'
  BY <1>9 DEF EndLoop, NewThread
<1>10. ASSUME NEW l \in Loops, CursorAway(l) PROVE FollowInv'
  BY <1>10 DEF CursorAway
<1>11. ASSUME NEW l \in Loops, CursorDwells(l) PROVE FollowInv'
  BY <1>11 DEF CursorDwells, Polls
<1>12. ASSUME NEW l \in Loops, HooksFail(l) PROVE FollowInv'
  BY <1>12 DEF HooksFail
<1>13. ASSUME NEW l \in Loops, Enter(l) PROVE FollowInv'
  BY <1>13 DEF Enter, NewThread
<1>14. ASSUME NEW l \in Loops, NotifyEntered(l) PROVE FollowInv'
  BY <1>14 DEF NotifyEntered, NotifyStateChange
<1>15. ASSUME NEW l \in Loops, ExitHotkey(l) PROVE FollowInv'
  BY <1>15 DEF ExitHotkey
<1>16. ASSUME NEW l \in Loops, Quits(l) \/ OtherMessage(l) PROVE FollowInv'
  BY <1>16 DEF Quits, OtherMessage
<1>17. ASSUME NEW l \in Loops, Clear(l) PROVE FollowInv'
  BY <1>17 DEF Clear
<1>18. ASSUME NEW l \in Loops, NotifyLeft(l) PROVE FollowInv'
  BY <1>18 DEF NotifyLeft, NotifyStateChange
<1>19. CASE Callback
  BY <1>19 DEF Callback
<1>20. CASE Decide
  BY <1>20 DEF Decide
<1>21. CASE Finish
  BY <1>21 DEF Finish
<1>22. CASE UNCHANGED vars
  BY <1>22 DEF vars
<1>23. QED
  BY <1>1, <1>2, <1>3, <1>4, <1>5, <1>6, <1>7, <1>8, <1>9, <1>10, <1>11,
     <1>12, <1>13, <1>14, <1>15, <1>16, <1>17, <1>18, <1>19, <1>20, <1>21,
     <1>22 DEF Next, LoopStep, AskerStep, CallerStep, NotifierStep

\* Calls that do not overlap leave an open edge loop and a routed hook
\* exactly while there is a session.
THEOREM HookAgrees == Spec => []HookFollowsSession
<1>1. Init => FollowInv
  BY DEF Init, FollowInv, HookFollowsSession, Busy, Callers, Askers
<1>2. ChannelInv /\ FollowInv /\ [Next]_vars => FollowInv'
  BY FollowStep
<1>3. FollowInv => HookFollowsSession
  BY DEF FollowInv, HookFollowsSession
<1> QED BY <1>1, <1>2, <1>3, ChannelsHold, PTL DEF Spec

(***************************************************************************)
(* Notifications.                                                          *)
(***************************************************************************)

\* A mode that has not been reported will be: a loop is about to notify, a
\* callback is about to read it, or a note asks for one.
ReportDue ==
    \/ reported = inRemoteMode
    \/ lost
    \/ \E l \in Loops : InTransition(l)
    \/ notifier = "callback"
    \/ notifier # "idle" /\ stateChangePending

LEMMA ReportStep ==
    ChannelInv /\ RemoteCanBeAsked /\ ReportDue /\ [Next]_vars => ReportDue'
<1> SUFFICES ASSUME ChannelInv, RemoteCanBeAsked, ReportDue, [Next]_vars
             PROVE  ReportDue'
    OBVIOUS
<1> TypeOK
  BY DEF ChannelInv
<1>0. \A c \in Callers : pc[c] = "start" => loop[ref[c]] = "none"
  BY DEF ChannelInv
<1> USE LoopsAssumption
    DEF TypeOK, RemoteCanBeAsked, ReportDue, InTransition, Inside, flags, threads,
        channels, asking, notices, Goto, Move, Take
<1>1. ASSUME NEW c \in Starters, Connect(c) PROVE ReportDue'
  BY <1>1 DEF Connect, Forgotten, Alone, Busy
<1>2. ASSUME NEW c \in Enders, Disconnect(c) PROVE ReportDue'
  BY <1>2 DEF Disconnect, Alone, Busy
<1>3. ASSUME NEW c \in Callers, StartLoop(c) PROVE ReportDue'
  BY <1>0, <1>3 DEF StartLoop
<1>4. ASSUME NEW c \in Callers, TakeChannels(c) PROVE ReportDue'
  BY <1>4 DEF TakeChannels
<1>5. ASSUME NEW c \in Callers, CloseStop(c) PROVE ReportDue'
  BY <1>5 DEF CloseStop
<1>6. ASSUME NEW w \in Watchers, ExitRemoteMode(w) \/ SecureDesktop(w) PROVE ReportDue'
  BY <1>6 DEF ExitRemoteMode, SecureDesktop
<1>7. ASSUME NEW p \in Askers, RequestExit(p) PROVE ReportDue'
  BY <1>7 DEF RequestExit
<1>8. ASSUME NEW p \in Askers, PostQuit(p) PROVE ReportDue'
  BY <1>8 DEF PostQuit
<1>9. ASSUME NEW l \in Loops, EndLoop(l) PROVE ReportDue'
  BY <1>9 DEF EndLoop, NewThread
<1>10. ASSUME NEW l \in Loops, CursorAway(l) PROVE ReportDue'
  BY <1>10 DEF CursorAway
<1>11. ASSUME NEW l \in Loops, CursorDwells(l) PROVE ReportDue'
  BY <1>11 DEF CursorDwells, Polls
<1>12. ASSUME NEW l \in Loops, HooksFail(l) PROVE ReportDue'
  BY <1>12 DEF HooksFail
<1>13. ASSUME NEW l \in Loops, Enter(l) PROVE ReportDue'
  BY <1>13 DEF Enter, NewThread
<1>14. ASSUME NEW l \in Loops, NotifyEntered(l) PROVE ReportDue'
  BY <1>14 DEF NotifyEntered, NotifyStateChange
<1>15. ASSUME NEW l \in Loops, ExitHotkey(l) PROVE ReportDue'
  BY <1>15 DEF ExitHotkey
<1>16. ASSUME NEW l \in Loops, Quits(l) \/ OtherMessage(l) PROVE ReportDue'
  BY <1>16 DEF Quits, OtherMessage
<1>17. ASSUME NEW l \in Loops, Clear(l) PROVE ReportDue'
  BY <1>17 DEF Clear
<1>18. ASSUME NEW l \in Loops, NotifyLeft(l) PROVE ReportDue'
  BY <1>18 DEF NotifyLeft, NotifyStateChange
<1>19. CASE Callback
  BY <1>19 DEF Callback
<1>20. CASE Decide
  BY <1>20 DEF Decide
<1>21. CASE Finish
  BY <1>21 DEF Finish
<1>22. CASE UNCHANGED vars
  BY <1>22 DEF vars
<1>23. QED
  BY <1>1, <1>2, <1>3, <1>4, <1>5, <1>6, <1>7, <1>8, <1>9, <1>10, <1>11,
     <1>12, <1>13, <1>14, <1>15, <1>16, <1>17, <1>18, <1>19, <1>20, <1>21,
     <1>22 DEF Next, LoopStep, AskerStep, CallerStep, NotifierStep

\* Once all is quiet the application knows the mode, unless the last note
\* came between the goroutine's last look and its deferred section.
THEOREM TransitionsReported == Spec => []ReportedUnlessLost
<1>1. Init => ReportDue BY DEF Init, ReportDue
<1>2. ChannelInv /\ RemoteCanBeAsked /\ ReportDue /\ [Next]_vars => ReportDue'
  BY ReportStep
<1>3. ReportDue => ReportedUnlessLost
  BY DEF ReportDue, ReportedUnlessLost
<1> QED BY <1>1, <1>2, <1>3, ChannelsHold, RemoteIsHooked, PTL DEF Spec
=============================================================================
