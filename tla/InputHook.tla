----------------------------- MODULE InputHook -----------------------------
(***************************************************************************)
(* The controlling machine: an edge loop per session watches the cursor,   *)
(* and its goroutine becomes the hook thread while the user controls the   *)
(* peer (internal/input/input_windows_remote.go, input_windows.go).        *)
(*                                                                         *)
(* Grain of atomicity.  A section under ih.mu is one step, as are a store  *)
(* to globalHook, a posted WM_QUIT and the closing of a channel.           *)
(*                                                                         *)
(* Abstractions.  sendFn is set and cleared with connected, in the same    *)
(* section, and is not kept apart from it.  The cursor is inside or        *)
(* outside the trigger zone as the environment likes; the dwell, the wait  *)
(* for the left button and the cool-down only put off entering remote      *)
(* mode.  Which keys and moves are forwarded holds no state here.          *)
(***************************************************************************)
EXTENDS TLC

CONSTANTS
    Starters,   \* goroutines that may call SetConnected(true, send)
    Enders,     \* goroutines that may call SetConnected(false, nil)
    Watchers,   \* goroutines that may call requestExitRemote besides: the
                \* read loop on the peer's SwitchBack, secure-desktop monitors
    Loops,      \* bound: edge loops alive at the same time
    PostFails,  \* may PostThreadMessage refuse a message?
    NoLoop      \* nil channel, thread identifier 0

Callers == Starters \cup Enders
Askers == Callers \cup Watchers

ASSUME ProcessesAssumption == Callers \cap Watchers = {}

ASSUME LoopsAssumption == NoLoop \notin Loops

ASSUME PostFailsAssumption == PostFails \in BOOLEAN

VARIABLES
    connected,           \* connected, and sendFn is not nil
    inRemoteMode,        \* what every goroutine takes for "controlling"
    globalHook,          \* globalHook is set: the hook callbacks act
    triggerArmed,        \* the cursor has been outside the trigger zone
    hookThreadID,        \* the loop whose thread pumps messages
    edgeStopCh,          \* the loop whose channels SetConnected would close
    loop,                \* where each edge loop is
    stopped,             \* the loop's own stop channel is closed
    quit,                \* WM_QUIT waits in the queue of the loop's thread
    pc,                  \* where each asker is
    ref,                 \* the channels a caller took
    target,              \* the thread a requestExitRemote has read
    notifier,            \* the state-change goroutine; stateChangeRunning
                         \* is exactly notifier # "idle"
    stateChangePending,  \* another transition happened meanwhile
    reported,            \* history: the mode the last callback read
    lost,                \* history: a pending flag was cleared unread
    crossed              \* history: two SetConnected calls overlapped

flags    == <<connected, inRemoteMode, globalHook, triggerArmed>>
threads  == <<hookThreadID, loop, quit>>
channels == <<edgeStopCh, stopped, ref>>
asking   == <<pc, target>>
notices  == <<notifier, stateChangePending, reported, lost>>
vars     == <<flags, threads, channels, asking, notices, crossed>>

LoopLabels == {"none", "poll", "trigger", "entered", "messages", "left",
               "cleared"}
AskerLabels == {"idle", "start", "take", "ask", "post", "close"}

(***************************************************************************)
(* A loop is inside remote mode from the section that sets inRemoteMode to *)
(* the one that clears it: its hooks are installed until it has left.      *)
(***************************************************************************)
Inside(l) == loop[l] \in {"entered", "messages", "left"}
Busy(c) == pc[c] # "idle"
Alone(c) == \A d \in Callers \ {c} : ~Busy(d)

TypeOK ==
    /\ {connected, inRemoteMode, globalHook, triggerArmed} \subseteq BOOLEAN
    /\ hookThreadID \in Loops \cup {NoLoop}
    /\ edgeStopCh \in Loops \cup {NoLoop}
    /\ loop \in [Loops -> LoopLabels]
    /\ stopped \in [Loops -> BOOLEAN]
    /\ quit \in [Loops -> BOOLEAN]
    /\ pc \in [Askers -> AskerLabels]
    /\ ref \in [Callers -> Loops \cup {NoLoop}]
    /\ \A c \in Callers : pc[c] = "start" => ref[c] \in Loops
    /\ target \in [Askers -> Loops \cup {NoLoop}]
    /\ notifier \in {"idle", "callback", "decide", "finish"}
    /\ {stateChangePending, reported, lost, crossed} \subseteq BOOLEAN

Init ==
    /\ connected = FALSE /\ inRemoteMode = FALSE
    /\ globalHook = FALSE /\ triggerArmed = TRUE
    /\ hookThreadID = NoLoop /\ edgeStopCh = NoLoop
    /\ loop = [l \in Loops |-> "none"]
    /\ stopped = [l \in Loops |-> TRUE]
    /\ quit = [l \in Loops |-> FALSE]
    /\ pc = [p \in Askers |-> "idle"]
    /\ ref = [c \in Callers |-> NoLoop]
    /\ target = [p \in Askers |-> NoLoop]
    /\ notifier = "idle" /\ stateChangePending = FALSE
    /\ reported = FALSE /\ lost = FALSE /\ crossed = FALSE

Goto(p, label) == pc' = [pc EXCEPT ![p] = label]
Move(l, label) == loop' = [loop EXCEPT ![l] = label]
Take(c, l) == ref' = [ref EXCEPT ![c] = l]

\* The loop has no thread, or a new one: its queue is empty, and a request
\* that has read the identifier of the old one does not reach it.
NewThread(l) ==
    /\ quit' = [quit EXCEPT ![l] = FALSE]
    /\ target' = [p \in Askers |-> IF target[p] = l THEN NoLoop ELSE target[p]]

(***************************************************************************)
(* SetConnected, which does nothing that is kept here when connected does  *)
(* not change.  A loop whose goroutine has returned and whose channels     *)
(* nobody holds lends its identity to the next one.                        *)
(***************************************************************************)
Forgotten(l) == loop[l] = "none" /\ edgeStopCh # l /\ \A c \in Callers : ref[c] # l

Connect(c) ==
    /\ pc[c] = "idle"
    /\ ~connected
    /\ connected' = TRUE
    /\ triggerArmed' = FALSE
    /\ \E l \in {k \in Loops : Forgotten(k)} :
          /\ edgeStopCh' = l
          /\ stopped' = [stopped EXCEPT ![l] = FALSE]
          /\ Take(c, l)
    /\ crossed' = ~Alone(c)
    /\ Goto(c, "start")
    /\ UNCHANGED <<inRemoteMode, globalHook, threads, target, notices>>

StartLoop(c) ==
    /\ pc[c] = "start"
    /\ globalHook' = TRUE
    /\ Move(ref[c], "poll")
    /\ Take(c, NoLoop)
    /\ Goto(c, "idle")
    /\ UNCHANGED <<connected, inRemoteMode, triggerArmed, hookThreadID, quit,
                   edgeStopCh, stopped, target, notices, crossed>>

Disconnect(c) ==
    /\ pc[c] = "idle"
    /\ connected
    /\ connected' = FALSE
    /\ crossed' = ~Alone(c)
    /\ Goto(c, "take")
    /\ UNCHANGED <<inRemoteMode, globalHook, triggerArmed, threads, channels,
                   target, notices>>

(***************************************************************************)
(* The second section of a disconnect reads the mode and takes whatever    *)
(* channels are there now.                                                 *)
(***************************************************************************)
TakeChannels(c) ==
    /\ pc[c] = "take"
    /\ Take(c, edgeStopCh)
    /\ edgeStopCh' = NoLoop
    /\ Goto(c, IF inRemoteMode THEN "ask" ELSE "close")
    /\ UNCHANGED <<flags, threads, stopped, target, notices, crossed>>

(***************************************************************************)
(* The wait for doneCh lasts at most edgeStopWaitTimeout and may be over   *)
(* at any moment, with the loop ended or not.                              *)
(***************************************************************************)
\* Mutant: the callbacks stay routed to the session that is over.
CloseStopKeepsHook(c) ==
    /\ pc[c] = "close"
    /\ globalHook' = globalHook
    /\ stopped' = IF ref[c] = NoLoop THEN stopped
                  ELSE [stopped EXCEPT ![ref[c]] = TRUE]
    /\ Take(c, NoLoop)
    /\ Goto(c, "idle")
    /\ UNCHANGED <<connected, inRemoteMode, triggerArmed, threads, edgeStopCh,
                   target, notices, crossed>>

CloseStop(c) ==
    /\ pc[c] = "close"
    /\ globalHook' = FALSE
    /\ stopped' = IF ref[c] = NoLoop THEN stopped
                  ELSE [stopped EXCEPT ![ref[c]] = TRUE]
    /\ Take(c, NoLoop)
    /\ Goto(c, "idle")
    /\ UNCHANGED <<connected, inRemoteMode, triggerArmed, threads, edgeStopCh,
                   target, notices, crossed>>

(***************************************************************************)
(* requestExitRemote, called by a disconnect, by the peer's SwitchBack and *)
(* by the monitor that has seen the secure desktop twice.                  *)
(***************************************************************************)
ExitRemoteMode(w) ==
    /\ pc[w] = "idle"
    /\ inRemoteMode
    /\ Goto(w, "ask")
    /\ UNCHANGED <<flags, threads, channels, target, notices, crossed>>

SecureDesktop(w) ==
    /\ pc[w] = "idle"
    /\ inRemoteMode
    /\ \E l \in Loops : loop[l] \in {"messages", "left"}
    /\ Goto(w, "ask")
    /\ UNCHANGED <<flags, threads, channels, target, notices, crossed>>

RequestExit(p) ==
    /\ pc[p] = "ask"
    /\ inRemoteMode' = FALSE
    /\ target' = [target EXCEPT ![p] = hookThreadID]
    /\ Goto(p, "post")
    /\ UNCHANGED <<connected, globalHook, triggerArmed, threads, channels,
                   notices, crossed>>

PostQuit(p) ==
    /\ pc[p] = "post"
    /\ \/ /\ target[p] \in Loops
          /\ quit' = [quit EXCEPT ![target[p]] = TRUE]
       \/ /\ PostFails \/ target[p] = NoLoop
          /\ quit' = quit
    /\ target' = [target EXCEPT ![p] = NoLoop]
    /\ Goto(p, IF p \in Callers THEN "close" ELSE "idle")
    /\ UNCHANGED <<flags, hookThreadID, loop, channels, notices, crossed>>

(***************************************************************************)
(* The edge loop.  A poll that finds neither a closed channel nor a lost   *)
(* connection leaves remote mode alone, arms the trigger or pulls it.      *)
(***************************************************************************)
EndLoop(l) ==
    /\ loop[l] = "poll"
    /\ stopped[l] \/ ~connected
    /\ Move(l, "none")
    /\ NewThread(l)
    /\ UNCHANGED <<flags, hookThreadID, channels, pc, notices, crossed>>

Polls(l) == loop[l] = "poll" /\ ~stopped[l] /\ connected /\ ~inRemoteMode

CursorAway(l) ==
    /\ Polls(l)
    /\ triggerArmed' = TRUE
    /\ UNCHANGED <<connected, inRemoteMode, globalHook, threads, channels,
                   asking, notices, crossed>>

CursorDwells(l) ==
    /\ Polls(l)
    /\ triggerArmed
    /\ Move(l, "trigger")
    /\ UNCHANGED <<flags, hookThreadID, quit, channels, asking, notices, crossed>>

(***************************************************************************)
(* runRemoteMode.  The goroutine locks itself to an operating-system       *)
(* thread: the one of its last stay, with whatever is left in its message  *)
(* queue, or another, which a request that read the last one cannot reach. *)
(***************************************************************************)
HooksFail(l) ==
    /\ loop[l] = "trigger"
    /\ triggerArmed' = FALSE
    /\ Move(l, "poll")
    /\ UNCHANGED <<connected, inRemoteMode, globalHook, hookThreadID, quit,
                   channels, asking, notices, crossed>>

Enter(l) ==
    /\ loop[l] = "trigger"
    /\ inRemoteMode' = TRUE
    /\ hookThreadID' = l
    /\ NewThread(l) \/ UNCHANGED <<quit, target>>
    /\ Move(l, "entered")
    /\ UNCHANGED <<connected, globalHook, triggerArmed, channels, pc, notices,
                   crossed>>

(***************************************************************************)
(* notifyStateChange: start the state-change goroutine or leave it a note. *)
(***************************************************************************)
NotifyStateChange ==
    /\ IF notifier # "idle"
         THEN stateChangePending' = TRUE /\ notifier' = notifier
         ELSE notifier' = "callback" /\ stateChangePending' = stateChangePending
    /\ UNCHANGED <<reported, lost>>

NotifyEntered(l) ==
    /\ loop[l] = "entered"
    /\ NotifyStateChange
    /\ Move(l, "messages")
    /\ UNCHANGED <<flags, hookThreadID, quit, channels, asking, crossed>>

(***************************************************************************)
(* The exit hotkey is seen by the hook callback, on the hook thread.       *)
(***************************************************************************)
\* Mutant: the mode is cleared, the message loop is not told.
ExitHotkeyNoQuit(l) ==
    /\ loop[l] = "messages"
    /\ globalHook
    /\ inRemoteMode
    /\ inRemoteMode' = FALSE
    /\ quit' = quit
    /\ UNCHANGED <<connected, globalHook, triggerArmed, hookThreadID, loop,
                   channels, asking, notices, crossed>>

ExitHotkey(l) ==
    /\ loop[l] = "messages"
    /\ globalHook
    /\ inRemoteMode
    /\ inRemoteMode' = FALSE
    /\ quit' = [quit EXCEPT ![l] = TRUE]
    /\ UNCHANGED <<connected, globalHook, triggerArmed, hookThreadID, loop,
                   channels, asking, notices, crossed>>

Quits(l) ==
    /\ loop[l] = "messages"
    /\ quit[l]
    /\ quit' = [quit EXCEPT ![l] = FALSE]
    /\ Move(l, "left")
    /\ UNCHANGED <<flags, hookThreadID, channels, asking, notices, crossed>>

OtherMessage(l) ==
    /\ loop[l] = "messages"
    /\ ~quit[l]
    /\ ~inRemoteMode
    /\ Move(l, "left")
    /\ UNCHANGED <<flags, hookThreadID, quit, channels, asking, notices, crossed>>

\* Mutant: a stay that ends by itself forgets the mode.
ClearKeepsMode(l) ==
    /\ loop[l] = "left"
    /\ inRemoteMode' = inRemoteMode
    /\ hookThreadID' = NoLoop
    /\ Move(l, "cleared")
    /\ UNCHANGED <<connected, globalHook, triggerArmed, quit, channels, asking,
                   notices, crossed>>

Clear(l) ==
    /\ loop[l] = "left"
    /\ inRemoteMode' = FALSE
    /\ hookThreadID' = NoLoop
    /\ Move(l, "cleared")
    /\ UNCHANGED <<connected, globalHook, triggerArmed, quit, channels, asking,
                   notices, crossed>>

NotifyLeft(l) ==
    /\ loop[l] = "cleared"
    /\ NotifyStateChange
    /\ triggerArmed' = FALSE
    /\ Move(l, "poll")
    /\ UNCHANGED <<connected, inRemoteMode, globalHook, hookThreadID, quit,
                   channels, asking, crossed>>

(***************************************************************************)
(* The state-change goroutine: call back, look for a note, and finish in a *)
(* section of its own.                                                     *)
(***************************************************************************)
Callback ==
    /\ notifier = "callback"
    /\ reported' = inRemoteMode
    /\ lost' = FALSE
    /\ notifier' = "decide"
    /\ UNCHANGED <<flags, threads, channels, asking, stateChangePending, crossed>>

\* Mutant: the note is cleared without a second callback.
DecideToFinish ==
    /\ notifier = "decide"
    /\ notifier' = "finish"
    /\ stateChangePending' = FALSE
    /\ UNCHANGED <<flags, threads, channels, asking, reported, lost, crossed>>

Decide ==
    /\ notifier = "decide"
    /\ notifier' = IF stateChangePending THEN "callback" ELSE "finish"
    /\ stateChangePending' = FALSE
    /\ UNCHANGED <<flags, threads, channels, asking, reported, lost, crossed>>

Finish ==
    /\ notifier = "finish"
    /\ notifier' = "idle"
    /\ stateChangePending' = FALSE
    /\ lost' = (lost \/ stateChangePending)
    /\ UNCHANGED <<flags, threads, channels, asking, reported, crossed>>

LoopStep(l) ==
    \/ EndLoop(l) \/ NotifyEntered(l) \/ Quits(l) \/ Clear(l) \/ NotifyLeft(l)
    \/ HooksFail(l) \/ Enter(l)

AskerStep(p) == RequestExit(p) \/ PostQuit(p)

CallerStep(c) ==
    StartLoop(c) \/ TakeChannels(c) \/ CloseStop(c)

NotifierStep == Callback \/ Decide \/ Finish

Next ==
    \/ \E c \in Starters : Connect(c)
    \/ \E c \in Enders : Disconnect(c)
    \/ \E c \in Callers : CallerStep(c)
    \/ \E w \in Watchers : ExitRemoteMode(w) \/ SecureDesktop(w)
    \/ \E p \in Askers : AskerStep(p)
    \/ \E l \in Loops : \/ LoopStep(l) \/ CursorAway(l) \/ CursorDwells(l)
                        \/ ExitHotkey(l) \/ OtherMessage(l)
    \/ NotifierStep

Spec == Init /\ [][Next]_vars

(***************************************************************************)
(* Goroutines that can run do; nothing is assumed of the user, the cursor, *)
(* the peer, the sessions or stray messages.                               *)
(***************************************************************************)
Fairness ==
    /\ \A l \in Loops : WF_vars(LoopStep(l))
    /\ \A p \in Askers : WF_vars(AskerStep(p))
    /\ \A c \in Callers : WF_vars(CallerStep(c))
    /\ WF_vars(NotifierStep)

FairSpec == Spec /\ Fairness

LoopSymmetry == Permutations(Loops)

(***************************************************************************)
(* Safety.                                                                 *)
(***************************************************************************)

(* Whenever the program takes itself for controlling the peer, the thread  *)
(* that an exit request would wake is one that pumps messages with its     *)
(* hooks installed (runRemoteMode installs them first, so as not to be     *)
(* "stuck claiming remote mode with no actual input forwarding"): input    *)
(* is never swallowed with nobody to ask, whoever sets and clears the      *)
(* mode, and also while an old loop outlives its session.                  *)
RemoteCanBeAsked ==
    /\ inRemoteMode => hookThreadID # NoLoop
    /\ hookThreadID # NoLoop => Inside(hookThreadID)

(* SetConnected closes a stop channel at most once (a second close panics),*)
(* however the calls of OnDisconnect, Disconnect and shutdown overlap with *)
(* each other and with the next OnConnect.                                 *)
StopIsClosedOnce ==
    \A c \in Callers : pc[c] = "close" /\ ref[c] # NoLoop => ~stopped[ref[c]]

(* Once no SetConnected is under way, the hook follows the session: an     *)
(* edge loop with an open stop channel runs and the callbacks are routed   *)
(* to it exactly while connected.  Calls that overlapped are excepted: the *)
(* second section of a disconnect then takes the new session's channels    *)
(* and removes its hook.                                                   *)
HookFollowsSession ==
    ~crossed /\ (\A c \in Callers : ~Busy(c)) =>
        /\ globalHook = connected
        /\ connected => /\ edgeStopCh # NoLoop
                        /\ ~stopped[edgeStopCh]
                        /\ loop[edgeStopCh] # "none"

(* Once no transition and no callback is under way, the application has    *)
(* been told the current mode, which is what starts and stops the audio of *)
(* a controller (onStateChange): however many transitions a slow callback  *)
(* spans, the last one is reported, except for a note that is left after   *)
(* the goroutine has looked for one and before its deferred section.       *)
InTransition(l) ==
    loop[l] \in {"entered", "left", "cleared"} \/ (loop[l] = "messages" /\ ~inRemoteMode)

ReportedUnlessLost ==
    notifier = "idle" /\ (\A l \in Loops : ~InTransition(l)) =>
        lost \/ reported = inRemoteMode

(* A stay whose mode somebody has cleared is on its way out: WM_QUIT is in *)
(* the queue of its thread or about to be posted to it, so the hooks do    *)
(* not stay installed under a program that thinks it controls nothing      *)
(* (requestExitRemote, the exit hotkey).  Excepted are two loops inside at *)
(* once, which share the one mode and the one thread identifier.           *)
OnlyStay(l) ==
    /\ hookThreadID = l
    /\ \A k \in Loops \ {l} : ~Inside(k)

ExitIsPosted ==
    ~PostFails => \A l \in Loops :
        OnlyStay(l) /\ loop[l] # "left" /\ ~inRemoteMode =>
            quit[l] \/ \E p \in Askers : target[p] = l

(***************************************************************************)
(* Liveness.                                                               *)
(***************************************************************************)

(* The comment of SetConnected: a loop that outlives a timed-out stop still*)
(* observes its own closed stop channel and exits.                         *)
StoppedLoopEnds == \A l \in Loops : stopped[l] ~> loop[l] = "none"
=============================================================================
