----------------------------- MODULE MediaControl -----------------------------
(***************************************************************************)
(* Which audio streams run on the controlling machine: the user's settings *)
(* (app_media.go), the reconciliation they schedule (app_audio_runtime.go),*)
(* the goroutine that tells of a switch of control (input_windows_remote.  *)
(* go), the start and stop of streams with a session (app_startup.go),     *)
(* received audio that starts playback, and changes of the device (audio/  *)
(* streamer.go).                                                           *)
(*                                                                         *)
(* Desktop audio stands for both streams: "local" sends it and captures,   *)
(* "remote" hears the peer's and plays.  The microphone goes the same way  *)
(* with its own mode.  Starting and stopping one loop is atomic here       *)
(* (AudioDevice has its steps); everything between is not: reconciliations *)
(* exclude each other by mediaControlMu, OnConnect, OnDisconnect, device   *)
(* changes and received frames run beside them.                            *)
(***************************************************************************)
EXTENDS Integers

CONSTANTS
    Jobs,     \* goroutines of scheduleControllerMediaReconcile at once
    MaxNotes  \* bound on owed: more are not told apart from MaxNotes

VARIABLES
    mode, timing, \* App.audioMode, App.audioTiming
    away,         \* the input hook is in remote mode
    owed,         \* calls of notifyStateChange that hook threads will make
    notifier,     \* the state-change goroutine; stateChangeRunning is exactly
                  \* notifier # "idle"
    stateChangePending,
    linked,       \* Transport.session is set
    controller,   \* App.sessionRole is "controller"
    jobs,         \* each reconciliation, and whether its generation is current
    connect,      \* OnConnect, and the mode it has read
    disconnect,   \* OnDisconnect
    change,       \* a device change, of the loop it restarts
    inbound,      \* a received frame that acceptsInboundAudio let through
    capturing, playing,
    asked,        \* the peer was asked to send, and not to stop since
    raced         \* a stream was started that nobody wanted any more, control
                  \* changed before OnConnect had set the role, a note of a
                  \* switch was lost, or the callbacks of two sessions
                  \* overlapped (history)

settings == <<mode, timing, away>>
notes    == <<owed, notifier, stateChangePending>>
session  == <<linked, controller>>
streams  == <<capturing, playing, asked>>
threads  == <<jobs, connect, disconnect, change, inbound>>
vars     == <<settings, notes, session, streams, threads, raced>>

ModeSet  == {"off", "remote", "local"}
JobSteps == {"idle", "lock", "stop", "silence", "check", "read", "start"}

TypeOK ==
    /\ mode \in ModeSet /\ timing \in {"always", "switched"} /\ away \in BOOLEAN
    /\ owed \in 0..MaxNotes /\ stateChangePending \in BOOLEAN
    /\ notifier \in {"idle", "role", "timing", "schedule", "decide", "finish"}
    /\ linked \in BOOLEAN /\ controller \in BOOLEAN
    /\ jobs \in [Jobs -> [pc : JobSteps, current : BOOLEAN, mode : ModeSet]]
    /\ connect \in [pc : {"idle", "role", "read", "start"}, mode : ModeSet]
    /\ disconnect \in {"idle", "stop", "silence", "role"}
    /\ change \in [pc : {"idle", "stop", "start"}, of : {"capture", "playback"}]
    /\ inbound \in BOOLEAN /\ capturing \in BOOLEAN /\ playing \in BOOLEAN
    /\ asked \in BOOLEAN /\ raced \in BOOLEAN

Rest == [pc |-> "idle", current |-> FALSE, mode |-> "off"]

Init ==
    /\ mode = "off" /\ timing = "always" /\ away = FALSE
    /\ owed = 0 /\ notifier = "idle" /\ stateChangePending = FALSE
    /\ linked = FALSE /\ controller = FALSE
    /\ jobs = [j \in Jobs |-> Rest]
    /\ connect = [pc |-> "idle", mode |-> "off"] /\ disconnect = "idle"
    /\ change = [pc |-> "idle", of |-> "capture"] /\ inbound = FALSE
    /\ capturing = FALSE /\ playing = FALSE /\ asked = FALSE /\ raced = FALSE

\* What the settings ask of the session there is.
Due == linked /\ controller /\ (timing = "always" \/ away)

\* The callback will still see the last switch of control, and follow it.
NoteAhead ==
    /\ linked /\ controller /\ timing = "switched"
    /\ owed > 0 \/ stateChangePending \/ notifier \in {"role", "timing", "schedule"}

\* A stop of the streams that is still to come and will undo a start.
StopAhead ==
    \/ NoteAhead
    \/ \E j \in Jobs : jobs[j].current /\ jobs[j].pc \in {"lock", "stop"}
    \/ disconnect = "stop"

Race(wanted) == raced' = (raced \/ ~(wanted \/ StopAhead))

\* startAudioForMode: sending captures, and one that runs already repeats its
\* format; hearing asks the peer, if there is one.
StartFor(m) ==
    /\ capturing' = (capturing \/ m = "local")
    /\ asked' = (asked \/ (m = "remote" /\ linked))
    /\ Race(m = "off" \/ (Due /\ mode = m))
    /\ UNCHANGED playing

\* stopAllAudio in its two halves: the capture, and the playback with the
\* request to the peer.
StopCapture == capturing' = FALSE /\ UNCHANGED <<playing, asked>>
Silence     == playing' = FALSE /\ asked' = (asked /\ ~linked) /\ UNCHANGED capturing

(***************************************************************************)
(* Settings and reconciliation.                                            *)
(***************************************************************************)

\* scheduleControllerMediaReconcile: a new generation and a goroutine.
Schedule ==
    \E j \in Jobs :
        /\ jobs[j].pc = "idle"
        /\ jobs' = [i \in Jobs |->
            IF i = j THEN [Rest EXCEPT !.pc = "lock", !.current = TRUE]
            ELSE [jobs[i] EXCEPT !.current = FALSE]]

SetAudioMode(m) ==
    /\ m # mode /\ mode' = m
    /\ Schedule
    /\ UNCHANGED <<timing, away, notes, session, streams, connect, disconnect, change, inbound, raced>>

SetAudioTiming(t) ==
    /\ t # timing /\ timing' = t
    /\ Schedule
    /\ UNCHANGED <<mode, away, notes, session, streams, connect, disconnect, change, inbound, raced>>

\* The hook thread enters or leaves remote mode, or another goroutine clears the
\* mode; the thread calls notifyStateChange afterwards.
Owe == owed' = IF owed < MaxNotes THEN owed + 1 ELSE owed

HookSwitches ==
    /\ linked /\ away' = ~away /\ Owe
    /\ raced' = (raced \/ ~controller)
    /\ UNCHANGED <<mode, timing, notifier, stateChangePending, session, streams, threads>>

\* notifyStateChange: a goroutine, or a note for the one that runs.
NotifyStateChange ==
    /\ owed > 0 /\ owed' = owed - 1
    /\ IF notifier = "idle"
       THEN notifier' = "role" /\ UNCHANGED stateChangePending
       ELSE stateChangePending' = TRUE /\ UNCHANGED notifier
    /\ UNCHANGED <<settings, session, streams, threads, raced>>

Now(label) == notifier' = label

\* Mutant: control that comes back to this machine is not followed.
FollowsOnlyAway ==
    \/ notifier = "role" /\ Now(IF controller THEN "timing" ELSE "decide") /\ UNCHANGED jobs
    \/ /\ notifier = "timing" /\ Now(IF timing = "switched" /\ away THEN "schedule" ELSE "decide")
       /\ UNCHANGED jobs
    \/ notifier = "schedule" /\ Now("decide") /\ Schedule

\* handleControlStateChange: who controls, the timing, and the reconciliation.
HandleControlStateChange ==
    \/ notifier = "role" /\ Now(IF controller THEN "timing" ELSE "decide") /\ UNCHANGED jobs
    \/ /\ notifier = "timing" /\ Now(IF timing = "switched" THEN "schedule" ELSE "decide")
       /\ UNCHANGED jobs
    \/ notifier = "schedule" /\ Now("decide") /\ Schedule

\* The goroutine after the callback: once more, or it ends, which is a critical
\* section of its own and clears the note too.
NotifierGoesOn ==
    /\ stateChangePending' = FALSE
    /\ \/ /\ notifier = "decide" /\ Now(IF stateChangePending THEN "role" ELSE "finish")
          /\ UNCHANGED raced
       \/ /\ notifier = "finish" /\ Now("idle")
          /\ raced' = (raced \/ stateChangePending)
    /\ UNCHANGED jobs

Notifier ==
    /\ \/ HandleControlStateChange /\ UNCHANGED <<stateChangePending, raced>>
       \/ NotifierGoesOn
    /\ UNCHANGED <<settings, owed, session, streams, connect, disconnect, change, inbound>>

At(j, label)   == jobs[j].pc = label
Goto(j, label) == jobs' = [jobs EXCEPT ![j].pc = label]
Ends(j)        == jobs' = [jobs EXCEPT ![j] = Rest]

JobLocks(j) ==
    /\ At(j, "lock") /\ \A i \in Jobs : jobs[i].pc \in {"idle", "lock"}
    /\ IF jobs[j].current THEN Goto(j, "stop") ELSE Ends(j)
    /\ UNCHANGED streams

JobStops(j)    == At(j, "stop") /\ StopCapture /\ Goto(j, "silence")
JobSilences(j) == At(j, "silence") /\ Silence /\ Goto(j, "check")

JobChecks(j) ==
    /\ At(j, "check")
    /\ IF jobs[j].current /\ linked /\ controller THEN Goto(j, "read") ELSE Ends(j)
    /\ UNCHANGED streams

JobReads(j) ==
    /\ At(j, "read")
    /\ IF timing = "always" \/ away
       THEN jobs' = [jobs EXCEPT ![j].pc = "start", ![j].mode = mode]
       ELSE Ends(j)
    /\ UNCHANGED streams

Job(j) ==
    /\ \/ /\ JobLocks(j) \/ JobStops(j) \/ JobSilences(j) \/ JobChecks(j) \/ JobReads(j)
          /\ UNCHANGED raced
       \/ At(j, "start") /\ StartFor(jobs[j].mode) /\ Ends(j)
    /\ UNCHANGED <<settings, notes, session, connect, disconnect, change, inbound>>

(***************************************************************************)
(* Sessions.                                                               *)
(***************************************************************************)

\* A session is installed and OnConnect is called.
SessionBegins ==
    /\ ~linked /\ connect.pc = "idle"
    /\ linked' = TRUE
    /\ connect' = [connect EXCEPT !.pc = "role"]
    /\ raced' = (raced \/ disconnect # "idle")
    /\ UNCHANGED <<settings, notes, controller, streams, jobs, disconnect, change, inbound>>

OnConnect ==
    /\ \/ /\ connect.pc = "role" /\ connect' = [connect EXCEPT !.pc = "read"]
          /\ controller' = TRUE
          /\ UNCHANGED <<streams, raced>>
       \/ /\ connect.pc = "read"
          /\ connect' = [pc |-> "start", mode |-> IF timing = "always" THEN mode ELSE "off"]
          /\ UNCHANGED <<controller, streams, raced>>
       \/ /\ connect.pc = "start" /\ connect' = [pc |-> "idle", mode |-> "off"]
          /\ StartFor(connect.mode)
          /\ UNCHANGED controller
    /\ UNCHANGED <<settings, notes, linked, jobs, disconnect, change, inbound>>

\* The session is given up, by this machine, the peer or the network; the peer
\* stops what it sends, and the input hook leaves remote mode.
SessionEnds ==
    /\ IF away THEN Owe ELSE UNCHANGED owed
    /\ linked /\ disconnect = "idle"
    /\ linked' = FALSE /\ asked' = FALSE /\ away' = FALSE
    /\ disconnect' = "stop"
    /\ raced' = (raced \/ connect.pc # "idle")
    /\ UNCHANGED <<mode, timing, notifier, stateChangePending, controller, capturing, playing,
                   jobs, connect, change, inbound>>

OnDisconnect ==
    /\ \/ disconnect = "stop" /\ disconnect' = "silence" /\ StopCapture /\ UNCHANGED controller
       \/ disconnect = "silence" /\ disconnect' = "role" /\ Silence /\ UNCHANGED controller
       \/ /\ disconnect = "role" /\ disconnect' = "idle"
          /\ controller' = FALSE
          /\ UNCHANGED streams
    /\ UNCHANGED <<settings, notes, linked, jobs, connect, change, inbound, raced>>

(***************************************************************************)
(* Devices and received audio.                                             *)
(***************************************************************************)

\* restartCapture and restartPlayback: only what runs is restarted, and it is
\* stopped and started in steps of their own.
ChangeDevice(of) ==
    /\ change.pc = "idle"
    /\ IF of = "capture" THEN capturing ELSE playing
    /\ change' = [pc |-> "stop", of |-> of]
    /\ UNCHANGED <<settings, notes, session, streams, jobs, connect, disconnect, inbound, raced>>

Restart ==
    /\ \/ /\ change.pc = "stop" /\ change' = [change EXCEPT !.pc = "start"]
          /\ capturing' = (capturing /\ change.of # "capture")
          /\ playing' = (playing /\ change.of # "playback")
          /\ UNCHANGED <<asked, raced>>
       \/ /\ change.pc = "start" /\ change' = [change EXCEPT !.pc = "idle"]
          /\ capturing' = (capturing \/ change.of = "capture")
          /\ playing' = (playing \/ change.of = "playback")
          /\ Race(Due /\ mode = (IF change.of = "capture" THEN "local" ELSE "remote"))
          /\ UNCHANGED asked
    /\ UNCHANGED <<settings, notes, session, jobs, connect, disconnect, inbound>>

\* handleInboundAudioFrame: acceptsInboundAudio, and then Push and StartPlayback.
\* Frames the peer sent before it was told to stop still arrive.
Accept ==
    /\ ~inbound /\ linked /\ mode = "remote"
    /\ inbound' = TRUE
    /\ UNCHANGED <<settings, notes, session, streams, jobs, connect, disconnect, change, raced>>

Play ==
    /\ inbound /\ inbound' = FALSE
    /\ playing' = TRUE
    /\ Race(linked /\ mode = "remote")
    /\ UNCHANGED <<settings, notes, session, capturing, asked, jobs, connect, disconnect, change>>

Next ==
    \/ \E m \in ModeSet : SetAudioMode(m)
    \/ \E t \in {"always", "switched"} : SetAudioTiming(t)
    \/ HookSwitches \/ NotifyStateChange \/ Notifier
    \/ \E j \in Jobs : Job(j)
    \/ SessionBegins \/ OnConnect \/ SessionEnds \/ OnDisconnect
    \/ \E of \in {"capture", "playback"} : ChangeDevice(of)
    \/ Restart \/ Accept \/ Play

Spec == Init /\ [][Next]_vars

(***************************************************************************)
(* Properties.                                                             *)
(***************************************************************************)

Quiet ==
    /\ \A j \in Jobs : jobs[j].pc = "idle"
    /\ owed = 0 /\ notifier = "idle"
    /\ connect.pc = "idle" /\ disconnect = "idle" /\ change.pc = "idle" /\ ~inbound

\* When everything has settled the streams are what the settings ask for: this
\* machine's sound is sent when and only when the user wants that, and the
\* peer's is asked for and nothing else played; in whatever order settings,
\* control, devices, sessions and frames changed.  What the code does not rule
\* out is excepted: a start acted on what was no longer so and nothing will undo
\* it, control switched before OnConnect had set the role, the callbacks of two
\* sessions overlapped, or the state-change goroutine cleared the note of a
\* switch that came after its last look.
StreamsFitSettings ==
    (Quiet /\ ~raced) =>
        /\ capturing <=> (Due /\ mode = "local")
        /\ asked <=> (Due /\ mode = "remote")
        /\ playing => linked /\ mode = "remote"
=============================================================================
