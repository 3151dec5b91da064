----------------------------- MODULE AudioDevice -----------------------------
(***************************************************************************)
(* The loop that captures or renders one stream: the worker that starts    *)
(* and stops it (internal/audio/streamer.go), its retries and the muting   *)
(* of this machine's speakers while their sound is captured                *)
(* (streamer_windows.go).  A render loop has the same worker and the same  *)
(* steps and mutes nothing.                                                *)
(*                                                                         *)
(* Start and stop take the worker's mutex and stop keeps it until the loop *)
(* has ended; a restart checks, stops and starts in three calls.  A device *)
(* may fail at any step.                                                   *)
(***************************************************************************)
EXTENDS Integers, FiniteSets

CONSTANTS
    Callers,     \* goroutines that start, stop and restart the capture
    Loops,       \* capture goroutines that may be alive at once
    MaxFailures, \* quick failures in a row before the loop gives up
    NoLoop

VARIABLES
    worker,   \* the loop worker.stop and worker.done belong to
    closed,   \* loops whose stop channel is closed
    loops,    \* where each loop is, its failures, and whether it has to unmute
    callers,  \* what each caller is doing
    speakers, \* the endpoint is muted
    silenced, \* the user has muted it himself
    muteSource,
    doubt     \* since the user last set it, Windows refused to unmute it or to
              \* tell whether it was muted, or he muted it while the capture had
              \* it muted (history)

vars == <<worker, closed, loops, callers, speakers, silenced, muteSource, doubt>>

LoopSteps == {"none", "open", "mute", "run", "close", "backoff", "ended"}
CallSteps == {"idle", "start", "stop", "wait", "restop", "rewait"}

TypeOK ==
    /\ worker \in Loops \cup {NoLoop} /\ closed \subseteq Loops
    /\ loops \in [Loops -> [pc : LoopSteps, failures : 0..MaxFailures,
                            unmute : BOOLEAN, stopped : BOOLEAN]]
    /\ callers \in [Callers -> CallSteps]
    /\ speakers \in BOOLEAN /\ silenced \in BOOLEAN /\ muteSource \in BOOLEAN
    /\ doubt \in BOOLEAN

NoRun == [pc |-> "none", failures |-> 0, unmute |-> FALSE, stopped |-> FALSE]

Init ==
    /\ worker = NoLoop /\ closed = {} /\ loops = [l \in Loops |-> NoRun]
    /\ callers = [c \in Callers |-> "idle"]
    /\ speakers = FALSE /\ silenced = FALSE /\ muteSource = FALSE
    /\ doubt = FALSE

At(l, label) == loops[l].pc = label
Alive(l)     == loops[l].pc \notin {"none", "ended"}
Waits(c)     == callers[c] \in {"wait", "rewait"}
Unlocked     == \A c \in Callers : ~Waits(c)

(***************************************************************************)
(* Callers.                                                                *)
(***************************************************************************)

Call(c, step) ==
    /\ callers[c] = "idle"
    /\ callers' = [callers EXCEPT ![c] = step]
    /\ UNCHANGED <<worker, closed, loops, speakers, silenced, muteSource, doubt>>

\* restartCapture begins: only a running capture is restarted.
CallRestart(c) ==
    /\ Unlocked /\ worker # NoLoop /\ Alive(worker)
    /\ Call(c, "restop")

\* SetMuteSource: the flag, and a restart.
SetMuteSource(c) ==
    /\ callers[c] = "idle" /\ Unlocked
    /\ muteSource' = ~muteSource
    /\ callers' = IF worker # NoLoop /\ Alive(worker) THEN [callers EXCEPT ![c] = "restop"] ELSE callers
    /\ UNCHANGED <<worker, closed, loops, speakers, silenced, doubt>>

Launch(c) ==
    /\ \E l \in Loops :
        /\ At(l, "none")
        /\ worker' = l
        /\ loops' = [loops EXCEPT ![l] = [NoRun EXCEPT !.pc = "open"]]
    /\ callers' = [callers EXCEPT ![c] = "idle"]

\* worker.start.
Start(c) ==
    /\ callers[c] = "start" /\ Unlocked
    /\ IF worker # NoLoop /\ Alive(worker)
       THEN callers' = [callers EXCEPT ![c] = "idle"] /\ UNCHANGED <<worker, loops>>
       ELSE Launch(c)
    /\ UNCHANGED <<closed, speakers, silenced, muteSource, doubt>>

\* worker.stopAndWait up to the wait for done; a restart goes the same way.
Stop(c) ==
    /\ callers[c] \in {"stop", "restop"} /\ Unlocked
    /\ IF worker = NoLoop
       THEN /\ callers' = [callers EXCEPT ![c] = IF @ = "stop" THEN "idle" ELSE "start"]
            /\ UNCHANGED closed
       ELSE /\ callers' = [callers EXCEPT ![c] = IF @ = "stop" THEN "wait" ELSE "rewait"]
            /\ closed' = closed \cup {worker}
    /\ UNCHANGED <<worker, loops, speakers, silenced, muteSource, doubt>>

\* done is closed; the goroutine and its channels are gone.
Stopped(c) ==
    /\ Waits(c) /\ At(worker, "ended")
    /\ callers' = [callers EXCEPT ![c] = IF @ = "wait" THEN "idle" ELSE "start"]
    /\ worker' = NoLoop
    /\ closed' = closed \ {worker}
    /\ loops' = [loops EXCEPT ![worker] = NoRun]
    /\ UNCHANGED <<speakers, silenced, muteSource, doubt>>

(***************************************************************************)
(* The loop.                                                               *)
(***************************************************************************)

Fails(l) == loops' = [loops EXCEPT ![l].pc = "close"]

\* captureSession up to the mute: the endpoint is opened, or fails.
OpenEndpoint(l) ==
    /\ At(l, "open")
    /\ \/ loops' = [loops EXCEPT ![l].pc = "mute"]
       \/ Fails(l)
    /\ UNCHANGED <<worker, closed, callers, speakers, silenced, muteSource, doubt>>

\* The endpoint is muted if the user wants that and Windows does it, and unmuted
\* at the end if it was not muted before; where Windows does not tell, it reads
\* as not muted.  The format goes to the handler and the client starts, or does
\* not.
Mute(l) ==
    /\ At(l, "mute")
    /\ \E muted \in {FALSE, muteSource}, previous \in {FALSE, speakers}, next \in {"run", "close"} :
        /\ speakers' = (speakers \/ muted)
        /\ loops' = [loops EXCEPT ![l].pc = next, ![l].unmute = muted /\ ~previous]
        /\ doubt' = (doubt \/ (muted /\ previous # speakers))
    /\ UNCHANGED <<worker, closed, callers, silenced, muteSource>>

\* One pass of captureSession or renderSession: the stop channel is looked at
\* first, and the device may fail, soon or after having run for a while.
Run(l) ==
    /\ At(l, "run")
    /\ IF l \in closed
       THEN loops' = [loops EXCEPT ![l].pc = "close", ![l].stopped = TRUE]
       ELSE \E n \in {0, loops[l].failures} :
            loops' = [loops EXCEPT ![l].pc = "close", ![l].failures = n]
    /\ UNCHANGED <<worker, closed, callers, speakers, silenced, muteSource, doubt>>

\* The deferred unmute, which Windows may refuse.
Unmute(due) ==
    \E refused \in {FALSE, due} :
        /\ speakers' = (speakers /\ (~due \/ refused))
        /\ doubt' = (doubt \/ (refused /\ speakers))

\* runWithRetries: a stopped loop ends, one that has failed too often gives up.
Reopen(l) ==
    LET n    == loops[l].failures + 1
        over == loops[l].stopped \/ n > MaxFailures
    IN  loops' = [loops EXCEPT ![l].unmute = FALSE,
            ![l].pc = IF over THEN "ended" ELSE "backoff",
            ![l].failures = IF n > MaxFailures THEN MaxFailures ELSE n]

\* Mutant: the endpoint is unmuted when the capture is stopped, not when it
\* fails.
CloseOnlyStopped(l) ==
    /\ At(l, "close")
    /\ Unmute(loops[l].unmute /\ loops[l].stopped) /\ Reopen(l)
    /\ UNCHANGED <<worker, closed, callers, silenced, muteSource>>

\* The deferred calls of captureSession, and what becomes of the loop.
Close(l) ==
    /\ At(l, "close")
    /\ Unmute(loops[l].unmute) /\ Reopen(l)
    /\ UNCHANGED <<worker, closed, callers, silenced, muteSource>>

\* Mutant: the pause between two tries is slept through.
BackoffSleeps(l) ==
    /\ At(l, "backoff") /\ l \notin closed
    /\ loops' = [loops EXCEPT ![l].pc = "open"]
    /\ UNCHANGED <<worker, closed, callers, speakers, silenced, muteSource, doubt>>

\* The pause between two tries ends, by itself or by a stop.
Backoff(l) ==
    /\ At(l, "backoff")
    /\ \/ loops' = [loops EXCEPT ![l].pc = "open"]
       \/ l \in closed /\ loops' = [loops EXCEPT ![l].pc = "ended"]
    /\ UNCHANGED <<worker, closed, callers, speakers, silenced, muteSource, doubt>>

\* The user mutes or unmutes the speakers.
UserMutes ==
    /\ speakers' = ~speakers /\ silenced' = ~speakers
    /\ doubt' = (~speakers /\ \E l \in Loops : loops[l].unmute)
    /\ UNCHANGED <<worker, closed, loops, callers, muteSource>>

LoopStep(l) == OpenEndpoint(l) \/ Mute(l) \/ Run(l) \/ Close(l) \/ Backoff(l)

CallStep(c) == Start(c) \/ Stop(c) \/ Stopped(c)

Next ==
    \/ \E c \in Callers :
        Call(c, "start") \/ Call(c, "stop") \/ CallRestart(c) \/ SetMuteSource(c) \/ CallStep(c)
    \/ \E l \in Loops : LoopStep(l)
    \/ UserMutes

Fairness ==
    /\ \A l \in Loops : WF_vars(LoopStep(l))
    /\ \A c \in Callers : WF_vars(Stopped(c))

Spec == Init /\ [][Next]_vars /\ Fairness

(***************************************************************************)
(* Properties.                                                             *)
(***************************************************************************)

\* Capturing leaves the speakers as it found them, however it ends and however
\* often the device failed in between: outside a capture they are muted when
\* and only when the user has muted them.  What the code cannot know or mend is
\* excepted, until the user next sets them: the result of the unmute is
\* discarded and that of the read before the mute not looked at, and a mute by
\* the user during a capture is taken for the capture's own.
SpeakersRestored ==
    (~doubt /\ \A l \in Loops : loops[l].pc \notin {"run", "close"}) =>
        (speakers <=> silenced)

\* Whoever stops the capture comes back: the loop ends wherever it is.
StopReturns == \A c \in Callers : Waits(c) ~> ~Waits(c)
=============================================================================
