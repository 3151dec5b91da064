------------------------------- MODULE SendMux ------------------------------
(***************************************************************************)
(* The scheduling of the send multiplexer (internal/app/send_mux.go): four *)
(* bounded lanes, their producers, and the one writer goroutine, muxLoop.  *)
(*                                                                         *)
(* A lane is the number of frames it holds: which frames they are, and     *)
(* what becomes of them when sessions come and go, is in SendSession; what *)
(* coalesced moves add up to is in MouseLane.  A write may take long and   *)
(* may fail; either way it ends.                                           *)
(***************************************************************************)
EXTENDS Integers

CONSTANTS
    MouseCap, HighCap, AudioCap, FileCap,   \* muxMouseCap, ..., muxFileCap
    Burst, AudioBurst                       \* muxBurst, muxAudioBurst

ASSUME CapsAssumption ==
    /\ MouseCap \in Nat \ {0} /\ HighCap \in Nat \ {0}
    /\ AudioCap \in Nat \ {0} /\ FileCap \in Nat \ {0}
    /\ Burst \in Nat \ {0} /\ AudioBurst \in Nat \ {0}

Lanes == {"mouse", "high", "audio", "file"}
Input == {"mouse", "high"}

Cap == [mouse |-> MouseCap, high |-> HighCap, audio |-> AudioCap, file |-> FileCap]

VARIABLES
    queued,     \* how many frames each lane holds
    sig,        \* audioLane.sig holds a token
    mux,        \* where muxLoop is
    next,       \* where it goes after the write it is in
    hand,       \* the lane of the frame muxSend is writing, or "none"
    sent,       \* drainHighPriority's sent, then the i of the audio burst
    progressed, \* muxLoop's progressed
    pusher,     \* an audio producer is between its append and its signal
    overtaken   \* frames taken while the oldest "high" frame waits (history)

vars == <<queued, sig, mux, next, hand, sent, progressed, pusher, overtaken>>

Steps == {"mouse", "high", "audio", "check", "file", "select"}

TypeOK ==
    /\ queued \in [Lanes -> Nat]
    /\ \A l \in Lanes : queued[l] <= Cap[l]
    /\ sig \in BOOLEAN /\ pusher \in BOOLEAN
    /\ mux \in Steps \cup {"write"} /\ next \in Steps
    /\ hand \in Lanes \cup {"none", "heartbeat"}
    /\ sent \in 0..(Burst + AudioBurst + 1)
    /\ progressed \in BOOLEAN
    /\ overtaken \in Nat

Init ==
    /\ queued = [l \in Lanes |-> 0] /\ sig = FALSE
    /\ mux = "mouse" /\ next = "mouse" /\ hand = "none" /\ sent = 0 /\ progressed = FALSE
    /\ pusher = FALSE /\ overtaken = 0

Empty(l) == queued[l] = 0
Full(l)  == queued[l] = Cap[l]

(***************************************************************************)
(* The writer.                                                             *)
(***************************************************************************)

\* The goroutine takes a frame from lane l to write it, then goes to label.
Take(l, label) ==
    /\ ~Empty(l)
    /\ queued' = [queued EXCEPT ![l] = @ - 1]
    /\ mux' = "write" /\ next' = label /\ hand' = l
    /\ overtaken' = IF l = "high" \/ Empty("high") THEN 0 ELSE overtaken + 1

\* A step that takes no frame.
Go(label) ==
    /\ mux' = label
    /\ UNCHANGED <<queued, next, hand, overtaken>>

\* drainHighPriority: one mouse frame if there is one, then one high frame,
\* until the high lane is empty or the burst is spent.
DrainMouse ==
    /\ mux = "mouse"
    /\ \/ /\ sent < Burst
          /\ Take("mouse", "high")
          /\ sent' = sent + 1 /\ progressed' = TRUE
       \/ /\ sent < Burst /\ Empty("mouse")
          /\ Go("high")
          /\ UNCHANGED <<sent, progressed>>
       \/ /\ sent >= Burst
          /\ Go("audio")
          /\ sent' = 0
          /\ UNCHANGED progressed
    /\ UNCHANGED <<sig, pusher>>

DrainHigh ==
    /\ mux = "high"
    /\ \/ /\ Take("high", "mouse")
          /\ sent' = sent + 1 /\ progressed' = TRUE
       \/ /\ Empty("high")
          /\ Go("audio")
          /\ sent' = 0
          /\ UNCHANGED progressed
    /\ UNCHANGED <<sig, pusher>>

\* The audio burst: after each frame the input lanes are looked at.
AudioFrame ==
    /\ mux = "audio"
    /\ \/ /\ sent < AudioBurst
          /\ Take("audio", "check")
          /\ sent' = sent + 1 /\ progressed' = TRUE
       \/ /\ sent >= AudioBurst \/ Empty("audio")
          /\ Go("file")
          /\ UNCHANGED <<sent, progressed>>
    /\ UNCHANGED <<sig, pusher>>

\* Mutant: a burst of audio is never interrupted.
AudioCheckNever ==
    /\ mux = "check"
    /\ Go("audio")
    /\ UNCHANGED <<sent, progressed, sig, pusher>>

AudioCheck ==
    /\ mux = "check"
    /\ Go(IF \A l \in Input : Empty(l) THEN "audio" ELSE "file")
    /\ UNCHANGED <<sent, progressed, sig, pusher>>

\* Mutant: the file chunk is sent only in a cycle that sent nothing else.
FileFrameIdle ==
    /\ mux = "file"
    /\ sent' = 0 /\ progressed' = FALSE
    /\ \/ /\ ~progressed /\ Take("file", "mouse")
       \/ /\ progressed \/ Empty("file")
          /\ Go(IF progressed THEN "mouse" ELSE "select")
    /\ UNCHANGED <<sig, pusher>>

\* One file chunk a cycle; a cycle without progress ends in the select.
FileFrame ==
    /\ mux = "file"
    /\ sent' = 0 /\ progressed' = FALSE
    /\ \/ Take("file", "mouse")
       \/ /\ Empty("file")
          /\ Go(IF progressed THEN "mouse" ELSE "select")
    /\ UNCHANGED <<sig, pusher>>

\* The blocking select: any lane, the audio signal, or the heartbeat (not
\* when something was sent less than four seconds ago: left to chance).
Select ==
    /\ mux = "select"
    /\ \/ \E l \in Input \cup {"file"} : Take(l, "mouse") /\ UNCHANGED sig
       \/ /\ sig
          /\ sig' = FALSE
          /\ Go("mouse")
       \/ /\ mux' = "write" /\ next' = "mouse" /\ hand' = "heartbeat"
          /\ overtaken' = IF Empty("high") THEN 0 ELSE overtaken + 1
          /\ UNCHANGED <<queued, sig>>
    /\ UNCHANGED <<sent, progressed, pusher>>

\* muxSend's write ends, with an error or without.
Write ==
    /\ mux = "write"
    /\ mux' = next /\ hand' = "none"
    /\ UNCHANGED <<queued, sig, next, sent, progressed, pusher, overtaken>>

(***************************************************************************)
(* Producers and drains.                                                   *)
(***************************************************************************)

\* enqueueSend: a move, a control frame or a chunk finds room (a chunk's
\* sender waits for it, a control frame is lost without it).
Enqueue(l) ==
    /\ l # "audio" /\ ~Full(l)
    /\ queued' = [queued EXCEPT ![l] = @ + 1]
    /\ UNCHANGED <<sig, mux, next, hand, sent, progressed, pusher, overtaken>>

\* enqueueMouseMove: a full lane becomes one move, or none if they cancel.
CoalesceMoves ==
    /\ Full("mouse")
    /\ \E n \in {0, 1} : queued' = [queued EXCEPT !["mouse"] = n]
    /\ UNCHANGED <<sig, mux, next, hand, sent, progressed, pusher, overtaken>>

\* Mutant: no token when the lane already held something.
PushAudioNoToken ==
    /\ ~pusher
    /\ queued' = [queued EXCEPT !["audio"] = IF Full("audio") THEN @ ELSE @ + 1]
    /\ pusher' = FALSE
    /\ UNCHANGED <<sig, mux, next, hand, sent, progressed, overtaken>>

\* audioLane.push: append under the lane's lock, the oldest data dropped when
\* it is full (a lane full of nothing but format frames, which may grow, is
\* left out); then signal.
PushAudio ==
    /\ ~pusher
    /\ queued' = [queued EXCEPT !["audio"] = IF Full("audio") THEN @ ELSE @ + 1]
    /\ pusher' = TRUE
    /\ UNCHANGED <<sig, mux, next, hand, sent, progressed, overtaken>>

SignalAudio ==
    /\ pusher
    /\ sig' = TRUE /\ pusher' = FALSE
    /\ UNCHANGED <<queued, mux, next, hand, sent, progressed, overtaken>>

\* drainSendMux on some other goroutine discards the audio lane at once and
\* the others frame by frame.
Drain(l) ==
    /\ ~Empty(l)
    /\ queued' = [queued EXCEPT ![l] = IF l = "audio" THEN 0 ELSE @ - 1]
    /\ overtaken' = IF l = "high" THEN 0 ELSE overtaken
    /\ UNCHANGED <<sig, mux, next, hand, sent, progressed, pusher>>

MuxStep ==
    DrainMouse \/ DrainHigh \/ AudioFrame \/ AudioCheck \/ FileFrame \/ Select

Next ==
    \/ MuxStep \/ Write
    \/ \E l \in Lanes : Enqueue(l) \/ Drain(l)
    \/ CoalesceMoves \/ PushAudio \/ SignalAudio

Spec == Init /\ [][Next]_vars

(***************************************************************************)
(* The writer runs, its writes end by their deadline, and a producer past  *)
(* the lane's lock reaches the signal.  Nobody has to produce anything.    *)
(***************************************************************************)
FairSpec == Spec /\ WF_vars(MuxStep) /\ WF_vars(Write) /\ WF_vars(SignalAudio)

(***************************************************************************)
(* Properties.                                                             *)
(***************************************************************************)

\* Priority inversion is bounded: whatever the other lanes hold, at most
\* three frames are taken while the oldest key or click waits (the audio frame
\* that was next, a chunk and a move), independently of the bursts.
KeystrokesWaitBriefly == overtaken <= 3

\* No lost wake-up: the goroutine does not settle in the select with audio
\* queued and neither a token nor a producer about to leave one.
AudioWakes ==
    mux = "select" /\ ~Empty("audio") => sig \/ pusher

\* Bulk lanes make progress however much input there is: a queued chunk or
\* audio frame does not see its lane passed over for ever.
LanesProgress == \A l \in {"file", "audio"} : ~Empty(l) ~> (Empty(l) \/ hand = l)
=============================================================================
