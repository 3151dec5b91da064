------------------------------ MODULE AudioLink ------------------------------
(***************************************************************************)
(* One audio stream from the device of one machine to the player of the    *)
(* other: OutboundStream and InboundStream (internal/audio/stream.go), the *)
(* code that puts their frames on the audio lane (app_audio_runtime.go)    *)
(* and the goroutine that decodes them on the other side (app_inbound.go). *)
(*                                                                         *)
(* Configuring a stream and encoding with it hold the stream's mutex, but  *)
(* the frames they return are enqueued after it is unlocked, one by one.   *)
(* The lane, the connection and the receiver's channel are one FIFO that   *)
(* drops data when it is full and never transport or format frames.        *)
(* InboundStream has no mutex: OnConnect and OnDisconnect reset it while   *)
(* the goroutine may be decoding.                                          *)
(***************************************************************************)
EXTENDS Integers, SequencesExt

CONSTANTS
    Threads,    \* that change or repeat the configuration besides the capture
    LaneCap,    \* muxAudioCap
    MaxConfigs  \* bound on the configurations of a behaviour

VARIABLES
    source,    \* OutboundStream: mode in effect, number of its configuration
    hand,      \* frames a thread has got from the stream and not enqueued
    capture,   \* the capture loop: off, opening the device, or delivering
    lane,
    sink,      \* InboundStream: mode, ready, configuration heard last
    decoding,  \* the receiving goroutine: idle, in HandleData or dead, the frame
               \* it holds, what the stream was ready for, and whether it was
               \* reset since (history)
    session,   \* up, ended, or ended and reset on one side
    last,      \* the data frame decoded last, and what it was decoded by
    torn       \* configurations made or used while another thread still held
               \* frames (history)

vars == <<source, hand, capture, lane, sink, decoding, session, last, torn>>

Modes   == {"pcm", "opus"}
Actors  == Threads \cup {"capture"}
Configs == 0..MaxConfigs
Wire    == [kind : {"transport", "format", "data"}, mode : Modes, config : Configs]
Unset   == [mode |-> "", config |-> 0]
Silent  == [mode |-> "", config |-> 0, ready |-> FALSE]
Nothing == [sent |-> Unset, by |-> Unset, cut |-> FALSE]
Idle    == [at |-> "idle", frame |-> Nothing]

TypeOK ==
    /\ source \in [mode : Modes \cup {""}, config : Configs]
    /\ hand \in [Actors -> Seq(Wire)]
    /\ capture \in {"off", "opening", "delivering"}
    /\ lane \in Seq(Wire)
    /\ sink \in [mode : Modes \cup {""}, config : Configs, ready : BOOLEAN]
    /\ decoding.at \in {"idle", "data", "dead"}
    /\ session \in {"up", "ended", "sourceReset", "sinkReset"}
    /\ torn \subseteq Configs

Init ==
    /\ source = Unset /\ hand = [t \in Actors |-> <<>>] /\ capture = "off"
    /\ lane = <<>> /\ sink = Silent /\ decoding = Idle /\ session = "up"
    /\ last = Nothing /\ torn = {}

(***************************************************************************)
(* The sender.                                                             *)
(***************************************************************************)

Held == UNION {{hand[t][i].config : i \in DOMAIN hand[t]} : t \in Actors}

\* A thread takes frames of configuration c out of the stream.
Takes(t, frames, c) ==
    /\ hand[t] = <<>>
    /\ hand' = [hand EXCEPT ![t] = frames]
    /\ torn' = IF Held = {} THEN torn ELSE torn \cup Held \cup {c}

\* configureLocked: the transport and the format frame; without the Opus
\* library the stream falls back to PCM.
Configures(t, mode) ==
    /\ source.config < MaxConfigs
    /\ \E m \in {mode, "pcm"} :
        LET c == source.config + 1
        IN  /\ source' = [mode |-> m, config |-> c]
            /\ Takes(t, <<[kind |-> "transport", mode |-> m, config |-> c],
                          [kind |-> "format", mode |-> m, config |-> c]>>, c)

\* StartCapture, on the peer's request or for the own settings.
StartCapture ==
    /\ capture = "off" /\ session = "up"
    /\ capture' = "opening"
    /\ UNCHANGED <<source, hand, lane, sink, decoding, session, last, torn>>

\* OnCaptureFormat, with the mode the settings gave when they were read.
OnCaptureFormat(mode) ==
    /\ capture = "opening"
    /\ Configures("capture", mode)
    /\ capture' = "delivering"
    /\ UNCHANGED <<lane, sink, decoding, session, last>>

\* OnCaptureData: Process encodes one buffer.
OnCaptureData ==
    /\ capture = "delivering" /\ source.mode # ""
    /\ Takes("capture", <<[kind |-> "data", mode |-> source.mode, config |-> source.config]>>,
             source.config)
    /\ UNCHANGED <<source, capture, lane, sink, decoding, session, last>>

\* The device fails and is opened again.
DeviceReopens ==
    /\ capture = "delivering" /\ hand["capture"] = <<>>
    /\ capture' = "opening"
    /\ UNCHANGED <<source, hand, lane, sink, decoding, session, last, torn>>

StopCapture ==
    /\ capture # "off" /\ hand["capture"] = <<>>
    /\ capture' = "off"
    /\ UNCHANGED <<source, hand, lane, sink, decoding, session, last, torn>>

\* reconfigureCaptures: the user has changed the transport or the profile while
\* the stream was captured, which it may no longer be.
Reconfigure(t, mode) ==
    /\ source.mode # ""
    /\ Configures(t, mode)
    /\ UNCHANGED <<capture, lane, sink, decoding, session, last>>

\* startCapture finds the capture running: Reannounce repeats the mode in
\* effect, and gives up when the stream is not configured.
Reannounce(t) ==
    /\ source.mode # ""
    /\ Configures(t, source.mode)
    /\ UNCHANGED <<capture, lane, sink, decoding, session, last>>

\* Mutant: a full lane drops its oldest frame, whatever it is.
PushDropsOldest(q, f) == IF Len(q) < LaneCap THEN Append(q, f) ELSE Append(Tail(q), f)

\* audioLane.push.
Push(q, f) ==
    LET data == {i \in DOMAIN q : q[i].kind = "data"}
    IN  IF Len(q) < LaneCap THEN Append(q, f)
        ELSE IF data # {}
        THEN Append(RemoveAt(q, CHOOSE i \in data : \A j \in data : i <= j), f)
        ELSE IF f.kind = "data" THEN q ELSE Append(q, f)

\* sendAudioFrames, one frame.
Enqueue(t) ==
    /\ hand[t] # <<>>
    /\ lane' = Push(lane, Head(hand[t]))
    /\ hand' = [hand EXCEPT ![t] = Tail(@)]
    /\ UNCHANGED <<source, capture, sink, decoding, session, last, torn>>

(***************************************************************************)
(* The receiver.                                                           *)
(***************************************************************************)

Settings(x) == [mode |-> x.mode, config |-> x.config]

\* HandleTransport: nothing is decoded until a format follows.
\* HandleFormat: without a transport frame the stream is taken to be PCM.
\* HandleData up to its check that the stream is ready.
Hear ==
    /\ decoding = Idle /\ session = "up" /\ lane # <<>>
    /\ lane' = Tail(lane)
    /\ LET f == Head(lane)
       IN  \/ /\ f.kind = "transport"
              /\ sink' = [mode |-> f.mode, config |-> f.config, ready |-> FALSE]
              /\ UNCHANGED decoding
           \/ /\ f.kind = "format"
              /\ sink' = [mode |-> IF sink.mode = "" THEN "pcm" ELSE sink.mode,
                          config |-> f.config, ready |-> TRUE]
              /\ UNCHANGED decoding
           \/ /\ f.kind = "data"
              /\ decoding' = IF ~sink.ready THEN Idle
                             ELSE [at |-> "data",
                                   frame |-> [sent |-> Settings(f), by |-> Settings(sink), cut |-> FALSE]]
              /\ UNCHANGED sink
    /\ UNCHANGED <<source, hand, capture, session, last, torn>>

\* The receiver's channel is full: data is dropped.
Lose ==
    /\ lane # <<>> /\ Head(lane).kind = "data"
    /\ lane' = Tail(lane)
    /\ UNCHANGED <<source, hand, capture, sink, decoding, session, last, torn>>

\* The rest of HandleData.  A reset in between takes the Opus decoder away: the
\* nil decoder is called and the panic ends the goroutine, or the mode is read
\* after the reset and the packet is taken for PCM.
Decode ==
    /\ decoding.at = "data"
    /\ LET gone == ~sink.ready /\ decoding.frame.by.mode = "opus"
       IN  \/ /\ ~gone
              /\ last' = decoding.frame
              /\ decoding' = Idle
           \/ /\ gone
              /\ last' = [decoding.frame EXCEPT !.by.mode = "pcm"]
              /\ decoding' = Idle
           \/ /\ gone
              /\ decoding' = [Idle EXCEPT !.at = "dead"]
              /\ UNCHANGED last
    /\ UNCHANGED <<source, hand, capture, lane, sink, session, torn>>

(***************************************************************************)
(* Sessions.                                                               *)
(***************************************************************************)

\* What is under way is lost, and both sides drain what they have queued.
SessionEnds ==
    /\ session = "up"
    /\ session' = "ended" /\ lane' = <<>>
    /\ UNCHANGED <<source, hand, capture, sink, decoding, last, torn>>

\* resetAudioStreams on the sending side, after stopAllAudio.
SourceResets ==
    /\ session \in {"ended", "sinkReset"} /\ capture = "off"
    /\ source' = [source EXCEPT !.mode = ""]
    /\ session' = IF session = "ended" THEN "sourceReset" ELSE "up"
    /\ lane' = <<>>
    /\ UNCHANGED <<hand, capture, sink, decoding, last, torn>>

\* resetAudioStreams on the receiving side.
SinkResets ==
    /\ session \in {"ended", "sourceReset"}
    /\ sink' = Silent
    /\ session' = IF session = "ended" THEN "sinkReset" ELSE "up"
    /\ lane' = <<>>
    /\ decoding' = IF decoding.at = "data" THEN [decoding EXCEPT !.frame.cut = TRUE] ELSE decoding
    /\ UNCHANGED <<source, hand, capture, last, torn>>

Next ==
    \/ StartCapture \/ OnCaptureData \/ DeviceReopens \/ StopCapture
    \/ Hear \/ Lose \/ Decode \/ SessionEnds \/ SourceResets \/ SinkResets
    \/ \E t \in Actors : Enqueue(t)
    \/ \E t \in Threads : Reannounce(t)
    \/ \E mode \in Modes :
        OnCaptureFormat(mode) \/ \E t \in Threads : Reconfigure(t, mode)

Spec == Init /\ [][Next]_vars

(***************************************************************************)
(* Properties.                                                             *)
(***************************************************************************)

\* Audio is decoded by the transport and the format it was encoded with, however
\* the stream is reconfigured, reannounced, reopened or moved to another session
\* and whatever the full lane drops.  Two cases are excepted, because the code
\* does not rule them out: the frames of a configuration may mix with those of
\* another thread that has frames of the stream in hand at the same time, and a
\* Reset that falls into HandleData (OnConnect and OnDisconnect do not wait for
\* the goroutine) lets an Opus packet be read as PCM.
DecodedByItsOwn ==
    last.sent # last.by =>
        \/ last.sent.config \in torn
        \/ last.cut /\ last.sent.mode = "opus"
=============================================================================
