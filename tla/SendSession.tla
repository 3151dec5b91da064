----------------------------- MODULE SendSession ----------------------------
(***************************************************************************)
(* The send multiplexer when sessions come and go                          *)
(* (internal/app/send_mux.go, the drains of OnConnect and OnDisconnect in  *)
(* app_startup.go, Transport.Send).                                        *)
(*                                                                         *)
(* A queued frame is "fresh", or "stale" once a session has begun that it  *)
(* was not enqueued in.  The order in which the writer serves the lanes is *)
(* SendMux; here it takes the head of any.  The callbacks' other effects   *)
(* are SessionLifecycle.  Time is the event that eight seconds have gone   *)
(* by since the last write.                                                *)
(***************************************************************************)
EXTENDS Integers, Sequences

CONSTANTS MouseCap, HighCap, AudioCap, FileCap  \* the lanes' capacities

ASSUME CapsAssumption ==
    /\ MouseCap \in Nat \ {0} /\ HighCap \in Nat \ {0}
    /\ AudioCap \in Nat \ {0} /\ FileCap \in Nat \ {0}

Lanes == {"mouse", "high", "audio", "file"}
Input == {"mouse", "high"}

Cap == [mouse |-> MouseCap, high |-> HighCap, audio |-> AudioCap, file |-> FileCap]

Ages == {"fresh", "stale"}

VARIABLES
    queue,      \* the frames waiting in each lane
    inflight,   \* the frame muxSend has in hand
    summing,    \* the move the hook thread has in hand on a full mouse lane
    producer,   \* the chunk a file sender is blocked with
    dropper,    \* a producer between a lost critical frame and the close
    session,    \* the transport's session
    up, down,   \* drainSendMux as run by OnConnect and by OnDisconnect
    lastSent,   \* muxLastSentNs: "old" when eight seconds or more ago
    forced,     \* the watchdog's forcedAt = muxLastSentNs
    drained,    \* the session's OnConnect has drained (history)
    lostKey     \* a critical frame was dropped in this session (history)

drains == <<up, down, drained>>
clock  == <<lastSent, forced>>
vars   == <<queue, inflight, summing, producer, dropper, session, drains, clock, lostKey>>

Phases == {"off", "audio", "lanes"}

TypeOK ==
    /\ queue \in [Lanes -> Seq(Ages)]
    /\ \A l \in Lanes : Len(queue[l]) <= Cap[l]
    /\ inflight \in Ages \cup {"none", "heartbeat"}
    /\ summing \in Ages \cup {"none"} /\ producer \in Ages \cup {"none"}
    /\ dropper \in BOOLEAN
    /\ session \in {"none", "live", "broken", "closed"}
    /\ up \in Phases /\ down \in Phases /\ drained \in BOOLEAN
    /\ lastSent \in {"never", "recent", "old"}
    /\ forced \in BOOLEAN /\ lostKey \in BOOLEAN

Init ==
    /\ queue = [l \in Lanes |-> <<>>]
    /\ inflight = "none" /\ summing = "none" /\ producer = "none" /\ dropper = FALSE
    /\ session = "none"
    /\ up = "off" /\ down = "off" /\ drained = FALSE
    /\ lastSent = "never" /\ forced = FALSE
    /\ lostKey = FALSE

Empty(l) == queue[l] = <<>>
Full(l)  == Len(queue[l]) = Cap[l]
InputQueued == \E l \in Input : ~Empty(l)

\* The session is over as soon as its read loop notices.
Close == session' = IF session = "none" THEN "none" ELSE "closed"

(***************************************************************************)
(* The writer.                                                             *)
(***************************************************************************)

\* muxLoop takes a frame, or makes a heartbeat.
Take ==
    /\ inflight = "none"
    /\ \/ \E l \in Lanes :
            /\ ~Empty(l)
            /\ queue' = [queue EXCEPT ![l] = Tail(@)]
            /\ inflight' = Head(queue[l])
       \/ /\ \A l \in Lanes : Empty(l)
          /\ inflight' = "heartbeat"
          /\ UNCHANGED queue
    /\ UNCHANGED <<summing, producer, dropper, session, drains, clock, lostKey>>

\* muxSend's write to the session of the moment succeeds, ...
WriteOk ==
    /\ inflight # "none" /\ session = "live"
    /\ inflight' = "none"
    /\ lastSent' = "recent" /\ forced' = FALSE
    /\ UNCHANGED <<queue, summing, producer, dropper, session, drains, lostKey>>

\* ... or fails: there is no session, it is closed, or the write deadline
\* passes, and the connection takes no write after that.
WriteFails ==
    /\ inflight # "none"
    /\ inflight' = "none"
    /\ session' = IF session = "live" THEN "broken" ELSE session
    /\ UNCHANGED <<queue, summing, producer, dropper, drains, lastSent, forced, lostKey>>

(***************************************************************************)
(* Producers.                                                              *)
(***************************************************************************)

\* enqueueSend finds room in the lane.  Moves come from one hook thread.
Enqueue(l) ==
    /\ l # "file" /\ ~Full(l) /\ (l = "mouse" => summing = "none")
    /\ queue' = [queue EXCEPT ![l] = Append(@, "fresh")]
    /\ UNCHANGED <<inflight, summing, producer, dropper, session, drains, clock, lostKey>>

\* enqueueMouseMove finds the lane full, ...
StartSum ==
    /\ Full("mouse") /\ summing = "none"
    /\ summing' = "fresh"
    /\ UNCHANGED <<queue, inflight, producer, dropper, session, drains, clock, lostKey>>

\* ... adds up the moves in it, one receive after the other, beside the writer
\* and the drains, ...
AddMove ==
    /\ summing # "none" /\ ~Empty("mouse")
    /\ queue' = [queue EXCEPT !["mouse"] = Tail(@)]
    /\ summing' = IF Head(queue["mouse"]) = "stale" THEN "stale" ELSE summing
    /\ UNCHANGED <<inflight, producer, dropper, session, drains, clock, lostKey>>

\* ... and queues the sum, unless it is zero.
QueueSum ==
    /\ summing # "none" /\ Empty("mouse")
    /\ \E sum \in {<<>>, <<summing>>} : queue' = [queue EXCEPT !["mouse"] = sum]
    /\ summing' = "none"
    /\ UNCHANGED <<inflight, producer, dropper, session, drains, clock, lostKey>>

\* audioLane.push on a full lane drops the oldest data (a lane full of nothing
\* but format frames, which may grow, is left out).
PushFullAudio ==
    /\ Full("audio")
    /\ queue' = [queue EXCEPT !["audio"] = Append(Tail(@), "fresh")]
    /\ UNCHANGED <<inflight, summing, producer, dropper, session, drains, clock, lostKey>>

\* Mutant: a lost key is only counted.
DropHighSilently ==
    /\ Full("high") /\ ~dropper
    /\ lostKey' = (lostKey \/ session \in {"live", "broken"})
    /\ UNCHANGED <<queue, inflight, summing, producer, dropper, session, drains, clock>>

\* A key, button, text or switch-back finds the high lane full: it is lost,
\* and the session is to be closed.
DropHigh ==
    /\ Full("high") /\ ~dropper
    /\ dropper' = TRUE
    /\ lostKey' = (lostKey \/ session \in {"live", "broken"})
    /\ UNCHANGED <<queue, inflight, summing, producer, session, drains, clock>>

CloseLossy ==
    /\ dropper
    /\ dropper' = FALSE
    /\ Close
    /\ UNCHANGED <<queue, inflight, summing, producer, drains, clock, lostKey>>

\* The file sender offers a chunk, and waits while the lane is full.
OfferChunk ==
    /\ producer = "none"
    /\ producer' = "fresh"
    /\ UNCHANGED <<queue, inflight, summing, dropper, session, drains, clock, lostKey>>

EnqueueChunk ==
    /\ producer # "none" /\ ~Full("file")
    /\ queue' = [queue EXCEPT !["file"] = Append(@, producer)]
    /\ producer' = "none"
    /\ UNCHANGED <<inflight, summing, dropper, session, drains, clock, lostKey>>

(***************************************************************************)
(* Sessions and drains.                                                    *)
(***************************************************************************)

Aged(age) == IF age = "fresh" THEN "stale" ELSE age

\* A session is installed: what waits was not meant for it.  (Bound: the
\* previous session's OnConnect has drained.)
SessionBegins ==
    /\ session = "none" /\ up = "off"
    /\ session' = "live"
    /\ up' = "audio" /\ drained' = FALSE /\ lostKey' = FALSE
    /\ queue' = [l \in Lanes |-> [i \in 1..Len(queue[l]) |-> "stale"]]
    /\ inflight' = Aged(inflight) /\ summing' = Aged(summing)
    /\ producer' = Aged(producer)
    /\ UNCHANGED <<dropper, down, clock>>

\* It ends: closed or broken here, or left by the peer.  (Bound: the previous
\* session's OnDisconnect has drained.)
SessionEnds ==
    /\ session # "none" /\ down = "off"
    /\ session' = "none"
    /\ down' = "audio" /\ drained' = FALSE
    /\ UNCHANGED <<queue, inflight, summing, producer, dropper, up, clock, lostKey>>

\* A step of drainSendMux: the audio lane at once, then the others frame by
\* frame; it returns when a select finds all three empty.
DrainStep(phase, phase1) ==
    \/ /\ phase = "audio" /\ phase1 = "lanes"
       /\ queue' = [queue EXCEPT !["audio"] = <<>>]
    \/ /\ phase = "lanes" /\ phase1 = "lanes"
       /\ \E l \in Lanes \ {"audio"} :
             ~Empty(l) /\ queue' = [queue EXCEPT ![l] = Tail(@)]
    \/ /\ phase = "lanes" /\ phase1 = "off"
       /\ \A l \in Lanes \ {"audio"} : Empty(l)
       /\ UNCHANGED queue

\* Mutant: the audio lane is left to the writer.
UpDrainNoAudio ==
    /\ up # "off"
    /\ \/ up = "audio" /\ up' = "lanes" /\ UNCHANGED queue
       \/ up = "lanes" /\ up' \in Phases /\ DrainStep(up, up')
    /\ drained' = (up' = "off" /\ session # "none")
    /\ UNCHANGED <<inflight, summing, producer, dropper, session, down, clock, lostKey>>

UpDrain ==
    /\ up # "off"
    /\ up' \in Phases /\ DrainStep(up, up')
    /\ drained' = (up' = "off" /\ session # "none")
    /\ UNCHANGED <<inflight, summing, producer, dropper, session, down, clock, lostKey>>

DownDrain ==
    /\ down # "off"
    /\ down' \in Phases /\ DrainStep(down, down')
    /\ UNCHANGED <<inflight, summing, producer, dropper, session, up, drained, clock, lostKey>>

(***************************************************************************)
(* The stall watchdog.                                                     *)
(***************************************************************************)

\* Eight seconds since the last successful write: there was no session to
\* send to (a live one gets heartbeats), or slow writes hold the writer up and
\* what is queued waits with it.
EightSeconds ==
    \/ session = "live" /\ inflight # "none"
    \/ session # "live" /\ inflight = "none" /\ \A l \in Lanes : Empty(l)

LastSentAges ==
    /\ EightSeconds
    /\ lastSent' = IF lastSent = "never" THEN "never" ELSE "old"
    /\ UNCHANGED <<queue, inflight, summing, producer, dropper, session, drains, forced, lostKey>>

\* muxStallWatchdog acts once for each value of muxLastSentNs.
StallWatchdog ==
    /\ InputQueued /\ lastSent = "old" /\ ~forced
    /\ forced' = TRUE
    /\ Close
    /\ UNCHANGED <<queue, inflight, summing, producer, dropper, drains, lastSent, lostKey>>

Next ==
    \/ Take \/ WriteOk \/ WriteFails
    \/ \E l \in Lanes : Enqueue(l)
    \/ StartSum \/ AddMove \/ QueueSum \/ PushFullAudio \/ DropHigh \/ CloseLossy
    \/ OfferChunk \/ EnqueueChunk
    \/ SessionBegins \/ SessionEnds \/ UpDrain \/ DownDrain
    \/ LastSentAges \/ StallWatchdog

Spec == Init /\ [][Next]_vars

(***************************************************************************)
(* Properties.                                                             *)
(***************************************************************************)

Stale(l) == {i \in DOMAIN queue[l] : queue[l][i] = "stale"}

\* Once OnConnect's drain has returned, the input and audio lanes hold nothing
\* of an earlier session, however drains, producers and the writer interleaved.
\* There are two exceptions: a file sender that was blocked may still slip a
\* chunk in, and so may the hook thread, which was adding up old moves while
\* the drain went by, with their sum.  It is one move, and never a key.
FreshAfterDrain ==
    drained =>
        /\ \A l \in {"high", "audio"} : Stale(l) = {}
        /\ \A i, j \in Stale("mouse") : i = j
        /\ summing = "stale" => Stale("mouse") = {}

\* A dropped key, button, text or switch-back ends the session it was dropped
\* in, so that held input is released on both sides.
LossClosesSession ==
    lostKey => dropper \/ session \in {"none", "closed"}
=============================================================================
