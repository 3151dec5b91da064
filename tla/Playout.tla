------------------------------- MODULE Playout --------------------------------
(***************************************************************************)
(* The jitter buffer of one stream (internal/audio/playout.go): what the   *)
(* network pushes, what the render loop takes, the target that grows with  *)
(* underruns and relaxes afterwards, and the profile and format that other *)
(* threads change under it.  Every operation holds the mutex.              *)
(*                                                                         *)
(* Frames are counted, not stored; time is in steps of playoutRelaxStep    *)
(* and a rate is the frames of such a step; the read position is in halves *)
(* of a frame and a rendered frame moves it by one of Steps, whatever the  *)
(* resampling ratio and its drift correction are.  A cut that starts       *)
(* outside the queue panics; nothing in the render thread recovers, and    *)
(* the program is over.                                                    *)
(***************************************************************************)
EXTENDS Integers

CONSTANTS
    Profiles,   \* records [target, ceiling, max]: playoutConfigForProfile
    Rates,      \* source rates
    Bursts,     \* numbers of frames pushed at once
    Blocks,     \* numbers of frames rendered at once
    Steps,      \* how far one rendered frame moves the position, in halves
    DropAfter,  \* consumed frames beyond which the queue is always cut
    NoRate

VARIABLES
    cfg, rate,
    frames,  \* frames in q, the history frame included
    pos,     \* the read position, in halves of a frame
    primed, target,
    strained,  \* the last underrun is recent
    relaxed,   \* the last relaxation is recent
    panicked,  \* a cut started outside the queue
    moved      \* what a frame of the block that panicked moved (history)

vars == <<cfg, rate, frames, pos, primed, target, strained, relaxed, panicked, moved>>

Most(a, b)  == IF a >= b THEN a ELSE b
Least(a, b) == IF a <= b THEN a ELSE b

TypeOK ==
    /\ cfg \in Profiles /\ rate \in Rates \cup {NoRate}
    /\ frames \in Nat /\ pos \in Nat /\ target \in Nat
    /\ primed \in BOOLEAN /\ strained \in BOOLEAN /\ relaxed \in BOOLEAN
    /\ panicked \in BOOLEAN /\ moved \in Nat

\* newPlayout: no source yet.
Init ==
    /\ cfg = CHOOSE p \in Profiles : \A q \in Profiles : p.target >= q.target
    /\ rate = NoRate /\ frames = 0 /\ pos = 0
    /\ primed = FALSE /\ target = 0 /\ strained = FALSE /\ relaxed = FALSE
    /\ panicked = FALSE /\ moved = 0

FramesFor(d) == rate * d
Position     == pos \div 2
Level        == Most(0, frames - Position - 1)

\* resetLocked.
Empty ==
    /\ frames' = 1 /\ pos' = 2 /\ primed' = FALSE

SetConfig(p) ==
    /\ cfg' = p
    /\ target' = IF rate = NoRate THEN target ELSE rate * p.target
    /\ UNCHANGED <<rate, frames, pos, primed, strained, relaxed, panicked, moved>>

\* SetSource with another format: what is queued belongs to the previous one.
SetSource(r) ==
    /\ r # rate
    /\ rate' = r /\ target' = r * cfg.target
    /\ Empty
    /\ UNCHANGED <<cfg, strained, relaxed, panicked, moved>>

Reset ==
    /\ rate # NoRate
    /\ target' = FramesFor(cfg.target)
    /\ Empty
    /\ UNCHANGED <<cfg, rate, strained, relaxed, panicked, moved>>

\* The queue of n frames has more than the profile's maximum to play.
Overflows(n) == FramesFor(cfg.max) > 0 /\ n - Position - 1 > FramesFor(cfg.max)

\* A queue of n frames is cut before its frame start, if there is one.
CutAt(n, start, position) ==
    IF start \in 0..n
    THEN frames' = n - start /\ pos' = position /\ UNCHANGED panicked
    ELSE frames' = n /\ UNCHANGED pos /\ panicked' = TRUE

\* Mutant: the overflow leaves the read position where it was.
PushKeepsPosition(n) ==
    /\ rate # NoRate
    /\ LET full == frames + n
       IN  IF Overflows(full)
           THEN CutAt(full, full - (target + 2), pos)
           ELSE frames' = full /\ UNCHANGED <<pos, panicked>>
    /\ UNCHANGED <<cfg, rate, primed, target, strained, relaxed, moved>>

\* Push: far behind, the buffer jumps to the newest audio at the target level.
Push(n) ==
    /\ rate # NoRate
    /\ LET full == frames + n
       IN  IF Overflows(full)
           THEN CutAt(full, full - (target + 2), 2)
           ELSE frames' = full /\ UNCHANGED <<pos, panicked>>
    /\ UNCHANGED <<cfg, rate, primed, target, strained, relaxed, moved>>

\* underrunLocked: one step up, which is two of playoutRelaxStep, to the ceiling.
Underrun ==
    /\ primed' = FALSE /\ strained' = TRUE
    /\ target' = LET ceiling == FramesFor(cfg.ceiling)
                 IN  IF target < ceiling THEN Least(target + FramesFor(2), ceiling) ELSE target

\* The end of Render: one step down, never below the profile's.
Relax ==
    IF target > FramesFor(cfg.target) /\ ~strained /\ ~relaxed
    THEN target' = Most(target - FramesFor(1), FramesFor(cfg.target)) /\ relaxed' = TRUE
    ELSE UNCHANGED <<target, relaxed>>

\* The frames of a block that have all four neighbours when the position moves
\* by step: position + 2 is still in the queue.
Playable(block, step) ==
    LET fits == {k \in 1..block : (pos + (k - 1) * step) \div 2 + 2 < frames}
    IN  IF fits = {} THEN 0 ELSE CHOOSE k \in fits : \A j \in fits : j <= k

\* Consumed frames are dropped, one frame of history stays.
Drop(at) ==
    LET drop == at \div 2 - 1
    IN  IF drop > DropAfter \/ (drop > 0 /\ drop * 2 > frames)
        THEN CutAt(frames, drop, at - 2 * drop)
        ELSE frames' = frames /\ pos' = at /\ UNCHANGED panicked

\* Render: silence until the target is reached, then the frames there are; a
\* block that panics when it drops what was played gets no further.
Render(block, step) ==
    /\ rate # NoRate
    /\ IF ~primed /\ (Level < target \/ Level < 3)
       THEN UNCHANGED <<frames, pos, primed, target, strained, relaxed, panicked, moved>>
       ELSE LET played == Playable(block, step)
            IN  /\ Drop(pos + played * step)
                /\ moved' = IF panicked' THEN step ELSE moved
                /\ IF played < block
                   THEN Underrun /\ UNCHANGED relaxed
                   ELSE /\ primed' = TRUE /\ UNCHANGED strained
                        /\ IF panicked' THEN UNCHANGED <<target, relaxed>> ELSE Relax
    /\ UNCHANGED <<cfg, rate>>

\* playoutRelaxAfter passes since the last underrun, or the last relaxation.
TimePasses ==
    /\ \/ strained /\ strained' = FALSE /\ UNCHANGED relaxed
       \/ relaxed /\ relaxed' = FALSE /\ UNCHANGED strained
    /\ UNCHANGED <<cfg, rate, frames, pos, primed, target, panicked, moved>>

Operation ==
    \/ \E p \in Profiles : SetConfig(p)
    \/ \E r \in Rates : SetSource(r)
    \/ Reset
    \/ \E n \in Bursts : Push(n)
    \/ \E block \in Blocks, step \in Steps : Render(block, step)
    \/ TimePasses

Next == ~panicked /\ Operation

Spec == Init /\ [][Next]_vars

(***************************************************************************)
(* Properties.                                                             *)
(***************************************************************************)

\* The buffer is never read before or cut outside what it holds, whatever the
\* two sides and the settings do to it: there is a frame of history before the
\* position, and the overflow and the drop of what was played find the frame
\* they cut at.  Excepted is a block in which a rendered frame moves the
\* position by more than four frames, which no line rules out: audio of more
\* than four times the device's rate, or of four times with the drift on top,
\* is dropped from past its end, and the program panics.
ReadsInside == rate # NoRate => Position >= 1 /\ (panicked => moved > 8)

\* The target the overflow jumps to and the stream waits for stays between the
\* profile's own bounds, after a change of profile or format too; above the
\* maximum the stream would never be primed again, and below its least it
\* would play on nothing.
TargetInBounds ==
    rate # NoRate => target >= FramesFor(cfg.target) /\ target <= FramesFor(cfg.ceiling)
=============================================================================
