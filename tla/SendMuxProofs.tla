---------------------------- MODULE SendMuxProofs ---------------------------
(***************************************************************************)
(* Proofs about SendMux, for every capacity and every burst length.        *)
(***************************************************************************)
EXTENDS SendMux, TLAPS

\* Where the goroutine is, or goes after its write.
At == IF mux = "write" THEN next ELSE mux

\* What TypeOK needs: how far each count can have got at each label.
CountInv ==
    /\ At = "high" => sent <= Burst
    /\ At = "mouse" => sent <= Burst + 1
    /\ At \in {"audio", "check", "file"} => sent <= AudioBurst
    /\ At = "select" => sent = 0

\* How many frames can have been taken ahead of the oldest "high" frame when
\* the goroutine is at each label.
OvertakeInv ==
    /\ Empty("high") => overtaken = 0
    /\ At = "mouse" => overtaken <= (IF sent = 0 THEN 2 ELSE 0)
    /\ At = "high" => overtaken <= 3
    /\ At \in {"audio", "select"} => overtaken = 0
    /\ At \in {"check", "file"} => overtaken <= 1
    /\ At = "file" /\ ~progressed => overtaken = 0

\* A cycle that goes to the select has sent nothing, so it saw the audio lane
\* empty.
WakeInv ==
    /\ At = "check" => progressed
    /\ At = "audio" /\ ~progressed => sent = 0
    /\ mux \in {"file", "select"} /\ ~Empty("audio") =>
           (mux = "file" /\ progressed) \/ sig \/ pusher
    /\ At = "file" => mux = "file"
    /\ At = "select" => mux = "select"

MuxInv == TypeOK /\ CountInv /\ OvertakeInv /\ WakeInv

\* Taking a frame, and going on without one, keep the types of what they
\* change.
Moved ==
    /\ queued \in [Lanes -> Nat]
    /\ \A l \in Lanes : queued[l] <= Cap[l]
    /\ mux \in Steps \cup {"write"} /\ next \in Steps
    /\ hand \in Lanes \cup {"none", "heartbeat"}
    /\ overtaken \in Nat

LEMMA CapsAreNat == Cap \in [Lanes -> Nat]
  BY CapsAssumption DEF Cap, Lanes

LEMMA TakeKeepsTypes ==
  ASSUME TypeOK, NEW l \in Lanes, NEW label \in Steps, Take(l, label)
  PROVE  Moved'
<1> USE DEF TypeOK, Take, Empty
<1>1. queued' \in [Lanes -> Nat] OBVIOUS
<1>2. ASSUME NEW k \in Lanes PROVE queued'[k] <= Cap[k]
  <2>1. queued[k] \in Nat /\ Cap[k] \in Nat /\ queued[k] <= Cap[k]
    BY CapsAreNat
  <2>2. queued'[k] \in {queued[k], queued[k] - 1} OBVIOUS
  <2> HIDE DEF Cap, Take, TypeOK
  <2> QED BY <2>1, <2>2
<1>3. overtaken' \in Nat OBVIOUS
<1> QED BY <1>1, <1>2, <1>3 DEF Moved, Cap

LEMMA GoKeepsTypes ==
  ASSUME TypeOK, NEW label \in Steps, Go(label)
  PROVE  Moved'
  BY DEF TypeOK, Go, Moved, Cap

\* The initial state satisfies the invariant.
LEMMA MuxInit == Init => MuxInv
<1> SUFFICES ASSUME Init PROVE MuxInv
  OBVIOUS
<1> USE CapsAssumption
<1>1. TypeOK
  <2>1. queued \in [Lanes -> Nat] BY DEF Init
  <2>2. \A l \in Lanes : queued[l] <= Cap[l] BY CapsAreNat DEF Init
  <2>3. sent \in 0..(Burst + AudioBurst + 1) BY DEF Init
  <2> QED BY <2>1, <2>2, <2>3 DEF Init, TypeOK, Lanes, Steps
<1>2. CountInv /\ OvertakeInv /\ WakeInv
  BY DEF Init, CountInv, OvertakeInv, WakeInv, At, Empty, Lanes
<1> QED BY <1>1, <1>2 DEF MuxInv

\* Every step keeps it.
LEMMA MuxStepKeeps == MuxInv /\ [Next]_vars => MuxInv'
<1> SUFFICES ASSUME MuxInv, [Next]_vars
             PROVE  MuxInv'
  OBVIOUS
<1> USE CapsAssumption
    DEF MuxInv, TypeOK, CountInv, OvertakeInv, WakeInv, At, Empty, Full, Lanes,
        Input, Steps, Cap, Take, Go
<1>1. CASE DrainMouse
  <2>1. TypeOK'
    <3>1. Moved'
      <4> HIDE DEF MuxInv, TypeOK, CountInv, OvertakeInv, WakeInv, Take, Go, Cap
      <4> QED BY <1>1, TakeKeepsTypes, GoKeepsTypes DEF DrainMouse, MuxInv
    <3>2. sent' \in 0..(Burst + AudioBurst + 1) BY <1>1 DEF DrainMouse
    <3>3. sig' \in BOOLEAN /\ pusher' \in BOOLEAN /\ progressed' \in BOOLEAN
      BY <1>1 DEF DrainMouse
    <3> QED BY <3>1, <3>2, <3>3 DEF Moved
  <2>2. CountInv' BY <1>1 DEF DrainMouse
  <2>3. OvertakeInv' BY <1>1 DEF DrainMouse
  <2>4. WakeInv' BY <1>1 DEF DrainMouse
  <2> QED BY <2>1, <2>2, <2>3, <2>4
<1>2. CASE DrainHigh
  <2>1. TypeOK'
    <3>1. Moved'
      <4> HIDE DEF MuxInv, TypeOK, CountInv, OvertakeInv, WakeInv, Take, Go, Cap
      <4> QED BY <1>2, TakeKeepsTypes, GoKeepsTypes DEF DrainHigh, MuxInv
    <3>2. sent' \in 0..(Burst + AudioBurst + 1) BY <1>2 DEF DrainHigh
    <3>3. sig' \in BOOLEAN /\ pusher' \in BOOLEAN /\ progressed' \in BOOLEAN
      BY <1>2 DEF DrainHigh
    <3> QED BY <3>1, <3>2, <3>3 DEF Moved
  <2>2. CountInv' BY <1>2 DEF DrainHigh
  <2>3. OvertakeInv' BY <1>2 DEF DrainHigh
  <2>4. WakeInv' BY <1>2 DEF DrainHigh
  <2> QED BY <2>1, <2>2, <2>3, <2>4
<1>3. CASE AudioFrame
  <2>1. TypeOK'
    <3>1. Moved'
      <4> HIDE DEF MuxInv, TypeOK, CountInv, OvertakeInv, WakeInv, Take, Go, Cap
      <4> QED BY <1>3, TakeKeepsTypes, GoKeepsTypes DEF AudioFrame, MuxInv
    <3>2. sent' \in 0..(Burst + AudioBurst + 1) BY <1>3 DEF AudioFrame
    <3>3. sig' \in BOOLEAN /\ pusher' \in BOOLEAN /\ progressed' \in BOOLEAN
      BY <1>3 DEF AudioFrame
    <3> QED BY <3>1, <3>2, <3>3 DEF Moved
  <2>2. CountInv' BY <1>3 DEF AudioFrame
  <2>3. OvertakeInv' BY <1>3 DEF AudioFrame
  <2>4. WakeInv' BY <1>3 DEF AudioFrame
  <2> QED BY <2>1, <2>2, <2>3, <2>4
<1>4. CASE AudioCheck BY <1>4 DEF AudioCheck
<1>5. CASE FileFrame
  <2>1. TypeOK'
    <3>1. Moved'
      <4> HIDE DEF MuxInv, TypeOK, CountInv, OvertakeInv, WakeInv, Take, Go, Cap
      <4> QED BY <1>5, TakeKeepsTypes, GoKeepsTypes DEF FileFrame, MuxInv
    <3>2. sent' \in 0..(Burst + AudioBurst + 1) BY <1>5 DEF FileFrame
    <3>3. sig' \in BOOLEAN /\ pusher' \in BOOLEAN /\ progressed' \in BOOLEAN
      BY <1>5 DEF FileFrame
    <3> QED BY <3>1, <3>2, <3>3 DEF Moved
  <2>2. CountInv' BY <1>5 DEF FileFrame
  <2>3. OvertakeInv' BY <1>5 DEF FileFrame
  <2>4. WakeInv' BY <1>5 DEF FileFrame
  <2> QED BY <2>1, <2>2, <2>3, <2>4
<1>6. CASE Select
  <2>1. TypeOK'
    <3>1. Moved'
      <4>1. CASE \E l \in Input \cup {"file"} : Take(l, "mouse")
        <5> HIDE DEF MuxInv, TypeOK, CountInv, OvertakeInv, WakeInv, Take, Go, Cap
        <5> QED BY <4>1, TakeKeepsTypes DEF MuxInv
      <4>2. CASE Go("mouse")
        BY <4>2 DEF Moved
      <4>3. CASE hand' = "heartbeat"
        BY <1>6, <4>3 DEF Select, Moved
      <4> QED BY <1>6, <4>1, <4>2, <4>3 DEF Select
    <3> QED BY <1>6, <3>1 DEF Select, Moved
  <2>2. CountInv' BY <1>6 DEF Select
  <2>3. OvertakeInv' BY <1>6 DEF Select
  <2>4. WakeInv' BY <1>6 DEF Select
  <2> QED BY <2>1, <2>2, <2>3, <2>4
<1>7. CASE Write BY <1>7 DEF Write
<1>8. ASSUME NEW l \in Lanes, Enqueue(l) PROVE MuxInv'
  BY <1>8 DEF Enqueue
<1>9. ASSUME NEW l \in Lanes, Drain(l) PROVE MuxInv'
  BY <1>9 DEF Drain
<1>10. CASE CoalesceMoves
  <2>1. TypeOK'
    <3>1. queued' \in [Lanes -> Nat] BY <1>10 DEF CoalesceMoves
    <3>2. \A l \in Lanes : queued'[l] <= Cap[l]
      BY <1>10, CapsAreNat DEF CoalesceMoves
    <3> QED BY <1>10, <3>1, <3>2 DEF CoalesceMoves
  <2>2. CountInv' BY <1>10 DEF CoalesceMoves
  <2>3. OvertakeInv' BY <1>10 DEF CoalesceMoves
  <2>4. WakeInv' BY <1>10 DEF CoalesceMoves
  <2> QED BY <2>1, <2>2, <2>3, <2>4
<1>11. CASE PushAudio
  <2>1. TypeOK'
    <3>1. queued' \in [Lanes -> Nat] BY <1>11 DEF PushAudio
    <3>2. \A l \in Lanes : queued'[l] <= Cap[l]
      BY <1>11, CapsAreNat DEF PushAudio
    <3> QED BY <1>11, <3>1, <3>2 DEF PushAudio
  <2>2. CountInv' /\ OvertakeInv' BY <1>11 DEF PushAudio
  <2>3. WakeInv' BY <1>11 DEF PushAudio
  <2> QED BY <2>1, <2>2, <2>3
<1>12. CASE SignalAudio
  <2>1. TypeOK' BY <1>12 DEF SignalAudio
  <2>2. CountInv' /\ OvertakeInv' BY <1>12 DEF SignalAudio
  <2>3. WakeInv' BY <1>12 DEF SignalAudio
  <2> QED BY <2>1, <2>2, <2>3
<1>13. CASE UNCHANGED vars
  <2>1. TypeOK' BY <1>13 DEF vars
  <2>2. CountInv' /\ OvertakeInv' /\ WakeInv' BY <1>13 DEF vars
  <2> QED BY <2>1, <2>2
<1> QED
  BY <1>1, <1>2, <1>3, <1>4, <1>5, <1>6, <1>7, <1>8, <1>9, <1>10, <1>11,
     <1>12, <1>13 DEF Next, MuxStep

\* The invariant holds of every behaviour.
LEMMA MuxInvariant == Spec => []MuxInv
  BY MuxInit, MuxStepKeeps, PTL DEF Spec

\* Lanes keep within their capacities, and every other variable its type.
THEOREM TypeCorrect == Spec => []TypeOK
<1>1. MuxInv => TypeOK
  BY DEF MuxInv
<1> QED BY <1>1, MuxInvariant, PTL

\* Whatever the capacities and the bursts, a key waits for at most three
\* frames of other lanes (drainHighPriority, the yield in muxLoop's audio
\* burst and the single chunk a cycle).
THEOREM BoundedInversion == Spec => []KeystrokesWaitBriefly
<1>1. MuxInv => KeystrokesWaitBriefly
  BY DEF MuxInv, TypeOK, OvertakeInv, At, KeystrokesWaitBriefly, Steps
<1> QED BY <1>1, MuxInvariant, PTL

\* The writer never sleeps on queued audio without a token on the way
\* (audioLane.sig).
THEOREM NoLostWakeup == Spec => []AudioWakes
<1>1. MuxInv => AudioWakes
  BY DEF MuxInv, WakeInv, AudioWakes, At
<1> QED BY <1>1, MuxInvariant, PTL
=============================================================================
