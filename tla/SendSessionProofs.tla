-------------------------- MODULE SendSessionProofs -------------------------
(***************************************************************************)
(* Proofs about SendSession, for all lane capacities.                      *)
(***************************************************************************)
EXTENDS SendSession, TLAPS

AllFresh(l) == \A i \in 1..Len(queue[l]) : queue[l][i] = "fresh"

\* At most one frame is an old one.
OneOld(s) == \A i, j \in 1..Len(s) : s[i] # "fresh" /\ s[j] # "fresh" => i = j

\* The hook thread's sum may be old, and is then the only move that is.
OldMoves ==
    /\ OneOld(queue["mouse"])
    /\ summing = "stale" => AllFresh("mouse")

\* Between the clearing of the audio lane and the end of the drain the session
\* stays or ends, so what is pushed meanwhile is fresh; the drain's last select
\* finds the other lanes empty, and from then on only fresh frames come, but for
\* the one sum.
DrainInv ==
    /\ up = "lanes" => AllFresh("audio")
    /\ drained => up = "off" /\ AllFresh("high") /\ AllFresh("audio") /\ OldMoves

SendInv == TypeOK /\ DrainInv /\ LossClosesSession

LEMMA CapsAreNat == Cap \in [Lanes -> Nat \ {0}]
  BY CapsAssumption DEF Cap, Lanes

\* What each operation on a lane does to its types and its freshness.
LEMMA AppendFacts ==
  ASSUME NEW s \in Seq(Ages), NEW a \in Ages
  PROVE  /\ Append(s, a) \in Seq(Ages)
         /\ Len(Append(s, a)) = Len(s) + 1
         /\ (a = "fresh" /\ \A i \in 1..Len(s) : s[i] = "fresh")
                => \A i \in 1..Len(Append(s, a)) : Append(s, a)[i] = "fresh"
         /\ a = "fresh" /\ OneOld(s) => OneOld(Append(s, a))
  BY DEF OneOld

LEMMA TailFacts ==
  ASSUME NEW s \in Seq(Ages), s # <<>>
  PROVE  /\ Tail(s) \in Seq(Ages) /\ Head(s) \in Ages
         /\ Len(Tail(s)) = Len(s) - 1
         /\ (\A i \in 1..Len(s) : s[i] = "fresh")
                => \A i \in 1..Len(Tail(s)) : Tail(s)[i] = "fresh"
         /\ OneOld(s) => OneOld(Tail(s))
         /\ OneOld(s) /\ Head(s) # "fresh"
                => \A i \in 1..Len(Tail(s)) : Tail(s)[i] = "fresh"
  BY DEF OneOld

\* One lane changes, keeping its type, its capacity and its freshness, and
\* nothing the invariant mentions besides.
LEMMA LaneChange ==
  ASSUME SendInv, NEW l \in Lanes, NEW s \in Seq(Ages), Len(s) <= Cap[l],
         queue' = [queue EXCEPT ![l] = s],
         AllFresh(l) => \A i \in 1..Len(s) : s[i] = "fresh",
         OneOld(queue[l]) => OneOld(s),
         UNCHANGED <<up, drained, summing>>
  PROVE  /\ queue' \in [Lanes -> Seq(Ages)]
         /\ \A k \in Lanes : Len(queue'[k]) <= Cap[k]
         /\ DrainInv'
<1> USE DEF SendInv, TypeOK, DrainInv, AllFresh, OldMoves
<1>1. queue' \in [Lanes -> Seq(Ages)] OBVIOUS
<1>2. \A k \in Lanes : queue'[k] = IF k = l THEN s ELSE queue[k] OBVIOUS
<1>3. \A k \in Lanes : Len(queue'[k]) <= Cap[k] BY <1>2
<1>4. DrainInv' BY <1>2 DEF Lanes
<1> QED BY <1>1, <1>3, <1>4

\* The initial state satisfies the invariant.
LEMMA SendInit == Init => SendInv
<1> SUFFICES ASSUME Init PROVE SendInv
  OBVIOUS
<1>1. \A l \in Lanes : queue[l] = <<>> BY DEF Init
<1>2. queue \in [Lanes -> Seq(Ages)] BY DEF Init
<1>3. \A l \in Lanes : Len(queue[l]) <= Cap[l] BY <1>1, CapsAreNat
<1> QED BY <1>2, <1>3
         DEF Init, SendInv, TypeOK, DrainInv, LossClosesSession, Phases, Ages

\* Every step keeps it.
LEMMA SendStep == SendInv /\ [Next]_vars => SendInv'
<1> SUFFICES ASSUME SendInv, [Next]_vars
             PROVE  SendInv'
  OBVIOUS
<1> DEFINE Rest == /\ inflight \in Ages \cup {"none", "heartbeat"}
                   /\ summing \in Ages \cup {"none"}
                   /\ producer \in Ages \cup {"none"}
                   /\ dropper \in BOOLEAN
                   /\ session \in {"none", "live", "broken", "closed"}
                   /\ up \in Phases /\ down \in Phases /\ drained \in BOOLEAN
                   /\ lastSent \in {"never", "recent", "old"}
                   /\ forced \in BOOLEAN /\ lostKey \in BOOLEAN
           LanesOK == /\ queue \in [Lanes -> Seq(Ages)]
                      /\ \A l \in Lanes : Len(queue[l]) <= Cap[l]
<1>a. Rest /\ LanesOK BY DEF SendInv, TypeOK
<1>b. (Rest /\ LanesOK)' => TypeOK' BY DEF TypeOK
<1>c. \A l \in Lanes : queue[l] \in Seq(Ages) /\ Cap[l] \in Nat \ {0} BY <1>a, CapsAreNat
<1> USE DEF drains, clock
<1>1. ASSUME UNCHANGED <<queue, up, drained, summing>>
      PROVE  LanesOK' /\ DrainInv'
  BY <1>a, <1>1 DEF SendInv, DrainInv, AllFresh, OldMoves
<1>2. ASSUME NEW l \in Lanes, NEW s \in Seq(Ages), Len(s) <= Cap[l],
             queue' = [queue EXCEPT ![l] = s],
             AllFresh(l) => \A i \in 1..Len(s) : s[i] = "fresh",
             OneOld(queue[l]) => OneOld(s),
             UNCHANGED <<up, drained, summing>>
      PROVE  LanesOK' /\ DrainInv'
  BY <1>2, LaneChange
<1>3. CASE Take
  <2>1. LanesOK' /\ DrainInv' /\ inflight' \in Ages \cup {"none", "heartbeat"}
    <3>1. ASSUME NEW l \in Lanes, ~Empty(l), inflight' = Head(queue[l]),
                 queue' = [queue EXCEPT ![l] = Tail(queue[l])]
          PROVE  LanesOK' /\ DrainInv' /\ inflight' \in Ages
      <4>1. UNCHANGED <<up, drained, summing>> BY <1>3 DEF Take
      <4>2. /\ Tail(queue[l]) \in Seq(Ages) /\ Len(Tail(queue[l])) <= Cap[l]
            /\ Head(queue[l]) \in Ages
        BY <1>a, <1>c, <3>1, TailFacts DEF Empty
      <4>3. /\ AllFresh(l) => \A i \in 1..Len(Tail(queue[l])) : Tail(queue[l])[i] = "fresh"
            /\ OneOld(queue[l]) => OneOld(Tail(queue[l]))
        BY <1>c, <3>1, TailFacts DEF AllFresh, Empty
      <4> QED BY <1>2, <3>1, <4>1, <4>2, <4>3
    <3>2. CASE inflight' = "heartbeat" /\ UNCHANGED queue
      BY <1>1, <1>3, <3>2 DEF Take
    <3> QED BY <1>3, <3>1, <3>2 DEF Take
  <2> QED BY <1>3, <1>a, <1>b, <2>1 DEF Take, SendInv, LossClosesSession
<1>4. CASE WriteOk
  BY <1>1, <1>4, <1>a, <1>b DEF WriteOk, SendInv, LossClosesSession
<1>5. CASE WriteFails
  BY <1>1, <1>5, <1>a, <1>b DEF WriteFails, SendInv, LossClosesSession
<1>6. ASSUME NEW l \in Lanes, Enqueue(l) PROVE SendInv'
  <2>1. /\ Append(queue[l], "fresh") \in Seq(Ages)
        /\ Len(Append(queue[l], "fresh")) <= Cap[l]
        /\ AllFresh(l) => \A i \in 1..Len(Append(queue[l], "fresh")) :
                              Append(queue[l], "fresh")[i] = "fresh"
        /\ OneOld(queue[l]) => OneOld(Append(queue[l], "fresh"))
    <3>1. queue[l] \in Seq(Ages) /\ Len(queue[l]) <= Cap[l] /\ Len(queue[l]) # Cap[l]
      BY <1>6, <1>a DEF Enqueue, Full
    <3>2. Cap[l] \in Nat BY CapsAreNat
    <3>3. "fresh" \in Ages BY DEF Ages
    <3> QED BY <3>1, <3>2, <3>3, AppendFacts DEF AllFresh
  <2> QED BY ZenonT(60), <1>2, <1>6, <1>a, <1>b, <2>1 DEF Enqueue, SendInv, LossClosesSession
<1>7. CASE StartSum
  BY <1>7, <1>a, <1>b DEF StartSum, SendInv, DrainInv, OldMoves, AllFresh,
     LossClosesSession, Ages
<1>21. CASE AddMove
  <2> DEFINE s == Tail(queue["mouse"])
  <2>1. "mouse" \in Lanes BY DEF Lanes
  <2>2. queue["mouse"] \in Seq(Ages) /\ queue["mouse"] # <<>>
    BY <1>21, <1>c, <2>1 DEF AddMove, Empty
  <2>3. /\ s \in Seq(Ages) /\ Len(s) <= Cap["mouse"] /\ Head(queue["mouse"]) \in Ages
        /\ AllFresh("mouse") => \A i \in 1..Len(s) : s[i] = "fresh"
        /\ OneOld(queue["mouse"]) => OneOld(s)
        /\ OneOld(queue["mouse"]) /\ Head(queue["mouse"]) # "fresh"
               => \A i \in 1..Len(s) : s[i] = "fresh"
    BY <1>a, <1>c, <2>1, <2>2, TailFacts DEF AllFresh
  <2>4. queue' = [queue EXCEPT !["mouse"] = s]
    BY <1>21 DEF AddMove
  <2> HIDE DEF s
  <2>5. LanesOK' /\ queue'["mouse"] = s /\ \A l \in Lanes \ {"mouse"} : queue'[l] = queue[l]
    BY <1>a, <2>1, <2>3, <2>4
  <2>6. OldMoves => OldMoves'
    BY <1>21, <2>3, <2>5 DEF AddMove, OldMoves, AllFresh, Ages
  <2>7. DrainInv'
    BY <1>21, <2>5, <2>6 DEF AddMove, SendInv, DrainInv, AllFresh, Lanes
  <2>8. summing' \in Ages \cup {"none"}
    BY <1>21, <1>a DEF AddMove, Ages
  <2> QED BY <1>21, <1>a, <1>b, <2>5, <2>7, <2>8 DEF AddMove, SendInv, LossClosesSession
<1>22. CASE QueueSum
  <2>1. PICK s \in {<<>>, <<summing>>} : queue' = [queue EXCEPT !["mouse"] = s]
    BY <1>22 DEF QueueSum
  <2>2. "mouse" \in Lanes BY DEF Lanes
  <2>3. summing \in Ages /\ summing' = "none"
    BY <1>22, <1>a DEF QueueSum
  <2>4. s \in Seq(Ages) /\ Len(s) <= 1
    <3>1. CASE s = <<>>
      BY <3>1
    <3>2. CASE s = <<summing>>
      BY <2>3, <3>2
    <3> QED BY <2>1, <3>1, <3>2
  <2>5. Len(s) <= Cap["mouse"] BY <1>c, <2>2, <2>4
  <2>6. LanesOK' /\ queue'["mouse"] = s /\ \A l \in Lanes \ {"mouse"} : queue'[l] = queue[l]
    BY <1>a, <2>1, <2>2, <2>4, <2>5
  <2>7. OldMoves'
    BY <2>3, <2>4, <2>6 DEF OldMoves, OneOld
  <2>8. DrainInv'
    BY <1>22, <2>6, <2>7 DEF QueueSum, SendInv, DrainInv, AllFresh, Lanes
  <2> QED BY <1>22, <1>a, <1>b, <2>3, <2>6, <2>8 DEF QueueSum, SendInv, LossClosesSession
<1>8. CASE PushFullAudio
  <2> DEFINE s == Append(Tail(queue["audio"]), "fresh")
  <2>1. "audio" \in Lanes /\ "fresh" \in Ages BY DEF Lanes, Ages
  <2>2. queue["audio"] \in Seq(Ages) /\ Len(queue["audio"]) = Cap["audio"]
        /\ Cap["audio"] \in Nat \ {0}
    BY <1>8, <1>c, <2>1 DEF PushFullAudio, Full
  <2>3. queue["audio"] # <<>> BY <2>2
  <2>4. /\ Tail(queue["audio"]) \in Seq(Ages)
        /\ Len(Tail(queue["audio"])) = Cap["audio"] - 1
        /\ AllFresh("audio") => \A i \in 1..Len(Tail(queue["audio"])) :
                                    Tail(queue["audio"])[i] = "fresh"
        /\ OneOld(queue["audio"]) => OneOld(Tail(queue["audio"]))
    BY <2>2, <2>3, TailFacts DEF AllFresh
  <2>5. /\ s \in Seq(Ages) /\ Len(s) <= Cap["audio"]
        /\ AllFresh("audio") => \A i \in 1..Len(s) : s[i] = "fresh"
        /\ OneOld(queue["audio"]) => OneOld(s)
    <3>1. s \in Seq(Ages) /\ Len(s) <= Cap["audio"]
      BY <2>1, <2>2, <2>4, AppendFacts
    <3>2. AllFresh("audio") => \A i \in 1..Len(s) : s[i] = "fresh"
      BY <2>1, <2>4, AppendFacts
    <3>3. OneOld(queue["audio"]) => OneOld(s)
      BY <2>1, <2>4, AppendFacts
    <3> QED BY <3>1, <3>2, <3>3
  <2>6. queue' = [queue EXCEPT !["audio"] = s] BY <1>8 DEF PushFullAudio
  <2> HIDE DEF s
  <2> QED BY ZenonT(60), <1>2, <1>8, <1>a, <1>b, <2>1, <2>5, <2>6
          DEF PushFullAudio, SendInv, LossClosesSession
<1>9. CASE DropHigh
  BY <1>1, <1>9, <1>a, <1>b DEF DropHigh, SendInv, LossClosesSession
<1>10. CASE CloseLossy
  BY <1>1, <1>10, <1>a, <1>b DEF CloseLossy, Close, SendInv, LossClosesSession
<1>11. CASE OfferChunk
  BY <1>1, <1>11, <1>a, <1>b DEF OfferChunk, SendInv, LossClosesSession, Ages
<1>12. CASE EnqueueChunk
  <2> DEFINE s == Append(queue["file"], producer)
  <2>1. "file" \in Lanes BY DEF Lanes
  <2>2. /\ queue["file"] \in Seq(Ages) /\ Len(queue["file"]) <= Cap["file"]
        /\ Len(queue["file"]) # Cap["file"] /\ Cap["file"] \in Nat /\ producer \in Ages
    BY <1>12, <1>a, <1>c, <2>1 DEF EnqueueChunk, Full
  <2>3. s \in Seq(Ages) /\ Len(s) <= Cap["file"] BY <2>2, AppendFacts
  <2>4. queue' = [queue EXCEPT !["file"] = s] BY <1>12 DEF EnqueueChunk
  <2> HIDE DEF s
  <2>5. LanesOK'
    BY <1>a, <2>1, <2>3, <2>4
  <2>6. DrainInv' BY <1>12, <2>4, <1>a DEF EnqueueChunk, SendInv, DrainInv, OldMoves, AllFresh, Lanes
  <2> QED BY <1>12, <1>a, <1>b, <2>5, <2>6
          DEF EnqueueChunk, SendInv, LossClosesSession
<1>13. CASE SessionBegins
  <2>1. ASSUME NEW l \in Lanes
        PROVE  queue'[l] \in Seq(Ages) /\ Len(queue'[l]) = Len(queue[l])
    BY <1>13, <1>c, <2>1 DEF SessionBegins, Ages
  <2>2. LanesOK'
    <3>1. queue' = [l \in Lanes |-> queue'[l]] BY <1>13 DEF SessionBegins
    <3>2. queue' \in [Lanes -> Seq(Ages)] BY <2>1, <3>1
    <3> QED BY <1>a, <2>1, <3>2
  <2>3. DrainInv' BY <1>13 DEF SessionBegins, DrainInv
  <2>4. Rest' BY <1>13, <1>a DEF SessionBegins, Aged, Ages, Phases
  <2> QED BY <1>13, <1>b, <2>2, <2>3, <2>4 DEF SessionBegins, SendInv, LossClosesSession
<1>14. CASE SessionEnds
  <2>1. LanesOK' /\ DrainInv' BY <1>14, <1>a DEF SessionEnds, SendInv, DrainInv, OldMoves, AllFresh
  <2> QED BY <1>14, <1>a, <1>b, <2>1 DEF SessionEnds, SendInv, LossClosesSession, Phases
<1>15. ASSUME NEW phase \in Phases, NEW phase1 \in Phases, DrainStep(phase, phase1)
       PROVE  /\ LanesOK'
              /\ \A l \in Lanes : AllFresh(l) => AllFresh(l)'
              /\ OneOld(queue["mouse"]) => OneOld(queue["mouse"])'
              /\ phase1 = "lanes" => phase = "lanes" \/ queue'["audio"] = <<>>
              /\ phase1 = "off" => \A l \in Lanes \ {"audio"} : queue'[l] = <<>>
              /\ phase1 = "off" => phase = "lanes" /\ UNCHANGED queue
              /\ phase1 = "lanes" \/ phase1 = "off"
  <2>0. "audio" \in Lanes /\ "mouse" \in Lanes BY DEF Lanes
  <2>1. CASE phase = "audio" /\ phase1 = "lanes" /\ queue' = [queue EXCEPT !["audio"] = <<>>]
    <3>1. LanesOK' BY <1>a, <1>c, <2>0, <2>1
    <3>2. queue'["audio"] = <<>> BY <1>a, <2>0, <2>1
    <3>3. \A l \in Lanes : AllFresh(l) => AllFresh(l)'
      BY <1>a, <2>1, <3>2 DEF AllFresh
    <3> QED BY <2>1, <3>1, <3>2, <3>3
  <2>2. ASSUME phase = "lanes", phase1 = "lanes", NEW l \in Lanes \ {"audio"},
               ~Empty(l), queue' = [queue EXCEPT ![l] = Tail(queue[l])]
        PROVE  /\ LanesOK' /\ \A k \in Lanes : AllFresh(k) => AllFresh(k)'
               /\ OneOld(queue["mouse"]) => OneOld(queue["mouse"])'
    <3>1. /\ Tail(queue[l]) \in Seq(Ages) /\ Len(Tail(queue[l])) <= Cap[l]
          /\ AllFresh(l) => \A i \in 1..Len(Tail(queue[l])) : Tail(queue[l])[i] = "fresh"
          /\ OneOld(queue[l]) => OneOld(Tail(queue[l]))
      BY <1>a, <1>c, <2>2, TailFacts DEF Empty, AllFresh
    <3>2. \A k \in Lanes : queue'[k] = IF k = l THEN Tail(queue[l]) ELSE queue[k]
      BY <1>a, <2>2
    <3> QED BY <1>a, <2>0, <2>2, <3>1, <3>2 DEF AllFresh
  <2>3. CASE phase = "lanes" /\ phase1 = "off" /\ UNCHANGED queue
             /\ \A l \in Lanes \ {"audio"} : Empty(l)
    BY <1>a, <2>3 DEF Empty, AllFresh
  <2> QED BY <1>15, <2>1, <2>2, <2>3 DEF DrainStep
<1>16. CASE UpDrain
  <2>1. up' \in Phases /\ DrainStep(up, up') BY <1>16 DEF UpDrain
  <2>2. DrainInv'
    <3>1. up' = "lanes" => AllFresh("audio")'
      <4>1. CASE up = "lanes"
        BY <1>15, <1>a, <2>1, <4>1 DEF SendInv, DrainInv, Lanes
      <4>2. CASE queue'["audio"] = <<>>
        BY <4>2 DEF AllFresh
      <4> QED BY <1>15, <1>a, <2>1, <4>1, <4>2
    <3>2. drained' => up' = "off" /\ AllFresh("high")' /\ AllFresh("audio")' /\ OldMoves'
      <4> SUFFICES ASSUME drained'
                   PROVE  up' = "off" /\ AllFresh("high")' /\ AllFresh("audio")' /\ OldMoves'
        OBVIOUS
      <4>1. up' = "off" BY <1>16 DEF UpDrain
      <4>2. AllFresh("audio")'
        BY <1>15, <1>a, <2>1, <4>1 DEF SendInv, DrainInv, AllFresh
      <4>3. queue'["high"] = <<>> /\ queue'["mouse"] = <<>>
        BY <1>15, <1>a, <2>1, <4>1 DEF Lanes
      <4> QED BY <4>1, <4>2, <4>3 DEF AllFresh, OldMoves, OneOld
    <3> QED BY <3>1, <3>2 DEF DrainInv
  <2>3. drained' \in BOOLEAN BY <1>16 DEF UpDrain
  <2> QED BY <1>15, <1>16, <1>a, <1>b, <2>1, <2>2, <2>3 DEF UpDrain, SendInv, LossClosesSession
<1>17. CASE DownDrain
  <2>1. down' \in Phases /\ DrainStep(down, down') BY <1>17 DEF DownDrain
  <2>2. /\ LanesOK' /\ \A l \in Lanes : AllFresh(l) => AllFresh(l)'
        /\ OneOld(queue["mouse"]) => OneOld(queue["mouse"])'
    BY <1>15, <1>a, <2>1
  <2>3. DrainInv' BY <1>17, <2>2 DEF DownDrain, SendInv, DrainInv, OldMoves, Lanes
  <2> QED BY <1>17, <1>a, <1>b, <2>1, <2>2, <2>3 DEF DownDrain, SendInv, LossClosesSession
<1>18. CASE LastSentAges
  BY <1>1, <1>18, <1>a, <1>b DEF LastSentAges, SendInv, LossClosesSession
<1>19. CASE StallWatchdog
  BY <1>1, <1>19, <1>a, <1>b DEF StallWatchdog, Close, SendInv, LossClosesSession
<1>20. CASE UNCHANGED vars
  BY <1>1, <1>20, <1>a, <1>b DEF vars, SendInv, LossClosesSession
<1> QED
  BY <1>3, <1>4, <1>5, <1>6, <1>7, <1>8, <1>9, <1>10, <1>11, <1>12, <1>13,
     <1>14, <1>16, <1>17, <1>18, <1>19, <1>20, <1>21, <1>22 DEF Next

\* The invariant holds of every behaviour.
LEMMA SendInvariant == Spec => []SendInv
  BY SendInit, SendStep, PTL DEF Spec

\* The lanes keep within their capacities, everything else its type.
THEOREM TypeCorrect == Spec => []TypeOK
<1>1. SendInv => TypeOK
  BY DEF SendInv
<1> QED BY <1>1, SendInvariant, PTL

\* drainSendMux does its work: after OnConnect's drain the input and audio
\* lanes hold frames of this session only, but for one sum of moves that the
\* hook thread was making meanwhile.
THEOREM DrainIsEffective == Spec => []FreshAfterDrain
<1>1. SendInv => FreshAfterDrain
  <2> SUFFICES ASSUME SendInv, drained PROVE FreshAfterDrain
    BY DEF FreshAfterDrain
  <2>1. \A l \in Lanes : DOMAIN queue[l] = 1..Len(queue[l])
    BY DEF SendInv, TypeOK
  <2>2. QED
    BY <2>1 DEF SendInv, DrainInv, OldMoves, AllFresh, OneOld, FreshAfterDrain, Stale, Lanes
<1> QED BY <1>1, SendInvariant, PTL

\* A critical frame lost to a full lane takes its session with it
\* (enqueueSend's default case).
THEOREM LossIsFatal == Spec => []LossClosesSession
<1>1. SendInv => LossClosesSession
  BY DEF SendInv
<1> QED BY <1>1, SendInvariant, PTL
=============================================================================
