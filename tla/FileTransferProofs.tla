------------------------- MODULE FileTransferProofs -------------------------
(***************************************************************************)
(* Theorems of FileTransfer, for any finite set of transfers and any Size  *)
(* and capacities: every variable keeps its type, no temporary directory   *)
(* and no dialog is forgotten, only complete receives are announced, a     *)
(* receive that outlives its session stays empty, and Receipt is           *)
(* implemented.                                                            *)
(*                                                                         *)
(* Types is TypeOK in the parts that steps change together.  Each of the   *)
(* other invariants is inductive with it and with what handleDone's steps  *)
(* between the table and the announcement still know of the receive they   *)
(* hold; OrphanInv follows the frames of a transfer through the lanes.     *)
(***************************************************************************)
EXTENDS FileTransfer, FiniteSetTheorems, SequenceTheorems, TLAPS

(***************************************************************************)
(* Lanes.                                                                  *)
(***************************************************************************)

\* What a lane holds after a frame is taken from it, or put on it.
LEMMA TailFrames ==
    ASSUME NEW S, NEW q \in Seq(S), q # <<>>
    PROVE  /\ Head(q) \in S /\ Head(q) = q[1] /\ Tail(q) \in Seq(S)
           /\ Len(q) \in Nat /\ Len(q) >= 1 /\ Len(Tail(q)) = Len(q) - 1
           /\ \A i \in 1..Len(q) - 1 : Tail(q)[i] = q[i + 1]
<1>1. Len(q) \in Nat /\ Len(q) >= 1
  BY EmptySeq
<1>2. QED
  BY <1>1, HeadTailProperties

LEMMA QueuedFrames ==
    ASSUME NEW S, NEW q \in Seq(S), Len(q) <= HighCap, NEW f \in S
    PROVE  /\ Queued(q, f) = q \/ Queued(q, f) = Append(q, f)
           /\ Queued(q, f) \in Seq(S) /\ Len(Queued(q, f)) <= HighCap
<1>1. CASE Len(q) < HighCap
  <2>1. Queued(q, f) = Append(q, f)
    BY <1>1 DEF Queued
  <2>2. Append(q, f) \in Seq(S) /\ Len(Append(q, f)) = Len(q) + 1
    BY AppendProperties
  <2>3. Len(q) + 1 <= HighCap
    BY <1>1, SizeAssumption
  <2>4. QED
    BY <2>1, <2>2, <2>3
<1>2. CASE ~(Len(q) < HighCap)
  BY <1>2 DEF Queued
<1>3. QED
  BY <1>1, <1>2

LEMMA QueuedAllFrames ==
    ASSUME NEW S, NEW q \in Seq(S), Len(q) <= HighCap, NEW fs \in Seq(S)
    PROVE  LET r == QueuedAll(q, fs)
           IN  /\ r \in Seq(S) /\ Len(r) <= HighCap /\ Len(r) >= Len(q)
               /\ \A i \in 1..Len(q) : r[i] = q[i]
               /\ \A i \in 1..Len(r) : i > Len(q) => \E j \in 1..Len(fs) : r[i] = fs[j]
<1> DEFINE room == HighCap - Len(q)
<1> DEFINE n == IF Len(fs) <= room THEN Len(fs) ELSE room
<1> DEFINE first == SubSeq(fs, 1, n)
<1>1. n \in 0..Len(fs) /\ n <= room /\ Len(q) \in Nat /\ Len(fs) \in Nat /\ HighCap \in Nat
  BY SizeAssumption
<1>2. QueuedAll(q, fs) = q \o first
  BY DEF QueuedAll
<1> HIDE DEF n
<1>3. /\ first \in Seq(S) /\ Len(first) = n
      /\ \A i \in 1..n : first[i] = fs[i]
  BY <1>1, SubSeqProperties
<1> HIDE DEF first
<1>4. /\ q \o first \in Seq(S) /\ Len(q \o first) = Len(q) + n
      /\ \A i \in 1..Len(q) + n :
            (q \o first)[i] = IF i <= Len(q) THEN q[i] ELSE first[i - Len(q)]
  BY <1>3, ConcatProperties
<1>5. \A i \in 1..Len(q) + n : i > Len(q) => i - Len(q) \in 1..n /\ i - Len(q) \in 1..Len(fs)
  BY <1>1
<1>6. QED
  BY <1>1, <1>2, <1>3, <1>4, <1>5

\* CancelAll's frames.
LEMMA Listed ==
    ASSUME NEW T \in SUBSET Transfers, NEW ids \in SetToSeqs(T)
    PROVE  ids \in Seq(Transfers)
<1>1. IsFiniteSet(T)
  BY TransfersAssumption, FS_Subset
<1>2. Cardinality(T) \in Nat
  BY <1>1, FS_CardinalityType
<1>3. ids \in [1..Cardinality(T) -> T]
  BY DEF SetToSeqs
<1>4. QED
  BY <1>2, <1>3

(***************************************************************************)
(* Types.                                                                  *)
(***************************************************************************)

\* The parts of TypeOK that the steps change together.  A stream that has a chunk
\* to send has read one, so that the chunk's place in the file is in the range.
SenderTypes ==
    /\ stream \in [Transfers -> Streams] /\ sent \in [Transfers -> 0..(Size + 1)]
    /\ outbound \subseteq Transfers
    /\ accepted \subseteq Transfers /\ canceled \subseteq Transfers
    /\ \A t \in Transfers : stream[t] \in {"chunk", "blocked"} => sent[t] >= 1

LaneTypes ==
    /\ high \in Seq(Frames) /\ Len(high) <= HighCap
    /\ file \in Seq(Frames) /\ Len(file) <= FileCap
    /\ wire \in Seq(Frames) /\ Len(wire) <= WireCap

ReplyTypes == replies \in Seq(Replies) /\ Len(replies) <= HighCap

HandTypes == hand \in {Idle} \cup [step : Hands, id : Transfers, at : 0..Size]

ReceiverTypes ==
    /\ active \subseteq Transfers /\ open \subseteq Transfers
    /\ finished \subseteq Transfers
    /\ got \in [Transfers -> 0..Size]
    /\ dir \subseteq Transfers /\ announced \subseteq Transfers
    /\ dialog \in [Transfers -> Dialogs]

SessionTypes ==
    /\ live \in BOOLEAN
    /\ sEnd \in {"up", "drain", "cancel", "unset", "down"}
    /\ rEnd \in {"up", "drain", "cancel", "reap", "down"}
    /\ doomed \subseteq Transfers /\ orphans \subseteq Transfers

Types ==
    /\ SenderTypes /\ LaneTypes /\ ReplyTypes
    /\ HandTypes /\ ReceiverTypes /\ SessionTypes

LEMMA EmptyLane == \A S : <<>> \in Seq(S) /\ Len(<<>>) = 0
  OBVIOUS

LEMMA TypesInit == Init => Types
<1> SUFFICES ASSUME Init PROVE Types
  OBVIOUS
<1>1. SenderTypes
  BY SizeAssumption DEF Init, SenderTypes, Streams
<1>2. LaneTypes /\ ReplyTypes
  BY EmptyLane, SizeAssumption DEF Init, LaneTypes, ReplyTypes
<1>3. HandTypes
  BY DEF Init, HandTypes
<1>4. ReceiverTypes
  BY SizeAssumption DEF Init, ReceiverTypes, Dialogs
<1>5. SessionTypes
  BY DEF Init, SessionTypes
<1>6. QED
  BY <1>1, <1>2, <1>3, <1>4, <1>5 DEF Types

LEMMA FrameTypes ==
    /\ \A t \in Transfers, kind \in {"offer", "chunk", "done", "cancel"} : Frame(kind, t) \in Frames
    /\ \A t \in Transfers, kind \in {"accept", "cancel"} : Reply(kind, t) \in Replies
  BY SizeAssumption DEF Frame, Frames, Reply, Replies

\* The handler has a receive in hand while it is in a step.
LEMMA HandHolds ==
    ASSUME HandTypes, hand.step \in Hands
    PROVE  hand.id \in Transfers /\ hand.at \in 0..Size
  BY DEF HandTypes, Idle, Hands

LEMMA SendTypes ==
    ASSUME LaneTypes, NEW t \in Transfers, NEW kind \in {"offer", "done", "cancel"},
           Send(Frame(kind, t))
    PROVE  high' \in Seq(Frames) /\ Len(high') <= HighCap
  BY FrameTypes, QueuedFrames DEF Send, LaneTypes

LEMMA AnswerTypes ==
    ASSUME ReplyTypes, NEW t \in Transfers, NEW kind \in {"accept", "cancel"},
           Answer(Reply(kind, t))
    PROVE  ReplyTypes'
  BY FrameTypes, QueuedFrames DEF Answer, ReplyTypes

LEMMA DeliverTypes ==
    ASSUME LaneTypes, NEW f \in Frames, Deliver(f)
    PROVE  wire' \in Seq(Frames) /\ Len(wire') <= WireCap
<1>1. CASE wire' = wire
  BY <1>1 DEF LaneTypes
<1>2. CASE Len(wire) < WireCap /\ wire' = Append(wire, f)
  <2>1. wire \in Seq(Frames) /\ Len(wire) \in Nat
    BY DEF LaneTypes
  <2>2. wire' \in Seq(Frames) /\ Len(wire') = Len(wire) + 1
    BY <1>2, <2>1, AppendProperties
  <2>3. QED
    BY <1>2, <2>1, <2>2, SizeAssumption
<1>3. QED
  BY <1>1, <1>2 DEF Deliver

\* What a step leaves alone keeps its types.
LEMMA Untouched ==
    /\ SenderTypes /\ UNCHANGED sender => SenderTypes'
    /\ LaneTypes /\ UNCHANGED <<lanes, wire>> => LaneTypes'
    /\ ReplyTypes /\ UNCHANGED replies => ReplyTypes'
    /\ HandTypes /\ UNCHANGED hand => HandTypes'
    /\ ReceiverTypes /\ UNCHANGED <<receives, announced, dialog>> => ReceiverTypes'
    /\ SessionTypes /\ UNCHANGED session => SessionTypes'
<1>1. SenderTypes /\ UNCHANGED sender => SenderTypes'
  BY DEF SenderTypes, sender
<1>2. LaneTypes /\ UNCHANGED <<lanes, wire>> => LaneTypes'
  BY DEF LaneTypes, lanes
<1>3. ReplyTypes /\ UNCHANGED replies => ReplyTypes'
  BY DEF ReplyTypes
<1>4. HandTypes /\ UNCHANGED hand => HandTypes'
  BY DEF HandTypes
<1>5. ReceiverTypes /\ UNCHANGED <<receives, announced, dialog>> => ReceiverTypes'
  BY DEF ReceiverTypes, receives
<1>6. SessionTypes /\ UNCHANGED session => SessionTypes'
  BY DEF SessionTypes, session
<1>7. QED
  BY <1>1, <1>2, <1>3, <1>4, <1>5, <1>6

LEMMA SenderStepTypes ==
    ASSUME Types, NEW t \in Transfers, StartSend(t) \/ Sender(t)
    PROVE  Types'
<1>0. SenderTypes /\ LaneTypes /\ ReplyTypes /\ HandTypes /\ ReceiverTypes /\ SessionTypes
  BY DEF Types
<1>1. CASE StartSend(t)
  <2>1. SenderTypes'
    BY <1>0, <1>1, SizeAssumption DEF StartSend, SenderTypes, Streams
  <2>2. LaneTypes'
    <3>1. high' \in Seq(Frames) /\ Len(high') <= HighCap
      BY <1>0, <1>1, SendTypes DEF StartSend
    <3>2. QED
      BY <1>0, <1>1, <3>1 DEF StartSend, LaneTypes
  <2>3. ReceiverTypes'
    BY <1>0, <1>1, SizeAssumption DEF StartSend, ReceiverTypes
  <2>4. SessionTypes'
    BY <1>0, <1>1 DEF StartSend, SessionTypes
  <2>5. ReplyTypes' /\ HandTypes'
    BY <1>0, <1>1, Untouched DEF StartSend
  <2>6. QED
    BY <2>1, <2>2, <2>3, <2>4, <2>5 DEF Types
<1>2. CASE Start(t) \/ GiveUp(t) \/ Read(t) \/ OfferChunk(t) \/ Clear(t)
  <2>1. /\ UNCHANGED <<lanes, wire, replies, receiver, session>>
        /\ accepted' = accepted /\ canceled' = canceled
        /\ outbound' = outbound \/ outbound' = outbound \ {t}
        /\ sent' = sent \/ (sent[t] <= Size /\ sent' = [sent EXCEPT ![t] = @ + 1])
        /\ \E label \in Streams :
                /\ stream' = [stream EXCEPT ![t] = label]
                /\ label \in {"chunk", "blocked"} =>
                        stream[t] = "chunk" \/ sent' = [sent EXCEPT ![t] = @ + 1]
    BY <1>2 DEF Start, GiveUp, Read, OfferChunk, Clear, Step, Streams
  <2>2. sent' \in [Transfers -> 0..(Size + 1)]
    BY <1>0, <2>1, SizeAssumption DEF SenderTypes
  <2>3. stream' \in [Transfers -> Streams]
    BY <1>0, <2>1 DEF SenderTypes
  <2>4. \A u \in Transfers : stream'[u] \in {"chunk", "blocked"} => sent'[u] >= 1
    BY <1>0, <2>1 DEF SenderTypes
  <2>5. SenderTypes'
    BY <1>0, <2>1, <2>2, <2>3, <2>4 DEF SenderTypes
  <2>6. QED
    BY <1>0, <2>1, <2>5, Untouched DEF Types, receiver
<1>3. CASE SendChunk(t)
  <2> DEFINE f == [kind |-> "chunk", id |-> t, at |-> sent[t] - 1]
  <2>1. /\ stream' = [stream EXCEPT ![t] = "reading"] /\ file' = Append(file, f)
        /\ Len(file) < FileCap
        /\ UNCHANGED <<sent, outbound, accepted, canceled, high, wire, receiver, replies, session>>
    BY <1>3 DEF SendChunk, Step
  <2>2. SenderTypes'
    BY <1>0, <2>1 DEF SenderTypes, Streams
  <2>3. f \in Frames
    <3>1. stream[t] = "blocked" /\ sent[t] >= 1 /\ sent[t] \in 0..(Size + 1)
      BY <1>0, <1>3 DEF SendChunk, SenderTypes
    <3>2. sent[t] - 1 \in 0..Size
      BY <3>1, SizeAssumption
    <3>3. QED
      BY <3>2 DEF Frames
  <2> HIDE DEF f
  <2>4. file' \in Seq(Frames) /\ Len(file') <= FileCap
    <3>1. file \in Seq(Frames) /\ Len(file) \in Nat
      BY <1>0 DEF LaneTypes
    <3>2. file' \in Seq(Frames) /\ Len(file') = Len(file) + 1
      BY <2>1, <2>3, <3>1, AppendProperties
    <3>3. QED
      BY <2>1, <3>1, <3>2, SizeAssumption
  <2>5. LaneTypes'
    BY <1>0, <2>1, <2>4 DEF LaneTypes
  <2>6. QED
    BY <1>0, <2>1, <2>2, <2>5, Untouched DEF Types, receiver
<1>4. CASE SendLast(t)
  <2>1. stream[t] \in {"done", "cancel"} /\ Send(Frame(stream[t], t))
    BY <1>4 DEF SendLast
  <2>2. high' \in Seq(Frames) /\ Len(high') <= HighCap
    BY <1>0, <2>1, SendTypes
  <2>3. LaneTypes'
    BY <1>0, <1>4, <2>2 DEF SendLast, LaneTypes
  <2>4. SenderTypes'
    BY <1>0, <1>4 DEF SendLast, Step, SenderTypes, Streams
  <2>5. QED
    BY <1>0, <1>4, <2>3, <2>4, Untouched DEF SendLast, Types, receiver
<1>5. QED
  BY <1>1, <1>2, <1>3, <1>4 DEF Sender

LEMMA ReplyStepTypes == ASSUME Types, HandleReply PROVE Types'
<1>0. SenderTypes /\ LaneTypes /\ ReplyTypes /\ HandTypes /\ ReceiverTypes /\ SessionTypes
  BY DEF Types
<1>1. replies \in Seq(Replies) /\ replies # <<>> /\ replies' = Tail(replies)
  BY <1>0 DEF HandleReply, ReplyTypes
<1>2. ReplyTypes'
  BY <1>0, <1>1, TailFrames, SizeAssumption DEF ReplyTypes
<1>3. SenderTypes'
  BY <1>0 DEF HandleReply, SenderTypes
<1>4. QED
  BY <1>0, <1>2, <1>3, Untouched DEF HandleReply, Types, receiver

LEMMA WriterTypes ==
    ASSUME Types, WriteHigh \/ WriteFile
    PROVE  Types'
<1>0. /\ SenderTypes /\ LaneTypes /\ ReplyTypes /\ HandTypes /\ ReceiverTypes /\ SessionTypes
      /\ high \in Seq(Frames) /\ file \in Seq(Frames)
  BY DEF Types, LaneTypes
<1>1. LaneTypes'
  <2>1. CASE WriteHigh
    <3>1. /\ Head(high) \in Frames /\ high' \in Seq(Frames) /\ Len(high') <= HighCap
      BY <1>0, <2>1, TailFrames, SizeAssumption DEF WriteHigh, LaneTypes
    <3>2. wire' \in Seq(Frames) /\ Len(wire') <= WireCap
      BY <1>0, <2>1, <3>1, DeliverTypes DEF WriteHigh
    <3>3. QED
      BY <1>0, <2>1, <3>1, <3>2 DEF WriteHigh, LaneTypes
  <2>2. CASE WriteFile
    <3>1. /\ Head(file) \in Frames /\ file' \in Seq(Frames) /\ Len(file') <= FileCap
      BY <1>0, <2>2, TailFrames, SizeAssumption DEF WriteFile, LaneTypes
    <3>2. wire' \in Seq(Frames) /\ Len(wire') <= WireCap
      BY <1>0, <2>2, <3>1, DeliverTypes DEF WriteFile
    <3>3. QED
      BY <1>0, <2>2, <3>1, <3>2 DEF WriteFile, LaneTypes
  <2>3. QED
    BY <2>1, <2>2
<1>2. QED
  BY <1>0, <1>1, Untouched DEF WriteHigh, WriteFile, Types, receiver

LEMMA ReceivedTypes ==
    ASSUME LaneTypes, NEW kind, Receive(kind)
    PROVE  /\ Head(wire) \in Frames /\ Head(wire).id \in Transfers /\ Head(wire).at \in 0..Size
           /\ wire' \in Seq(Frames) /\ Len(wire') <= WireCap
<1>1. wire \in Seq(Frames) /\ wire # <<>> /\ Len(wire) <= WireCap /\ wire' = Tail(wire)
  BY DEF Receive, LaneTypes
<1>2. Head(wire) \in Frames /\ wire' \in Seq(Frames) /\ Len(wire') <= WireCap
  BY <1>1, TailFrames, SizeAssumption
<1>3. QED
  BY <1>2 DEF Frames

LEMMA HandlerTypes ==
    ASSUME Types, InboundLoop
    PROVE  Types'
<1>0. SenderTypes /\ LaneTypes /\ ReplyTypes /\ HandTypes /\ ReceiverTypes /\ SessionTypes
  BY DEF Types
<1>1. /\ UNCHANGED sender /\ UNCHANGED lanes
      /\ Register \/ UNCHANGED session
  BY DEF InboundLoop, HandleOffer, Register, HandleChunk, Write, Abort, HandleDone, Reject,
     Complete, Announce, HandleCancel
<1>2. SenderTypes'
  BY <1>0, <1>1, Untouched
<1>3. LaneTypes'
  <2>1. CASE \E kind \in {"offer", "chunk", "done", "cancel"} : Receive(kind)
    <3>1. wire' \in Seq(Frames) /\ Len(wire') <= WireCap
      BY <1>0, <2>1, ReceivedTypes
    <3>2. QED
      BY <1>0, <1>1, <3>1 DEF LaneTypes, lanes
  <2>2. CASE wire' = wire
    BY <1>0, <1>1, <2>2, Untouched
  <2>3. QED
    BY <2>1, <2>2 DEF InboundLoop, HandleOffer, Register, HandleChunk, Write, Abort, HandleDone,
       Reject, Complete, Announce, HandleCancel
<1>4. ASSUME NEW step \in Hands, NEW t \in Transfers, NEW at \in 0..Size, Hand(step, t, at)
      PROVE  HandTypes'
  BY <1>4 DEF Hand, HandTypes
<1>5. hand' = Idle => HandTypes'
  BY DEF HandTypes
<1>6. 0 \in 0..Size
  BY SizeAssumption
<1>7. CASE HandleOffer
  <2>1. Head(wire).id \in Transfers
    BY <1>0, <1>7, ReceivedTypes DEF HandleOffer
  <2>2. HandTypes'
    BY <1>0, <1>4, <1>6, <1>7, <2>1, Untouched DEF HandleOffer, Hands
  <2>3. ReplyTypes'
    BY <1>0, <1>7, <2>1, AnswerTypes, Untouched DEF HandleOffer
  <2>4. ReceiverTypes'
    BY <1>0, <1>7, <2>1 DEF HandleOffer, ReceiverTypes
  <2>5. QED
    BY <1>0, <1>1, <1>2, <1>3, <1>7, <2>2, <2>3, <2>4, Untouched DEF HandleOffer, Types
<1>8. CASE Register
  <2>1. hand.id \in Transfers
    BY <1>0, <1>8, HandHolds DEF Register, Hands
  <2>2. ReplyTypes'
    BY <1>0, <1>8, <2>1, AnswerTypes DEF Register
  <2>3. ReceiverTypes'
    BY <1>0, <1>8, <2>1 DEF Register, ReceiverTypes, Dialogs
  <2>4. SessionTypes'
    BY <1>0, <1>8, <2>1 DEF Register, SessionTypes
  <2>5. HandTypes'
    BY <1>5, <1>8 DEF Register
  <2>6. QED
    BY <1>2, <1>3, <2>2, <2>3, <2>4, <2>5 DEF Types
<1>9. CASE HandleChunk
  <2>1. Head(wire).id \in Transfers /\ Head(wire).at \in 0..Size
    BY <1>0, <1>9, ReceivedTypes DEF HandleChunk
  <2>2. HandTypes'
    BY <1>0, <1>4, <1>9, <2>1, Untouched DEF HandleChunk, Hands
  <2>3. QED
    BY <1>0, <1>2, <1>3, <1>9, <2>2, Untouched DEF HandleChunk, Types
<1>10. CASE Write
  <2>1. hand.id \in Transfers
    BY <1>0, <1>10, HandHolds DEF Write, Hands
  <2>2. HandTypes'
    BY <1>4, <1>5, <1>6, <1>10, <2>1 DEF Write, Hands
  <2>3. got' \in [Transfers -> 0..Size]
    BY <1>0, <1>10, <2>1, SizeAssumption DEF Write, ReceiverTypes
  <2>4. ReceiverTypes'
    BY <1>0, <1>10, <2>3 DEF Write, ReceiverTypes
  <2>5. QED
    BY <1>0, <1>2, <1>3, <1>10, <2>2, <2>4, Untouched DEF Write, Types
<1>11. CASE Abort
  <2>1. hand.id \in Transfers
    BY <1>0, <1>11, HandHolds DEF Abort, Hands
  <2>2. ReplyTypes'
    BY <1>0, <1>11, <2>1, AnswerTypes, Untouched DEF Abort
  <2>3. ReceiverTypes'
    BY <1>0, <1>11, <2>1 DEF Abort, Teardown, ReceiverTypes
  <2>4. HandTypes'
    BY <1>5, <1>11 DEF Abort
  <2>5. QED
    BY <1>0, <1>2, <1>3, <1>11, <2>2, <2>3, <2>4, Untouched DEF Abort, Types
<1>12. CASE HandleDone
  <2>1. Head(wire).id \in Transfers
    BY <1>0, <1>12, ReceivedTypes DEF HandleDone
  <2>2. HandTypes'
    BY <1>0, <1>4, <1>6, <1>12, <2>1, Untouched DEF HandleDone, Hands
  <2>3. ReceiverTypes'
    BY <1>0, <1>12 DEF HandleDone, ReceiverTypes
  <2>4. QED
    BY <1>0, <1>2, <1>3, <1>12, <2>2, <2>3, Untouched DEF HandleDone, Types
<1>13. CASE Reject
  <2>1. hand.id \in Transfers
    BY <1>0, <1>13, HandHolds DEF Reject, Hands
  <2>2. ReplyTypes'
    BY <1>0, <1>13, <2>1, AnswerTypes DEF Reject
  <2>3. ReceiverTypes'
    BY <1>0, <1>13, <2>1 DEF Reject, Teardown, ReceiverTypes
  <2>4. HandTypes'
    BY <1>5, <1>13 DEF Reject
  <2>5. QED
    BY <1>0, <1>2, <1>3, <1>13, <2>2, <2>3, <2>4, Untouched DEF Reject, Types
<1>14. CASE Complete \/ Announce
  <2>1. hand.id \in Transfers
    BY <1>0, <1>14, HandHolds DEF Complete, Announce, Hands
  <2>2. HandTypes'
    BY <1>4, <1>5, <1>6, <1>14, <2>1 DEF Complete, Announce, Hands
  <2>3. ReceiverTypes'
    BY <1>0, <1>14, <2>1 DEF Complete, Announce, ReceiverTypes, receives
  <2>4. QED
    BY <1>0, <1>2, <1>3, <1>14, <2>2, <2>3, Untouched DEF Complete, Announce, Types
<1>15. CASE HandleCancel
  <2>1. Head(wire).id \in Transfers
    BY <1>0, <1>15, ReceivedTypes DEF HandleCancel
  <2>2. ReceiverTypes'
    BY <1>0, <1>15, <2>1 DEF HandleCancel, Teardown, ReceiverTypes
  <2>3. QED
    BY <1>0, <1>2, <1>3, <1>15, <2>2, Untouched DEF HandleCancel, Types
<1>16. QED
  BY <1>7, <1>8, <1>9, <1>10, <1>11, <1>12, <1>13, <1>14, <1>15 DEF InboundLoop

LEMMA DialogTypes ==
    ASSUME Types, NEW t \in Transfers, Progress(t) \/ Collect(t)
    PROVE  Types'
<1>0. SenderTypes /\ LaneTypes /\ ReplyTypes /\ HandTypes /\ ReceiverTypes /\ SessionTypes
  BY DEF Types
<1>1. UNCHANGED <<sender, lanes, wire, hand, session>>
  BY DEF Progress, Collect, DialogPoll, DialogGoesOn, DialogCancel, DialogDelete, DialogRemove,
     session
<1>2. ReplyTypes'
  <2>1. CASE DialogCancel(t)
    BY <1>0, <2>1, AnswerTypes DEF DialogCancel
  <2>2. CASE replies' = replies
    BY <1>0, <2>2, Untouched
  <2>3. QED
    BY <2>1, <2>2 DEF Progress, Collect, DialogPoll, DialogGoesOn, DialogDelete, DialogRemove
<1>3. ReceiverTypes'
  BY <1>0 DEF Progress, Collect, DialogPoll, DialogGoesOn, DialogCancel, DialogDelete,
     DialogRemove, Dialog, Teardown, receives, ReceiverTypes, Dialogs
<1>4. QED
  BY <1>0, <1>1, <1>2, <1>3, Untouched DEF Types

LEMMA SessionStepTypes ==
    ASSUME Types, SessionEnds \/ Callbacks \/ SessionBegins
    PROVE  Types'
<1>0. SenderTypes /\ LaneTypes /\ ReplyTypes /\ HandTypes /\ ReceiverTypes /\ SessionTypes
  BY DEF Types
<1>1. CASE SessionEnds
  <2>1. SessionTypes'
    BY <1>0, <1>1 DEF SessionEnds, SessionTypes
  <2>2. QED
    BY <1>0, <1>1, <2>1, Untouched DEF SessionEnds, Types, receiver
<1>2. CASE SenderDrains \/ SenderUnsets
  <2>1. SessionTypes'
    BY <1>0, <1>2 DEF SenderDrains, SenderUnsets, SessionTypes
  <2>2. LaneTypes'
    <3>1. CASE SenderDrains
      BY <1>0, <3>1, EmptyLane, SizeAssumption DEF SenderDrains, LaneTypes
    <3>2. CASE SenderUnsets
      BY <1>0, <3>2, Untouched DEF SenderUnsets
    <3>3. QED
      BY <1>2, <3>1, <3>2
  <2>3. QED
    BY <1>0, <1>2, <2>1, <2>2, Untouched DEF SenderDrains, SenderUnsets, Types, receiver
<1>3. CASE SenderCancels
  <2>1. PICK ids \in SetToSeqs(outbound) :
            high' = QueuedAll(high, [i \in 1..Len(ids) |-> Frame("cancel", ids[i])])
    BY <1>3 DEF SenderCancels
  <2> DEFINE cancels == [i \in 1..Len(ids) |-> Frame("cancel", ids[i])]
  <2>2. ids \in Seq(Transfers)
    BY <1>0, Listed DEF SenderTypes
  <2>3. cancels \in Seq(Frames)
    BY <2>2, FrameTypes
  <2> HIDE DEF cancels
  <2>4. high' \in Seq(Frames) /\ Len(high') <= HighCap
    BY <1>0, <2>1, <2>3, QueuedAllFrames DEF LaneTypes, cancels
  <2>5. LaneTypes'
    BY <1>0, <1>3, <2>4 DEF SenderCancels, LaneTypes
  <2>6. SenderTypes'
    BY <1>0, <1>3 DEF SenderCancels, SenderTypes
  <2>7. SessionTypes'
    BY <1>0, <1>3 DEF SenderCancels, SessionTypes
  <2>8. QED
    BY <1>0, <1>3, <2>5, <2>6, <2>7, Untouched DEF SenderCancels, Types, receiver
<1>4. CASE ReceiverDrains
  <2>1. SessionTypes'
    BY <1>0, <1>4 DEF ReceiverDrains, SessionTypes
  <2>2. LaneTypes' /\ ReplyTypes'
    BY <1>0, <1>4, EmptyLane, SizeAssumption DEF ReceiverDrains, LaneTypes, ReplyTypes, lanes
  <2>3. QED
    BY <1>0, <1>4, <2>1, <2>2, Untouched DEF ReceiverDrains, Types, receiver
<1>5. CASE ReceiverCancels
  <2>1. PICK ids \in SetToSeqs(active) :
            replies' = QueuedAll(replies, [i \in 1..Len(ids) |-> Reply("cancel", ids[i])])
    BY <1>5 DEF ReceiverCancels
  <2> DEFINE cancels == [i \in 1..Len(ids) |-> Reply("cancel", ids[i])]
  <2>2. ids \in Seq(Transfers)
    BY <1>0, Listed DEF ReceiverTypes
  <2>3. cancels \in Seq(Replies)
    BY <2>2, FrameTypes
  <2> HIDE DEF cancels
  <2>4. ReplyTypes'
    BY <1>0, <2>1, <2>3, QueuedAllFrames DEF ReplyTypes, cancels
  <2>5. SessionTypes'
    BY <1>0, <1>5 DEF ReceiverCancels, SessionTypes, ReceiverTypes
  <2>6. QED
    BY <1>0, <1>5, <2>4, <2>5, Untouched DEF ReceiverCancels, Types, receiver
<1>6. ASSUME NEW t \in Transfers, Reap(t)
      PROVE  Types'
  <2>1. SessionTypes' /\ ReceiverTypes'
    BY <1>0, <1>6 DEF Reap, Teardown, SessionTypes, ReceiverTypes
  <2>2. QED
    BY <1>0, <1>6, <2>1, Untouched DEF Reap, Types
<1>7. CASE ReceiverUnsets
  <2>1. SessionTypes'
    BY <1>0, <1>7 DEF ReceiverUnsets, SessionTypes, ReceiverTypes
  <2>2. QED
    BY <1>0, <1>7, <2>1, Untouched DEF ReceiverUnsets, Types, receiver
<1>8. CASE SessionBegins
  <2>1. SessionTypes'
    BY <1>0, <1>8 DEF SessionBegins, SessionTypes
  <2>2. LaneTypes' /\ ReplyTypes'
    BY <1>0, <1>8, EmptyLane, SizeAssumption DEF SessionBegins, LaneTypes, ReplyTypes
  <2>3. QED
    BY <1>0, <1>8, <2>1, <2>2, Untouched DEF SessionBegins, Types, receiver
<1>9. QED
  BY <1>1, <1>2, <1>3, <1>4, <1>5, <1>6, <1>7, <1>8 DEF Callbacks

LEMMA TypesAreInvariant == Spec => []Types
<1>1. ASSUME Types, [Next]_vars PROVE Types'
  <2>1. CASE Next
    <3>1. CASE \E t \in Transfers : StartSend(t) \/ Sender(t)
      BY <1>1, <3>1, SenderStepTypes
    <3>2. CASE \E t \in Transfers : Progress(t) \/ Collect(t)
      BY <1>1, <3>2, DialogTypes
    <3>3. CASE HandleReply
      BY <1>1, <3>3, ReplyStepTypes
    <3>4. CASE WriteHigh \/ WriteFile \/ InboundLoop
      BY <1>1, <3>4, WriterTypes, HandlerTypes
    <3>5. CASE SessionEnds \/ Callbacks \/ SessionBegins
      BY <1>1, <3>5, SessionStepTypes
    <3>6. QED
      BY <2>1, <3>1, <3>2, <3>3, <3>4, <3>5 DEF Next
  <2>2. CASE UNCHANGED vars
    BY <1>1, <2>2, Untouched DEF Types, vars, receiver
  <2>3. QED
    BY <1>1, <2>1, <2>2
<1>2. QED
  BY <1>1, TypesInit, PTL DEF Spec

\* Every variable keeps its type, for any set of transfers and any capacities:
\* no lane outgrows its bound, and no chunk is read past the end of the file.
THEOREM TypeCorrect == Spec => []TypeOK
<1>1. Types => TypeOK
  BY DEF Types, SenderTypes, LaneTypes, ReplyTypes, HandTypes, ReceiverTypes, SessionTypes, TypeOK,
     Idle
<1>2. QED
  BY <1>1, TypesAreInvariant, PTL

\* What the proofs below use of the types.
DialogShape == dialog \in [Transfers -> Dialogs]
GotShape    == got \in [Transfers -> 0..Size]

LEMMA ShapesAreInvariant == Spec => [](DialogShape /\ GotShape)
<1>1. Types => DialogShape /\ GotShape
  BY DEF Types, ReceiverTypes, DialogShape, GotShape
<1>2. QED
  BY <1>1, TypesAreInvariant, PTL

\* The steps of the sender, the writer and most of the callbacks leave the
\* receiver alone.
OtherStep == UNCHANGED receiver

\* The steps that change the receiver, one by one.
ReceiverStep ==
    \/ HandleOffer \/ Register \/ HandleChunk \/ Write \/ Abort
    \/ HandleDone \/ Reject \/ Complete \/ Announce \/ HandleCancel
    \/ \E t \in Transfers :
          \/ StartSend(t) \/ Collect(t) \/ Reap(t)
          \/ DialogPoll(t) \/ DialogGoesOn(t) \/ DialogCancel(t)
          \/ DialogDelete(t) \/ DialogRemove(t)

\* Every step is one of the two.
LEMMA StepCases == ASSUME [Next]_vars PROVE OtherStep \/ ReceiverStep
<1>1. ASSUME NEW t \in Transfers, Sender(t) PROVE OtherStep
  BY <1>1 DEF Sender, Start, GiveUp, Read, OfferChunk, SendChunk, Clear, SendLast, OtherStep
<1>2. ASSUME NEW t \in Transfers, Progress(t) PROVE ReceiverStep
  BY <1>2 DEF Progress, ReceiverStep
<1>3. CASE HandleReply \/ WriteHigh \/ WriteFile
  BY <1>3 DEF HandleReply, WriteHigh, WriteFile, OtherStep
<1>4. CASE InboundLoop
  BY <1>4 DEF InboundLoop, ReceiverStep
<1>5. CASE SessionEnds \/ SessionBegins
  BY <1>5 DEF SessionEnds, SessionBegins, OtherStep
<1>6. ASSUME Callbacks PROVE OtherStep \/ ReceiverStep
  <2>1. CASE SenderDrains \/ SenderCancels \/ SenderUnsets
    BY <2>1 DEF SenderDrains, SenderCancels, SenderUnsets, OtherStep
  <2>2. CASE ReceiverDrains \/ ReceiverCancels \/ ReceiverUnsets
    BY <2>2 DEF ReceiverDrains, ReceiverCancels, ReceiverUnsets, OtherStep
  <2>3. CASE \E t \in Transfers : Reap(t)
    BY <2>3 DEF ReceiverStep
  <2>4. QED
    BY <1>6, <2>1, <2>2, <2>3 DEF Callbacks
<1>7. CASE UNCHANGED vars
  BY <1>7 DEF vars, OtherStep
<1>8. QED
  BY <1>1, <1>2, <1>3, <1>4, <1>5, <1>6, <1>7 DEF Next, ReceiverStep

(***************************************************************************)
(* Directories and dialogs.                                                *)
(***************************************************************************)

\* No temporary directory is forgotten: DirsAreHeld is inductive once dialog
\* is known to be a function.
THEOREM NoDirForgotten == Spec => []DirsAreHeld
<1>1. Init => DirsAreHeld
  BY DEF Init, DirsAreHeld
<1>2. ASSUME DirsAreHeld, DialogShape, [Next]_vars PROVE DirsAreHeld'
  <2>1. CASE OtherStep
    BY <1>2, <2>1 DEF OtherStep, receiver, receives, DirsAreHeld, Held, InHand
  <2>2. CASE HandleOffer
    BY <1>2, <2>2 DEF HandleOffer, Receive, Hand, DirsAreHeld, Held, InHand, Idle
  <2>3. CASE Register
    BY <1>2, <2>3 DEF Register, DirsAreHeld, DialogShape, Held, InHand, Idle
  <2>4. CASE HandleChunk
    BY <1>2, <2>4 DEF HandleChunk, Receive, Hand, receives, DirsAreHeld, Held, InHand, Idle
  <2>5. CASE Write
    BY <1>2, <2>5 DEF Write, Hand, DirsAreHeld, Held, InHand, Idle
  <2>6. CASE Abort
    BY <1>2, <2>6 DEF Abort, Teardown, DirsAreHeld, Held, InHand, Idle
  <2>7. CASE HandleDone
    BY <1>2, <2>7 DEF HandleDone, Receive, Hand, DirsAreHeld, Held, InHand, Idle
  <2>8. CASE Reject
    BY <1>2, <2>8 DEF Reject, Teardown, DirsAreHeld, Held, InHand, Idle
  <2>9. CASE Complete
    BY <1>2, <2>9 DEF Complete, Hand, DirsAreHeld, Held, InHand, Idle
  <2>10. CASE Announce
    BY <1>2, <2>10 DEF Announce, receives, DirsAreHeld, Held, InHand, Idle
  <2>11. CASE HandleCancel
    BY <1>2, <2>11 DEF HandleCancel, Teardown, DirsAreHeld, Held, InHand
  <2>12. ASSUME NEW t \in Transfers, StartSend(t) \/ Collect(t) \/ Reap(t)
         PROVE DirsAreHeld'
    BY <1>2, <2>12 DEF StartSend, Collect, Reap, Teardown, DirsAreHeld, Held, InHand
  <2>13. ASSUME NEW t \in Transfers,
                DialogPoll(t) \/ DialogGoesOn(t) \/ DialogCancel(t)
         PROVE DirsAreHeld'
    BY <1>2, <2>13 DEF DialogPoll, DialogGoesOn, DialogCancel, Dialog, DialogShape, receives,
       DirsAreHeld, Held, InHand
  <2>14. ASSUME NEW t \in Transfers, DialogDelete(t) \/ DialogRemove(t)
         PROVE DirsAreHeld'
    BY <1>2, <2>14 DEF DialogDelete, DialogRemove, Dialog, DialogShape, Teardown,
       DirsAreHeld, Held, InHand
  <2>15. QED
    BY <1>2, <2>1, <2>2, <2>3, <2>4, <2>5, <2>6, <2>7, <2>8, <2>9, <2>10, <2>11, <2>12,
       <2>13, <2>14, StepCases DEF ReceiverStep
<1>3. QED
  BY <1>1, <1>2, ShapesAreInvariant, PTL DEF Spec

\* After Complete, and until Announce is over, done is closed: the handler may
\* let go of the receive.
AnnouncingIsFinished == \A t \in Transfers : InHand(t, {"announce"}) => t \in finished

\* No dialog is forgotten.
THEOREM NoDialogForgotten == Spec => []DialogsAreHeld
<1> DEFINE Inv == DialogsAreHeld /\ AnnouncingIsFinished
<1>1. Init => Inv
  BY DEF Init, DialogsAreHeld, AnnouncingIsFinished, InHand
<1>2. ASSUME Inv, DialogShape, [Next]_vars PROVE Inv'
  <2> USE DEF DialogsAreHeld, AnnouncingIsFinished, Held, InHand
  <2>1. CASE OtherStep
    BY <1>2, <2>1 DEF OtherStep, receiver, receives
  <2>2. CASE HandleOffer
    BY <1>2, <2>2 DEF HandleOffer, Receive, Hand, Idle
  <2>3. CASE Register
    BY <1>2, <2>3 DEF Register, DialogShape, Idle
  <2>4. CASE HandleChunk
    BY <1>2, <2>4 DEF HandleChunk, Receive, Hand, receives, Idle
  <2>5. CASE Write
    BY <1>2, <2>5 DEF Write, Hand, Idle
  <2>6. CASE Abort
    BY <1>2, <2>6 DEF Abort, Teardown, Idle
  <2>7. CASE HandleDone
    BY <1>2, <2>7 DEF HandleDone, Receive, Hand, Idle
  <2>8. CASE Reject
    BY <1>2, <2>8 DEF Reject, Teardown, Idle
  <2>9. CASE Complete
    BY <1>2, <2>9 DEF Complete, Hand, Idle
  <2>10. CASE Announce
    BY <1>2, <2>10 DEF Announce, receives, Idle
  <2>11. CASE HandleCancel
    BY <1>2, <2>11 DEF HandleCancel, Teardown
  <2>12. ASSUME NEW t \in Transfers, StartSend(t) PROVE Inv'
    BY <1>2, <2>12 DEF StartSend, Unused, Hands
  <2>13. ASSUME NEW t \in Transfers, Collect(t) \/ Reap(t) PROVE Inv'
    BY <1>2, <2>13 DEF Collect, Reap, Teardown
  <2>14. ASSUME NEW t \in Transfers,
                DialogPoll(t) \/ DialogGoesOn(t) \/ DialogCancel(t)
         PROVE Inv'
    BY <1>2, <2>14 DEF DialogPoll, DialogGoesOn, DialogCancel, Dialog, DialogShape, receives
  <2>15. ASSUME NEW t \in Transfers, DialogDelete(t) \/ DialogRemove(t)
         PROVE Inv'
    BY <1>2, <2>15 DEF DialogDelete, DialogRemove, Dialog, DialogShape, Teardown
  <2> HIDE DEF Inv
  <2>16. QED
    BY <1>2, <2>1, <2>2, <2>3, <2>4, <2>5, <2>6, <2>7, <2>8, <2>9, <2>10, <2>11, <2>12,
       <2>13, <2>14, <2>15, StepCases DEF ReceiverStep
<1>3. QED
  BY <1>1, <1>2, ShapesAreInvariant, PTL DEF Spec

(***************************************************************************)
(* Completeness.                                                           *)
(***************************************************************************)

\* A receive that handleDone has accepted is complete.
AcceptedIsComplete ==
    \A t \in Transfers : InHand(t, {"complete", "announce"}) => got[t] = Size

LEMMA CompleteInvariant == Spec => [](AnnouncedComplete /\ AcceptedIsComplete)
<1> DEFINE Inv == AnnouncedComplete /\ AcceptedIsComplete
<1>1. Init => Inv
  BY DEF Init, AnnouncedComplete, AcceptedIsComplete, InHand
<1>2. ASSUME Inv, GotShape, [Next]_vars PROVE Inv'
  <2> USE DEF AnnouncedComplete, AcceptedIsComplete, InHand
  <2>1. CASE OtherStep
    BY <1>2, <2>1 DEF OtherStep, receiver, receives
  <2>2. CASE HandleOffer \/ HandleChunk
    BY <1>2, <2>2 DEF HandleOffer, HandleChunk, Receive, Hand, receives, Idle
  <2>3. CASE Register \/ Abort \/ Reject \/ HandleCancel
    BY <1>2, <2>3 DEF Register, Abort, Reject, HandleCancel, Idle
  <2>4. CASE Write
    BY <1>2, <2>4, SizeAssumption DEF Write, GotShape, Hand, Idle
  <2>5. CASE HandleDone
    BY <1>2, <2>5 DEF HandleDone, Whole, Receive, Hand, Idle
  <2>6. CASE Complete
    BY <1>2, <2>6 DEF Complete, Hand, Idle
  <2>7. CASE Announce
    BY <1>2, <2>7 DEF Announce, receives, Idle
  <2>8. ASSUME NEW t \in Transfers, StartSend(t) PROVE Inv'
    BY <1>2, <2>8 DEF StartSend, Unused, Hands, GotShape
  <2>9. ASSUME NEW t \in Transfers, Collect(t) \/ Reap(t) PROVE Inv'
    BY <1>2, <2>9 DEF Collect, Reap
  <2>10. ASSUME NEW t \in Transfers, Progress(t) PROVE Inv'
    BY <1>2, <2>10 DEF Progress, DialogPoll, DialogGoesOn, DialogCancel, DialogDelete,
       DialogRemove, receives
  <2> HIDE DEF Inv
  <2>11. QED
    BY <1>2, <2>1, <2>2, <2>3, <2>4, <2>5, <2>6, <2>7, <2>8, <2>9, <2>10, StepCases
    DEF ReceiverStep, Progress
<1>3. QED
  BY <1>1, <1>2, ShapesAreInvariant, PTL DEF Spec

\* Only complete receives are announced, whatever overtook what on the way.
THEOREM OnlyWholeAnnounced == Spec => []AnnouncedComplete
  BY CompleteInvariant, PTL

(***************************************************************************)
(* Receives that outlive their session.                                    *)
(***************************************************************************)

\* The lane holds a frame of the kind for t.
Has(lane, kind, t) == \E i \in 1..Len(lane) : lane[i].kind = kind /\ lane[i].id = t

\* It holds at most one offer of each transfer.
Once(lane) ==
    \A i, j \in 1..Len(lane) :
        lane[i].kind = "offer" /\ lane[j].kind = "offer" /\ lane[i].id = lane[j].id => i = j

\* The offer of t is on its way, or the receiver is working on it.
Offered(t) == Has(high, "offer", t) \/ Has(wire, "offer", t) \/ InHand(t, {"register"})

\* There is one offer of a transfer at any time.
OffersOnce ==
    /\ Once(high) /\ Once(wire)
    /\ \A t \in Transfers :
          /\ Has(high, "offer", t) => ~Has(wire, "offer", t)
          /\ InHand(t, {"register"}) => ~Has(high, "offer", t) /\ ~Has(wire, "offer", t)

\* Offers travel in one lane and chunks in the other, and a session has both ends.
LanesApart ==
    /\ \A t \in Transfers : ~Has(file, "offer", t) /\ ~Has(high, "chunk", t)
    /\ live => rEnd = "up"

\* Nothing of the file has been sent: the stream waits for Accept, or is over.
Unaccepted(t) ==
    /\ stream[t] \in {"idle", "waiting"} /\ t \notin accepted /\ got[t] = 0
    /\ ~Has(file, "chunk", t) /\ ~Has(wire, "chunk", t) /\ ~InHand(t, {"write"})

\* Receive t has outlived the session, or CancelAll has looked without seeing it.
Outlives(t) == t \in orphans \/ (rEnd = "reap" /\ t \in active \ doomed)

\* An offer that has not been answered has no chunks yet, and an orphan will have
\* none: a session of its own never brings its Accept to the sender.
Early(t) ==
    /\ Offered(t) => Unaccepted(t) /\ ~Has(replies, "accept", t)
    /\ Outlives(t) =>
          /\ Unaccepted(t) /\ ~Offered(t)
          /\ live => ~Has(replies, "accept", t)

OrphanInv == OffersOnce /\ LanesApart /\ \A t \in Transfers : Early(t)

\* A frame taken from a lane was in it, and one put on it is the only new one.
LEMMA HasTail ==
    ASSUME NEW S, NEW q \in Seq(S), q # <<>>
    PROVE  /\ \A k, t : Has(Tail(q), k, t) => Has(q, k, t)
           /\ Has(q, Head(q).kind, Head(q).id)
           /\ Once(q) => Once(Tail(q))
           /\ Once(q) /\ Head(q).kind = "offer" => ~Has(Tail(q), "offer", Head(q).id)
<1>1. /\ Head(q) = q[1] /\ Len(q) \in Nat /\ Len(q) >= 1 /\ Len(Tail(q)) = Len(q) - 1
      /\ \A i \in 1..Len(q) - 1 : Tail(q)[i] = q[i + 1]
  BY TailFrames
<1>2. \A i \in 1..Len(Tail(q)) : Tail(q)[i] = q[i + 1] /\ i + 1 \in 1..Len(q) /\ i + 1 # 1
  BY <1>1
<1>3. 1 \in 1..Len(q)
  BY <1>1
<1>4. \A k, t : Has(Tail(q), k, t) => Has(q, k, t)
  BY <1>2 DEF Has
<1>5. Has(q, Head(q).kind, Head(q).id)
  BY <1>1, <1>3 DEF Has
<1>6. ASSUME Once(q), NEW i \in 1..Len(Tail(q)), NEW j \in 1..Len(Tail(q)),
             Tail(q)[i].kind = "offer", Tail(q)[j].kind = "offer", Tail(q)[i].id = Tail(q)[j].id
      PROVE  i = j
  <2>1. i + 1 = j + 1
    BY <1>2, <1>6 DEF Once
  <2>2. QED
    BY <1>1, <2>1
<1>7. Once(q) /\ Head(q).kind = "offer" => ~Has(Tail(q), "offer", Head(q).id)
  BY <1>1, <1>2, <1>3 DEF Has, Once
<1>8. QED
  BY <1>4, <1>5, <1>6, <1>7 DEF Once

LEMMA HasAppend ==
    ASSUME NEW S, NEW q \in Seq(S), NEW f \in S
    PROVE  /\ \A k, t : Has(Append(q, f), k, t) => Has(q, k, t) \/ (k = f.kind /\ t = f.id)
           /\ Once(q) /\ (f.kind = "offer" => ~Has(q, "offer", f.id)) => Once(Append(q, f))
<1>1. /\ Len(q) \in Nat /\ Len(Append(q, f)) = Len(q) + 1
      /\ \A i \in 1..Len(q) : Append(q, f)[i] = q[i]
      /\ Append(q, f)[Len(q) + 1] = f
  BY AppendProperties
<1>2. \A i \in 1..Len(Append(q, f)) : i \in 1..Len(q) \/ i = Len(q) + 1
  BY <1>1
<1>3. \A k, t : Has(Append(q, f), k, t) => Has(q, k, t) \/ (k = f.kind /\ t = f.id)
  BY <1>1, <1>2 DEF Has
<1>4. Once(q) /\ (f.kind = "offer" => ~Has(q, "offer", f.id)) => Once(Append(q, f))
  BY <1>1, <1>2 DEF Once, Has
<1>5. QED
  BY <1>3, <1>4

LEMMA HasQueued ==
    ASSUME NEW S, NEW q \in Seq(S), Len(q) <= HighCap, NEW f \in S
    PROVE  /\ \A k, t : Has(Queued(q, f), k, t) => Has(q, k, t) \/ (k = f.kind /\ t = f.id)
           /\ Once(q) /\ (f.kind = "offer" => ~Has(q, "offer", f.id)) => Once(Queued(q, f))
<1>1. CASE Queued(q, f) = q
  BY <1>1
<1>2. CASE Queued(q, f) = Append(q, f)
  BY <1>2, HasAppend
<1>3. QED
  BY <1>1, <1>2, QueuedFrames

LEMMA HasQueuedAll ==
    ASSUME NEW S, NEW q \in Seq(S), Len(q) <= HighCap, NEW fs \in Seq(S),
           \A j \in 1..Len(fs) : fs[j].kind = "cancel"
    PROVE  /\ \A k, t : k # "cancel" /\ Has(QueuedAll(q, fs), k, t) => Has(q, k, t)
           /\ Once(q) => Once(QueuedAll(q, fs))
<1> DEFINE r == QueuedAll(q, fs)
<1>1. /\ Len(r) \in Nat /\ Len(q) \in Nat /\ Len(q) <= Len(r)
      /\ \A i \in 1..Len(q) : r[i] = q[i]
      /\ \A i \in 1..Len(r) : i > Len(q) => r[i].kind = "cancel"
  BY QueuedAllFrames
<1>2. \A i \in 1..Len(r) : r[i].kind # "cancel" => i \in 1..Len(q)
  BY <1>1
<1> HIDE DEF r
<1>3. \A k, t : k # "cancel" /\ Has(r, k, t) => Has(q, k, t)
  BY <1>1, <1>2 DEF Has
<1>4. Once(q) => Once(r)
  BY <1>1, <1>2 DEF Once
<1>5. QED
  BY <1>3, <1>4 DEF r

LEMMA HasNothing == \A k, t : ~Has(<<>>, k, t) /\ Once(<<>>)
  BY EmptyLane DEF Has, Once

\* A step that is calm for t brings neither its offer, nor its Accept, nor
\* anything of its file any further.
Calm(t) ==
    /\ Offered(t)' => Offered(t)
    /\ Unaccepted(t) /\ (live => ~Has(replies, "accept", t)) => Unaccepted(t)'
    /\ Has(replies, "accept", t)' => Has(replies, "accept", t)
    /\ live' /\ Has(replies, "accept", t)' => live
    /\ Outlives(t)' => Outlives(t)

LEMMA CalmKeeps == ASSUME NEW t, Early(t), Calm(t) PROVE Early(t)'
  BY DEF Early, Calm

\* The lanes and what rests on them, when a step leaves them alone.
LEMMA StillOnce ==
    ASSUME OffersOnce, UNCHANGED <<high, wire>>,
           \A t \in Transfers : InHand(t, {"register"})' => InHand(t, {"register"})
    PROVE  OffersOnce'
  BY DEF OffersOnce

LEMMA StillApart ==
    ASSUME LanesApart, UNCHANGED <<high, file>>, live' => live /\ rEnd' = rEnd
    PROVE  LanesApart'
  BY DEF LanesApart

\* An Answer of Cancel brings no Accept.
LEMMA NoAccept ==
    ASSUME ReplyTypes, NEW u \in Transfers, Answer(Reply("cancel", u)), NEW t,
           Has(replies', "accept", t)
    PROVE  Has(replies, "accept", t)
<1>1. Reply("cancel", u) \in Replies /\ Reply("cancel", u).kind = "cancel"
  BY FrameTypes DEF Reply
<1>2. QED
  BY <1>1, HasQueued DEF Answer, ReplyTypes

\* The sender's steps that put nothing on a lane.
LEMMA StreamIsCalm ==
    ASSUME Types, OrphanInv, NEW t \in Transfers,
           Start(t) \/ GiveUp(t) \/ Read(t) \/ OfferChunk(t) \/ Clear(t)
    PROVE  OrphanInv'
<1>1. /\ UNCHANGED <<accepted, high, file, wire, replies, receiver, session>>
      /\ \E label \in Streams :
            /\ stream' = [stream EXCEPT ![t] = label]
            /\ label # "idle" => stream[t] # "waiting" \/ t \in accepted
            /\ label # "idle" => stream[t] # "idle"
  BY DEF Start, GiveUp, Read, OfferChunk, Clear, Step, Streams, lanes
<1>2. UNCHANGED <<hand, got, active, live, rEnd, doomed, orphans>>
  BY <1>1 DEF receiver, receives, session
<1>3. stream \in [Transfers -> Streams]
  BY DEF Types, SenderTypes
<1>4. ASSUME NEW u \in Transfers PROVE Calm(u)
  BY <1>1, <1>2, <1>3 DEF Calm, Offered, Unaccepted, Outlives, InHand
<1>5. OffersOnce' /\ LanesApart'
  BY <1>1, <1>2, StillOnce, StillApart DEF OrphanInv, InHand
<1>6. QED
  BY <1>4, <1>5, CalmKeeps DEF OrphanInv

\* A chunk is not of an unaccepted stream.
LEMMA ChunkIsCalm ==
    ASSUME Types, OrphanInv, NEW t \in Transfers, SendChunk(t)
    PROVE  OrphanInv'
<1> DEFINE f == [kind |-> "chunk", id |-> t, at |-> sent[t] - 1]
<1>1. /\ stream[t] = "blocked" /\ stream' = [stream EXCEPT ![t] = "reading"]
      /\ file' = Append(file, f)
      /\ UNCHANGED <<accepted, high, wire, replies, hand, got, active, live, rEnd, doomed, orphans>>
  BY DEF SendChunk, Step, receiver, receives, session
<1>2. stream \in [Transfers -> Streams] /\ file \in Seq(Frames)
  BY DEF Types, SenderTypes, LaneTypes
<1>3. \A k, u : Has(file', k, u) => Has(file, k, u) \/ (k = "chunk" /\ u = t)
  <2>1. file \in Seq(Frames \cup {f}) /\ f \in Frames \cup {f}
    BY <1>2
  <2>2. f.kind = "chunk" /\ f.id = t
    OBVIOUS
  <2> HIDE DEF f
  <2>3. QED
    BY <1>1, <2>1, <2>2, HasAppend
<1> HIDE DEF f
<1>4. ASSUME NEW u \in Transfers PROVE Calm(u)
  BY <1>1, <1>2, <1>3 DEF Calm, Offered, Unaccepted, Outlives, InHand
<1>5. OffersOnce' /\ LanesApart'
  BY <1>1, <1>3, StillOnce DEF OrphanInv, InHand, LanesApart
<1>6. QED
  BY <1>4, <1>5, CalmKeeps DEF OrphanInv

\* Done or Cancel.
LEMMA LastIsCalm ==
    ASSUME Types, OrphanInv, NEW t \in Transfers, SendLast(t)
    PROVE  OrphanInv'
<1>1. /\ stream[t] \in {"done", "cancel"} /\ stream' = [stream EXCEPT ![t] = "idle"]
      /\ Send(Frame(stream[t], t))
      /\ UNCHANGED <<accepted, file, wire, replies, hand, got, active, live, rEnd, doomed, orphans>>
  BY DEF SendLast, Step, receiver, receives, session
<1>2. stream \in [Transfers -> Streams] /\ high \in Seq(Frames) /\ Len(high) <= HighCap
  BY DEF Types, SenderTypes, LaneTypes
<1>3. /\ \A k, u : k \notin {"done", "cancel"} /\ Has(high', k, u) => Has(high, k, u)
      /\ Once(high) => Once(high')
  <2>1. /\ Frame(stream[t], t) \in Frames
        /\ Frame(stream[t], t).kind \in {"done", "cancel"}
    BY <1>1, FrameTypes DEF Frame
  <2>2. QED
    BY <1>1, <1>2, <2>1, HasQueued DEF Send
<1>4. ASSUME NEW u \in Transfers PROVE Calm(u)
  BY <1>1, <1>2, <1>3 DEF Calm, Offered, Unaccepted, Outlives, InHand
<1>5. OffersOnce' /\ LanesApart'
  BY <1>1, <1>3 DEF OrphanInv, InHand, LanesApart, OffersOnce
<1>6. QED
  BY <1>4, <1>5, CalmKeeps DEF OrphanInv

\* A new transfer: nothing refers to its id, so that its offer is the only one and
\* no chunk of it is about.
LEMMA OfferIsFirst ==
    ASSUME Types, OrphanInv, NEW t \in Transfers, StartSend(t)
    PROVE  OrphanInv'
<1>1. /\ Unused(t) /\ stream' = [stream EXCEPT ![t] = "waiting"]
      /\ accepted' = accepted \ {t} /\ got' = [got EXCEPT ![t] = 0]
      /\ orphans' = orphans \ {t} /\ Send(Frame("offer", t))
      /\ UNCHANGED <<file, wire, replies, hand, active, live, rEnd, doomed>>
  BY DEF StartSend
<1>2. /\ stream \in [Transfers -> Streams] /\ got \in [Transfers -> 0..Size]
      /\ high \in Seq(Frames) /\ Len(high) <= HighCap
  BY DEF Types, SenderTypes, LaneTypes, ReceiverTypes
<1>3. /\ t \notin active /\ ~InHand(t, {"register"}) /\ ~InHand(t, {"write"})
      /\ \A k : ~Has(high, k, t) /\ ~Has(file, k, t) /\ ~Has(wire, k, t) /\ ~Has(replies, k, t)
  BY <1>1 DEF Unused, Has, InHand, Hands
<1>4. /\ \A k, u : Has(high', k, u) => Has(high, k, u) \/ (k = "offer" /\ u = t)
      /\ Once(high) => Once(high')
  <2>1. Frame("offer", t) \in Frames /\ Frame("offer", t).kind = "offer" /\ Frame("offer", t).id = t
    BY FrameTypes DEF Frame
  <2>2. QED
    BY <1>1, <1>2, <1>3, <2>1, HasQueued DEF Send
<1>5. ASSUME NEW u \in Transfers, u # t PROVE Calm(u)
  BY <1>1, <1>2, <1>4, <1>5 DEF Calm, Offered, Unaccepted, Outlives, InHand
<1>6. Early(t)'
  <2>1. Unaccepted(t)' /\ ~Has(replies', "accept", t)
    BY <1>1, <1>2, <1>3 DEF Unaccepted, InHand
  <2>2. ~Outlives(t)'
    BY <1>1, <1>3 DEF Outlives
  <2>3. QED
    BY <2>1, <2>2 DEF Early
<1>7. OffersOnce' /\ LanesApart'
  BY <1>1, <1>3, <1>4 DEF OrphanInv, InHand, LanesApart, OffersOnce
<1>8. QED
  BY <1>5, <1>6, <1>7, CalmKeeps DEF OrphanInv

\* The sender's inbound loop: an Accept of an unaccepted stream is discarded.
LEMMA ReplyIsCalm == ASSUME Types, OrphanInv, HandleReply PROVE OrphanInv'
<1>1. /\ replies # <<>> /\ replies' = Tail(replies)
      /\ UNCHANGED <<stream, high, file, wire, hand, got, active, live, rEnd, doomed, orphans>>
  BY DEF HandleReply, lanes, receiver, receives, session
<1>2. replies \in Seq(Replies)
  BY DEF Types, ReplyTypes
<1>3. /\ \A k, u : Has(replies', k, u) => Has(replies, k, u)
      /\ Has(replies, Head(replies).kind, Head(replies).id)
  BY <1>1, <1>2, HasTail
<1>4. \A u : u \in accepted' => u \in accepted \/ (live /\ Has(replies, "accept", u))
  BY <1>3 DEF HandleReply
<1>5. ASSUME NEW u \in Transfers PROVE Calm(u)
  BY <1>1, <1>3, <1>4 DEF Calm, Offered, Unaccepted, Outlives, InHand
<1>6. OffersOnce' /\ LanesApart'
  BY <1>1, StillOnce, StillApart DEF OrphanInv, InHand
<1>7. QED
  BY <1>5, <1>6, CalmKeeps DEF OrphanInv

\* The writer moves a frame from a lane to the wire, or loses it.
LEMMA DeliveredFrames ==
    ASSUME LaneTypes, NEW f \in Frames, Deliver(f)
    PROVE  /\ \A k, u : Has(wire', k, u) => Has(wire, k, u) \/ (k = f.kind /\ u = f.id)
           /\ Once(wire) /\ (f.kind = "offer" => ~Has(wire, "offer", f.id)) => Once(wire')
<1>1. CASE wire' = wire
  BY <1>1
<1>2. CASE wire' = Append(wire, f)
  BY <1>2, HasAppend DEF LaneTypes
<1>3. QED
  BY <1>1, <1>2 DEF Deliver

LEMMA WriterIsCalm == ASSUME Types, OrphanInv, WriteHigh \/ WriteFile PROVE OrphanInv'
<1>0. LaneTypes /\ high \in Seq(Frames) /\ file \in Seq(Frames)
  BY DEF Types, LaneTypes
<1>1. UNCHANGED <<stream, accepted, replies, hand, got, active, live, rEnd, doomed, orphans>>
  BY DEF WriteHigh, WriteFile, sender, receiver, receives, session
<1>2. CASE WriteHigh
  <2> DEFINE f == Head(high)
  <2>1. high # <<>> /\ high' = Tail(high) /\ Deliver(f) /\ file' = file
    BY <1>2 DEF WriteHigh
  <2>2. f \in Frames /\ f.id \in Transfers
    <3>1. f \in Frames
      BY <1>0, <2>1, TailFrames
    <3>2. QED
      BY <3>1 DEF Frames
  <2>3. /\ \A k, u : Has(high', k, u) => Has(high, k, u)
        /\ Has(high, f.kind, f.id)
        /\ Once(high) => Once(high')
        /\ Once(high) /\ f.kind = "offer" => ~Has(high', "offer", f.id)
    BY <1>0, <2>1, HasTail
  <2> HIDE DEF f
  <2>4. /\ \A k, u : Has(wire', k, u) => Has(wire, k, u) \/ (k = f.kind /\ u = f.id)
        /\ Once(wire) /\ (f.kind = "offer" => ~Has(wire, "offer", f.id)) => Once(wire')
    BY <1>0, <2>1, <2>2, DeliveredFrames
  <2>5. f.kind # "chunk"
    BY <2>2, <2>3 DEF OrphanInv, LanesApart
  <2>6. ASSUME NEW u \in Transfers PROVE Calm(u)
    BY <1>1, <2>1, <2>3, <2>4, <2>5 DEF Calm, Offered, Unaccepted, Outlives, InHand
  <2>7. OffersOnce' /\ LanesApart'
    BY <1>1, <2>1, <2>2, <2>3, <2>4 DEF OrphanInv, InHand, LanesApart, OffersOnce
  <2>8. QED
    BY <2>6, <2>7, CalmKeeps DEF OrphanInv
<1>3. CASE WriteFile
  <2> DEFINE f == Head(file)
  <2>1. file # <<>> /\ file' = Tail(file) /\ Deliver(f) /\ high' = high
    BY <1>3 DEF WriteFile
  <2>2. f \in Frames /\ f.id \in Transfers
    <3>1. f \in Frames
      BY <1>0, <2>1, TailFrames
    <3>2. QED
      BY <3>1 DEF Frames
  <2>3. (\A k, u : Has(file', k, u) => Has(file, k, u)) /\ Has(file, f.kind, f.id)
    BY <1>0, <2>1, HasTail
  <2> HIDE DEF f
  <2>4. /\ \A k, u : Has(wire', k, u) => Has(wire, k, u) \/ (k = f.kind /\ u = f.id)
        /\ Once(wire) /\ (f.kind = "offer" => ~Has(wire, "offer", f.id)) => Once(wire')
    BY <1>0, <2>1, <2>2, DeliveredFrames
  <2>5. f.kind # "offer"
    BY <2>2, <2>3 DEF OrphanInv, LanesApart
  <2>6. ASSUME NEW u \in Transfers PROVE Calm(u)
    BY <1>1, <2>1, <2>3, <2>4, <2>5 DEF Calm, Offered, Unaccepted, Outlives, InHand
  <2>7. OffersOnce' /\ LanesApart'
    BY <1>1, <2>1, <2>2, <2>3, <2>4, <2>5 DEF OrphanInv, InHand, LanesApart, OffersOnce
  <2>8. QED
    BY <2>6, <2>7, CalmKeeps DEF OrphanInv
<1>4. QED
  BY <1>2, <1>3

\* The next frame, of this kind, is taken from the wire.
LEMMA ReceivedFrames ==
    ASSUME LaneTypes, NEW kind, Receive(kind)
    PROVE  /\ \A k, u : Has(wire', k, u) => Has(wire, k, u)
           /\ Has(wire, kind, Head(wire).id)
           /\ Once(wire) => Once(wire')
           /\ Once(wire) /\ kind = "offer" => ~Has(wire', "offer", Head(wire).id)
  BY HasTail DEF Receive, LaneTypes

\* A step that leaves the sender alone, and takes at most a frame from the wire.
\* It may begin to write a chunk of an accepted transfer, and no more.
LEMMA HandlerIsCalm ==
    ASSUME OrphanInv,
           UNCHANGED <<stream, accepted, high, file>>,
           \A k, u : Has(wire', k, u) => Has(wire, k, u),
           Once(wire) => Once(wire'),
           \A t \in Transfers : InHand(t, {"register"})' => InHand(t, {"register"}),
           \A t \in Transfers : InHand(t, {"write"})' => InHand(t, {"write"}) \/ Has(wire, "chunk", t),
           \A t \in Transfers : got'[t] # got[t] => InHand(t, {"write"}),
           \A t \in Transfers : Has(replies', "accept", t) => Has(replies, "accept", t),
           \A t \in Transfers : Outlives(t)' => Outlives(t),
           live' => live, live' => rEnd' = rEnd
    PROVE  OrphanInv'
<1>1. ASSUME NEW u \in Transfers PROVE Calm(u)
  BY DEF Calm, Offered, Unaccepted
<1>2. OffersOnce' /\ LanesApart'
  BY DEF OrphanInv, OffersOnce, LanesApart
<1>3. QED
  BY <1>1, <1>2, CalmKeeps DEF OrphanInv

\* The handler of an offer: the offer leaves the wire for the hand.
LEMMA OfferInHand == ASSUME Types, OrphanInv, HandleOffer PROVE OrphanInv'
<1> DEFINE t == Head(wire).id
<1>1. /\ Receive("offer") /\ hand = Idle
      /\ \/ Hand("register", t, 0) /\ replies' = replies
         \/ hand' = hand /\ Answer(Reply("cancel", t))
      /\ UNCHANGED <<stream, accepted, high, file, got, active, live, rEnd, doomed, orphans>>
  BY DEF HandleOffer, Receive, sender, lanes, session
<1>2. LaneTypes /\ ReplyTypes /\ t \in Transfers
  BY <1>1, ReceivedTypes DEF Types
<1>3. /\ \A k, u : Has(wire', k, u) => Has(wire, k, u)
      /\ Has(wire, "offer", t)
      /\ Once(wire) => Once(wire')
      /\ Once(wire) => ~Has(wire', "offer", t)
  BY <1>1, <1>2, ReceivedFrames
<1> HIDE DEF t
<1>4. \A u : Has(replies', "accept", u) => Has(replies, "accept", u)
  BY <1>1, <1>2, NoAccept
<1>5. /\ \A u : ~InHand(u, {"register"}) /\ ~InHand(u, {"write"}) /\ ~InHand(u, {"write"})'
      /\ \A u : InHand(u, {"register"})' => u = t
  BY <1>1 DEF InHand, Hand, Idle
<1>6. ASSUME NEW u \in Transfers PROVE Calm(u)
  BY <1>1, <1>3, <1>4, <1>5 DEF Calm, Offered, Unaccepted, Outlives
<1>7. OffersOnce' /\ LanesApart'
  BY <1>1, <1>2, <1>3, <1>5 DEF OrphanInv, LanesApart, OffersOnce
<1>8. QED
  BY <1>6, <1>7, CalmKeeps DEF OrphanInv

\* Registering a receive: it is accepted, and outlives the session if there is none
\* any more.
LEMMA RegisterIsEarly == ASSUME Types, OrphanInv, Register PROVE OrphanInv'
<1>0. HandTypes /\ ReplyTypes /\ hand.step = "register"
  BY DEF Types, Register
<1>1. PICK t \in Transfers : t = hand.id
  BY <1>0, HandHolds DEF Hands
<1>2. /\ hand' = Idle /\ active' = active \cup {t}
      /\ Answer(Reply("accept", t))
      /\ orphans' = IF rEnd = "down" THEN orphans \cup {t} ELSE orphans
      /\ UNCHANGED <<stream, accepted, high, file, wire, got, live, rEnd, doomed>>
  BY <1>1 DEF Register, sender, lanes
<1>3. InHand(t, {"register"}) /\ \A u : ~InHand(u, {"register"})' /\ ~InHand(u, {"write"})'
  BY <1>0, <1>1, <1>2 DEF InHand, Idle
<1>4. \A k, u : Has(replies', k, u) => Has(replies, k, u) \/ u = t
  <2>1. Reply("accept", t) \in Replies /\ Reply("accept", t).id = t
    BY FrameTypes DEF Reply
  <2>2. QED
    BY <1>0, <1>2, <2>1, HasQueued DEF Answer, ReplyTypes
<1>5. ASSUME NEW u \in Transfers, u # t PROVE Calm(u)
  BY <1>2, <1>3, <1>4, <1>5 DEF Calm, Offered, Unaccepted, Outlives
<1>6. Early(t)'
  <2>1. Offered(t) /\ Unaccepted(t) /\ ~Outlives(t)
    BY <1>3 DEF Offered, OrphanInv, Early
  <2>2. ~Offered(t)'
    BY <1>2, <1>3 DEF Offered, OrphanInv, OffersOnce
  <2>3. Unaccepted(t)'
    BY <1>2, <1>3, <2>1 DEF Unaccepted
  <2>4. Outlives(t)' => ~live'
    BY <1>2, <2>1 DEF Outlives, OrphanInv, LanesApart
  <2>5. QED
    BY <2>2, <2>3, <2>4 DEF Early
<1>7. OffersOnce' /\ LanesApart'
  BY <1>2, <1>3, StillOnce, StillApart DEF OrphanInv
<1>8. QED
  BY <1>5, <1>6, <1>7, CalmKeeps DEF OrphanInv

\* The other handlers.
LEMMA HandlersKeep ==
    ASSUME Types, OrphanInv, InboundLoop
    PROVE  OrphanInv'
<1>0. LaneTypes /\ ReplyTypes /\ HandTypes
  BY DEF Types
<1>1. CASE HandleOffer
  BY <1>1, OfferInHand
<1>2. CASE Register
  BY <1>2, RegisterIsEarly
<1>3. CASE HandleChunk
  <2>1. /\ Receive("chunk") /\ hand = Idle
        /\ UNCHANGED <<stream, accepted, high, file, got, replies, active, live, rEnd, doomed, orphans>>
    BY <1>3 DEF HandleChunk, Receive, sender, lanes, receives, session
  <2>2. /\ \A k, u : Has(wire', k, u) => Has(wire, k, u)
        /\ Has(wire, "chunk", Head(wire).id)
        /\ Once(wire) => Once(wire')
    BY <1>0, <2>1, ReceivedFrames
  <2>3. \A u : /\ InHand(u, {"register"})' => InHand(u, {"register"})
               /\ InHand(u, {"write"})' => u = Head(wire).id
    BY <1>3, <2>1 DEF HandleChunk, InHand, Hand, Idle
  <2>4. QED
    BY <2>1, <2>2, <2>3, HandlerIsCalm DEF Outlives
<1>4. CASE Write
  <2>1. /\ hand.step = "write" /\ (hand' = Idle \/ Hand("abort", hand.id, 0))
        /\ got' = got \/ got' = [got EXCEPT ![hand.id] = @ + 1]
        /\ UNCHANGED <<stream, accepted, high, file, wire, replies, active, live, rEnd, doomed, orphans>>
    BY <1>4 DEF Write, sender, lanes, session
  <2>2. got \in [Transfers -> 0..Size]
    BY DEF Types, ReceiverTypes
  <2>3. \A u \in Transfers : got'[u] # got[u] => InHand(u, {"write"})
    <3>1. hand # Idle /\ hand.id \in Transfers
      BY <1>0, <2>1, HandHolds DEF Hands, Idle
    <3>2. \A u \in Transfers : got'[u] # got[u] => u = hand.id
      BY <2>1, <2>2
    <3>3. QED
      BY <2>1, <3>1, <3>2 DEF InHand
  <2>4. \A u : ~InHand(u, {"register"})' /\ ~InHand(u, {"write"})'
    BY <2>1 DEF InHand, Hand, Idle
  <2>5. QED
    BY <2>1, <2>3, <2>4, HandlerIsCalm DEF Outlives
<1>5. CASE Abort \/ Reject
  <2>1. /\ hand.step \in {"abort", "reject"} /\ hand' = Idle
        /\ Answer(Reply("cancel", hand.id)) \/ replies' = replies
        /\ active' \subseteq active
        /\ UNCHANGED <<stream, accepted, high, file, wire, got, live, rEnd, doomed, orphans>>
    BY <1>5 DEF Abort, Reject, sender, lanes, session
  <2>2. \A u : Has(replies', "accept", u) => Has(replies, "accept", u)
    BY <1>0, <2>1, HandHolds, NoAccept DEF Hands
  <2>3. \A u : ~InHand(u, {"register"})' /\ ~InHand(u, {"write"})'
    BY <2>1 DEF InHand, Idle
  <2>4. QED
    BY <2>1, <2>2, <2>3, HandlerIsCalm DEF Outlives
<1>6. CASE HandleDone \/ HandleCancel
  <2>1. /\ Receive("done") \/ Receive("cancel")
        /\ active' \subseteq active
        /\ UNCHANGED <<stream, accepted, high, file, got, replies, live, rEnd, doomed, orphans>>
    BY <1>6 DEF HandleDone, HandleCancel, sender, lanes, session
  <2>2. (\A k, u : Has(wire', k, u) => Has(wire, k, u)) /\ (Once(wire) => Once(wire'))
    BY <1>0, <2>1, ReceivedFrames
  <2>3. \A u : /\ InHand(u, {"register"})' => InHand(u, {"register"})
               /\ InHand(u, {"write"})' => InHand(u, {"write"})
    BY <1>6 DEF HandleDone, HandleCancel, InHand, Hand, Idle
  <2>4. QED
    BY <2>1, <2>2, <2>3, HandlerIsCalm DEF Outlives
<1>7. CASE Complete \/ Announce
  <2>1. UNCHANGED <<stream, accepted, high, file, wire, got, replies, active, live, rEnd, doomed, orphans>>
    BY <1>7 DEF Complete, Announce, sender, lanes, receives, session
  <2>2. \A u : ~InHand(u, {"register"})' /\ ~InHand(u, {"write"})'
    BY <1>7 DEF Complete, Announce, InHand, Hand, Idle
  <2>3. QED
    BY <2>1, <2>2, HandlerIsCalm DEF Outlives
<1>8. QED
  BY <1>1, <1>2, <1>3, <1>4, <1>5, <1>6, <1>7 DEF InboundLoop

LEMMA DialogIsCalm ==
    ASSUME Types, OrphanInv, NEW t \in Transfers, Progress(t) \/ Collect(t)
    PROVE  OrphanInv'
<1>1. /\ Answer(Reply("cancel", t)) \/ replies' = replies
      /\ active' \subseteq active
      /\ UNCHANGED <<stream, accepted, high, file, wire, hand, got, live, rEnd, doomed, orphans>>
  BY DEF Progress, DialogPoll, DialogGoesOn, DialogCancel, DialogDelete, DialogRemove, Collect,
     sender, lanes, receives, session
<1>2. \A u : Has(replies', "accept", u) => Has(replies, "accept", u)
  BY <1>1, NoAccept DEF Types
<1>3. QED
  BY <1>1, <1>2, HandlerIsCalm DEF Outlives, InHand

\* The session: a new one finds the lanes empty, and CancelAll sees every receive
\* in the table.
LEMMA SessionKeeps ==
    ASSUME Types, OrphanInv, SessionEnds \/ Callbacks \/ SessionBegins
    PROVE  OrphanInv'
<1>0. /\ SenderTypes /\ LaneTypes /\ ReplyTypes /\ ReceiverTypes /\ SessionTypes
      /\ live => rEnd = "up"
  BY DEF Types, OrphanInv, LanesApart
<1>1. /\ UNCHANGED <<stream, accepted, hand, got>>
      /\ \A u : InHand(u, {"register"})' => InHand(u, {"register"})
      /\ \A u : InHand(u, {"write"})' => InHand(u, {"write"})
  BY DEF SessionEnds, Callbacks, SessionBegins, SenderDrains, SenderCancels, SenderUnsets,
     ReceiverDrains, ReceiverCancels, Reap, ReceiverUnsets, sender, receiver, receives, InHand
<1>2. CASE SessionEnds
  BY <1>1, <1>2, HandlerIsCalm DEF SessionEnds, Outlives, lanes, receiver, receives
<1>3. CASE SenderDrains \/ SenderCancels
  <2>1. UNCHANGED <<wire, replies, active, live, rEnd, doomed, orphans>>
    BY <1>3 DEF SenderDrains, SenderCancels, receiver, receives
  <2>2. /\ \A k, u : k # "cancel" /\ Has(high', k, u) => Has(high, k, u)
        /\ Once(high) => Once(high')
        /\ \A k, u : Has(file', k, u) => Has(file, k, u)
    <3>1. CASE SenderDrains
      BY <3>1, HasNothing DEF SenderDrains
    <3>2. CASE SenderCancels
      <4>1. PICK ids \in SetToSeqs(outbound) :
                high' = QueuedAll(high, [i \in 1..Len(ids) |-> Frame("cancel", ids[i])])
        BY <3>2 DEF SenderCancels
      <4> DEFINE cancels == [i \in 1..Len(ids) |-> Frame("cancel", ids[i])]
      <4>2. ids \in Seq(Transfers) /\ Len(ids) \in Nat
        BY <1>0, Listed DEF SenderTypes
      <4>3. /\ cancels \in Seq(Frames) /\ Len(cancels) = Len(ids)
            /\ \A i \in 1..Len(ids) : cancels[i].kind = "cancel"
        <5>1. \A i \in 1..Len(ids) : ids[i] \in Transfers /\ cancels[i] = Frame("cancel", ids[i])
          BY <4>2
        <5>2. \A i \in 1..Len(ids) : cancels[i] \in Frames /\ cancels[i].kind = "cancel"
          BY <5>1, FrameTypes DEF Frame
        <5>3. QED
          BY <4>2, <5>2
      <4> HIDE DEF cancels
      <4>4. QED
        BY <1>0, <3>2, <4>1, <4>3, HasQueuedAll DEF LaneTypes, SenderCancels, cancels
    <3>3. QED
      BY <1>3, <3>1, <3>2
  <2>3. ASSUME NEW u \in Transfers PROVE Calm(u)
    BY <1>1, <2>1, <2>2 DEF Calm, Offered, Unaccepted, Outlives
  <2>4. OffersOnce' /\ LanesApart'
    BY <1>1, <2>1, <2>2 DEF OrphanInv, LanesApart, OffersOnce
  <2>5. QED
    BY <2>3, <2>4, CalmKeeps DEF OrphanInv
<1>4. CASE SenderUnsets
  BY <1>1, <1>4, HandlerIsCalm DEF SenderUnsets, Outlives, lanes, receiver, receives
<1>5. CASE ReceiverDrains
  BY <1>0, <1>1, <1>5, HasNothing, HandlerIsCalm
  DEF ReceiverDrains, Outlives, lanes, receiver, receives
<1>6. CASE ReceiverCancels
  <2>1. PICK ids \in SetToSeqs(active) :
            replies' = QueuedAll(replies, [i \in 1..Len(ids) |-> Reply("cancel", ids[i])])
    BY <1>6 DEF ReceiverCancels
  <2> DEFINE cancels == [i \in 1..Len(ids) |-> Reply("cancel", ids[i])]
  <2>2. ids \in Seq(Transfers) /\ Len(ids) \in Nat
    BY <1>0, Listed DEF ReceiverTypes
  <2>3. /\ cancels \in Seq(Replies) /\ Len(cancels) = Len(ids)
        /\ \A i \in 1..Len(ids) : cancels[i].kind = "cancel"
    <3>1. \A i \in 1..Len(ids) : ids[i] \in Transfers /\ cancels[i] = Reply("cancel", ids[i])
      BY <2>2
    <3>2. \A i \in 1..Len(ids) : cancels[i] \in Replies /\ cancels[i].kind = "cancel"
      BY <3>1, FrameTypes DEF Reply
    <3>3. QED
      BY <2>2, <3>2
  <2>4. replies' = QueuedAll(replies, cancels)
    BY <2>1
  <2> HIDE DEF cancels
  <2>5. \A u : Has(replies', "accept", u) => Has(replies, "accept", u)
    BY <1>0, <2>3, <2>4, HasQueuedAll DEF ReplyTypes
  <2>6. /\ rEnd = "cancel" /\ rEnd' = "reap" /\ doomed' = active
        /\ UNCHANGED <<high, file, wire, active, live, orphans>>
    BY <1>6 DEF ReceiverCancels, lanes, receiver, receives
  <2>7. QED
    BY <1>0, <1>1, <2>5, <2>6, HandlerIsCalm DEF Outlives
<1>7. ASSUME NEW t \in Transfers, Reap(t) PROVE OrphanInv'
  <2>1. /\ active' = active \ {t} /\ doomed' = doomed \ {t}
        /\ UNCHANGED <<high, file, wire, replies, live, rEnd, orphans>>
    BY <1>7 DEF Reap, lanes
  <2>2. QED
    BY <1>1, <2>1, HandlerIsCalm DEF Outlives
<1>8. CASE ReceiverUnsets
  <2>1. /\ rEnd = "reap" /\ doomed = {} /\ rEnd' = "down" /\ orphans' = active
        /\ UNCHANGED <<high, file, wire, replies, active, live, doomed>>
    BY <1>8 DEF ReceiverUnsets, lanes, receiver, receives
  <2>2. QED
    BY <1>0, <1>1, <2>1, HandlerIsCalm DEF Outlives
<1>9. CASE SessionBegins
  <2>1. /\ rEnd = "down" /\ rEnd' = "up"
        /\ high' = <<>> /\ file' = <<>> /\ wire' = <<>> /\ replies' = <<>>
        /\ UNCHANGED <<active, doomed, orphans>>
    BY <1>9 DEF SessionBegins, receiver, receives
  <2>2. ASSUME NEW u \in Transfers PROVE Calm(u)
    BY <1>1, <2>1, HasNothing DEF Calm, Offered, Unaccepted, Outlives
  <2>3. OffersOnce' /\ LanesApart'
    BY <1>1, <2>1, HasNothing DEF OffersOnce, LanesApart
  <2>4. QED
    BY <2>2, <2>3, CalmKeeps DEF OrphanInv
<1>10. QED
  BY <1>2, <1>3, <1>4, <1>5, <1>6, <1>7, <1>8, <1>9 DEF Callbacks

LEMMA OrphanInvariant == Spec => []OrphanInv
<1>1. Init => OrphanInv
  <2>1. ASSUME Init PROVE OffersOnce /\ LanesApart
    BY <2>1, HasNothing DEF Init, OffersOnce, LanesApart, InHand
  <2>2. ASSUME Init, NEW t \in Transfers PROVE Early(t)
    BY <2>2, HasNothing DEF Init, Early, Offered, Outlives, InHand
  <2>3. QED
    BY <2>1, <2>2 DEF OrphanInv
<1>2. ASSUME Types, OrphanInv, [Next]_vars PROVE OrphanInv'
  <2>1. ASSUME NEW t \in Transfers, StartSend(t) \/ Sender(t) PROVE OrphanInv'
    BY <1>2, <2>1, OfferIsFirst, StreamIsCalm, ChunkIsCalm, LastIsCalm DEF Sender
  <2>2. ASSUME NEW t \in Transfers, Progress(t) \/ Collect(t) PROVE OrphanInv'
    BY <1>2, <2>2, DialogIsCalm
  <2>3. CASE HandleReply \/ WriteHigh \/ WriteFile \/ InboundLoop
    BY <1>2, <2>3, ReplyIsCalm, WriterIsCalm, HandlersKeep
  <2>4. CASE SessionEnds \/ Callbacks \/ SessionBegins
    BY <1>2, <2>4, SessionKeeps
  <2>5. CASE UNCHANGED vars
    <3>1. UNCHANGED <<stream, accepted, high, file, wire, replies, hand, got, active, live, rEnd,
                      doomed, orphans>>
      BY <2>5 DEF vars, sender, lanes, receiver, receives, session
    <3>2. QED
      BY <1>2, <3>1, HandlerIsCalm DEF Outlives, InHand
  <2>6. QED
    BY <1>2, <2>1, <2>2, <2>3, <2>4, <2>5 DEF Next
<1>3. QED
  BY <1>1, <1>2, TypesAreInvariant, PTL DEF Spec

\* A receive that outlived its session stays empty and is never announced, though
\* the old stream may live on: an offer that CancelAll did not see is answered,
\* if at all, into a lane that the next session finds empty.
THEOREM OrphansStayEmptyTheorem == Spec => []OrphansStayEmpty
<1>1. Types /\ OrphanInv /\ AnnouncedComplete => OrphansStayEmpty
  BY SizeAssumption DEF Types, SessionTypes, OrphanInv, Early, Outlives, Unaccepted,
     AnnouncedComplete, OrphansStayEmpty
<1>2. QED
  BY <1>1, TypesAreInvariant, OrphanInvariant, OnlyWholeAnnounced, PTL

(***************************************************************************)
(* FileTransfer implements Receipt.                                        *)
(***************************************************************************)

\* An offer that no handler has taken up.
Pending(t) == Has(high, "offer", t) \/ Has(wire, "offer", t)

\* What the refinement rests on: a receive in the table has its file open, one
\* that handleDone holds is in the table no more, the user has what is neither
\* open nor in the table, and before its offer is taken up a transfer is nowhere.
Received(t) ==
    /\ t \in open => t \in dir
    /\ t \in active => t \in open /\ dialog[t] # "deleted"
    /\ t \in announced => t \notin open
    /\ InHand(t, {"register"}) =>
          t \in open /\ t \notin active \cup announced /\ dialog[t] = "none"
    /\ InHand(t, {"reject", "complete", "announce"}) => t \notin active \cup announced
    /\ InHand(t, {"announce"}) => t \notin open
    /\ Pending(t) =>
          /\ t \notin open \cup announced /\ dialog[t] = "none"
          /\ ~InHand(t, {"reject", "complete", "announce"})

ReceiptInv == \A t \in Transfers : Received(t)

\* Only the user makes an offer.
LEMMA OffersAreMade ==
    ASSUME Types, OrphanInv, [Next]_vars, NEW u \in Transfers, Pending(u)', ~Pending(u)
    PROVE  StartSend(u)
<1>0. /\ LaneTypes /\ high \in Seq(Frames) /\ file \in Seq(Frames) /\ Len(high) <= HighCap
      /\ SenderTypes /\ LanesApart
  BY DEF Types, LaneTypes, OrphanInv
<1>1. ASSUME NEW t \in Transfers, t # u, StartSend(t) PROVE FALSE
  <2>1. wire' = wire /\ Send(Frame("offer", t))
    BY <1>1 DEF StartSend
  <2>2. Frame("offer", t) \in Frames /\ Frame("offer", t).id = t
    BY FrameTypes DEF Frame
  <2>3. Has(high', "offer", u) => Has(high, "offer", u)
    BY <1>0, <1>1, <2>1, <2>2, HasQueued DEF Send
  <2>4. QED
    BY <2>1, <2>3 DEF Pending
<1>2. ASSUME NEW t \in Transfers, Sender(t) PROVE FALSE
  <2>1. CASE SendLast(t)
    <3>1. wire' = wire /\ Send(Frame(stream[t], t)) /\ stream[t] \in {"done", "cancel"}
      BY <2>1 DEF SendLast
    <3>2. Frame(stream[t], t) \in Frames /\ Frame(stream[t], t).kind # "offer"
      BY <3>1, FrameTypes DEF Frame
    <3>3. Has(high', "offer", u) => Has(high, "offer", u)
      BY <1>0, <3>1, <3>2, HasQueued DEF Send
    <3>4. QED
      BY <3>1, <3>3 DEF Pending
  <2>2. CASE ~SendLast(t)
    BY <1>2, <2>2 DEF Sender, Start, GiveUp, Read, OfferChunk, SendChunk, Clear, lanes, Pending
  <2>3. QED
    BY <2>1, <2>2
<1>3. CASE WriteHigh
  <2>1. high # <<>> /\ high' = Tail(high) /\ Deliver(Head(high))
    BY <1>3 DEF WriteHigh
  <2>2. Head(high) \in Frames
    BY <1>0, <2>1, TailFrames
  <2>3. /\ \A k, t : Has(high', k, t) => Has(high, k, t)
        /\ Has(high, Head(high).kind, Head(high).id)
        /\ \A k, t : Has(wire', k, t) => Has(wire, k, t) \/ (k = Head(high).kind /\ t = Head(high).id)
    BY <1>0, <2>1, <2>2, HasTail, DeliveredFrames
  <2>4. QED
    BY <2>3 DEF Pending
<1>4. CASE WriteFile
  <2>1. file # <<>> /\ high' = high /\ Deliver(Head(file))
    BY <1>4 DEF WriteFile
  <2>2. Head(file) \in Frames
    BY <1>0, <2>1, TailFrames
  <2>3. /\ Has(file, Head(file).kind, Head(file).id)
        /\ \A k, t : Has(wire', k, t) => Has(wire, k, t) \/ (k = Head(file).kind /\ t = Head(file).id)
    BY <1>0, <2>1, <2>2, HasTail, DeliveredFrames
  <2>4. ~Has(file, "offer", u)
    BY <1>0 DEF LanesApart
  <2>5. QED
    BY <2>1, <2>3, <2>4 DEF Pending
<1>5. ASSUME InboundLoop PROVE FALSE
  <2>1. high' = high
    BY <1>5 DEF InboundLoop, HandleOffer, Register, HandleChunk, Write, Abort, HandleDone,
       Reject, Complete, Announce, HandleCancel, lanes
  <2>2. wire' = wire \/ \E kind \in {"offer", "chunk", "done", "cancel"} : Receive(kind)
    BY <1>5 DEF InboundLoop, HandleOffer, Register, HandleChunk, Write, Abort, HandleDone,
       Reject, Complete, Announce, HandleCancel
  <2>3. \A k, t : Has(wire', k, t) => Has(wire, k, t)
    BY <1>0, <2>2, ReceivedFrames
  <2>4. QED
    BY <2>1, <2>3 DEF Pending
<1>6. ASSUME NEW t \in Transfers, Progress(t) \/ Collect(t) PROVE FALSE
  BY <1>6 DEF Progress, DialogPoll, DialogGoesOn, DialogCancel, DialogDelete, DialogRemove,
     Collect, lanes, Pending
<1>7. CASE HandleReply
  BY <1>7 DEF HandleReply, lanes, Pending
<1>8. ASSUME SessionEnds \/ Callbacks \/ SessionBegins PROVE FALSE
  <2>1. CASE SenderCancels
    <3>1. PICK ids \in SetToSeqs(outbound) :
              high' = QueuedAll(high, [i \in 1..Len(ids) |-> Frame("cancel", ids[i])])
      BY <2>1 DEF SenderCancels
    <3> DEFINE cancels == [i \in 1..Len(ids) |-> Frame("cancel", ids[i])]
    <3>2. ids \in Seq(Transfers) /\ Len(ids) \in Nat
      BY <1>0, Listed DEF SenderTypes
    <3>3. /\ cancels \in Seq(Frames) /\ Len(cancels) = Len(ids)
          /\ \A i \in 1..Len(ids) : cancels[i].kind = "cancel"
      <4>1. \A i \in 1..Len(ids) : ids[i] \in Transfers /\ cancels[i] = Frame("cancel", ids[i])
        BY <3>2
      <4>2. \A i \in 1..Len(ids) : cancels[i] \in Frames /\ cancels[i].kind = "cancel"
        BY <4>1, FrameTypes DEF Frame
      <4>3. QED
        BY <3>2, <4>2
    <3>4. high' = QueuedAll(high, cancels)
      BY <3>1
    <3> HIDE DEF cancels
    <3>5. \A k, t : k # "cancel" /\ Has(high', k, t) => Has(high, k, t)
      BY <1>0, <3>3, <3>4, HasQueuedAll
    <3>6. QED
      BY <2>1, <3>5 DEF SenderCancels, Pending
  <2>2. CASE ~SenderCancels
    BY <1>8, <2>2, HasNothing DEF SessionEnds, Callbacks, SessionBegins, SenderDrains,
       SenderUnsets, ReceiverDrains, ReceiverCancels, Reap, ReceiverUnsets, lanes, Pending
  <2>3. QED
    BY <2>1, <2>2
<1>9. CASE UNCHANGED vars
  BY <1>9 DEF vars, lanes, Pending
<1>10. QED
  BY <1>1, <1>2, <1>3, <1>4, <1>5, <1>6, <1>7, <1>8, <1>9 DEF Next

\* A step that moves nothing of u's receive.
LEMMA StillReceived ==
    ASSUME NEW u \in Transfers, Received(u), UNCHANGED receiver, Pending(u)' => Pending(u)
    PROVE  Received(u)'
  BY DEF Received, receiver, receives, InHand

\* Only StartSend makes an offer, and the handler that takes it up leaves none.
LEMMA ReceiptInvariant == Spec => []ReceiptInv
<1>1. Init => ReceiptInv
  BY HasNothing DEF Init, ReceiptInv, Received, Pending, InHand
<1>2. ASSUME Types, OrphanInv, ReceiptInv, [Next]_vars PROVE ReceiptInv'
  <2> SUFFICES ASSUME NEW u \in Transfers PROVE Received(u)'
    BY DEF ReceiptInv
  <2>0. /\ Received(u) /\ LaneTypes /\ HandTypes /\ Once(wire)
        /\ dialog \in [Transfers -> Dialogs]
        /\ InHand(u, {"register"}) => ~Pending(u)
        /\ Has(wire, "offer", u) => ~Has(high, "offer", u)
    BY <1>2 DEF ReceiptInv, Types, ReceiverTypes, OrphanInv, OffersOnce, Pending
  <2>1. CASE StartSend(u)
    BY <2>0, <2>1 DEF StartSend, Unused, Received, InHand, Hands
  <2>a. ASSUME ~StartSend(u) PROVE Pending(u)' => Pending(u)
    BY <1>2, <2>a, OffersAreMade
  <2>2. ASSUME NEW t \in Transfers, t # u, StartSend(t) PROVE Received(u)'
    <3>1. Pending(u)' => Pending(u)
      <4>1. wire' = wire /\ Send(Frame("offer", t)) /\ high \in Seq(Frames) /\ Len(high) <= HighCap
        BY <1>2, <2>2 DEF StartSend, Types, LaneTypes
      <4>2. Frame("offer", t) \in Frames /\ Frame("offer", t).id = t
        BY FrameTypes DEF Frame
      <4>3. Has(high', "offer", u) => Has(high, "offer", u)
        BY <2>2, <4>1, <4>2, HasQueued DEF Send
      <4>4. QED
        BY <4>1, <4>3 DEF Pending
    <3>2. QED
      BY <2>0, <2>2, <3>1 DEF StartSend, Received, InHand
  <2> DEFINE Quiet == ~StartSend(u)
  <2>3. CASE OtherStep /\ Quiet
    BY <2>0, <2>a, <2>3, StillReceived DEF OtherStep
  <2>4. CASE HandleOffer /\ Quiet
    <3> DEFINE t == Head(wire).id
    <3>1. /\ Has(wire, "offer", t)
          /\ ~Has(wire', "offer", t)
          /\ high' = high /\ hand = Idle
      BY <2>0, <2>4, ReceivedFrames DEF HandleOffer, Receive, lanes
    <3>2. UNCHANGED <<active, announced, dialog>>
      BY <2>4 DEF HandleOffer
    <3>3. \/ Hand("register", t, 0) /\ dir' = dir \cup {t} /\ open' = open \cup {t}
          \/ UNCHANGED <<hand, dir, open>>
      BY <2>4 DEF HandleOffer
    <3> HIDE DEF t
    <3>4. CASE u = t
      <4>1. Pending(u) /\ ~Pending(u)'
        BY <2>0, <3>1, <3>4 DEF Pending
      <4>2. QED
        BY <2>0, <3>1, <3>2, <3>3, <3>4, <4>1 DEF Received, InHand, Hand, Idle
    <3>5. CASE u # t
      BY <2>0, <2>a, <2>4, <3>1, <3>2, <3>3, <3>5 DEF Received, InHand, Hand, Idle
    <3>6. QED
      BY <3>4, <3>5
  <2>5. CASE Register /\ Quiet
    <3>1. InHand(hand.id, {"register"}) /\ hand.id \in Transfers
      BY <2>0, <2>5, HandHolds DEF Register, InHand, Hands, Idle
    <3>2. QED
      BY <2>0, <2>a, <2>5, <3>1 DEF Register, Received, InHand, Idle
  <2>6. CASE HandleChunk /\ Quiet
    BY <2>0, <2>a, <2>6 DEF HandleChunk, Receive, Hand, receives, Received, InHand, Idle
  <2>7. CASE Write /\ Quiet
    BY <2>0, <2>a, <2>7 DEF Write, Hand, Received, InHand, Idle
  <2>8. CASE Abort /\ Quiet
    BY <2>0, <2>a, <2>8 DEF Abort, Teardown, Received, InHand, Idle
  <2>9. CASE HandleDone /\ Quiet
    BY <2>0, <2>a, <2>9 DEF HandleDone, Receive, Hand, Received, InHand, Idle
  <2>10. CASE Reject /\ Quiet
    BY <2>0, <2>a, <2>10 DEF Reject, Teardown, Received, InHand, Idle
  <2>11. CASE Complete /\ Quiet
    BY <2>0, <2>a, <2>11 DEF Complete, Hand, Received, InHand, Idle
  <2>12. CASE Announce /\ Quiet
    BY <2>0, <2>a, <2>12 DEF Announce, receives, Received, InHand, Idle
  <2>13. CASE HandleCancel /\ Quiet
    BY <2>0, <2>a, <2>13 DEF HandleCancel, Receive, Teardown, Received, InHand
  <2>14. ASSUME NEW t \in Transfers, Collect(t) \/ Reap(t), Quiet PROVE Received(u)'
    BY <2>0, <2>a, <2>14 DEF Collect, Reap, Teardown, Received, InHand
  <2>15. ASSUME NEW t \in Transfers, Quiet,
                DialogPoll(t) \/ DialogGoesOn(t) \/ DialogCancel(t)
         PROVE Received(u)'
    BY <2>0, <2>a, <2>15 DEF DialogPoll, DialogGoesOn, DialogCancel, Dialog, receives,
       Received, InHand
  <2>16. ASSUME NEW t \in Transfers, DialogDelete(t) \/ DialogRemove(t), Quiet
         PROVE Received(u)'
    BY <2>0, <2>a, <2>16 DEF DialogDelete, DialogRemove, Dialog, Teardown, Received, InHand
  <2>17. QED
    BY <1>2, <2>1, <2>2, <2>3, <2>4, <2>5, <2>6, <2>7, <2>8, <2>9, <2>10, <2>11, <2>12,
       <2>13, <2>14, <2>15, <2>16, StepCases DEF ReceiverStep
<1>3. QED
  BY <1>1, <1>2, TypesAreInvariant, OrphanInvariant, PTL DEF Spec

Phases == [t \in Transfers |-> Phase(t)]

\* A step that moves no transfer's phase, or only that of t.
LEMMA PhasesStay ==
    ASSUME \A u \in Transfers : Phase(u)' = Phase(u)
    PROVE  Phases' = Phases
  BY DEF Phases

LEMMA PhaseMoves ==
    ASSUME NEW t \in Transfers, NEW to, Phase(t)' = to,
           \A u \in Transfers : u # t => Phase(u)' = Phase(u)
    PROVE  Phases' = [Phases EXCEPT ![t] = to]
  BY DEF Phases

\* Teardown of one receive, by whoever holds it.
LEMMA DropsOne ==
    ASSUME NEW t \in Transfers, open' = open \ {t}, UNCHANGED <<announced, got>>,
           \A u \in Transfers :
              InHand(u, {"complete", "announce"})' <=> InHand(u, {"complete", "announce"})
    PROVE  Abs!Next \/ UNCHANGED <<Phases, got>>
<1>1. \A u \in Transfers : u # t => Phase(u)' = Phase(u)
  BY DEF Phase
<1>2. CASE Phase(t)' = Phase(t)
  <2>1. Phases' = Phases
    BY <1>1, <1>2, PhasesStay
  <2>2. QED
    BY <2>1
<1>3. CASE Phase(t)' # Phase(t)
  <2>1. Phase(t) = "receiving" /\ Phase(t)' = "none"
    BY <1>3 DEF Phase
  <2>2. Phases' = [Phases EXCEPT ![t] = "none"] /\ Phases[t] = "receiving"
    BY <1>1, <2>1, PhaseMoves DEF Phases
  <2>3. Abs!Drop(t)
    BY <2>2 DEF Abs!Drop, Abs!Moves, Phases
  <2>4. QED
    BY <2>3 DEF Abs!Next
<1>4. QED
  BY <1>2, <1>3

\* Every step of the transfer is a step of the receipt or leaves it alone.
LEMMA ReceiptStep ==
    ASSUME Types, OrphanInv, ReceiptInv, AnnouncedComplete, AcceptedIsComplete, [Next]_vars
    PROVE  Abs!Next \/ UNCHANGED <<Phases, got>>
<1>0. /\ LaneTypes /\ HandTypes /\ got \in [Transfers -> 0..Size]
      /\ \A t \in Transfers : Received(t)
  BY DEF Types, ReceiverTypes, ReceiptInv
<1>1. ASSUME UNCHANGED <<open, announced, got>>,
             \A u \in Transfers :
                InHand(u, {"complete", "announce"})' <=> InHand(u, {"complete", "announce"})
      PROVE  UNCHANGED <<Phases, got>>
  BY <1>1, PhasesStay DEF Phase
<1>2. CASE OtherStep
  BY <1>1, <1>2 DEF OtherStep, receiver, receives, InHand
<1>3. CASE HandleOffer
  <2>1. PICK t \in Transfers : t = Head(wire).id
    BY <1>0, <1>3, ReceivedTypes DEF HandleOffer
  <2>2. /\ Has(wire, "offer", t) /\ hand = Idle /\ UNCHANGED <<announced, got>>
        /\ \/ Hand("register", t, 0) /\ open' = open \cup {t}
           \/ UNCHANGED <<hand, open>>
    BY <1>0, <1>3, <2>1, ReceivedFrames DEF HandleOffer, Receive
  <2>3. \A u \in Transfers :
            ~InHand(u, {"complete", "announce"}) /\ ~InHand(u, {"complete", "announce"})'
    BY <2>2 DEF InHand, Hand, Idle
  <2>4. CASE open' = open
    BY <1>1, <2>2, <2>3, <2>4
  <2>5. CASE open' = open \cup {t}
    <3>1. got[t] = 0 /\ t \notin open \cup announced
      BY <1>0, <2>2 DEF Received, Pending, OrphanInv, Early, Offered, Unaccepted
    <3>2. /\ Phase(t) = "none" /\ Phase(t)' = "receiving"
          /\ \A u \in Transfers : u # t => Phase(u)' = Phase(u)
      BY <2>2, <2>3, <2>5, <3>1 DEF Phase
    <3>3. Phases' = [Phases EXCEPT ![t] = "receiving"] /\ Phases[t] = "none"
      BY <3>2, PhaseMoves DEF Phases
    <3>4. Abs!Take(t)
      BY <2>2, <3>1, <3>3 DEF Abs!Take, Abs!Moves, Phases
    <3>5. QED
      BY <3>4 DEF Abs!Next
  <2>6. QED
    BY <2>2, <2>4, <2>5
<1>4. CASE Register \/ HandleChunk
  BY <1>1, <1>4 DEF Register, HandleChunk, Receive, Hand, receives, InHand, Idle
<1>5. CASE Write
  <2>1. PICK t \in Transfers : t = hand.id /\ hand.step = "write"
    BY <1>0, <1>5, HandHolds DEF Write, Hands
  <2>2. /\ UNCHANGED <<open, announced>>
        /\ \A u \in Transfers :
              ~InHand(u, {"complete", "announce"}) /\ ~InHand(u, {"complete", "announce"})'
    BY <1>5, <2>1 DEF Write, InHand, Hand, Idle
  <2>3. CASE got' = got
    BY <1>1, <2>2, <2>3
  <2>4. CASE got' # got
    <3>1. t \in open /\ got[t] < Size /\ got' = [got EXCEPT ![t] = @ + 1]
      BY <1>5, <2>1, <2>4 DEF Write
    <3>2. Phases' = Phases /\ Phases[t] = "receiving"
      BY <1>0, <2>2, <3>1, PhasesStay DEF Phase, Phases, Received
    <3>3. Abs!AddChunk(t)
      BY <3>1, <3>2 DEF Abs!AddChunk, Phases
    <3>4. QED
      BY <3>3 DEF Abs!Next
  <2>5. QED
    BY <2>3, <2>4
<1>6. CASE Abort
  <2>1. PICK t \in Transfers : t = hand.id /\ hand.step = "abort"
    BY <1>0, <1>6, HandHolds DEF Abort, Hands
  <2>2. /\ UNCHANGED <<announced, got>> /\ open' \in {open, open \ {t}}
        /\ \A u \in Transfers :
              ~InHand(u, {"complete", "announce"}) /\ ~InHand(u, {"complete", "announce"})'
    BY <1>6, <2>1 DEF Abort, Teardown, InHand, Idle
  <2>3. QED
    BY <1>1, <2>2, DropsOne
<1>7. CASE HandleDone
  <2>1. UNCHANGED <<open, announced, got>> /\ hand = Idle
    BY <1>7 DEF HandleDone, Receive
  <2>2. \A u \in Transfers : InHand(u, {"complete", "announce"})' => u \in active
    BY <1>7, <2>1 DEF HandleDone, InHand, Hand, Idle
  <2>3. \A u \in Transfers : Phase(u)' = Phase(u)
    BY <1>0, <2>1, <2>2 DEF Phase, Received, InHand
  <2>4. QED
    BY <2>1, <2>3, PhasesStay
<1>8. CASE Reject
  <2>1. PICK t \in Transfers : t = hand.id /\ hand.step = "reject"
    BY <1>0, <1>8, HandHolds DEF Reject, Hands
  <2>2. /\ UNCHANGED <<announced, got>> /\ open' = open \ {t}
        /\ \A u \in Transfers :
              ~InHand(u, {"complete", "announce"}) /\ ~InHand(u, {"complete", "announce"})'
    BY <1>8, <2>1 DEF Reject, Teardown, InHand, Idle
  <2>3. QED
    BY <2>2, DropsOne
<1>9. CASE Complete
  <2>1. PICK t \in Transfers : t = hand.id /\ hand.step = "complete" /\ hand # Idle
    BY <1>0, <1>9, HandHolds DEF Complete, Hands, Idle
  <2>2. UNCHANGED <<announced, got>> /\ open' = open \ {t} /\ Hand("announce", t, 0)
    BY <1>9, <2>1 DEF Complete
  <2>3. \A u \in Transfers :
            /\ InHand(u, {"complete", "announce"}) <=> u = t
            /\ InHand(u, {"complete", "announce"})' <=> u = t
    BY <2>1, <2>2 DEF InHand, Hand, Idle
  <2>4. \A u \in Transfers : Phase(u)' = Phase(u)
    BY <2>2, <2>3 DEF Phase
  <2>5. QED
    BY <2>2, <2>4, PhasesStay
<1>10. CASE Announce
  <2>1. PICK t \in Transfers : t = hand.id /\ hand.step = "announce" /\ hand # Idle
    BY <1>0, <1>10, HandHolds DEF Announce, Hands, Idle
  <2>2. UNCHANGED <<open, got>> /\ announced' = announced \cup {t} /\ hand' = Idle
    BY <1>10, <2>1 DEF Announce, receives
  <2>3. InHand(t, {"announce"}) /\ InHand(t, {"complete", "announce"})
        /\ InHand(t, {"reject", "complete", "announce"})
    BY <2>1 DEF InHand
  <2>4. \A u \in Transfers :
            /\ u # t => ~InHand(u, {"complete", "announce"})
            /\ ~InHand(u, {"complete", "announce"})'
    BY <2>1, <2>2 DEF InHand, Idle
  <2>5. t \notin announced /\ got[t] = Size
    BY <1>0, <2>3 DEF Received, AcceptedIsComplete
  <2>6. /\ Phase(t) = "receiving" /\ Phase(t)' = "told"
        /\ \A u \in Transfers : u # t => Phase(u)' = Phase(u)
    BY <2>2, <2>3, <2>4, <2>5 DEF Phase
  <2>7. Phases' = [Phases EXCEPT ![t] = "told"] /\ Phases[t] = "receiving"
    BY <2>6, PhaseMoves DEF Phases
  <2>8. Abs!Tell(t)
    BY <2>2, <2>5, <2>7 DEF Abs!Tell, Abs!Moves, Phases
  <2>9. QED
    BY <2>8 DEF Abs!Next
<1>11. CASE HandleCancel
  <2>1. PICK t \in Transfers : t = Head(wire).id
    BY <1>0, <1>11, ReceivedTypes DEF HandleCancel
  <2>2. UNCHANGED <<announced, got, hand>> /\ open' \in {open, open \ {t}}
    BY <1>11, <2>1 DEF HandleCancel, Teardown
  <2>3. QED
    BY <1>1, <2>2, DropsOne DEF InHand
<1>12. ASSUME NEW t \in Transfers, StartSend(t) PROVE Abs!Next
  <2>1. /\ Unused(t) /\ got' = [got EXCEPT ![t] = 0]
        /\ UNCHANGED <<open, announced, hand>>
    BY <1>12 DEF StartSend
  <2>2. t \notin open \cup announced /\ ~InHand(t, {"complete", "announce"})
    BY <1>0, <2>1 DEF Received, Unused, InHand, Hands
  <2>3. Phases' = Phases /\ Phases[t] = "none"
    BY <2>1, <2>2, PhasesStay DEF Phase, Phases, InHand
  <2>4. Abs!Reuse(t)
    BY <2>1, <2>3 DEF Abs!Reuse, Phases
  <2>5. QED
    BY <2>4 DEF Abs!Next
<1>13. ASSUME NEW t \in Transfers, Collect(t) PROVE Abs!Next
  <2>1. t \in announced /\ announced' = announced \ {t} /\ UNCHANGED <<open, got, hand>>
    BY <1>13 DEF Collect
  <2>2. t \notin open /\ ~InHand(t, {"complete", "announce"})
    BY <1>0, <2>1 DEF Received, InHand
  <2>3. /\ Phase(t) = "told" /\ Phase(t)' = "none"
        /\ \A u \in Transfers : u # t => Phase(u)' = Phase(u)
    BY <2>1, <2>2 DEF Phase, InHand
  <2>4. Phases' = [Phases EXCEPT ![t] = "none"] /\ Phases[t] = "told"
    BY <2>3, PhaseMoves DEF Phases
  <2>5. Abs!Settle(t)
    BY <2>1, <2>4 DEF Abs!Settle, Abs!Moves, Phases
  <2>6. QED
    BY <2>5 DEF Abs!Next
<1>14. ASSUME NEW t \in Transfers, Reap(t) \/ DialogRemove(t)
       PROVE  Abs!Next \/ UNCHANGED <<Phases, got>>
  <2>1. UNCHANGED <<announced, got, hand>> /\ open' \in {open, open \ {t}}
    BY <1>14 DEF Reap, DialogRemove, Teardown
  <2>2. QED
    BY <1>1, <2>1, DropsOne DEF InHand
<1>15. ASSUME NEW t \in Transfers,
              DialogPoll(t) \/ DialogGoesOn(t) \/ DialogCancel(t) \/ DialogDelete(t)
       PROVE  UNCHANGED <<Phases, got>>
  BY <1>1, <1>15 DEF DialogPoll, DialogGoesOn, DialogCancel, DialogDelete, receives, InHand
<1>16. QED
  BY <1>2, <1>3, <1>4, <1>5, <1>6, <1>7, <1>8, <1>9, <1>10, <1>11, <1>12, <1>13, <1>14, <1>15,
     StepCases DEF ReceiverStep

\* However handlers, dialogs and the end of a session overlap: a transfer is
\* received chunk by chunk while its file is open, the user is told of it once
\* and of all of it, and what was given up never comes back.
THEOREM Refinement == Spec => ImplementsReceipt
<1>1. Init => Abs!Init
  <2>1. ASSUME Init PROVE \A t \in Transfers : Phase(t) = "none"
    BY <2>1 DEF Init, Phase, InHand
  <2>2. QED
    BY <2>1 DEF Init, Abs!Init
<1>2. Types /\ OrphanInv /\ ReceiptInv /\ AnnouncedComplete /\ AcceptedIsComplete /\ [Next]_vars
      => [Abs!Next]_<<[t \in Transfers |-> Phase(t)], got>>
  BY ReceiptStep DEF Phases
<1>3. QED
  BY <1>1, <1>2, TypesAreInvariant, OrphanInvariant, ReceiptInvariant, CompleteInvariant, PTL
  DEF Spec, ImplementsReceipt, Abs!Spec

=============================================================================
