---------------------------- MODULE FileTransfer ----------------------------
(***************************************************************************)
(* File transfers from one machine to another (internal/filetransfer): the *)
(* sender's streamFiles goroutines, the receiver's inboundFileLoop, which  *)
(* runs HandleInbound, and a progress dialog per receive; with the lanes   *)
(* that carry the frames and the sessions that come and go below them.     *)
(*                                                                         *)
(* A transfer is one file of Size chunks.  Control frames travel in the    *)
(* sender's high lane and chunks in its file lane: the writer may take     *)
(* either first (SendMux has the schedule).  What a machine queues for the *)
(* other in the other direction is "replies".  An id that nothing refers   *)
(* to any more is used again, so nothing bounds the number of transfers.   *)
(***************************************************************************)
EXTENDS Integers, FiniteSets, Sequences, SequencesExt

CONSTANTS
    Transfers,  \* transfer ids
    Size,       \* chunks in the offered file
    HighCap,    \* muxHighCap
    FileCap,    \* muxFileCap
    WireCap     \* frames in the connection and in fileInboundCh

ASSUME TransfersAssumption == IsFiniteSet(Transfers)

ASSUME SizeAssumption ==
    /\ Size \in Nat \ {0} /\ HighCap \in Nat \ {0}
    /\ FileCap \in Nat \ {0} /\ WireCap \in Nat \ {0}

VARIABLES
    \* the sender
    stream,     \* where each streamFiles goroutine is
    sent,       \* chunks it has read
    outbound,   \* FileTransferManager.outbound
    accepted, canceled,     \* activeSends whose channel is closed
    high, file, \* the sender's lanes
    \* the receiver
    wire,       \* frames on their way to HandleInbound
    hand,       \* what inboundFileLoop is doing
    active,     \* FileTransferManager.active
    open,       \* receives whose file is open
    finished,   \* receives whose done is closed
    got,        \* chunks written
    dir,        \* temporary directories that exist
    announced,  \* App.pendingRecvDirs
    dialog,     \* where each runProgressDialog is
    replies,    \* the receiver's lane to the sender
    \* the session
    live,       \* there is one
    sEnd, rEnd, \* how far each end's OnDisconnect has come
    doomed,     \* the ids the receiver's CancelAll has yet to cancel
    orphans     \* receives that outlived the session (history)

lanes    == <<high, file>>
sender   == <<stream, sent, outbound, accepted, canceled>>
receives == <<active, open, finished, got, dir>>
receiver == <<receives, hand, announced, dialog>>
session  == <<live, sEnd, rEnd, doomed, orphans>>
vars     == <<sender, lanes, wire, receiver, replies, session>>

Frames  == [kind : {"offer", "chunk", "done", "cancel"}, id : Transfers, at : 0..Size]
Replies == [kind : {"accept", "cancel"}, id : Transfers]
Frame(kind, t) == [kind |-> kind, id |-> t, at |-> 0]
Reply(kind, t) == [kind |-> kind, id |-> t]

Streams == {"idle", "waiting", "reading", "chunk", "blocked", "eof", "error", "done", "cancel"}
Hands   == {"register", "write", "abort", "reject", "complete", "announce"}
Dialogs == {"none", "running", "ticked", "cancelling", "deleted"}
Idle    == [step |-> "idle"]

TypeOK ==
    /\ stream \in [Transfers -> Streams]
    /\ sent \in [Transfers -> 0..(Size + 1)]
    /\ outbound \subseteq Transfers
    /\ accepted \subseteq Transfers /\ canceled \subseteq Transfers
    /\ high \in Seq(Frames) /\ Len(high) <= HighCap
    /\ file \in Seq(Frames) /\ Len(file) <= FileCap
    /\ wire \in Seq(Frames) /\ Len(wire) <= WireCap
    /\ hand \in {Idle} \cup [step : Hands, id : Transfers, at : 0..Size]
    /\ active \subseteq Transfers /\ open \subseteq Transfers
    /\ finished \subseteq Transfers
    /\ got \in [Transfers -> 0..Size]
    /\ dir \subseteq Transfers /\ announced \subseteq Transfers
    /\ dialog \in [Transfers -> Dialogs]
    /\ replies \in Seq(Replies) /\ Len(replies) <= HighCap
    /\ live \in BOOLEAN
    /\ sEnd \in {"up", "drain", "cancel", "unset", "down"}
    /\ rEnd \in {"up", "drain", "cancel", "reap", "down"}
    /\ doomed \subseteq Transfers /\ orphans \subseteq Transfers

Init ==
    /\ stream = [t \in Transfers |-> "idle"] /\ sent = [t \in Transfers |-> 0]
    /\ outbound = {} /\ accepted = {} /\ canceled = {}
    /\ high = <<>> /\ file = <<>> /\ wire = <<>> /\ replies = <<>>
    /\ hand = Idle
    /\ active = {} /\ open = {} /\ finished = {} /\ dir = {} /\ announced = {}
    /\ got = [t \in Transfers |-> 0]
    /\ dialog = [t \in Transfers |-> "none"]
    /\ live = TRUE /\ sEnd = "up" /\ rEnd = "up" /\ doomed = {} /\ orphans = {}

\* enqueueSend on the high lane: a frame that finds it full is dropped.
Queued(lane, frame) == IF Len(lane) < HighCap THEN Append(lane, frame) ELSE lane

\* Several frames, one after the other.
QueuedAll(lane, frames) ==
    LET room == HighCap - Len(lane)
    IN  lane \o SubSeq(frames, 1, IF Len(frames) <= room THEN Len(frames) ELSE room)

\* FileTransferManager.send on each side: a no-op once sendFn is nil.
Send(frame) == high' = IF sEnd = "down" THEN high ELSE Queued(high, frame)
Answer(reply) == replies' = IF rEnd = "down" THEN replies ELSE Queued(replies, reply)

(***************************************************************************)
(* The sender.                                                             *)
(***************************************************************************)

InHand(t, steps) == hand # Idle /\ hand.id = t /\ hand.step \in steps

\* Nothing anywhere refers to id t: a random new id may be t.
Unused(t) ==
    /\ stream[t] = "idle" /\ t \notin active \cup dir \cup announced \cup doomed
    /\ dialog[t] = "none"
    /\ \A lane \in {high, file, wire, replies} :
          \A i \in 1..Len(lane) : lane[i].id # t
    /\ ~InHand(t, Hands)

\* The user sends a file.
StartSend(t) ==
    /\ Unused(t)
    /\ stream' = [stream EXCEPT ![t] = "waiting"]
    /\ sent' = [sent EXCEPT ![t] = 0]
    /\ outbound' = outbound \cup {t}
    /\ accepted' = accepted \ {t} /\ canceled' = canceled \ {t}
    /\ Send(Frame("offer", t))
    /\ orphans' = orphans \ {t} /\ finished' = finished \ {t}
    /\ got' = [got EXCEPT ![t] = 0]
    /\ UNCHANGED <<file, wire, active, open, dir, hand, announced, dialog,
                   replies, live, sEnd, rEnd, doomed>>

Step(t, label) == stream' = [stream EXCEPT ![t] = label]

\* streamFiles: accepted, or else canceled or ten seconds without an answer.
Start(t) ==
    /\ stream[t] = "waiting" /\ t \in accepted
    /\ Step(t, "reading")
    /\ UNCHANGED <<sent, outbound, accepted, canceled, lanes, wire, receiver,
                   replies, session>>

GiveUp(t) ==
    /\ \/ stream[t] = "waiting"
       \/ stream[t] = "reading" /\ t \in canceled
    /\ Step(t, "idle")
    /\ outbound' = outbound \ {t}
    /\ UNCHANGED <<sent, accepted, canceled, lanes, wire, receiver, replies, session>>

\* Not canceled, it reads a chunk.  The file may have changed since it was
\* offered: it ends early, has one chunk too many, or cannot be read.
Read(t) ==
    /\ stream[t] = "reading" /\ t \notin canceled
    /\ \/ sent[t] <= Size /\ Step(t, "chunk") /\ sent' = [sent EXCEPT ![t] = @ + 1]
       \/ \E label \in {"eof", "error"} : Step(t, label) /\ UNCHANGED sent
    /\ UNCHANGED <<outbound, accepted, canceled, lanes, wire, receiver, replies, session>>

\* send reads sendFn: without one the chunk is lost.
OfferChunk(t) ==
    /\ stream[t] = "chunk"
    /\ Step(t, IF sEnd = "down" THEN "reading" ELSE "blocked")
    /\ UNCHANGED <<sent, outbound, accepted, canceled, lanes, wire, receiver,
                   replies, session>>

\* It waits for room in the file lane, whatever becomes of the session.
SendChunk(t) ==
    /\ stream[t] = "blocked" /\ Len(file) < FileCap
    /\ file' = Append(file, [kind |-> "chunk", id |-> t, at |-> sent[t] - 1])
    /\ Step(t, "reading")
    /\ UNCHANGED <<sent, outbound, accepted, canceled, high, wire, receiver,
                   replies, session>>

\* The stream is over: clearOutbound, then Done or Cancel.
Clear(t) ==
    /\ stream[t] \in {"eof", "error"}
    /\ Step(t, IF stream[t] = "eof" THEN "done" ELSE "cancel")
    /\ outbound' = outbound \ {t}
    /\ UNCHANGED <<sent, accepted, canceled, lanes, wire, receiver, replies, session>>

SendLast(t) ==
    /\ stream[t] \in {"done", "cancel"}
    /\ Send(Frame(stream[t], t))
    /\ Step(t, "idle")
    /\ UNCHANGED <<sent, outbound, accepted, canceled, file, wire, receiver,
                   replies, session>>

\* handleAccept and handleCancel, as run by the sender's inboundFileLoop.
\* Without a session the receiver's writer discards the reply instead.
HandleReply ==
    /\ replies # <<>>
    /\ replies' = Tail(replies)
    /\ LET reply == Head(replies)
           known == IF live THEN {reply.id} \cap outbound ELSE {}
       IN  IF reply.kind = "accept"
           THEN accepted' = accepted \cup known /\ UNCHANGED <<outbound, canceled>>
           ELSE /\ outbound' = outbound \ known
                /\ canceled' = canceled \cup known
                /\ UNCHANGED accepted
    /\ UNCHANGED <<stream, sent, lanes, wire, receiver, session>>

(***************************************************************************)
(* The writer: without a session a frame it takes is lost.                 *)
(***************************************************************************)

Deliver(frame) ==
    \/ ~live /\ UNCHANGED wire
    \/ live /\ Len(wire) < WireCap /\ wire' = Append(wire, frame)

WriteHigh ==
    /\ high # <<>>
    /\ high' = Tail(high)
    /\ Deliver(Head(high))
    /\ UNCHANGED <<sender, file, receiver, replies, session>>

\* Mutant: chunks wait for a session.
WriteFileWhenLive ==
    /\ file # <<>> /\ live
    /\ file' = Tail(file)
    /\ Deliver(Head(file))
    /\ UNCHANGED <<sender, high, receiver, replies, session>>

WriteFile ==
    /\ file # <<>>
    /\ file' = Tail(file)
    /\ Deliver(Head(file))
    /\ UNCHANGED <<sender, high, receiver, replies, session>>

(***************************************************************************)
(* The receiver's inboundFileLoop.                                         *)
(***************************************************************************)

Hand(step, t, at) == hand' = [step |-> step, id |-> t, at |-> at]

\* Mutant: done is not closed.
TeardownUnfinished(ts) ==
    /\ open' = open \ ts
    /\ dir' = dir \ ts
    /\ UNCHANGED finished

\* closeFiles, RemoveAll and finish, of receives no longer in the table.
Teardown(ts) ==
    /\ open' = open \ ts
    /\ dir' = dir \ ts
    /\ finished' = finished \cup ts

\* The next frame is taken: its handler runs up to the point where it stops
\* holding ft.mu.
Receive(kind) ==
    /\ hand = Idle /\ wire # <<>> /\ Head(wire).kind = kind
    /\ wire' = Tail(wire)

\* handleOffer makes the directory and the files, or cannot (a name it does not
\* accept, an id it has, an error of the disk) and answers Cancel.
HandleOffer ==
    /\ Receive("offer")
    /\ LET t == Head(wire).id
       IN  \/ /\ Hand("register", t, 0)
              /\ dir' = dir \cup {t} /\ open' = open \cup {t}
              /\ UNCHANGED replies
           \/ /\ UNCHANGED <<hand, dir, open>>
              /\ Answer(Reply("cancel", t))
    /\ UNCHANGED <<sender, lanes, active, finished, got, announced, dialog, session>>

\* It registers the receive, accepts, and starts the dialog.
Register ==
    /\ hand.step = "register"
    /\ LET t == hand.id
       IN  /\ active' = active \cup {t}
           /\ dialog' = [dialog EXCEPT ![t] = "running"]
           /\ Answer(Reply("accept", t))
           /\ orphans' = IF rEnd = "down" THEN orphans \cup {t} ELSE orphans
    /\ hand' = Idle
    /\ UNCHANGED <<sender, lanes, wire, open, finished, got, dir, announced,
                   live, sEnd, rEnd, doomed>>

\* handleChunk looks the receive up, ...
HandleChunk ==
    /\ Receive("chunk")
    /\ IF Head(wire).id \in active
       THEN Hand("write", Head(wire).id, Head(wire).at)
       ELSE UNCHANGED hand
    /\ UNCHANGED <<sender, lanes, receives, announced, dialog, replies, session>>

\* Mutant: the receive that was looked up is taken to be open still.
WriteWithoutLooking ==
    /\ hand.step = "write"
    /\ LET t == hand.id
       IN  IF hand.at = got[t] /\ got[t] < Size
           THEN hand' = Idle /\ got' = [got EXCEPT ![t] = @ + 1]
           ELSE Hand("abort", t, 0) /\ UNCHANGED got
    /\ UNCHANGED <<sender, lanes, wire, active, open, finished, dir, announced,
                   dialog, replies, session>>

\* ... and writes the chunk if done is not closed and the file is still open.
\* A chunk that is not the next, or that the disk refuses, aborts.
Write ==
    /\ hand.step = "write"
    /\ LET t == hand.id
           ignored == t \in finished \/ t \notin open
           inPlace == hand.at = got[t] /\ got[t] < Size
       IN  \/ ignored /\ hand' = Idle /\ UNCHANGED got
           \/ ~ignored /\ inPlace /\ hand' = Idle /\ got' = [got EXCEPT ![t] = @ + 1]
           \/ ~ignored /\ Hand("abort", t, 0) /\ UNCHANGED got
    /\ UNCHANGED <<sender, lanes, wire, active, open, finished, dir, announced,
                   dialog, replies, session>>

\* abortReceive: only if the receive is still the table's.
Abort ==
    /\ hand.step = "abort"
    /\ IF hand.id \in active
       THEN /\ active' = active \ {hand.id}
            /\ Teardown({hand.id})
            /\ Answer(Reply("cancel", hand.id))
       ELSE UNCHANGED <<active, open, finished, dir, replies>>
    /\ hand' = Idle
    /\ UNCHANGED <<sender, lanes, wire, got, announced, dialog, session>>

\* Mutant: what was received is not compared with the offer.
HandleDoneUnchecked ==
    /\ Receive("done")
    /\ LET t == Head(wire).id
       IN  IF t \in active
           THEN active' = active \ {t} /\ Hand("complete", t, 0)
           ELSE UNCHANGED <<active, hand>>
    /\ UNCHANGED <<sender, lanes, open, finished, got, dir, announced, dialog,
                   replies, session>>

\* validateComplete: every byte of the offer has been written.
Whole(t) == got[t] = Size

\* handleDone takes the receive out of the table and validates it: ...
HandleDone ==
    /\ Receive("done")
    /\ LET t == Head(wire).id
       IN  IF t \in active
           THEN /\ active' = active \ {t}
                /\ Hand(IF Whole(t) THEN "complete" ELSE "reject", t, 0)
           ELSE UNCHANGED <<active, hand>>
    /\ UNCHANGED <<sender, lanes, open, finished, got, dir, announced, dialog,
                   replies, session>>

\* ... rejected, ...
Reject ==
    /\ hand.step = "reject"
    /\ Teardown({hand.id})
    /\ Answer(Reply("cancel", hand.id))
    /\ hand' = Idle
    /\ UNCHANGED <<sender, lanes, wire, active, got, announced, dialog, session>>

\* ... or the files are closed and go to the clipboard, and onComplete
\* registers the directory and tells the user.
Complete ==
    /\ hand.step = "complete"
    /\ open' = open \ {hand.id} /\ finished' = finished \cup {hand.id}
    /\ Hand("announce", hand.id, 0)
    /\ UNCHANGED <<sender, lanes, wire, active, got, dir, announced, dialog,
                   replies, session>>

Announce ==
    /\ hand.step = "announce"
    /\ announced' = announced \cup {hand.id}
    /\ hand' = Idle
    /\ UNCHANGED <<sender, lanes, wire, receives, dialog, replies, session>>

\* Mutant: the directory stays on the disk.
HandleCancelKeepsDir ==
    /\ Receive("cancel")
    /\ LET ts == {Head(wire).id} \cap active
       IN  /\ active' = active \ ts /\ open' = open \ ts
           /\ finished' = finished \cup ts /\ UNCHANGED dir
    /\ UNCHANGED <<sender, lanes, hand, got, announced, dialog, replies, session>>

\* handleCancel, for a receive.
HandleCancel ==
    /\ Receive("cancel")
    /\ LET ts == {Head(wire).id} \cap active
       IN  active' = active \ ts /\ Teardown(ts)
    /\ UNCHANGED <<sender, lanes, hand, got, announced, dialog, replies, session>>

\* SaveReceivedFiles or DiscardReceivedFiles.
Collect(t) ==
    /\ t \in announced
    /\ announced' = announced \ {t} /\ dir' = dir \ {t}
    /\ UNCHANGED <<sender, lanes, wire, active, open, finished, got, hand,
                   dialog, replies, session>>

(***************************************************************************)
(* The progress dialog.                                                    *)
(***************************************************************************)

Dialog(t, label) == dialog' = [dialog EXCEPT ![t] = label]

\* Each tenth of a second: stop when done is closed, or else show progress.
DialogPoll(t) ==
    /\ dialog[t] = "running"
    /\ Dialog(t, IF t \in finished THEN "none" ELSE "ticked")
    /\ UNCHANGED <<sender, lanes, wire, receives, hand, announced, replies, session>>

DialogGoesOn(t) ==
    /\ dialog[t] = "ticked"
    /\ Dialog(t, "running")
    /\ UNCHANGED <<sender, lanes, wire, receives, hand, announced, replies, session>>

\* The user has pressed Cancel in it: Cancel is sent, the receive is taken out
\* of the table, and torn down.
DialogCancel(t) ==
    /\ dialog[t] = "ticked"
    /\ Dialog(t, "cancelling")
    /\ Answer(Reply("cancel", t))
    /\ UNCHANGED <<sender, lanes, wire, receives, hand, announced, session>>

DialogDelete(t) ==
    /\ dialog[t] = "cancelling"
    /\ Dialog(t, "deleted")
    /\ active' = active \ {t}
    /\ UNCHANGED <<sender, lanes, wire, open, finished, got, dir, hand, announced,
                   replies, session>>

DialogRemove(t) ==
    /\ dialog[t] = "deleted"
    /\ Dialog(t, "none")
    /\ Teardown({t})
    /\ UNCHANGED <<sender, lanes, wire, active, got, hand, announced, replies, session>>

(***************************************************************************)
(* Sessions.  How callbacks of two sessions may overlap is                 *)
(* SessionLifecycle; here they do not.                                     *)
(***************************************************************************)

SessionEnds ==
    /\ live /\ live' = FALSE
    /\ sEnd' = "drain" /\ rEnd' = "drain"
    /\ UNCHANGED <<sender, lanes, wire, receiver, replies, doomed, orphans>>

\* The sender's OnDisconnect: the lanes are drained, CancelAll, SetSendFn(nil).
SenderDrains ==
    /\ sEnd = "drain" /\ sEnd' = "cancel"
    /\ high' = <<>> /\ file' = <<>>
    /\ UNCHANGED <<sender, wire, receiver, replies, live, rEnd, doomed, orphans>>

SenderCancels ==
    /\ sEnd = "cancel" /\ sEnd' = "unset"
    /\ outbound' = {} /\ canceled' = canceled \cup outbound
    /\ \E ids \in SetToSeqs(outbound) :
          LET cancels == [i \in 1..Len(ids) |-> Frame("cancel", ids[i])]
          IN  high' = QueuedAll(high, cancels)
    /\ UNCHANGED <<stream, sent, accepted, file, wire, receiver, replies, live,
                   rEnd, doomed, orphans>>

SenderUnsets ==
    /\ sEnd = "unset" /\ sEnd' = "down"
    /\ UNCHANGED <<sender, lanes, wire, receiver, replies, live, rEnd, doomed, orphans>>

\* The receiver's: its lanes and what its read loop queued are drained, ...
ReceiverDrains ==
    /\ rEnd = "drain" /\ rEnd' = "cancel"
    /\ wire' = <<>> /\ replies' = <<>>
    /\ UNCHANGED <<sender, lanes, receiver, live, sEnd, doomed, orphans>>

\* ... CancelAll sends a Cancel for each receive and then tears each down, ...
ReceiverCancels ==
    /\ rEnd = "cancel" /\ rEnd' = "reap"
    /\ doomed' = active
    /\ \E ids \in SetToSeqs(active) :
          LET cancels == [i \in 1..Len(ids) |-> Reply("cancel", ids[i])]
          IN  replies' = QueuedAll(replies, cancels)
    /\ UNCHANGED <<sender, lanes, wire, receiver, live, sEnd, orphans>>

\* Mutant: only outbound transfers are cancelled.
ReapNothing(t) ==
    /\ rEnd = "reap" /\ t \in doomed
    /\ doomed' = doomed \ {t}
    /\ UNCHANGED <<sender, lanes, wire, receiver, replies, live, sEnd, rEnd, orphans>>

Reap(t) ==
    /\ rEnd = "reap" /\ t \in doomed
    /\ doomed' = doomed \ {t}
    /\ active' = active \ {t}
    /\ Teardown({t} \cap active)
    /\ UNCHANGED <<sender, lanes, wire, got, hand, announced, dialog, replies,
                   live, sEnd, rEnd, orphans>>

\* ... and SetSendFn(nil).
ReceiverUnsets ==
    /\ rEnd = "reap" /\ doomed = {} /\ rEnd' = "down"
    /\ orphans' = active
    /\ UNCHANGED <<sender, lanes, wire, receiver, replies, live, sEnd, doomed>>

\* A new session: OnConnect drains what was left and sets sendFn.
SessionBegins ==
    /\ ~live /\ sEnd = "down" /\ rEnd = "down"
    /\ live' = TRUE /\ sEnd' = "up" /\ rEnd' = "up"
    /\ high' = <<>> /\ file' = <<>> /\ wire' = <<>> /\ replies' = <<>>
    /\ UNCHANGED <<sender, receiver, doomed, orphans>>

Sender(t) ==
    \/ Start(t) \/ GiveUp(t) \/ Read(t) \/ OfferChunk(t) \/ SendChunk(t)
    \/ Clear(t) \/ SendLast(t)
InboundLoop ==
    \/ HandleOffer \/ Register \/ HandleChunk \/ Write \/ Abort
    \/ HandleDone \/ Reject \/ Complete \/ Announce \/ HandleCancel
Progress(t) ==
    \/ DialogPoll(t) \/ DialogGoesOn(t) \/ DialogCancel(t)
    \/ DialogDelete(t) \/ DialogRemove(t)
Callbacks ==
    \/ SenderDrains \/ SenderCancels \/ SenderUnsets
    \/ ReceiverDrains \/ ReceiverCancels \/ (\E t \in Transfers : Reap(t))
    \/ ReceiverUnsets

Next ==
    \/ \E t \in Transfers : StartSend(t) \/ Sender(t) \/ Progress(t) \/ Collect(t)
    \/ HandleReply \/ WriteHigh \/ WriteFile \/ InboundLoop
    \/ SessionEnds \/ Callbacks \/ SessionBegins

Spec == Init /\ [][Next]_vars

(***************************************************************************)
(* Goroutines go on: streams, the writer, both inbound loops, the dialogs  *)
(* and OnDisconnect.  No session need end or begin, and no user act.       *)
(***************************************************************************)
Fairness ==
    /\ \A t \in Transfers : WF_vars(Sender(t)) /\ WF_vars(Progress(t))
    /\ WF_vars(WriteHigh) /\ WF_vars(WriteFile)
    /\ WF_vars(HandleReply) /\ WF_vars(InboundLoop) /\ WF_vars(Callbacks)

FairSpec == Spec /\ Fairness

(***************************************************************************)
(* Properties.                                                             *)
(***************************************************************************)

\* Someone holds receive t and is going to be done with it: the table (for
\* Done, Cancel, CancelAll), a handler, or the dialog after Cancel.
Held(t) ==
    \/ t \in active
    \/ InHand(t, {"register", "reject", "complete", "announce"})
    \/ dialog[t] = "deleted"

\* A temporary directory is never forgotten, however Done, Cancel, an abort,
\* the user's cancel and the end of the session overlap: it is the user's to
\* save or discard, or someone is still going to remove or announce it.
DirsAreHeld == \A t \in Transfers : t \in dir => t \in announced \/ Held(t)

\* Nor is a progress dialog: until done is closed, someone is going to.
DialogsAreHeld == \A t \in Transfers : dialog[t] # "none" => t \in finished \/ Held(t)

\* What the user is told he received has every chunk that was offered, in
\* order, though Done may overtake chunks on the way.
AnnouncedComplete == \A t \in Transfers : t \in announced => got[t] = Size

\* A receive that outlived its session (its offer was in hand when CancelAll
\* looked) gets nothing from the next one, where the sender's stream of the
\* old one may still have a chunk to send.
OrphansStayEmpty == \A t \in orphans : got[t] = 0 /\ t \notin announced

\* A transfer is being received while its file is open, and from then on while
\* handleDone takes it to the user.
Phase(t) ==
    IF t \in announced THEN "told"
    ELSE IF t \in open \/ InHand(t, {"complete", "announce"}) THEN "receiving"
    ELSE "none"

Abs == INSTANCE Receipt WITH phase <- [t \in Transfers |-> Phase(t)], count <- got

\* However Done, Cancel, an abort, the user's cancel and the end of the session
\* overlap with a chunk or a Done in the handler's hand, each step does to what
\* the user has of a transfer what Receipt allows: nothing is written once the
\* receive was given up, he is told once, and only of the whole.
ImplementsReceipt == Abs!Spec

\* Every stream ends: accepted, refused, unanswered, cut off by the end of the
\* session or blocked on a full file lane when that happens.
StreamsEnd == \A t \in Transfers : stream[t] # "idle" ~> stream[t] = "idle"

\* A dialog ends once its receive is over.
DialogsEnd ==
    \A t \in Transfers : dialog[t] # "none" /\ t \in finished ~> dialog[t] = "none"

\* Nothing that was started is left behind, on either side.
TransfersEnd == StreamsEnd /\ DialogsEnd

\* With back-pressure instead of dropped chunks, a transfer of which every
\* chunk was sent is not turned down as incomplete.
WholeIsNotRejected ==
    hand.step = "reject" => sent[hand.id] # Size
=============================================================================
