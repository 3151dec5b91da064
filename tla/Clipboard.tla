------------------------------- MODULE Clipboard -------------------------------
(***************************************************************************)
(* Clipboard text shared by the two machines of a session: the record of   *)
(* what was sent and received (internal/clipboard/clipboard_sync.go), the  *)
(* poll of the local clipboard and the writer of received text             *)
(* (app_background.go), the frame handler (app_frames.go), and what a new  *)
(* session does to them (OnConnect and OnDisconnect in app_startup.go).    *)
(*                                                                         *)
(* On each machine the read loop records a received text under App.mu and  *)
(* then hands it to the writer through a channel of one; the poll reads    *)
(* the clipboard and decides under App.mu whether to send.  The poll and   *)
(* the writer hold nothing across their steps, and a session may end and   *)
(* the next begin between any two of them, on one machine before the       *)
(* other.                                                                  *)
(***************************************************************************)
EXTENDS Integers, Sequences

CONSTANTS
    Machines,
    Texts,
    MaxCopies  \* bound on the user's copies in a behaviour

VARIABLES
    clip,     \* the text of each machine's clipboard, and a changed flag that
              \* stands for its sequence number against lastSeq
    lastText, \* State.lastLocalText
    pending,  \* State.pendingRemoteText, if suppressRemoteOnce
    arriving, \* text recorded by the read loop and not yet handed on
    inbox,    \* clipboardInCh
    polled,   \* text the poll has read and not yet decided about
    wire,     \* texts on their way to each machine, ...
    sent,     \* ... the first of which have left the other's send lanes
    joined,   \* the transport has a session
    opening,  \* OnConnect has not drained the lanes yet
    ending,   \* what OnDisconnect has still to do
    alive,    \* the two are connected
    copies,   \* number of copies so far
    crossed,  \* somebody copied before the last text had settled, or a machine
              \* sent while a text was on its way to it (history)
    lost      \* a text was dropped on its way (history)

records == <<lastText, pending>>
text    == <<clip, records, arriving, inbox, polled>>
way     == <<wire, sent>>
session == <<joined, opening, ending, alive>>
history == <<copies, crossed, lost>>
vars    == <<text, way, session, history>>

None == ""

TypeOK ==
    /\ clip \in [Machines -> [text : Texts \cup {None}, changed : BOOLEAN]]
    /\ lastText \in [Machines -> Texts \cup {None}]
    /\ pending \in [Machines -> Texts \cup {None}]
    /\ arriving \in [Machines -> Texts \cup {None}]
    /\ inbox \in [Machines -> Texts \cup {None}]
    /\ polled \in [Machines -> Texts \cup {None}]
    /\ wire \in [Machines -> Seq(Texts)]
    /\ sent \in [Machines -> Nat] /\ \A m \in Machines : sent[m] <= Len(wire[m])
    /\ joined \in [Machines -> BOOLEAN] /\ opening \in [Machines -> BOOLEAN]
    /\ ending \in [Machines -> {"no", "drain", "reset"}] /\ alive \in BOOLEAN
    /\ copies \in 0..MaxCopies /\ crossed \in BOOLEAN /\ lost \in BOOLEAN

Init ==
    /\ clip = [m \in Machines |-> [text |-> None, changed |-> TRUE]]
    /\ lastText = [m \in Machines |-> None] /\ pending = [m \in Machines |-> None]
    /\ arriving = [m \in Machines |-> None] /\ inbox = [m \in Machines |-> None]
    /\ polled = [m \in Machines |-> None]
    /\ wire = [m \in Machines |-> <<>>] /\ sent = [m \in Machines |-> 0]
    /\ joined = [m \in Machines |-> FALSE] /\ opening = [m \in Machines |-> FALSE]
    /\ ending = [m \in Machines |-> "no"] /\ alive = FALSE
    /\ copies = 0 /\ crossed = FALSE /\ lost = FALSE

Other(m) == CHOOSE n \in Machines : n # m

\* A text from the other machine is on its way to m's clipboard.
Coming(m) == wire[m] # <<>> \/ arriving[m] # None \/ inbox[m] # None

Quiet ==
    \A m \in Machines : ~Coming(m) /\ polled[m] = None /\ (clip[m].changed => clip[m].text = None)

(***************************************************************************)
(* The clipboards.                                                         *)
(***************************************************************************)

\* The user, or a program, copies.
Copy(m, new) ==
    /\ copies < MaxCopies
    /\ clip' = [clip EXCEPT ![m] = [text |-> new, changed |-> TRUE]]
    /\ copies' = copies + 1
    /\ crossed' = (crossed \/ ~Quiet)
    /\ UNCHANGED <<records, arriving, inbox, polled, way, session, lost>>

\* clipboardSync, while there is a session, reads the clipboard if its sequence
\* number has changed; a read that gives nothing leaves the number to be looked
\* at again.
Poll(m) ==
    /\ joined[m] /\ polled[m] = None /\ clip[m].changed /\ clip[m].text # None
    /\ polled' = [polled EXCEPT ![m] = clip[m].text]
    /\ clip' = [clip EXCEPT ![m].changed = FALSE]
    /\ UNCHANGED <<records, arriving, inbox, way, session, history>>

\* PrepareOutboundClipboard: a text goes out unless it is the last one or the
\* one that was just received.
Fresh(m) == polled[m] # lastText[m] /\ polled[m] # pending[m]

\* enqueueSend: the high lane takes the text, or is full of other frames and
\* drops it.
Enqueue(m) ==
    \/ wire' = [wire EXCEPT ![Other(m)] = Append(@, polled[m])] /\ UNCHANGED lost
    \/ lost' = TRUE /\ UNCHANGED wire

\* Mutant: the text received last is held back for good, not once.
OfferKeepsPending(m) ==
    /\ polled[m] # None
    /\ polled' = [polled EXCEPT ![m] = None]
    /\ lastText' = [lastText EXCEPT ![m] = polled[m]]
    /\ IF Fresh(m) THEN Enqueue(m) ELSE UNCHANGED <<wire, lost>>
    /\ crossed' = (crossed \/ (Fresh(m) /\ Coming(m)))
    /\ UNCHANGED <<clip, pending, arriving, inbox, sent, session, copies>>

\* The rest of clipboardSync.
Offer(m) ==
    /\ polled[m] # None
    /\ polled' = [polled EXCEPT ![m] = None]
    /\ lastText' = [lastText EXCEPT ![m] = polled[m]]
    /\ pending' = IF polled[m] = lastText[m] THEN pending ELSE [pending EXCEPT ![m] = None]
    /\ IF Fresh(m) THEN Enqueue(m) ELSE UNCHANGED <<wire, lost>>
    /\ crossed' = (crossed \/ (Fresh(m) /\ Coming(m)))
    /\ UNCHANGED <<clip, arriving, inbox, sent, session, copies>>

\* muxSend writes m's next text to the session, if there is one.
Send(m) ==
    LET n == Other(m)
    IN  /\ sent[n] < Len(wire[n])
        /\ IF joined[m] /\ alive
           THEN sent' = [sent EXCEPT ![n] = @ + 1] /\ UNCHANGED <<wire, lost>>
           ELSE /\ wire' = [wire EXCEPT ![n] = SubSeq(@, 1, sent[n]) \o SubSeq(@, sent[n] + 2, Len(@))]
                /\ lost' = TRUE /\ UNCHANGED sent
        /\ UNCHANGED <<text, session, copies, crossed>>

\* The frame handler: RecordRemoteClipboard.
Receive(m) ==
    /\ joined[m] /\ ~opening[m] /\ sent[m] > 0 /\ arriving[m] = None
    /\ wire' = [wire EXCEPT ![m] = Tail(@)] /\ sent' = [sent EXCEPT ![m] = @ - 1]
    /\ arriving' = [arriving EXCEPT ![m] = Head(wire[m])]
    /\ pending' = [pending EXCEPT ![m] = IF Head(wire[m]) = lastText[m] THEN None ELSE Head(wire[m])]
    /\ UNCHANGED <<clip, lastText, inbox, polled, session, history>>

\* queueClipboardWrite: the newest text replaces one nobody has taken.
Queue(m) ==
    /\ arriving[m] # None
    /\ inbox' = [inbox EXCEPT ![m] = arriving[m]]
    /\ arriving' = [arriving EXCEPT ![m] = None]
    /\ UNCHANGED <<clip, records, polled, way, session, history>>

\* clipboardWriter.  SetClipboardText gives up when it cannot open the clipboard
\* or has no memory, and may have emptied it when Windows does not take the text.
Write(m) ==
    /\ inbox[m] # None
    /\ inbox' = [inbox EXCEPT ![m] = None]
    /\ \/ clip' = [clip EXCEPT ![m] = [text |-> inbox[m], changed |-> TRUE]] /\ UNCHANGED lost
       \/ lost' = TRUE /\ UNCHANGED clip
       \/ lost' = TRUE /\ clip' = [clip EXCEPT ![m] = [text |-> None, changed |-> TRUE]]
    /\ UNCHANGED <<records, arriving, polled, way, session, copies, crossed>>

(***************************************************************************)
(* Sessions.                                                               *)
(***************************************************************************)

\* m installs a session, of a new connection or of the one on which the other
\* has.  The poll will see that it is another one, and look at the clipboard
\* again.  (Bound: the last OnConnect has drained.)
Begin(m) ==
    /\ ~joined[m] /\ ~opening[m]
    /\ alive \/ \A n \in Machines : ~joined[n]
    /\ joined' = [joined EXCEPT ![m] = TRUE] /\ opening' = [opening EXCEPT ![m] = TRUE]
    /\ alive' = TRUE
    /\ clip' = [clip EXCEPT ![m].changed = TRUE]
    /\ UNCHANGED <<records, arriving, inbox, polled, way, ending, history>>

\* m's session ends, by Disconnect or by its read loop, and the connection with
\* it: what was sent and not received is gone.  (Bound: the last OnDisconnect
\* has reset the record.)
End(m) ==
    /\ joined[m] /\ ending[m] = "no"
    /\ joined' = [joined EXCEPT ![m] = FALSE] /\ ending' = [ending EXCEPT ![m] = "drain"]
    /\ alive' = FALSE
    /\ wire' = [n \in Machines |-> SubSeq(wire[n], sent[n] + 1, Len(wire[n]))]
    /\ sent' = [n \in Machines |-> 0]
    /\ lost' = (lost \/ \E n \in Machines : sent[n] > 0)
    /\ UNCHANGED <<text, opening, copies, crossed>>

\* drainSendMux on m.
DrainLanes(m) ==
    LET n == Other(m)
    IN  /\ wire' = [wire EXCEPT ![n] = SubSeq(@, 1, sent[n])]
        /\ lost' = (lost \/ sent[n] < Len(wire[n]))
        /\ UNCHANGED sent

\* OnConnect drains, when the session has been there for a while; OnDisconnect
\* drains, ...
OpenDrain(m) ==
    /\ opening[m] /\ opening' = [opening EXCEPT ![m] = FALSE]
    /\ DrainLanes(m)
    /\ UNCHANGED <<text, joined, ending, alive, copies, crossed>>

EndDrain(m) ==
    /\ ending[m] = "drain" /\ ending' = [ending EXCEPT ![m] = "reset"]
    /\ DrainLanes(m)
    /\ UNCHANGED <<text, joined, opening, alive, copies, crossed>>

\* ... and resets the record: State.Reset.
Reset(m) ==
    /\ ending[m] = "reset" /\ ending' = [ending EXCEPT ![m] = "no"]
    /\ lastText' = [lastText EXCEPT ![m] = None]
    /\ pending' = [pending EXCEPT ![m] = None]
    /\ UNCHANGED <<clip, arriving, inbox, polled, way, joined, opening, alive, history>>

Next ==
    \E m \in Machines :
        \/ \E new \in Texts : Copy(m, new)
        \/ Poll(m) \/ Offer(m) \/ Send(m) \/ Receive(m) \/ Queue(m) \/ Write(m)
        \/ Begin(m) \/ End(m) \/ OpenDrain(m) \/ EndDrain(m) \/ Reset(m)

Spec == Init /\ [][Next]_vars

(***************************************************************************)
(* Properties.                                                             *)
(***************************************************************************)

\* The two clipboards end up equal, also over the end of a session and the
\* beginning of the next one, with these exceptions.  After two copies at once
\* each machine may be left with the other's text.  And a text that was lost is
\* not offered again, since lastLocalText says that it was sent: the high lane
\* was full, a drain found it in its lane (OnConnect's does, if the poll has
\* seen the session first), the session ended with it on the way, or the
\* other machine's clipboard could not be written.
AgreeUnlessCrossed ==
    (Quiet /\ ~crossed /\ ~lost) => \A m, n \in Machines : clip[m].text = clip[n].text
=============================================================================
