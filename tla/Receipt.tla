------------------------------- MODULE Receipt -------------------------------
(***************************************************************************)
(* What receiving promises the user, whatever is cancelled, dropped or     *)
(* reordered below it: a transfer is taken in at most once, chunk by chunk *)
(* and only while it is being received; he is told of it once, when all of *)
(* it is there; and one that was dropped never comes back.  FileTransfer   *)
(* implements it with lanes, handlers that let go of the lock in the       *)
(* middle, dialogs and sessions that end.                                  *)
(***************************************************************************)
EXTENDS Integers

CONSTANTS Transfers, Size

VARIABLES
    phase,  \* what the user has of each transfer
    count   \* chunks taken in

Init ==
    /\ phase = [t \in Transfers |-> "none"]
    /\ count = [t \in Transfers |-> 0]

Moves(t, from, to) == phase[t] = from /\ phase' = [phase EXCEPT ![t] = to]

\* An offer is taken up, of which nothing has been received.
Take(t) == count[t] = 0 /\ Moves(t, "none", "receiving") /\ UNCHANGED count

AddChunk(t) ==
    /\ phase[t] = "receiving" /\ count[t] < Size
    /\ count' = [count EXCEPT ![t] = @ + 1]
    /\ UNCHANGED phase

\* By either user, an error, or the end of the session.
Drop(t) == Moves(t, "receiving", "none") /\ UNCHANGED count

Tell(t) == count[t] = Size /\ Moves(t, "receiving", "told") /\ UNCHANGED count

\* The user saves the files or discards them.
Settle(t) == Moves(t, "told", "none") /\ UNCHANGED count

\* Another transfer gets the id.
Reuse(t) ==
    /\ phase[t] = "none"
    /\ count' = [count EXCEPT ![t] = 0]
    /\ UNCHANGED phase

Next ==
    \E t \in Transfers :
        Take(t) \/ AddChunk(t) \/ Drop(t) \/ Tell(t) \/ Settle(t) \/ Reuse(t)

Spec == Init /\ [][Next]_<<phase, count>>
=============================================================================
