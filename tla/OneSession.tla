----------------------------- MODULE OneSession -----------------------------
(***************************************************************************)
(* What the transport promises the application, whoever connects, closes   *)
(* or loses a connection: one session at a time, and for each session      *)
(* OnConnect once and then OnDisconnect once.  SessionLifecycle implements *)
(* it with connection attempts, read loops and callers of Disconnect that  *)
(* race for Transport.session.                                             *)
(***************************************************************************)
EXTENDS Integers

CONSTANTS Sessions, NoSession

VARIABLES
    current,   \* the session the application has been given
    ups,       \* OnConnect calls owed to or made for a session
    downs      \* OnDisconnect calls owed to or made for a session

Init ==
    /\ current = NoSession
    /\ ups = [s \in Sessions |-> 0]
    /\ downs = [s \in Sessions |-> 0]

\* A session nobody has heard of becomes the current one.
Open(s) ==
    /\ current = NoSession /\ ups[s] = 0
    /\ current' = s
    /\ ups' = [ups EXCEPT ![s] = 1]
    /\ UNCHANGED downs

\* The current session ends, on account of either side.
Close(s) ==
    /\ current = s /\ downs[s] = 0
    /\ current' = NoSession
    /\ downs' = [downs EXCEPT ![s] = 1]
    /\ UNCHANGED ups

\* A session that was never opened, or is over, gives its name to a new one.
Forget(s) ==
    /\ current # s
    /\ ups' = [ups EXCEPT ![s] = 0]
    /\ downs' = [downs EXCEPT ![s] = 0]
    /\ UNCHANGED current

Next == \E s \in Sessions : Open(s) \/ Close(s) \/ Forget(s)

Spec == Init /\ [][Next]_<<current, ups, downs>>
=============================================================================
