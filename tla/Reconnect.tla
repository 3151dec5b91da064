------------------------------ MODULE Reconnect ------------------------------
(***************************************************************************)
(* Who dials the peer again, and when (internal/app/app_reconnect.go, the  *)
(* connect and disconnect of app_peers.go, the session callbacks and the   *)
(* power events of app_startup.go, ConnectTo of transport_lifecycle.go).   *)
(*                                                                         *)
(* A dialer is a goroutine that tries the addresses of one peer in order:  *)
(* the user's Connect or Reconnect, or a reconnectLoop started by          *)
(* OnDisconnect or by a resume.  An address is a peer and a route; routes  *)
(* are numbered by link.Rank, the preferred one first.                     *)
(***************************************************************************)
EXTENDS Integers, TLC

CONSTANTS
    Peers, NoPeer,
    Routes,     \* route numbers, smaller is better
    Loops,      \* identities for goroutines that run reconnectLoop
    User,       \* the goroutine of Connect, TrustPeer and Reconnect
    MaxEnding   \* bound: OnDisconnect calls under way at once

ASSUME ReconnectAssumption ==
    /\ NoPeer \notin Peers /\ User \notin Loops
    /\ Routes \subseteq Nat /\ 0 \notin Routes /\ MaxEnding \in Nat

Dialers == Loops \cup {User}
Addrs   == Peers \X Routes
NoAddr  == <<NoPeer, 0>>
NoSession == [peer |-> NoPeer, role |-> "none"]
Sessions  == [peer : Peers, role : {"controller", "controlled"}]

VARIABLES
    lastPeerAddr, \* App.lastPeerAddr
    lastPeerID,   \* settings.LastPeerID
    auto,         \* App.autoReconnect
    suspended,    \* App.suspended
    reconnecting, \* App.reconnecting
    trusted,      \* peers in the trust store
    session,      \* Transport.session
    inbound,      \* peers whose inbound handshake has been authorised
    ending,       \* OnDisconnect calls that have not reached their section
    dialer,       \* where each dialer is, the address it is at, the routes it
                  \* has not tried yet and, for a loop, expectedAddr
    call,         \* a user's call that closes the session, and its peer
    power,        \* where the handler of power events is
    left,         \* the user left while no dial was under way (history)
    racing,       \* peers removed while authorised and on their way (history)
    loss          \* a loss that is to be retried, and whether it found only a
                  \* loop that will not retry it (history)

memory  == <<lastPeerAddr, lastPeerID>>
flags   == <<auto, suspended, reconnecting>>
net     == <<trusted, session, inbound, ending>>
calls   == <<call, power>>
history == <<left, racing, loss>>
vars    == <<memory, flags, net, dialer, calls, history>>

Dialling == {"dial", "authorize", "install", "up", "won"}
Labels   == {"idle", "start", "check", "settle", "pause", "leaving"} \cup Dialling
Idle     == [pc |-> "idle", at |-> NoAddr, todo |-> {}, expected |-> NoAddr]
NoCall   == [pc |-> "idle", peer |-> NoPeer]
Places   == [pc : Labels, at : Addrs \cup {NoAddr}, todo : SUBSET Routes,
             expected : Addrs \cup {NoAddr}]

TypeOK ==
    /\ lastPeerAddr \in Addrs \cup {NoAddr} /\ lastPeerID \in Peers \cup {NoPeer}
    /\ auto \in BOOLEAN /\ suspended \in BOOLEAN /\ reconnecting \in BOOLEAN
    /\ trusted \subseteq Peers /\ inbound \subseteq Peers
    /\ session \in Sessions \cup {NoSession} /\ ending \in Nat
    /\ dialer \in [Dialers -> Places]
    /\ call \in [pc : {"idle", "leaving", "revoking"}, peer : Peers \cup {NoPeer}]
    /\ power \in {"idle", "closing"}
    /\ left \in BOOLEAN /\ racing \subseteq Peers
    /\ loss \in {"none", "owed", "missed"}

Init ==
    /\ lastPeerAddr = NoAddr /\ lastPeerID \in Peers \cup {NoPeer}
    /\ auto \in BOOLEAN /\ suspended = FALSE /\ reconnecting = FALSE
    /\ trusted = Peers /\ inbound = {} /\ session = NoSession /\ ending = 0
    /\ dialer = [d \in Dialers |-> Idle] /\ call = NoCall /\ power = "idle"
    /\ left = FALSE /\ racing = {} /\ loss = "none"

At(d, label)   == dialer[d].pc = label
Goto(d, label) == dialer' = [dialer EXCEPT ![d].pc = label]
PeerOf(d)      == dialer[d].at[1]

(***************************************************************************)
(* One attempt: tryCandidates over ConnectTo.                              *)
(***************************************************************************)

Best(routes) == CHOOSE r \in routes : \A o \in routes : r <= o

\* d dials peer p over one route, with others left to try.
Dials(d, p, route, others) ==
    dialer' = [dialer EXCEPT ![d] =
        [pc |-> "dial", at |-> <<p, route>>, todo |-> others \ {route},
         expected |-> @.expected]]

\* An attempt that has failed: the call returns, the loop pauses.
GiveUp(d) ==
    dialer' = [dialer EXCEPT ![d] =
        IF d = User THEN Idle
        ELSE [Idle EXCEPT !.pc = "pause", !.expected = dialer[d].expected]]

\* The dial fails with ErrDial: the next address, if there is one.
DialFails(d) ==
    /\ At(d, "dial") /\ session = NoSession
    /\ LET todo == dialer[d].todo
       IN  IF todo = {} THEN GiveUp(d) ELSE Dials(d, PeerOf(d), Best(todo), todo)
    /\ UNCHANGED <<memory, flags, net, calls, history>>

\* The dial succeeds: no other address is tried any more.
DialSucceeds(d) ==
    /\ At(d, "dial") /\ session = NoSession
    /\ dialer' = [dialer EXCEPT ![d].pc = "authorize", ![d].todo = {}]
    /\ UNCHANGED <<memory, flags, net, calls, history>>

\* Any other failure ends the attempt: a session that exists already, a peer
\* that is not trusted or does not trust this machine, a PIN refused, a slot
\* taken meanwhile.
Refused(d) ==
    /\ \/ (At(d, "dial") \/ At(d, "install")) /\ session # NoSession
       \/ At(d, "authorize")
    /\ GiveUp(d)
    /\ UNCHANGED <<memory, flags, net, calls, history>>

\* authorizeOutboundPeer: trusted, or paired with the PIN the user typed.
Authorize(d) ==
    /\ At(d, "authorize") /\ (PeerOf(d) \in trusted \/ d = User)
    /\ trusted' = trusted \cup {PeerOf(d)} /\ racing' = racing \ {PeerOf(d)}
    /\ Goto(d, "install")
    /\ UNCHANGED <<memory, flags, session, inbound, ending, calls, left, loss>>

Install(d) ==
    /\ At(d, "install") /\ session = NoSession
    /\ session' = [peer |-> PeerOf(d), role |-> "controller"]
    /\ loss' = "none"
    /\ Goto(d, "up")
    /\ UNCHANGED <<memory, flags, trusted, inbound, ending, calls, left, racing>>

\* OnConnect, as far as it matters here: awake, and saveLastPeer.
Up(d) ==
    /\ At(d, "up")
    /\ suspended' = FALSE /\ lastPeerID' = PeerOf(d)
    /\ Goto(d, "won")
    /\ UNCHANGED <<lastPeerAddr, auto, reconnecting, net, calls, history>>

\* The caller of ConnectTo remembers the address that worked.
UserWon ==
    /\ At(User, "won")
    /\ lastPeerAddr' = dialer[User].at
    /\ loss' = "none"
    /\ dialer' = [dialer EXCEPT ![User] = Idle]
    /\ UNCHANGED <<lastPeerID, flags, net, calls, left, racing>>

(***************************************************************************)
(* reconnectLoop.                                                          *)
(***************************************************************************)

\* A loop that will still look whether the last address is the one it expects.
ReliedOn(l) == /\ ~At(l, "idle") /\ ~At(l, "leaving")
               /\ dialer[l].expected = lastPeerAddr
Relied == \E l \in Loops : ReliedOn(l)

\* The flag keeps a second loop out.
LoopStart(l) ==
    /\ At(l, "start")
    /\ IF reconnecting
       THEN /\ dialer' = [dialer EXCEPT ![l] = Idle]
            /\ loss' = IF loss = "owed" /\ \A k \in Loops \ {l} : ~ReliedOn(k)
                       THEN "missed" ELSE loss
            /\ UNCHANGED reconnecting
       ELSE /\ Goto(l, "check") /\ reconnecting' = TRUE /\ UNCHANGED loss
    /\ UNCHANGED <<memory, auto, suspended, net, calls, left, racing>>

\* Mutant: the loop does not compare the address it was started for.
WantedAnyAddr(l) == auto /\ ~suspended

Wanted(l) == auto /\ ~suspended /\ lastPeerAddr = dialer[l].expected

LoopStops(l) ==
    /\ At(l, "check") /\ (~Wanted(l) \/ session # NoSession)
    /\ Goto(l, "leaving")
    /\ UNCHANGED <<memory, flags, net, calls, history>>

\* The addresses that settings and discovery know for the last peer are some of
\* its routes, tried in the order of their rank.
Candidates(d) ==
    \E known \in (SUBSET Routes) \ {{}} :
        lastPeerID # NoPeer /\ Dials(d, lastPeerID, Best(known), known)

LoopTries(l) ==
    /\ At(l, "check") /\ Wanted(l) /\ session = NoSession
    /\ Candidates(l) \/ GiveUp(l)
    /\ UNCHANGED <<memory, flags, net, calls, history>>

\* Success: the address is recorded unless the user changed peer meanwhile.
LoopWon(l) ==
    /\ At(l, "won")
    /\ lastPeerAddr' = IF lastPeerAddr = dialer[l].expected THEN dialer[l].at
                       ELSE lastPeerAddr
    /\ dialer' = [dialer EXCEPT ![l].pc = "settle", ![l].expected = dialer[l].at]
    /\ UNCHANGED <<lastPeerID, flags, net, calls, history>>

\* Mutant: a session that was dropped at once counts as success.
LoopSettlesForGood(l) ==
    /\ At(l, "settle")
    /\ Goto(l, "leaving")
    /\ UNCHANGED <<memory, flags, net, calls, history>>

\* Three seconds later the session is there, or it was dropped at once.
LoopSettles(l) ==
    /\ At(l, "settle")
    /\ IF session = NoSession THEN GiveUp(l) ELSE Goto(l, "leaving")
    /\ UNCHANGED <<memory, flags, net, calls, history>>

LoopPaused(l) ==
    /\ At(l, "pause")
    /\ Goto(l, "check")
    /\ UNCHANGED <<memory, flags, net, calls, history>>

LoopEnds(l) ==
    /\ At(l, "leaving")
    /\ reconnecting' = FALSE
    /\ dialer' = [dialer EXCEPT ![l] = Idle]
    /\ UNCHANGED <<memory, auto, suspended, net, calls, history>>

\* go reconnectLoop(ctx, lastPeerAddr), on an identity that no loop uses.
Fork ==
    \E l \in Loops :
        /\ At(l, "idle")
        /\ dialer' = [dialer EXCEPT ![l] =
               [Idle EXCEPT !.pc = "start", !.expected = lastPeerAddr]]

(***************************************************************************)
(* The end of a session.                                                   *)
(***************************************************************************)

\* The slot is emptied and OnDisconnect starts.
Closes ==
    /\ session' = NoSession
    /\ ending' = IF session = NoSession THEN ending ELSE ending + 1

\* The read loop ends by itself.
Lost ==
    /\ session # NoSession /\ ending < MaxEnding
    /\ Closes
    /\ UNCHANGED <<memory, flags, trusted, inbound, dialer, calls, history>>

\* OnDisconnect starts no loop: nothing is to be retried, or the connection
\* lasted less than three seconds and counts as rejected.
DownQuiet ==
    /\ ending > 0
    /\ ending' = ending - 1
    /\ UNCHANGED <<memory, flags, trusted, session, inbound, dialer, calls, history>>

Retry == auto /\ ~suspended /\ lastPeerAddr # NoAddr

\* OnDisconnect starts a loop, unless there is one.
DownRetries ==
    /\ ending > 0 /\ Retry
    /\ ending' = ending - 1
    /\ loss' = IF session # NoSession THEN "none"
               ELSE IF reconnecting /\ ~Relied THEN "missed" ELSE "owed"
    /\ IF reconnecting THEN UNCHANGED dialer ELSE Fork
    /\ UNCHANGED <<memory, flags, trusted, session, inbound, calls, left, racing>>

(***************************************************************************)
(* The user, the power events and the peer.                                *)
(***************************************************************************)

\* Reconnect(): the addresses of the last peer, when there is no session.
UserReconnects == session = NoSession /\ Candidates(User)

\* That, or Connect(address): the address selected, then the others of that peer.
UserDials ==
    /\ At(User, "idle")
    /\ \/ \E a \in Addrs, known \in SUBSET Routes : Dials(User, a[1], a[2], known)
       \/ UserReconnects
    /\ left' = FALSE
    /\ UNCHANGED <<memory, flags, net, calls, racing, loss>>

\* App.Disconnect: first the address, then the session.
UserLeaves ==
    /\ call = NoCall
    /\ call' = [NoCall EXCEPT !.pc = "leaving"]
    /\ lastPeerAddr' = NoAddr
    /\ left' = (\A d \in Dialers : dialer[d].pc \notin Dialling) /\ loss' = "none"
    /\ UNCHANGED <<lastPeerID, flags, net, dialer, power, racing>>

UserCloses ==
    /\ call.pc = "leaving" /\ ending < MaxEnding
    /\ call' = NoCall
    /\ Closes
    /\ UNCHANGED <<memory, flags, trusted, inbound, dialer, power, history>>

OnTheWay(p) == p \in inbound \/ \E d \in Dialers : At(d, "install") /\ PeerOf(d) = p

\* UntrustPeer: the record goes first,
Revoke(p) ==
    /\ call = NoCall /\ p \in trusted
    /\ call' = [pc |-> "revoking", peer |-> p]
    /\ trusted' = trusted \ {p}
    /\ racing' = IF OnTheWay(p) THEN racing \cup {p} ELSE racing
    /\ UNCHANGED <<memory, flags, session, inbound, ending, dialer, power, left, loss>>

Forgets == lastPeerID' = IF lastPeerID = call.peer THEN NoPeer ELSE lastPeerID

\* Mutant: only the settings are cleared.
RevokeForgetsSession ==
    /\ call.pc = "revoking" /\ ending < MaxEnding
    /\ call' = NoCall
    /\ Forgets
    /\ UNCHANGED <<lastPeerAddr, flags, net, dialer, power, history>>

\* then its session, then its place in the settings.
RevokeEnds ==
    /\ call.pc = "revoking" /\ ending < MaxEnding
    /\ call' = NoCall
    /\ IF session.peer = call.peer THEN Closes ELSE UNCHANGED <<session, ending>>
    /\ Forgets
    /\ UNCHANGED <<lastPeerAddr, flags, trusted, inbound, dialer, power, history>>

SetAutoReconnect ==
    /\ auto' = ~auto /\ loss' = "none"
    /\ UNCHANGED <<memory, suspended, reconnecting, net, dialer, calls, left, racing>>

\* The machine goes to sleep: the flag, then the session.
Suspend ==
    /\ power = "idle"
    /\ suspended' = TRUE /\ loss' = "none"
    /\ power' = "closing"
    /\ UNCHANGED <<memory, auto, reconnecting, net, dialer, call, left, racing>>

SuspendCloses ==
    /\ power = "closing" /\ ending < MaxEnding
    /\ power' = "idle"
    /\ Closes
    /\ UNCHANGED <<memory, flags, trusted, inbound, dialer, call, history>>

\* Resume: one loop is started, which ends at once if there is another.
Resume ==
    /\ power = "idle" /\ suspended
    /\ suspended' = FALSE
    /\ IF auto /\ lastPeerAddr # NoAddr
       THEN Fork /\ loss' = IF session = NoSession THEN "owed" ELSE "none"
       ELSE UNCHANGED <<dialer, loss>>
    /\ UNCHANGED <<memory, auto, reconnecting, net, calls, left, racing>>

\* A trusted peer connects to this machine.
PeerArrives(p) ==
    /\ p \in trusted /\ session = NoSession
    /\ inbound' = inbound \cup {p}
    /\ UNCHANGED <<memory, flags, trusted, session, ending, dialer, calls, history>>

PeerInstalled(p) ==
    /\ p \in inbound
    /\ inbound' = inbound \ {p}
    /\ IF session = NoSession
       THEN /\ session' = [peer |-> p, role |-> "controlled"]
            /\ suspended' = FALSE /\ lastPeerID' = p /\ loss' = "none"
       ELSE UNCHANGED <<session, suspended, lastPeerID, loss>>
    /\ UNCHANGED <<lastPeerAddr, auto, reconnecting, trusted, ending, dialer, calls,
                   left, racing>>

Next ==
    \/ \E d \in Dialers : \/ DialFails(d) \/ DialSucceeds(d) \/ Refused(d)
                          \/ Authorize(d) \/ Install(d) \/ Up(d)
    \/ \E l \in Loops : \/ LoopStart(l) \/ LoopStops(l) \/ LoopTries(l) \/ LoopWon(l)
                        \/ LoopSettles(l) \/ LoopPaused(l) \/ LoopEnds(l)
    \/ UserWon \/ Lost \/ DownQuiet \/ DownRetries
    \/ UserDials \/ UserLeaves \/ UserCloses
    \/ \E p \in Peers : Revoke(p) \/ PeerArrives(p) \/ PeerInstalled(p)
    \/ RevokeEnds \/ SetAutoReconnect \/ Suspend \/ SuspendCloses \/ Resume

Spec == Init /\ [][Next]_vars

LoopSymmetry == Permutations(Loops)

(***************************************************************************)
(* Properties.                                                             *)
(***************************************************************************)

\* A peer that the user left is not dialled again by the program: unless a
\* dial was under way when Disconnect cleared the address, no outbound session
\* comes up before the user asks for one.
LeftStaysLeft ==
    left /\ call.pc # "leaving" => session.role # "controller"

\* UntrustPeer ends the session of the peer it removes: a peer without trust
\* has a session only while UntrustPeer is still at work, or if its handshake
\* was past the authorisation when the record went.
RevokedHasNoSession ==
    session.peer \in Peers \ trusted => session.peer \in racing \cup {call.peer}

\* A connection that was lost, or slept through, is retried until somebody does
\* not want it any more or a session comes up: a loop is on its way.
LossIsRetried == loss # "none" /\ Retry => Relied

\* What holds of it: a loss or a resume goes unretried only if it found another
\* loop running that was leaving, or that expected another address.
RetriedUnlessMissed == loss = "missed" \/ LossIsRetried
=============================================================================
