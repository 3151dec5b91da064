--------------------------- MODULE ReconnectProofs ---------------------------
(***************************************************************************)
(* Proofs about Reconnect, for any set of peers, routes and loops: a peer  *)
(* that was left stays left, one whose trust is revoked loses its session, *)
(* and a lost connection has a loop that will retry it unless it met       *)
(* another loop on its way out.                                            *)
(***************************************************************************)
EXTENDS Reconnect, WellFoundedInduction, TLAPS

-----------------------------------------------------------------------------
(* What the helpers on dialers return.                                     *)

\* Places of which the dialling ones have an address.
Sound == {x \in Places : x.pc \in Dialling => x.at \in Addrs}

\* The best of some routes is one of them: the naturals are well founded.
LEMMA BestIsAmong ==
    ASSUME NEW routes \in SUBSET Routes, routes # {}
    PROVE  Best(routes) \in routes
<1>1. routes \subseteq Nat
  BY ReconnectAssumption
<1>2. PICK r \in routes : \A o \in routes : ~ (<<o, r>> \in OpToRel(<, Nat))
  BY <1>1, NatLessThanWellFounded, WFMin
<1>3. \A o \in routes : ~ (o < r)
  BY <1>1, <1>2 DEF OpToRel
<1>4. \A o \in routes : r <= o
  BY <1>1, <1>3
<1> QED BY <1>4 DEF Best

\* A dial goes to an address.
LEMMA DialsTyped ==
    ASSUME dialer \in [Dialers -> Sound], NEW d \in Dialers, NEW p \in Peers,
           NEW r \in Routes, NEW known \in SUBSET Routes, Dials(d, p, r, known)
    PROVE  dialer' \in [Dialers -> Sound]
<1>1. dialer \in [Dialers -> Places]
  BY DEF Sound
<1>2. dialer' \in [Dialers -> Places]
  BY <1>1 DEF Dials, Places, Addrs, Labels, Dialling
<1>3. dialer'[d].at \in Addrs
  BY <1>1 DEF Dials, Places, Addrs
<1>4. \A e \in Dialers \ {d} : dialer'[e] = dialer[e]
  BY <1>1 DEF Dials
<1> QED BY <1>2, <1>3, <1>4 DEF Sound

\* A dial of the last peer does.
LEMMA CandidatesTyped ==
    ASSUME dialer \in [Dialers -> Sound], lastPeerID \in Peers \cup {NoPeer},
           NEW d \in Dialers, Candidates(d)
    PROVE  dialer' \in [Dialers -> Sound]
<1>1. PICK known \in (SUBSET Routes) \ {{}} :
          lastPeerID # NoPeer /\ Dials(d, lastPeerID, Best(known), known)
  BY DEF Candidates
<1>2. Best(known) \in Routes /\ lastPeerID \in Peers
  BY <1>1, BestIsAmong
<1> QED BY <1>1, <1>2, DialsTyped

\* A failed attempt leaves its dialer at a place of its kind.
LEMMA GiveUpTyped ==
    ASSUME dialer \in [Dialers -> Sound], NEW d \in Dialers, GiveUp(d)
    PROVE  dialer' \in [Dialers -> Sound]
BY DEF GiveUp, Sound, Places, Idle, Labels, Dialling

\* So does a step to another label, ...
LEMMA GotoTyped ==
    ASSUME dialer \in [Dialers -> Sound], NEW d \in Dialers,
           NEW label \in Labels, Goto(d, label),
           label \in Dialling => dialer[d].pc \in Dialling
    PROVE  dialer' \in [Dialers -> Sound]
BY DEF Goto, Sound, Places

\* ... and a new loop.
LEMMA ForkTyped ==
    ASSUME dialer \in [Dialers -> Sound], lastPeerAddr \in Addrs \cup {NoAddr}, Fork
    PROVE  dialer' \in [Dialers -> Sound]
<1>1. dialer \in [Dialers -> Places]
  BY DEF Sound
<1>2. PICK l \in Loops :
          dialer' = [dialer EXCEPT ![l] = [pc |-> "start", at |-> NoAddr, todo |-> {},
                                           expected |-> lastPeerAddr]]
  BY DEF Fork, Idle
<1>3. dialer' \in [Dialers -> Places]
  BY <1>1, <1>2 DEF Places, Dialers, Labels, Dialling
<1>4. \A e \in Dialers : dialer'[e] = dialer[e] \/ dialer'[e].pc = "start"
  BY <1>1, <1>2 DEF Dialers
<1> QED BY <1>3, <1>4 DEF Sound, Dialling

-----------------------------------------------------------------------------
(* Types.                                                                  *)

\* TypeOK is inductive once a dialling dialer is known to have an address.
TypeInv == TypeOK /\ dialer \in [Dialers -> Sound]

\* The first state is well typed.
LEMMA TypeInit == Init => TypeInv
<1> SUFFICES ASSUME Init PROVE TypeInv
  OBVIOUS
<1>1. dialer \in [Dialers -> Places] /\ dialer \in [Dialers -> Sound]
  BY DEF Init, Sound, Places, Idle, Labels, Dialling
<1> QED BY <1>1 DEF Init, TypeInv, TypeOK, NoCall

\* The steps of a dialer's attempt keep the types, ...
LEMMA AttemptTyped ==
    ASSUME TypeInv, NEW d \in Dialers,
           \/ DialFails(d) \/ DialSucceeds(d) \/ Refused(d)
           \/ Authorize(d) \/ Install(d) \/ Up(d)
    PROVE  TypeInv'
<1> USE DEF memory, flags, net, calls, history
<1>0. dialer \in [Dialers -> Sound]
  BY DEF TypeInv
<1>1. dialer[d].pc \in Dialling => PeerOf(d) \in Peers
  BY <1>0 DEF Sound, Addrs, PeerOf
<1>2. dialer' \in [Dialers -> Sound]
  <2>1. CASE DialFails(d)
    <3>1. dialer[d].pc \in Dialling /\ dialer[d].todo \in SUBSET Routes
      BY <1>0, <2>1 DEF DialFails, At, Dialling, Sound, Places
    <3>2. CASE dialer[d].todo = {}
      BY <1>0, <2>1, <3>2, GiveUpTyped DEF DialFails
    <3>3. CASE dialer[d].todo # {}
      <4>1. Best(dialer[d].todo) \in Routes
        BY <3>1, <3>3, BestIsAmong
      <4> QED BY <1>0, <1>1, <2>1, <3>1, <3>3, <4>1, DialsTyped DEF DialFails
    <3> QED BY <3>2, <3>3
  <2>2. CASE DialSucceeds(d)
    BY ZenonT(60), <1>0, <2>2 DEF DialSucceeds, At, Dialling, Labels, Sound, Places
  <2>3. CASE Refused(d)
    BY <1>0, <2>3, GiveUpTyped DEF Refused
  <2>4. CASE Authorize(d)
    BY <1>0, <2>4, GotoTyped DEF Authorize, At, Dialling, Labels
  <2>5. CASE Install(d)
    BY <1>0, <2>5, GotoTyped DEF Install, At, Dialling, Labels
  <2>6. CASE Up(d)
    BY <1>0, <2>6, GotoTyped DEF Up, At, Dialling, Labels
  <2> QED BY <2>1, <2>2, <2>3, <2>4, <2>5, <2>6
<1>3. dialer' \in [Dialers -> Places]
  BY <1>2 DEF Sound
<1>4. CASE DialFails(d) \/ DialSucceeds(d) \/ Refused(d)
  BY <1>2, <1>3, <1>4 DEF DialFails, DialSucceeds, Refused, TypeInv, TypeOK
<1>5. CASE Authorize(d)
  BY <1>1, <1>2, <1>3, <1>5 DEF Authorize, At, Dialling, TypeInv, TypeOK
<1>6. CASE Install(d)
  BY <1>1, <1>2, <1>3, <1>6 DEF Install, At, Dialling, Sessions, TypeInv, TypeOK
<1>7. CASE Up(d)
  BY <1>1, <1>2, <1>3, <1>7 DEF Up, At, Dialling, TypeInv, TypeOK
<1> QED BY <1>4, <1>5, <1>6, <1>7

\* ... those of a loop, ...
LEMMA LoopTyped ==
    ASSUME TypeInv, NEW l \in Loops,
           \/ LoopStart(l) \/ LoopStops(l) \/ LoopTries(l) \/ LoopWon(l)
           \/ LoopSettles(l) \/ LoopPaused(l) \/ LoopEnds(l)
    PROVE  TypeInv'
<1> USE DEF memory, flags, net, calls, history
<1>0. dialer \in [Dialers -> Sound] /\ l \in Dialers /\ Idle \in Sound
  BY DEF TypeInv, Dialers, Idle, Sound, Places, Labels, Dialling
<1>1. dialer' \in [Dialers -> Sound] /\ lastPeerAddr' \in Addrs \cup {NoAddr}
  <2>1. CASE LoopStart(l)
    <3>1. CASE reconnecting
      BY <1>0, <2>1, <3>1 DEF LoopStart, TypeInv, TypeOK
    <3>2. CASE ~reconnecting
      BY <1>0, <2>1, <3>2, GotoTyped DEF LoopStart, Labels, Dialling, TypeInv, TypeOK
    <3> QED BY <3>1, <3>2
  <2>2. CASE LoopStops(l)
    BY <1>0, <2>2, GotoTyped DEF LoopStops, Labels, Dialling, TypeInv, TypeOK
  <2>3. CASE LoopTries(l)
    BY <1>0, <2>3, CandidatesTyped, GiveUpTyped DEF LoopTries, TypeInv, TypeOK
  <2>4. CASE LoopWon(l)
    <3>1. dialer[l].at \in Addrs
      BY <1>0, <2>4 DEF LoopWon, At, Sound, Dialling
    <3>2. dialer' \in [Dialers -> Sound]
      BY <1>0, <2>4, <3>1 DEF LoopWon, Sound, Places, Labels, Dialling
    <3> QED BY <2>4, <3>1, <3>2 DEF LoopWon, TypeInv, TypeOK
  <2>5. CASE LoopSettles(l)
    BY <1>0, <2>5, GotoTyped, GiveUpTyped DEF LoopSettles, Labels, Dialling, TypeInv, TypeOK
  <2>6. CASE LoopPaused(l)
    BY <1>0, <2>6, GotoTyped DEF LoopPaused, Labels, Dialling, TypeInv, TypeOK
  <2>7. CASE LoopEnds(l)
    BY <1>0, <2>7 DEF LoopEnds, TypeInv, TypeOK
  <2> QED BY <2>1, <2>2, <2>3, <2>4, <2>5, <2>6, <2>7
<1>2. dialer' \in [Dialers -> Places]
  BY <1>1 DEF Sound
<1> QED
  BY <1>1, <1>2 DEF LoopStart, LoopStops, LoopTries, LoopWon, LoopSettles,
     LoopPaused, LoopEnds, TypeInv, TypeOK

\* ... and all the others.
LEMMA TypeStep == TypeInv /\ [Next]_vars => TypeInv'
<1> SUFFICES ASSUME TypeInv, [Next]_vars PROVE TypeInv'
  OBVIOUS
<1> USE DEF memory, flags, net, calls, history
<1>0. dialer \in [Dialers -> Sound] /\ User \in Dialers /\ Idle \in Sound
  BY DEF TypeInv, Dialers, Idle, Sound, Places, Labels, Dialling
<1>a. dialer' \in [Dialers -> Sound] => dialer' \in [Dialers -> Places]
  BY DEF Sound
<1>b. ASSUME Closes PROVE session' \in Sessions \cup {NoSession} /\ ending' \in Nat
  BY <1>b DEF Closes, TypeInv, TypeOK
<1>1. ASSUME NEW d \in Dialers,
             \/ DialFails(d) \/ DialSucceeds(d) \/ Refused(d)
             \/ Authorize(d) \/ Install(d) \/ Up(d)
      PROVE  TypeInv'
  BY <1>1, AttemptTyped
<1>2. ASSUME NEW l \in Loops,
             \/ LoopStart(l) \/ LoopStops(l) \/ LoopTries(l) \/ LoopWon(l)
             \/ LoopSettles(l) \/ LoopPaused(l) \/ LoopEnds(l)
      PROVE  TypeInv'
  BY <1>2, LoopTyped
<1>3. CASE UserWon
  <2>1. dialer[User].at \in Addrs
    BY <1>0, <1>3 DEF UserWon, At, Sound, Dialling
  <2>2. dialer' \in [Dialers -> Sound]
    BY <1>0, <1>3 DEF UserWon
  <2> QED BY <1>3, <1>a, <2>1, <2>2 DEF UserWon, TypeInv, TypeOK
<1>4. CASE Lost
  BY <1>4, <1>b DEF Lost, TypeInv, TypeOK
<1>5. CASE DownQuiet
  BY <1>5 DEF DownQuiet, TypeInv, TypeOK
<1>6. CASE DownRetries
  <2>1. dialer' \in [Dialers -> Sound]
    BY <1>0, <1>6, ForkTyped DEF DownRetries, TypeInv, TypeOK
  <2> QED BY <1>6, <1>a, <2>1 DEF DownRetries, TypeInv, TypeOK
<1>7. CASE UserDials
  <2>1. dialer' \in [Dialers -> Sound]
    <3>1. CASE \E a \in Addrs, known \in SUBSET Routes : Dials(User, a[1], a[2], known)
      BY <1>0, <3>1, DialsTyped DEF Addrs
    <3>2. CASE Candidates(User)
      BY <1>0, <3>2, CandidatesTyped DEF TypeInv, TypeOK
    <3> QED BY <1>7, <3>1, <3>2 DEF UserDials, UserReconnects
  <2> QED BY <1>7, <1>a, <2>1 DEF UserDials, UserReconnects, TypeInv, TypeOK
<1>8. CASE UserLeaves
  BY <1>8 DEF UserLeaves, NoCall, TypeInv, TypeOK
<1>9. CASE UserCloses
  BY <1>9, <1>b DEF UserCloses, NoCall, TypeInv, TypeOK
<1>10. ASSUME NEW p \in Peers, Revoke(p) PROVE TypeInv'
  BY <1>10 DEF Revoke, TypeInv, TypeOK
<1>11. ASSUME NEW p \in Peers, PeerArrives(p) PROVE TypeInv'
  BY <1>11 DEF PeerArrives, TypeInv, TypeOK
<1>12. ASSUME NEW p \in Peers, PeerInstalled(p) PROVE TypeInv'
  <2>1. session' \in Sessions \cup {NoSession}
    BY <1>12 DEF PeerInstalled, Sessions, TypeInv, TypeOK
  <2> QED BY <1>12, <2>1 DEF PeerInstalled, TypeInv, TypeOK
<1>13. CASE RevokeEnds
  BY <1>13, <1>b DEF RevokeEnds, Forgets, NoCall, TypeInv, TypeOK
<1>14. CASE SetAutoReconnect
  BY <1>14 DEF SetAutoReconnect, TypeInv, TypeOK
<1>15. CASE Suspend
  BY <1>15 DEF Suspend, TypeInv, TypeOK
<1>16. CASE SuspendCloses
  BY <1>16, <1>b DEF SuspendCloses, TypeInv, TypeOK
<1>17. CASE Resume
  <2>1. dialer' \in [Dialers -> Sound]
    BY <1>0, <1>17, ForkTyped DEF Resume, TypeInv, TypeOK
  <2> QED BY <1>17, <1>a, <2>1 DEF Resume, TypeInv, TypeOK
<1>18. CASE UNCHANGED vars
  BY <1>18 DEF vars, TypeInv, TypeOK
<1> QED
  BY <1>1, <1>2, <1>3, <1>4, <1>5, <1>6, <1>7, <1>8, <1>9, <1>10, <1>11,
     <1>12, <1>13, <1>14, <1>15, <1>16, <1>17, <1>18 DEF Next

\* The invariant holds of every behaviour, ...
LEMMA TypeInvariant == Spec => []TypeInv
BY TypeInit, TypeStep, PTL DEF Spec

\* ... and every reachable state is well typed.
THEOREM TypeCorrect == Spec => []TypeOK
<1>1. TypeInv => TypeOK
  BY DEF TypeInv
<1>2. QED
  BY <1>1, TypeInvariant, PTL

-----------------------------------------------------------------------------
(* What the helpers on dialers change.                                     *)

\* Only d has moved.
OnlyMoves(d) == \A e \in Dialers \ {d} : dialer'[e] = dialer[e]

\* A dial, ...
LEMMA DialsEffect ==
    ASSUME TypeInv, NEW d \in Dialers, NEW p, NEW r, NEW known, Dials(d, p, r, known)
    PROVE  /\ OnlyMoves(d)
           /\ dialer'[d].pc = "dial" /\ dialer'[d].at = <<p, r>>
           /\ dialer'[d].expected = dialer[d].expected
BY DEF TypeInv, TypeOK, Dials, OnlyMoves

\* ... a failed attempt, ...
LEMMA GiveUpEffect ==
    ASSUME TypeInv, NEW d \in Dialers, GiveUp(d)
    PROVE  /\ OnlyMoves(d)
           /\ dialer'[d].pc \in {"idle", "pause"}
           /\ d # User => /\ dialer'[d].pc = "pause"
                          /\ dialer'[d].expected = dialer[d].expected
<1>1. OnlyMoves(d)
  BY DEF TypeInv, TypeOK, GiveUp, OnlyMoves
<1>2. CASE d = User
  BY <1>1, <1>2 DEF TypeInv, TypeOK, GiveUp, Idle
<1>3. CASE d # User
  <2>1. dialer'[d] = [pc |-> "pause", at |-> NoAddr, todo |-> {},
                      expected |-> dialer[d].expected]
    BY <1>3 DEF TypeInv, TypeOK, GiveUp, Idle
  <2> QED BY <1>1, <1>3, <2>1
<1> QED BY <1>2, <1>3

\* ... a step to another label, ...
LEMMA GotoEffect ==
    ASSUME TypeInv, NEW d \in Dialers, NEW label \in Labels, Goto(d, label)
    PROVE  /\ OnlyMoves(d)
           /\ dialer'[d].pc = label /\ dialer'[d].at = dialer[d].at
           /\ dialer'[d].expected = dialer[d].expected
BY DEF TypeInv, TypeOK, Places, Goto, OnlyMoves

\* ... a dial that succeeds, ...
LEMMA SucceedsEffect ==
    ASSUME TypeInv, NEW d \in Dialers, DialSucceeds(d)
    PROVE  /\ OnlyMoves(d)
           /\ dialer'[d].pc = "authorize" /\ dialer'[d].at = dialer[d].at
           /\ dialer'[d].expected = dialer[d].expected
BY DEF TypeInv, TypeOK, Places, DialSucceeds, OnlyMoves

\* ... a new loop, ...
LEMMA ForkEffect ==
    ASSUME TypeInv, Fork
    PROVE  \E l \in Loops :
              /\ OnlyMoves(l) /\ dialer[l].pc = "idle"
              /\ dialer'[l].pc = "start" /\ dialer'[l].expected = lastPeerAddr
<1>1. PICK l \in Loops :
          /\ dialer[l].pc = "idle"
          /\ dialer' = [dialer EXCEPT ![l] = [pc |-> "start", at |-> NoAddr, todo |-> {},
                                              expected |-> lastPeerAddr]]
  BY ZenonT(60) DEF Fork, Idle, At
<1>2. OnlyMoves(l) /\ dialer'[l].pc = "start" /\ dialer'[l].expected = lastPeerAddr
  BY <1>1 DEF TypeInv, TypeOK, Dialers, OnlyMoves
<1> QED BY <1>1, <1>2

\* ... and an attempt's steps, which end in the same loop, still expecting the
\* same address.
LEMMA AttemptEffect ==
    ASSUME TypeInv, NEW d \in Dialers,
           \/ DialFails(d) \/ DialSucceeds(d) \/ Refused(d)
           \/ Authorize(d) \/ Install(d) \/ Up(d)
    PROVE  /\ OnlyMoves(d)
           /\ dialer[d].pc \in Dialling
           /\ dialer'[d].pc = "install" => Authorize(d)
           /\ dialer'[d].pc \in Labels \ {"leaving"}
           /\ d # User => /\ dialer'[d].pc # "idle"
                          /\ dialer'[d].expected = dialer[d].expected
<1> USE DEF Labels, Dialling, At
<1>1. CASE DialFails(d)
  BY <1>1, DialsEffect, GiveUpEffect DEF DialFails
<1>2. CASE DialSucceeds(d)
  BY <1>2, SucceedsEffect DEF DialSucceeds
<1>3. CASE Refused(d)
  BY <1>3, GiveUpEffect DEF Refused
<1>4. CASE Authorize(d)
  BY <1>4, GotoEffect DEF Authorize
<1>5. CASE Install(d)
  BY <1>5, GotoEffect DEF Install
<1>6. CASE Up(d)
  BY <1>6, GotoEffect DEF Up
<1> QED BY <1>1, <1>2, <1>3, <1>4, <1>5, <1>6

-----------------------------------------------------------------------------
(* A peer that was left stays left.                                        *)

\* While the user has left, no address is remembered and nobody dials, and no
\* loop can wait for the address "none".
LeftInv ==
    /\ left => /\ lastPeerAddr = NoAddr
               /\ \A d \in Dialers : dialer[d].pc \notin Dialling
               /\ call.pc # "leaving" => session.role # "controller"
    /\ \A l \in Loops : dialer[l].pc # "idle" => dialer[l].expected # NoAddr

\* Every step keeps it.
LEMMA LeftStep == TypeInv /\ LeftInv /\ [Next]_vars => LeftInv'
<1> SUFFICES ASSUME TypeInv, LeftInv, [Next]_vars PROVE LeftInv'
  OBVIOUS
<1> USE DEF memory, flags, net, calls, history
<1>0. /\ dialer \in [Dialers -> Sound] /\ Loops \subseteq Dialers
      /\ User \in Dialers /\ User \notin Loops
      /\ \A a \in Addrs : a # NoAddr
  BY ReconnectAssumption DEF TypeInv, Dialers, Addrs, NoAddr
<1>1. ASSUME NEW d \in Dialers,
             \/ DialFails(d) \/ DialSucceeds(d) \/ Refused(d)
             \/ Authorize(d) \/ Install(d) \/ Up(d)
      PROVE  LeftInv'
  <2>1. left' = left
    BY <1>1 DEF DialFails, DialSucceeds, Refused, Authorize, Install, Up
  <2>2. OnlyMoves(d) /\ dialer[d].pc \in Dialling
        /\ (d # User => dialer'[d].expected = dialer[d].expected)
    BY <1>1, AttemptEffect
  <2>3. \A l \in Loops : dialer'[l].pc # "idle" => dialer'[l].expected # NoAddr
    BY <1>0, <2>2 DEF LeftInv, OnlyMoves, Dialling
  <2> QED BY <2>1, <2>2, <2>3 DEF LeftInv
<1>2. ASSUME NEW l \in Loops,
             LoopStart(l) \/ LoopStops(l) \/ LoopSettles(l) \/ LoopPaused(l) \/ LoopEnds(l)
      PROVE  LeftInv'
  <2>1. /\ OnlyMoves(l) /\ dialer'[l].pc \notin Dialling
        /\ dialer'[l].pc # "idle" => /\ dialer'[l].expected = dialer[l].expected
                                     /\ dialer[l].pc # "idle"
    <3>1. CASE LoopStart(l)
      <4>1. CASE reconnecting
        BY <1>0, <3>1, <4>1 DEF LoopStart, OnlyMoves, Idle, Dialling
      <4>2. CASE ~reconnecting
        BY <1>0, <3>1, <4>2, GotoEffect DEF LoopStart, At, Labels, Dialling
      <4> QED BY <4>1, <4>2
    <3>2. CASE LoopStops(l)
      BY <1>0, <3>2, GotoEffect DEF LoopStops, At, Labels, Dialling
    <3>3. CASE LoopSettles(l)
      BY <1>0, <3>3, GotoEffect, GiveUpEffect DEF LoopSettles, At, Labels, Dialling
    <3>4. CASE LoopPaused(l)
      BY <1>0, <3>4, GotoEffect DEF LoopPaused, At, Labels, Dialling
    <3>5. CASE LoopEnds(l)
      BY <1>0, <3>5 DEF LoopEnds, OnlyMoves, Idle, Dialling
    <3> QED BY <1>2, <3>1, <3>2, <3>3, <3>4, <3>5
  <2>2. UNCHANGED <<left, lastPeerAddr, call, session>>
    BY <1>2 DEF LoopStart, LoopStops, LoopSettles, LoopPaused, LoopEnds
  <2> QED BY <1>0, <2>1, <2>2 DEF LeftInv, OnlyMoves
<1>3. ASSUME NEW l \in Loops, LoopTries(l) PROVE LeftInv'
  <2>1. ~left /\ left' = left
    BY <1>3 DEF LoopTries, At, Wanted, LeftInv
  <2>2. OnlyMoves(l) /\ dialer'[l].expected = dialer[l].expected
    BY <1>0, <1>3, DialsEffect, GiveUpEffect DEF LoopTries, Candidates
  <2> QED BY <1>0, <1>3, <2>1, <2>2 DEF LoopTries, At, LeftInv, OnlyMoves
<1>4. ASSUME NEW l \in Loops, LoopWon(l) PROVE LeftInv'
  <2>1. dialer[l].pc \in Dialling /\ dialer[l].at # NoAddr
    BY <1>0, <1>4 DEF LoopWon, At, Dialling, Sound
  <2>2. OnlyMoves(l) /\ dialer'[l].expected = dialer[l].at
    BY <1>0, <1>4 DEF LoopWon, OnlyMoves, Sound, Places
  <2> QED BY <1>0, <1>4, <2>1, <2>2 DEF LoopWon, LeftInv, OnlyMoves
<1>5. CASE UserWon
  BY <1>0, <1>5 DEF UserWon, At, Dialling, LeftInv
<1>6. CASE Lost \/ UserCloses \/ SuspendCloses \/ RevokeEnds
  BY <1>6 DEF Lost, UserCloses, SuspendCloses, RevokeEnds, Closes, NoSession, NoCall,
     LeftInv
<1>7. CASE DownQuiet \/ SetAutoReconnect \/ Suspend
  BY <1>7 DEF DownQuiet, SetAutoReconnect, Suspend, LeftInv
<1>8. CASE DownRetries \/ Resume
  <2>1. UNCHANGED <<left, lastPeerAddr, call, session>>
    BY <1>8 DEF DownRetries, Resume
  <2>2. CASE Fork /\ lastPeerAddr # NoAddr
    BY <1>0, <2>1, <2>2, ForkEffect DEF LeftInv, OnlyMoves
  <2>3. CASE UNCHANGED dialer
    BY <2>1, <2>3 DEF LeftInv
  <2> QED BY <1>8, <2>2, <2>3 DEF DownRetries, Retry, Resume
<1>9. CASE UserDials
  <2>1. left' = FALSE
    BY <1>9 DEF UserDials, UserReconnects
  <2>2. OnlyMoves(User)
    BY <1>0, <1>9, DialsEffect DEF UserDials, UserReconnects, Candidates
  <2> QED BY <1>0, <2>1, <2>2 DEF LeftInv, OnlyMoves
<1>10. CASE UserLeaves
  <2>1. call'.pc = "leaving" /\ lastPeerAddr' = NoAddr
    BY <1>10 DEF UserLeaves, NoCall
  <2> QED BY <1>10, <2>1 DEF UserLeaves, LeftInv
<1>11. ASSUME NEW p \in Peers, Revoke(p) PROVE LeftInv'
  BY <1>11 DEF Revoke, NoCall, LeftInv
<1>12. ASSUME NEW p \in Peers, PeerArrives(p) PROVE LeftInv'
  BY <1>12 DEF PeerArrives, LeftInv
<1>13. ASSUME NEW p \in Peers, PeerInstalled(p) PROVE LeftInv'
  BY <1>13 DEF PeerInstalled, LeftInv
<1>14. CASE UNCHANGED vars
  BY <1>14 DEF vars, LeftInv
<1> QED
  BY <1>1, <1>2, <1>3, <1>4, <1>5, <1>6, <1>7, <1>8, <1>9, <1>10, <1>11,
     <1>12, <1>13, <1>14 DEF Next

\* However dials, loops and callbacks overlap with Disconnect, the program
\* itself does not go back to a peer that the user left while nobody dialled.
THEOREM LeftPeerStaysLeft == Spec => []LeftStaysLeft
<1>1. Init => LeftInv
  BY DEF Init, LeftInv, Idle, Dialers
<1>2. LeftInv => LeftStaysLeft
  BY DEF LeftInv, LeftStaysLeft
<1>3. QED
  BY <1>1, <1>2, LeftStep, TypeInvariant, PTL DEF Spec

-----------------------------------------------------------------------------
(* A peer whose trust is revoked has no session.                           *)

\* A peer on its way to a session is trusted, or was when it was authorised.
RevokeInv ==
    /\ RevokedHasNoSession
    /\ inbound \subseteq trusted \cup racing
    /\ \A d \in Dialers : At(d, "install") => PeerOf(d) \in trusted \cup racing

\* Every step keeps it.
LEMMA RevokeStep == TypeInv /\ RevokeInv /\ [Next]_vars => RevokeInv'
<1> SUFFICES ASSUME TypeInv, RevokeInv, [Next]_vars PROVE RevokeInv'
  OBVIOUS
<1> USE DEF memory, flags, net, calls, history
<1>0. Loops \subseteq Dialers /\ User \in Dialers /\ NoPeer \notin Peers
  BY ReconnectAssumption DEF Dialers
<1>a. ASSUME UNCHANGED <<trusted, racing, session, inbound, call>>,
             \A d \in Dialers : dialer'[d].pc = "install" => dialer'[d] = dialer[d]
      PROVE  RevokeInv'
  BY <1>a DEF RevokeInv, RevokedHasNoSession, At, PeerOf
<1>1. ASSUME NEW d \in Dialers,
             DialFails(d) \/ DialSucceeds(d) \/ Refused(d) \/ Up(d)
      PROVE  RevokeInv'
  <2>1. OnlyMoves(d) /\ dialer'[d].pc # "install"
    <3>1. CASE DialFails(d)
      BY <3>1, DialsEffect, GiveUpEffect DEF DialFails
    <3>2. CASE DialSucceeds(d) \/ Up(d)
      BY <3>2, GotoEffect, SucceedsEffect DEF Up, Labels, Dialling
    <3>3. CASE Refused(d)
      BY <3>3, GiveUpEffect DEF Refused
    <3> QED BY <1>1, <3>1, <3>2, <3>3
  <2> QED BY <1>1, <1>a, <2>1 DEF DialFails, DialSucceeds, Refused, Up, OnlyMoves
<1>2. ASSUME NEW d \in Dialers, Authorize(d) PROVE RevokeInv'
  <2>1. OnlyMoves(d) /\ dialer'[d].at = dialer[d].at
    BY <1>2, GotoEffect DEF Authorize, Labels, Dialling
  <2>2. /\ trusted' = trusted \cup {PeerOf(d)}
        /\ trusted' \cup racing' = trusted \cup racing \cup {PeerOf(d)}
        /\ UNCHANGED <<session, inbound, call>>
    BY <1>2 DEF Authorize
  <2>3. RevokedHasNoSession'
    BY <1>2, <2>2 DEF Authorize, RevokeInv, RevokedHasNoSession
  <2> QED BY <2>1, <2>2, <2>3 DEF RevokeInv, At, PeerOf, OnlyMoves
<1>3. ASSUME NEW d \in Dialers, Install(d) PROVE RevokeInv'
  <2>1. OnlyMoves(d) /\ dialer'[d].pc = "up"
    BY <1>3, GotoEffect DEF Install, Labels, Dialling
  <2>2. session'.peer = PeerOf(d) /\ PeerOf(d) \in trusted \cup racing
    BY <1>3 DEF Install, RevokeInv
  <2> QED BY <1>3, <2>1, <2>2 DEF Install, RevokeInv, RevokedHasNoSession, At, PeerOf,
             OnlyMoves
<1>4. ASSUME NEW l \in Loops,
             \/ LoopStart(l) \/ LoopStops(l) \/ LoopTries(l) \/ LoopWon(l)
             \/ LoopSettles(l) \/ LoopPaused(l) \/ LoopEnds(l)
      PROVE  RevokeInv'
  <2>1. OnlyMoves(l) /\ dialer'[l].pc # "install"
    <3>1. CASE LoopStart(l)
      <4>1. CASE reconnecting
        BY <1>0, <3>1, <4>1 DEF LoopStart, OnlyMoves, Idle, TypeInv, TypeOK
      <4>2. CASE ~reconnecting
        BY <1>0, <3>1, <4>2, GotoEffect DEF LoopStart, Labels
      <4> QED BY <4>1, <4>2
    <3>2. CASE LoopStops(l) \/ LoopPaused(l)
      BY <1>0, <3>2, GotoEffect DEF LoopStops, LoopPaused, Labels
    <3>3. CASE LoopTries(l)
      BY <1>0, <3>3, DialsEffect, GiveUpEffect DEF LoopTries, Candidates
    <3>4. CASE LoopWon(l)
      BY <1>0, <3>4 DEF LoopWon, OnlyMoves, TypeInv, TypeOK, Places
    <3>5. CASE LoopSettles(l)
      BY <1>0, <3>5, GotoEffect, GiveUpEffect DEF LoopSettles, Labels
    <3>6. CASE LoopEnds(l)
      BY <1>0, <3>6 DEF LoopEnds, OnlyMoves, Idle, TypeInv, TypeOK
    <3> QED BY <1>4, <3>1, <3>2, <3>3, <3>4, <3>5, <3>6
  <2> QED BY <1>4, <1>a, <2>1 DEF LoopStart, LoopStops, LoopTries, LoopWon, LoopSettles,
             LoopPaused, LoopEnds, OnlyMoves
<1>5. CASE UserWon
  <2>1. OnlyMoves(User) /\ dialer'[User].pc = "idle"
    BY <1>0, <1>5 DEF UserWon, Idle, OnlyMoves, TypeInv, TypeOK
  <2> QED BY <1>5, <1>a, <2>1 DEF UserWon, OnlyMoves
<1>6. CASE UserDials
  <2>1. OnlyMoves(User) /\ dialer'[User].pc = "dial"
    BY <1>0, <1>6, DialsEffect DEF UserDials, UserReconnects, Candidates
  <2> QED BY <1>6, <1>a, <2>1 DEF UserDials, UserReconnects, OnlyMoves
<1>7. CASE DownRetries \/ Resume
  <2>1. \A d \in Dialers : dialer'[d].pc = "install" => dialer'[d] = dialer[d]
    BY <1>7, ForkEffect DEF DownRetries, Resume, OnlyMoves
  <2> QED BY <1>7, <1>a, <2>1 DEF DownRetries, Resume
<1>8. CASE DownQuiet \/ SetAutoReconnect \/ Suspend
  BY <1>8, <1>a DEF DownQuiet, SetAutoReconnect, Suspend
<1>9. CASE Lost \/ UserCloses \/ SuspendCloses \/ RevokeEnds
  <2>1. UNCHANGED <<trusted, racing, inbound, dialer>>
    BY <1>9 DEF Lost, UserCloses, SuspendCloses, RevokeEnds
  <2>2. RevokedHasNoSession'
    <3>1. CASE session' = NoSession
      BY <1>0, <3>1 DEF NoSession, RevokedHasNoSession
    <3>2. CASE RevokeEnds /\ session' = session /\ session.peer # call.peer
      BY <2>1, <3>2 DEF RevokeInv, RevokedHasNoSession
    <3> QED BY <1>9, <3>1, <3>2 DEF Lost, UserCloses, SuspendCloses, RevokeEnds, Closes
  <2> QED BY <2>1, <2>2 DEF RevokeInv, At, PeerOf
<1>10. CASE UserLeaves
  <2>1. call.peer = NoPeer
    BY <1>10 DEF UserLeaves, NoCall
  <2> QED BY <1>0, <1>10, <2>1 DEF UserLeaves, RevokeInv, RevokedHasNoSession, At, PeerOf
<1>11. ASSUME NEW p \in Peers, Revoke(p) PROVE RevokeInv'
  <2>1. call.peer = NoPeer /\ call'.peer = p
    BY <1>11 DEF Revoke, NoCall
  <2>2. RevokedHasNoSession'
    BY <1>0, <1>11, <2>1 DEF Revoke, RevokeInv, RevokedHasNoSession
  <2>3. inbound' \subseteq trusted' \cup racing'
    BY <1>11 DEF Revoke, RevokeInv, OnTheWay
  <2>4. \A d \in Dialers : At(d, "install")' => PeerOf(d)' \in trusted' \cup racing'
    BY <1>11 DEF Revoke, RevokeInv, OnTheWay, At, PeerOf
  <2> QED BY <2>2, <2>3, <2>4 DEF RevokeInv
<1>12. ASSUME NEW p \in Peers, PeerArrives(p) PROVE RevokeInv'
  BY <1>12 DEF PeerArrives, RevokeInv, RevokedHasNoSession, At, PeerOf
<1>13. ASSUME NEW p \in Peers, PeerInstalled(p) PROVE RevokeInv'
  BY <1>13 DEF PeerInstalled, RevokeInv, RevokedHasNoSession, At, PeerOf
<1>14. CASE UNCHANGED vars
  BY <1>14, <1>a DEF vars
<1> QED
  BY <1>1, <1>2, <1>3, <1>4, <1>5, <1>6, <1>7, <1>8, <1>9, <1>10, <1>11,
     <1>12, <1>13, <1>14 DEF Next

\* However dials and inbound handshakes overlap with UntrustPeer, the peer it
\* removed has no session afterwards, if its authorisation was not yet over.
THEOREM RevokedPeerIsGone == Spec => []RevokedHasNoSession
<1>1. Init => RevokeInv
  BY ReconnectAssumption
  DEF Init, RevokeInv, RevokedHasNoSession, NoSession, Idle, Dialers, At
<1>2. RevokeInv => RevokedHasNoSession
  BY DEF RevokeInv
<1>3. QED
  BY <1>1, <1>2, RevokeStep, TypeInvariant, PTL DEF Spec

-----------------------------------------------------------------------------
(* A loss is retried.                                                      *)

\* What is owed is wanted, and there is a loop that will look.
LossInv == loss = "owed" => session = NoSession /\ Retry /\ Relied

\* A loop that is relied on stays so as long as it goes on and the address
\* stays.
LEMMA StillRelied ==
    ASSUME Relied, lastPeerAddr' = lastPeerAddr,
           \A l \in Loops : ReliedOn(l) =>
               /\ dialer'[l].pc \notin {"idle", "leaving"}
               /\ dialer'[l].expected = dialer[l].expected
    PROVE  Relied'
BY DEF Relied, ReliedOn, At

\* Every step keeps it.
LEMMA LossStep == TypeInv /\ LossInv /\ [Next]_vars => LossInv'
<1> SUFFICES ASSUME TypeInv, LossInv, [Next]_vars PROVE LossInv'
  OBVIOUS
<1> USE DEF memory, flags, net, calls, history
<1>0. /\ dialer \in [Dialers -> Sound] /\ Loops \subseteq Dialers
      /\ User \in Dialers /\ User \notin Loops
      /\ \A a \in Addrs : a # NoAddr
  BY ReconnectAssumption DEF TypeInv, Dialers, Addrs, NoAddr
<1>1. ASSUME NEW d \in Dialers,
             \/ DialFails(d) \/ DialSucceeds(d) \/ Refused(d)
             \/ Authorize(d) \/ Install(d) \/ Up(d),
             loss' = "owed"
      PROVE  LossInv'
  <2>1. ~Install(d) /\ loss = "owed" /\ UNCHANGED <<session, lastPeerAddr, auto>>
    BY <1>1 DEF DialFails, DialSucceeds, Refused, Authorize, Install, Up
  <2>2. suspended' \in {suspended, FALSE}
    BY <1>1 DEF DialFails, DialSucceeds, Refused, Authorize, Install, Up
  <2>3. Relied'
    <3>1. /\ OnlyMoves(d) /\ dialer'[d].pc # "leaving"
          /\ d # User => /\ dialer'[d].pc # "idle"
                         /\ dialer'[d].expected = dialer[d].expected
      BY <1>1, AttemptEffect
    <3> QED BY <1>0, <2>1, <3>1, StillRelied DEF LossInv, OnlyMoves, ReliedOn, At
  <2> QED BY <2>1, <2>2, <2>3 DEF LossInv, Retry
<1>2. ASSUME NEW l \in Loops, LoopStart(l), loss' = "owed" PROVE LossInv'
  <2>1. loss = "owed" /\ UNCHANGED <<session, lastPeerAddr, auto, suspended>>
    BY <1>2 DEF LoopStart
  <2>2. CASE reconnecting
    <3>1. PICK k \in Loops \ {l} : ReliedOn(k)
      BY <1>2, <2>1, <2>2 DEF LoopStart
    <3>2. OnlyMoves(l)
      BY <1>0, <1>2, <2>2 DEF LoopStart, OnlyMoves
    <3>3. ReliedOn(k)'
      BY <1>0, <2>1, <3>1, <3>2 DEF ReliedOn, At, OnlyMoves
    <3> QED BY <2>1, <3>1, <3>3 DEF LossInv, Relied, Retry
  <2>3. CASE ~reconnecting
    <3>1. OnlyMoves(l) /\ dialer'[l].pc = "check" /\ dialer'[l].expected = dialer[l].expected
      BY <1>0, <1>2, <2>3, GotoEffect DEF LoopStart, Labels
    <3>2. Relied'
      BY <1>0, <2>1, <3>1, StillRelied DEF LossInv, OnlyMoves, ReliedOn, At
    <3> QED BY <2>1, <3>2 DEF LossInv, Retry
  <2> QED BY <2>2, <2>3
<1>3. ASSUME NEW l \in Loops, LoopWon(l), loss' = "owed" PROVE LossInv'
  <2>1. loss = "owed" /\ UNCHANGED <<session, auto, suspended>>
    BY <1>3 DEF LoopWon
  <2>2. dialer[l].at \in Addrs
    BY <1>0, <1>3 DEF LoopWon, At, Sound, Dialling
  <2>3. OnlyMoves(l) /\ dialer'[l].pc = "settle" /\ dialer'[l].expected = dialer[l].at
    BY <1>0, <1>3 DEF LoopWon, OnlyMoves, Sound, Places
  <2>4. CASE lastPeerAddr = dialer[l].expected
    <3>1. lastPeerAddr' = dialer[l].at
      BY <1>3, <2>4 DEF LoopWon
    <3>2. ReliedOn(l)'
      BY <2>3, <3>1 DEF ReliedOn, At
    <3> QED BY <1>0, <2>1, <2>2, <3>1, <3>2 DEF LossInv, Retry, Relied
  <2>5. CASE lastPeerAddr # dialer[l].expected
    <3>1. lastPeerAddr' = lastPeerAddr
      BY <1>3, <2>5 DEF LoopWon
    <3>2. ~ReliedOn(l)
      BY <2>5 DEF ReliedOn
    <3>3. Relied'
      BY <1>0, <2>1, <2>3, <3>1, <3>2, StillRelied DEF LossInv, OnlyMoves, ReliedOn, At
    <3> QED BY <2>1, <3>1, <3>3 DEF LossInv, Retry
  <2> QED BY <2>4, <2>5
<1>4. ASSUME NEW l \in Loops,
             LoopStops(l) \/ LoopTries(l) \/ LoopSettles(l) \/ LoopPaused(l) \/ LoopEnds(l),
             loss' = "owed"
      PROVE  LossInv'
  <2>1. loss = "owed" /\ UNCHANGED <<session, lastPeerAddr, auto, suspended>>
    BY <1>4 DEF LoopStops, LoopTries, LoopSettles, LoopPaused, LoopEnds
  <2>2. session = NoSession /\ Retry /\ Relied
    BY <2>1 DEF LossInv
  <2>3. OnlyMoves(l) /\ (ReliedOn(l) => /\ dialer'[l].pc \notin {"idle", "leaving"}
                                        /\ dialer'[l].expected = dialer[l].expected)
    <3>1. CASE LoopStops(l)
      BY <1>0, <2>2, <3>1, GotoEffect DEF LoopStops, Wanted, Retry, ReliedOn, Labels
    <3>2. CASE LoopTries(l)
      BY <1>0, <3>2, DialsEffect, GiveUpEffect DEF LoopTries, Candidates
    <3>3. CASE LoopSettles(l)
      BY <1>0, <2>2, <3>3, GiveUpEffect DEF LoopSettles
    <3>4. CASE LoopPaused(l)
      BY <1>0, <3>4, GotoEffect DEF LoopPaused, Labels
    <3>5. CASE LoopEnds(l)
      BY <1>0, <3>5 DEF LoopEnds, OnlyMoves, ReliedOn
    <3> QED BY <1>4, <3>1, <3>2, <3>3, <3>4, <3>5
  <2>4. Relied'
    BY <1>0, <2>1, <2>2, <2>3, StillRelied DEF OnlyMoves, ReliedOn, At
  <2> QED BY <2>1, <2>2, <2>4 DEF LossInv, Retry
<1>5. CASE UserWon \/ UserLeaves \/ SetAutoReconnect \/ Suspend
  BY <1>5 DEF UserWon, UserLeaves, SetAutoReconnect, Suspend, LossInv
<1>6. CASE Lost \/ UserCloses \/ SuspendCloses \/ RevokeEnds
  <2>1. UNCHANGED <<loss, lastPeerAddr, auto, suspended, dialer>>
    BY <1>6 DEF Lost, UserCloses, SuspendCloses, RevokeEnds
  <2>2. session' \in {session, NoSession}
    BY <1>6 DEF Lost, UserCloses, SuspendCloses, RevokeEnds, Closes
  <2> QED BY <2>1, <2>2 DEF LossInv, Retry, Relied, ReliedOn, At
<1>7. CASE DownQuiet
  BY <1>7 DEF DownQuiet, LossInv, Retry, Relied, ReliedOn, At
<1>8. ASSUME DownRetries \/ Resume, loss' = "owed" PROVE LossInv'
  <2>1. session' = NoSession /\ Retry'
    <3>1. CASE DownRetries
      BY <1>8, <3>1 DEF DownRetries, Retry
    <3>2. CASE Resume
      <4>1. loss # "owed"
        BY <3>2 DEF Resume, LossInv, Retry
      <4>2. auto /\ lastPeerAddr # NoAddr /\ session = NoSession
        BY <1>8, <3>2, <4>1 DEF Resume
      <4> QED BY <3>2, <4>2 DEF Resume, Retry
    <3> QED BY <1>8, <3>1, <3>2
  <2>2. CASE Fork
    <3>1. UNCHANGED lastPeerAddr
      BY <1>8 DEF DownRetries, Resume
    <3>2. PICK l \in Loops : ReliedOn(l)'
      BY <2>2, <3>1, ForkEffect DEF ReliedOn, At
    <3> QED BY <2>1, <3>2 DEF LossInv, Relied
  <2>3. CASE UNCHANGED <<dialer, lastPeerAddr>> /\ Relied
    BY <2>1, <2>3 DEF LossInv, Relied, ReliedOn, At
  <2>4. CASE Resume /\ ~(auto /\ lastPeerAddr # NoAddr)
    BY <1>8, <2>4 DEF Resume, LossInv, Retry
  <2> QED BY <1>8, <2>2, <2>3, <2>4 DEF DownRetries, Resume
<1>9. ASSUME UserDials, loss' = "owed" PROVE LossInv'
  <2>1. loss = "owed" /\ UNCHANGED <<session, lastPeerAddr, auto, suspended>>
    BY <1>9 DEF UserDials, UserReconnects
  <2>2. OnlyMoves(User)
    BY <1>0, <1>9, DialsEffect DEF UserDials, UserReconnects, Candidates
  <2>3. Relied'
    BY <1>0, <2>1, <2>2, StillRelied DEF LossInv, OnlyMoves, ReliedOn, At
  <2> QED BY <2>1, <2>3 DEF LossInv, Retry
<1>10. ASSUME NEW p \in Peers, Revoke(p) \/ PeerArrives(p) PROVE LossInv'
  BY <1>10 DEF Revoke, PeerArrives, LossInv, Retry, Relied, ReliedOn, At
<1>11. ASSUME NEW p \in Peers, PeerInstalled(p) PROVE LossInv'
  BY <1>11 DEF PeerInstalled, LossInv
<1>12. CASE UNCHANGED vars
  BY <1>12 DEF vars, LossInv, Retry, Relied, ReliedOn, At
<1>13. CASE loss' # "owed"
  BY <1>13 DEF LossInv
<1> QED
  BY <1>1, <1>2, <1>3, <1>4, <1>5, <1>6, <1>7, <1>8, <1>9, <1>10, <1>11,
     <1>12, <1>13 DEF Next

\* A lost connection, or one slept through, has a loop that will dial again,
\* unless it met another loop that was leaving or wanted another address.
THEOREM LossHasItsLoop == Spec => []RetriedUnlessMissed
<1>1. Init => LossInv
  BY DEF Init, LossInv
<1>2. TypeInv /\ LossInv => RetriedUnlessMissed
  BY DEF TypeInv, TypeOK, LossInv, RetriedUnlessMissed, LossIsRetried
<1>3. QED
  BY <1>1, <1>2, LossStep, TypeInvariant, PTL DEF Spec
=============================================================================
