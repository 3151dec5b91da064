---------------------------- MODULE ServicesProofs ----------------------------
(***************************************************************************)
(* What Services states of its parts, for every value of the constants.    *)
(* Each part has an inductive invariant of its own, which is proved over   *)
(* the part's actions; StepOfOnePart carries it over to the steps of all.  *)
(***************************************************************************)
EXTENDS Services, FiniteSetTheorems, SequenceTheorems, WellFoundedInduction, TLAPS

\* A step leaves the part that runs as it is, and is a step of that part.
LEMMA StepOfOnePart ==
    ASSUME [Next]_vars
    PROVE  /\ on' = on
           /\ on = "discovery" => Dis!Next \/ UNCHANGED disVars
           /\ on = "routes" => Rou!Next \/ UNCHANGED rouVars
           /\ on = "pairing" => Pai!Next \/ UNCHANGED paiVars
           /\ on = "audio" => Aud!Next \/ UNCHANGED audVars
           /\ on = "clipboard" => Cli!Next \/ UNCHANGED cliVars
           /\ on = "media" => Med!Next \/ UNCHANGED medVars
           /\ on = "playout" => Pla!Next \/ UNCHANGED plaVars
           /\ on = "bluetooth" => Blu!Next \/ UNCHANGED bluVars
           /\ on = "device" => Dev!Next \/ UNCHANGED devVars
           /\ on = "supervision" => Sup!Next \/ UNCHANGED supVars
<1>1. CASE UNCHANGED vars
  BY <1>1 DEF vars
<1>2. CASE Next
  BY <1>2 DEF Next, Step
<1>3. QED
  BY <1>1, <1>2

(***************************************************************************)
(* Discovery.                                                              *)
(***************************************************************************)

\* Discovery counts as every module does.
LEMMA SameCardinality == \A S : Dis!Cardinality(S) = Cardinality(S)
  BY Zenon DEF Dis!Cardinality, Cardinality, Dis!ExistsBijection, ExistsBijection,
     Dis!Bijection, Bijection, Dis!Injection, Injection, Dis!Surjection, Surjection

\* The addresses that are listed are those that are timed.  Between two
\* cleanups nothing is older than peerTTL and the time since the last one.
Listed ==
    /\ IsFiniteSet(Dis!Table) /\ Cardinality(Dis!Table) <= MaxPeers
    /\ \A d \in Dis!Table :
        /\ lastSeen[d] <= PeerTTL + timer
        /\ addresses[d] = DOMAIN seen[d]
        /\ IsFiniteSet(addresses[d]) /\ Cardinality(addresses[d]) <= MaxAddresses
        /\ \A a \in addresses[d] : seen[d][a] <= PeerTTL + timer

DisInv == Dis!TypeOK /\ Listed

LEMMA DisInit == Dis!Init => DisInv
<1> SUFFICES ASSUME Dis!Init PROVE DisInv
  OBVIOUS
<1>1. Dis!TypeOK
  BY DiscoveryAssumption DEF Dis!Init, Dis!TypeOK, Dis!Empty, Dis!Table
<1>2. Dis!Table = {}
  BY DEF Dis!Init, Dis!Empty, Dis!Table
<1>3. QED
  BY <1>1, <1>2, FS_EmptySet, DiscoveryAssumption DEF DisInv, Listed

\* The times of one device's addresses.
Times(ages, bound) ==
    /\ DOMAIN ages \subseteq Addresses
    /\ \A a \in DOMAIN ages : ages[a] \in Nat /\ ages[a] <= bound
    /\ IsFiniteSet(DOMAIN ages) /\ Cardinality(DOMAIN ages) <= MaxAddresses

\* refreshPeerSnapshot keeps only what was heard within peerTTL.
LEMMA FreshIsRecent ==
    ASSUME NEW ages, NEW bound, Times(ages, bound)
    PROVE  Times(Dis!Fresh(ages), PeerTTL)
<1>1. /\ DOMAIN Dis!Fresh(ages) = {a \in DOMAIN ages : ages[a] <= PeerTTL}
      /\ \A a \in DOMAIN Dis!Fresh(ages) : Dis!Fresh(ages)[a] = ages[a]
  BY DEF Dis!Fresh, Dis!Restrict
<1>2. DOMAIN Dis!Fresh(ages) \subseteq DOMAIN ages
  BY <1>1
<1>3. /\ IsFiniteSet(DOMAIN Dis!Fresh(ages))
      /\ Cardinality(DOMAIN Dis!Fresh(ages)) <= MaxAddresses
  <2>1. /\ IsFiniteSet(DOMAIN Dis!Fresh(ages))
        /\ Cardinality(DOMAIN Dis!Fresh(ages)) <= Cardinality(DOMAIN ages)
    BY <1>2, FS_Subset DEF Times
  <2>2. QED
    BY <2>1, FS_CardinalityType, DiscoveryAssumption DEF Times
<1>4. QED
  BY <1>1, <1>2, <1>3 DEF Times

LEMMA DisStep ==
    ASSUME DisInv, Dis!Next
    PROVE  DisInv'
<1>0. /\ PeerTTL \in Nat /\ CleanupPeriod \in Nat /\ MaxPeers \in Nat /\ MaxAddresses \in Nat
      /\ timer \in 0..CleanupPeriod
  BY DiscoveryAssumption DEF DisInv, Dis!TypeOK
<1>1. /\ DOMAIN lastSeen \subseteq NetDevices
      /\ DOMAIN seen = DOMAIN lastSeen /\ DOMAIN addresses = DOMAIN lastSeen
      /\ IsFiniteSet(DOMAIN lastSeen) /\ Cardinality(DOMAIN lastSeen) <= MaxPeers
  BY DEF DisInv, Listed, Dis!TypeOK, Dis!Table
<1>2. \A d \in DOMAIN lastSeen :
        /\ lastSeen[d] \in Nat /\ lastSeen[d] <= PeerTTL + timer
        /\ addresses[d] = DOMAIN seen[d]
        /\ Times(seen[d], PeerTTL + timer)
  BY <1>0 DEF DisInv, Listed, Dis!TypeOK, Dis!Table, Dis!Ages, Times
\* What has to hold after a step.
<1>a. ASSUME timer' \in 0..CleanupPeriod,
             DOMAIN lastSeen' \subseteq NetDevices,
             DOMAIN seen' = DOMAIN lastSeen', DOMAIN addresses' = DOMAIN lastSeen',
             IsFiniteSet(DOMAIN lastSeen'), Cardinality(DOMAIN lastSeen') <= MaxPeers,
             \A d \in DOMAIN lastSeen' :
                /\ lastSeen'[d] \in Nat /\ lastSeen'[d] <= PeerTTL + timer'
                /\ addresses'[d] = DOMAIN seen'[d]
                /\ Times(seen'[d], PeerTTL + timer')
      PROVE  DisInv'
  BY <1>0, <1>a DEF DisInv, Listed, Dis!TypeOK, Dis!Table, Dis!Ages, Times
<1>3. CASE Dis!Tick
  <2>1. /\ timer' = timer + 1 /\ timer < CleanupPeriod
        /\ lastSeen' = [d \in DOMAIN lastSeen |-> lastSeen[d] + 1]
        /\ seen' = [d \in DOMAIN lastSeen |-> [a \in DOMAIN seen[d] |-> seen[d][a] + 1]]
        /\ addresses' = addresses
    BY <1>3 DEF Dis!Tick, Dis!Older, Dis!Table
  <2>2. \A d \in DOMAIN lastSeen : Times(seen'[d], PeerTTL + timer')
    BY <1>0, <1>2, <2>1 DEF Times
  <2>3. QED
    BY <1>0, <1>1, <1>2, <1>a, <2>1, <2>2
<1>4. CASE Dis!Cleanup
  <2> DEFINE live == {d \in DOMAIN lastSeen : lastSeen[d] <= PeerTTL}
  <2>1. /\ timer' = 0 /\ lastSeen' = [d \in live |-> lastSeen[d]]
        /\ seen' = [d \in live |-> Dis!Fresh(seen[d])]
        /\ addresses' = [d \in live |-> DOMAIN Dis!Fresh(seen[d])]
    BY <1>4 DEF Dis!Cleanup, Dis!Restrict, Dis!Table
  <2>2. IsFiniteSet(live) /\ Cardinality(live) <= MaxPeers
    <3>1. IsFiniteSet(live) /\ Cardinality(live) <= Cardinality(DOMAIN lastSeen)
      BY <1>1, FS_Subset
    <3>2. QED
      BY <1>0, <1>1, <3>1, FS_CardinalityType
  <2>3. \A d \in live : Times(Dis!Fresh(seen[d]), PeerTTL)
    BY <1>2, FreshIsRecent
  <2>4. QED
    BY <1>0, <1>1, <1>2, <1>a, <2>1, <2>2, <2>3
<1>5. ASSUME NEW d \in NetDevices, NEW a \in Addresses, Dis!Announce(d, a)
      PROVE  DisInv'
  <2> DEFINE oldest == IF d \in DOMAIN lastSeen THEN seen[d] ELSE Dis!Empty
  <2> DEFINE room == a \in DOMAIN oldest \/ Cardinality(DOMAIN oldest) < MaxAddresses
  <2> DEFINE heard == IF room THEN Dis!Put(oldest, a, 0) ELSE oldest
  <2>1. Times(oldest, PeerTTL + timer)
    <3>1. CASE d \in DOMAIN lastSeen
      BY <1>2, <3>1
    <3>2. CASE d \notin DOMAIN lastSeen
      <4>1. DOMAIN oldest = {}
        BY <3>2 DEF Dis!Empty
      <4>2. QED
        BY <1>0, <4>1, FS_EmptySet DEF Times
    <3>3. QED
      BY <3>1, <3>2
  <2>2. Times(heard, PeerTTL + timer)
    <3>1. CASE ~room
      BY <2>1, <3>1
    <3>2. CASE room
      <4>1. /\ DOMAIN heard = DOMAIN oldest \cup {a}
            /\ \A x \in DOMAIN heard : heard[x] = IF x = a THEN 0 ELSE oldest[x]
        BY <3>2 DEF Dis!Put
      <4>2. IsFiniteSet(DOMAIN heard) /\ Cardinality(DOMAIN heard) <= MaxAddresses
        <5>1. CASE a \in DOMAIN oldest
          <6>1. DOMAIN heard = DOMAIN oldest
            BY <4>1, <5>1
          <6>2. QED
            BY <2>1, <6>1 DEF Times
        <5>2. CASE a \notin DOMAIN oldest
          <6>1. /\ IsFiniteSet(DOMAIN oldest \cup {a})
                /\ Cardinality(DOMAIN oldest \cup {a}) = Cardinality(DOMAIN oldest) + 1
            BY <2>1, <5>2, FS_AddElement DEF Times
          <6>2. Cardinality(DOMAIN oldest) < MaxAddresses /\ Cardinality(DOMAIN oldest) \in Nat
            BY <2>1, <3>2, <5>2, FS_CardinalityType DEF Times
          <6>3. QED
            BY <1>0, <4>1, <6>1, <6>2
        <5>3. QED
          BY <5>1, <5>2
      <4>3. QED
        BY <1>0, <2>1, <4>1, <4>2 DEF Times
    <3>3. QED
      BY <3>1, <3>2
  <2> DEFINE fresh == Dis!Fresh(heard)
  <2>3. Times(fresh, PeerTTL)
    BY <2>2, FreshIsRecent
  <2>4. /\ timer' = timer
        /\ lastSeen' = [x \in DOMAIN lastSeen \cup {d} |-> IF x = d THEN 0 ELSE lastSeen[x]]
        /\ seen' = [x \in DOMAIN seen \cup {d} |-> IF x = d THEN fresh ELSE seen[x]]
        /\ addresses' = [x \in DOMAIN addresses \cup {d} |->
                            IF x = d THEN DOMAIN fresh ELSE addresses[x]]
    <3>1. /\ timer' = timer /\ lastSeen' = Dis!Put(lastSeen, d, 0)
          /\ seen' = Dis!Put(seen, d, fresh)
          /\ addresses' = Dis!Put(addresses, d, DOMAIN fresh)
      BY <1>5, SameCardinality DEF Dis!Announce, Dis!Table
    <3> HIDE DEF fresh
    <3>2. QED
      BY <3>1 DEF Dis!Put
  <2>5. IsFiniteSet(DOMAIN lastSeen') /\ Cardinality(DOMAIN lastSeen') <= MaxPeers
    <3>1. DOMAIN lastSeen' = DOMAIN lastSeen \cup {d}
      BY <2>4
    <3>2. CASE d \in DOMAIN lastSeen
      <4>1. DOMAIN lastSeen' = DOMAIN lastSeen
        BY <3>1, <3>2
      <4>2. QED
        BY <1>1, <4>1
    <3>3. CASE d \notin DOMAIN lastSeen
      <4>1. /\ IsFiniteSet(DOMAIN lastSeen \cup {d})
            /\ Cardinality(DOMAIN lastSeen \cup {d}) = Cardinality(DOMAIN lastSeen) + 1
        BY <1>1, <3>3, FS_AddElement
      <4>2. Cardinality(DOMAIN lastSeen) < MaxPeers /\ Cardinality(DOMAIN lastSeen) \in Nat
        <5>1. d \in DOMAIN lastSeen \/ Cardinality(DOMAIN lastSeen) < MaxPeers
          BY <1>5, SameCardinality DEF Dis!Announce, Dis!Table
        <5>2. QED
          BY <1>1, <3>3, <5>1, FS_CardinalityType
      <4>3. QED
        BY <1>0, <3>1, <4>1, <4>2
    <3>4. QED
      BY <3>2, <3>3
  <2>6. Times(fresh, PeerTTL + timer)
    BY <1>0, <2>3 DEF Times
  <2> HIDE DEF fresh
  <2>7. QED
    BY <1>0, <1>1, <1>2, <1>a, <2>4, <2>5, <2>6
<1>6. QED
  BY <1>3, <1>4, <1>5 DEF Dis!Next

LEMMA DisIsInvariant == Spec => [](on = "discovery" => DisInv)
<1>1. Init => (on = "discovery" => DisInv)
  BY DisInit DEF Init
<1>2. (on = "discovery" => DisInv) /\ [Next]_vars => (on = "discovery" => DisInv)'
  <2>1. DisInv /\ UNCHANGED disVars => DisInv'
    BY DEF DisInv, Listed, Dis!TypeOK, Dis!Table, Dis!Ages, disVars
  <2>2. QED
    BY <2>1, DisStep, StepOfOnePart
<1>3. QED
  BY <1>1, <1>2, PTL DEF Spec

\* What is offered was heard within peerTTL and one period of cleanup, and no
\* table outgrows its limit (discovery.go).
THEOREM RecentlyHeardTheorem == Spec => []OnlyRecentlyHeard
<1>1. (on = "discovery" => DisInv) => OnlyRecentlyHeard
  <2> SUFFICES ASSUME DisInv PROVE Dis!OnlyRecentlyHeard
    BY DEF OnlyRecentlyHeard
  <2>1. /\ PeerTTL \in Nat /\ CleanupPeriod \in Nat /\ timer \in 0..CleanupPeriod
        /\ \A d \in Dis!Table :
            lastSeen[d] \in Nat /\ \A a \in DOMAIN seen[d] : seen[d][a] \in Nat
    BY DiscoveryAssumption DEF DisInv, Dis!TypeOK, Dis!Ages
  <2>2. QED
    BY <2>1, SameCardinality DEF DisInv, Listed, Dis!OnlyRecentlyHeard
<1>2. QED
  BY <1>1, DisIsInvariant, PTL

(***************************************************************************)
(* RouteCache.                                                             *)
(***************************************************************************)

RouInv == Rou!TypeOK /\ Rou!RoutesFitAdapters

LEMMA RouInit == Rou!Init => RouInv
<1> SUFFICES ASSUME Rou!Init PROVE RouInv
  OBVIOUS
<1> USE RouteAssumption DEF Rou!Init
<1>1. network \in Networks /\ adapters \in Rou!Snapshots
  BY DEF Rou!Snapshots
<1>2. valid \in BOOLEAN
  OBVIOUS
<1>. age \in 0..AdapterTTL
  OBVIOUS
<1>3. routes \in [IPs -> Networks \cup {Rou!Missing}] /\ Rou!RoutesFitAdapters
  BY DEF Rou!NoRoutes, Rou!RoutesFitAdapters
<1>4. held \in [Resolvers -> [ip : IPs, slice : Rou!Snapshots] \cup {Rou!Idle}]
  OBVIOUS
<1>5. QED
  BY <1>1, <1>2, <1>3, <1>4 DEF RouInv, Rou!TypeOK

LEMMA AdaptersLockedKeepsRoutes ==
    ASSUME RouInv, NEW force \in BOOLEAN,
           Rou!AdaptersLocked(force, adapters', routes'), UNCHANGED network
    PROVE  /\ adapters' \in Rou!Snapshots
           /\ valid' \in BOOLEAN /\ age' \in 0..AdapterTTL
           /\ routes' \in [IPs -> Networks \cup {Rou!Missing}]
           /\ Rou!RoutesFitAdapters'
<1>1. /\ network \in Networks /\ adapters \in Rou!Snapshots
      /\ valid \in BOOLEAN /\ age \in 0..AdapterTTL /\ AdapterTTL \in Nat
      /\ routes \in [IPs -> Networks \cup {Rou!Missing}]
      /\ Rou!RoutesFitAdapters
  BY RouteAssumption DEF RouInv, Rou!TypeOK
<1>2. valid' \in BOOLEAN
  BY <1>1 DEF Rou!AdaptersLocked
<1>. age' \in 0..AdapterTTL
  BY <1>1 DEF Rou!AdaptersLocked
<1>3. CASE adapters' = adapters /\ routes' = routes
  BY <1>1, <1>2, <1>3 DEF Rou!RoutesFitAdapters, Rou!Missing
<1>4. CASE /\ \E i \in Slices : adapters' = [net |-> network, id |-> i]
           /\ routes' = Rou!NoRoutes
  BY <1>1, <1>2, <1>4
     DEF Rou!RoutesFitAdapters, Rou!Missing, Rou!NoRoutes, Rou!Snapshots
<1>5. QED
  BY <1>3, <1>4 DEF Rou!AdaptersLocked

LEMMA RouStep ==
    ASSUME RouInv, Rou!Next
    PROVE  RouInv'
<1> USE RouteAssumption DEF RouInv, Rou!TypeOK
<1>1. CASE Rou!Get
  BY <1>1, AdaptersLockedKeepsRoutes DEF Rou!Get
<1>2. CASE Rou!Tick
  BY <1>2 DEF Rou!Tick, Rou!RoutesFitAdapters
<1>3. CASE Rou!NetworkChanges
  BY <1>3 DEF Rou!NetworkChanges, Rou!RoutesFitAdapters
<1>4. ASSUME NEW c \in Resolvers, Rou!Lookup(c)
      PROVE  RouInv'
  <2>1. /\ adapters' \in Rou!Snapshots
        /\ valid' \in BOOLEAN /\ age' \in 0..AdapterTTL
        /\ routes' \in [IPs -> Networks \cup {Rou!Missing}]
        /\ Rou!RoutesFitAdapters'
    BY <1>4, AdaptersLockedKeepsRoutes DEF Rou!Lookup
  <2>2. held' \in [Resolvers -> [ip : IPs, slice : Rou!Snapshots] \cup {Rou!Idle}]
    BY <1>4, <2>1 DEF Rou!Lookup
  <2>3. QED
    BY <1>4, <2>1, <2>2 DEF Rou!Lookup
<1>5. ASSUME NEW c \in Resolvers, Rou!Store(c)
      PROVE  RouInv'
  <2>1. held[c] \in [ip : IPs, slice : Rou!Snapshots]
    BY <1>5 DEF Rou!Store
  <2>2. Rou!SameSlice(adapters, held[c].slice) => held[c].slice.net = adapters.net
    BY DEF Rou!SameSlice
  <2>3. routes' \in [IPs -> Networks \cup {Rou!Missing}] /\ Rou!RoutesFitAdapters'
    BY <1>5, <2>1, <2>2 DEF Rou!Store, Rou!RoutesFitAdapters, Rou!Snapshots
  <2>4. QED
    BY <1>5, <2>3 DEF Rou!Store
<1>6. ASSUME NEW ip \in IPs, Rou!Expire(ip)
      PROVE  RouInv'
  BY <1>6 DEF Rou!Expire, Rou!RoutesFitAdapters
<1>7. QED
  BY <1>1, <1>2, <1>3, <1>4, <1>5, <1>6 DEF Rou!Next

LEMMA RouIsInvariant == Spec => [](on = "routes" => RouInv)
<1>1. Init => (on = "routes" => RouInv)
  BY RouInit DEF Init
<1>2. (on = "routes" => RouInv) /\ [Next]_vars => (on = "routes" => RouInv)'
  <2>1. RouInv /\ UNCHANGED rouVars => RouInv'
    BY DEF RouInv, rouVars, Rou!TypeOK, Rou!RoutesFitAdapters
  <2>2. QED
    BY <2>1, RouStep, StepOfOnePart
<1>3. QED
  BY <1>1, <1>2, PTL DEF Spec

\* Routes that were resolved outside the lock never enter the cache of another
\* configuration of adapters (link/cache.go).
THEOREM RoutesFitTheorem == Spec => []RoutesFitAdapters
<1>1. (on = "routes" => RouInv) => RoutesFitAdapters
  BY DEF RouInv, RoutesFitAdapters
<1>2. QED
  BY <1>1, RouIsInvariant, PTL

(***************************************************************************)
(* Pairing.                                                                *)
(***************************************************************************)

Handshake ==
    [pc : Pai!Labels, dev : PairDevices \cup {"none"}, pin : Pins \cup {0},
     known : BOOLEAN]

\* A PIN that has been replaced is never the current one.
CodeOK ==
    /\ pin \in Pins /\ old \in BOOLEAN
    /\ failures \in 0..(MaxPinFailures - 1) /\ locked \in BOOLEAN
    /\ spent \subseteq Pins /\ pin \notin spent

\* A handshake that is under way knows its device.
HandshakesOK ==
    /\ hs \in [Handshakes -> Handshake]
    /\ \A h \in Handshakes :
        hs[h].pc # "idle" => hs[h].dev \in PairDevices

StoreOK ==
    /\ records \subseteq PairDevices /\ file \subseteq PairDevices
    /\ stored \subseteq PairDevices /\ stored \subseteq records \cap file

PaiInv == CodeOK /\ HandshakesOK /\ StoreOK

LEMMA IdleIsHandshake ==
    Pai!Idle \in Handshake /\ Pai!Idle.pc = "idle"
BY DEF Pai!Idle, Handshake, Pai!Labels, Pai!NoPin

LEMMA PaiInit == Pai!Init => PaiInv
<1> SUFFICES ASSUME Pai!Init PROVE PaiInv
  OBVIOUS
<1>1. pin \in Pins
  BY PairingAssumption DEF Pai!Init
<1>2. failures \in 0..(MaxPinFailures - 1)
  BY PairingAssumption DEF Pai!Init
<1>3. CodeOK
  <2>1. old \in BOOLEAN /\ locked \in BOOLEAN
    BY DEF Pai!Init
  <2>2. spent \subseteq Pins /\ pin \notin spent
    BY DEF Pai!Init
  <2>3. QED
    BY <1>1, <1>2, <2>1, <2>2 DEF CodeOK
<1>4. HandshakesOK
  BY IdleIsHandshake DEF Pai!Init, HandshakesOK
<1>5. StoreOK
  BY DEF Pai!Init, StoreOK
<1>6. QED
  BY <1>3, <1>4, <1>5 DEF PaiInv

\* A new PIN is one that nobody uses.
LEMMA DrawKeepsCode ==
    ASSUME CodeOK, HandshakesOK, NEW lock \in BOOLEAN, Pai!Draw(lock)
    PROVE  CodeOK'
<1>1. \E p \in Pins : p \notin {pin} \cup {hs[h].pin : h \in Handshakes}
  <2> DEFINE f == [h \in Handshakes |-> hs[h].pin]
  <2>1. f \in [Handshakes -> Pins \cup {0}] /\ pin \in Pins
    BY DEF HandshakesOK, Handshake, CodeOK
  <2>2. PICK p \in Pins : p # pin /\ \A h \in Handshakes : p # f[h]
    BY <2>1, PairingAssumption
  <2>3. QED
    BY <2>2
<1>2. pin' \in Pins
  BY <1>1 DEF Pai!Draw
<1>3. failures' \in 0..(MaxPinFailures - 1)
  BY PairingAssumption DEF Pai!Draw
<1>4. old' \in BOOLEAN /\ locked' \in BOOLEAN
  BY DEF Pai!Draw
<1>5. spent' \subseteq Pins /\ pin' \notin spent'
  BY DEF Pai!Draw, CodeOK
<1>6. QED
  BY <1>2, <1>3, <1>4, <1>5 DEF CodeOK

LEMMA FailureKeepsCode ==
    ASSUME CodeOK, HandshakesOK, Pai!RecordFailure
    PROVE  CodeOK'
<1>1. CASE failures + 1 >= MaxPinFailures
  BY <1>1, DrawKeepsCode DEF Pai!RecordFailure
<1>2. CASE ~(failures + 1 >= MaxPinFailures)
  <2>1. failures' \in 0..(MaxPinFailures - 1)
    BY <1>2, PairingAssumption DEF Pai!RecordFailure, CodeOK
  <2>2. QED
    BY <1>2, <2>1 DEF Pai!RecordFailure, CodeOK
<1>3. QED
  BY <1>1, <1>2

LEMMA RenewKeepsCode ==
    ASSUME CodeOK, HandshakesOK, Pai!Renew
    PROVE  CodeOK'
BY DrawKeepsCode DEF Pai!Renew

LEMMA PaiStep ==
    ASSUME PaiInv, Pai!Next
    PROVE  PaiInv'
<1> SUFFICES CodeOK' /\ HandshakesOK' /\ StoreOK'
  BY DEF PaiInv
<1>0. CodeOK /\ HandshakesOK /\ StoreOK
  BY DEF PaiInv
<1> USE DEF Pai!code, Pai!store, Pai!history
<1>a. UNCHANGED Pai!code /\ UNCHANGED spent => CodeOK'
  BY <1>0 DEF CodeOK
<1>b. UNCHANGED hs => HandshakesOK'
  BY <1>0 DEF HandshakesOK
<1>c. UNCHANGED Pai!store /\ UNCHANGED stored => StoreOK'
  BY <1>0 DEF StoreOK
<1>d. ASSUME NEW h \in Handshakes, Pai!Leave(h)
      PROVE  HandshakesOK'
  BY <1>0, <1>d, IdleIsHandshake DEF Pai!Leave, HandshakesOK
<1>e. ASSUME NEW h \in Handshakes, NEW label \in Pai!Labels, Pai!Goto(h, label),
             hs[h].pc # "idle"
      PROVE  HandshakesOK'
  BY <1>0, <1>e DEF Pai!Goto, HandshakesOK, Handshake
<1>1. CASE Pai!ShowPin
  BY <1>0, <1>1, <1>b, <1>c, RenewKeepsCode, DrawKeepsCode DEF Pai!ShowPin
<1>2. CASE Pai!GrowOld
  BY <1>0, <1>2, <1>b, <1>c DEF Pai!GrowOld, CodeOK
<1>3. CASE Pai!Unlock
  BY <1>0, <1>3, <1>b, <1>c DEF Pai!Unlock, CodeOK
<1>4. CASE Pai!Restart
  <2>1. HandshakesOK'
    BY <1>4, IdleIsHandshake DEF Pai!Restart, HandshakesOK
  <2>2. CodeOK' /\ StoreOK'
    BY <1>0, <1>4, DrawKeepsCode DEF Pai!Restart, StoreOK
  <2>3. QED
    BY <2>1, <2>2
<1>5. ASSUME NEW d \in PairDevices, Pai!Remove(d)
      PROVE  CodeOK' /\ HandshakesOK' /\ StoreOK'
  BY <1>0, <1>5, <1>a, <1>b DEF Pai!Remove, Pai!Saved, Pai!Known, StoreOK
<1>6. ASSUME NEW h \in Handshakes, NEW d \in PairDevices, Pai!BeginPlain(h, d)
      PROVE  CodeOK' /\ HandshakesOK' /\ StoreOK'
  <2>1. HandshakesOK'
    BY <1>0, <1>6
       DEF Pai!BeginPlain, HandshakesOK, Handshake, Pai!Idle,
           Pai!Labels, Pai!NoPin
  <2>2. QED
    BY <1>6, <2>1, <1>a, <1>c DEF Pai!BeginPlain
<1>7. ASSUME NEW h \in Handshakes, NEW d \in PairDevices, Pai!BeginPairing(h, d)
      PROVE  CodeOK' /\ HandshakesOK' /\ StoreOK'
  <2>1. CodeOK'
    BY <1>0, <1>7, <1>a, RenewKeepsCode DEF Pai!BeginPairing, Pai!Current
  <2>2. pin' \in Pins
    BY <2>1 DEF CodeOK
  <2>3. HandshakesOK'
    <3>1. CASE UNCHANGED hs
      BY <3>1, <1>b
    <3>2. CASE hs' = [hs EXCEPT ![h] = [pc |-> "pake", dev |-> d, pin |-> pin',
                                        known |-> FALSE]]
      BY <1>0, <3>2, <2>2 DEF HandshakesOK, Handshake, Pai!Labels
    <3>3. QED
      BY <1>7, <3>1, <3>2 DEF Pai!BeginPairing
  <2>4. QED
    BY <1>7, <2>1, <2>3, <1>c DEF Pai!BeginPairing
<1>8. ASSUME NEW h \in Handshakes, Pai!PakeSucceeds(h)
      PROVE  CodeOK' /\ HandshakesOK' /\ StoreOK'
  BY <1>8, <1>a, <1>c, <1>e DEF Pai!PakeSucceeds, Pai!Labels, Pai!At
<1>9. ASSUME NEW h \in Handshakes, Pai!PakeFails(h)
      PROVE  CodeOK' /\ HandshakesOK' /\ StoreOK'
  BY <1>0, <1>9, <1>c, <1>d, FailureKeepsCode DEF Pai!PakeFails
<1>10. ASSUME NEW h \in Handshakes, Pai!Lookup(h)
       PROVE  CodeOK' /\ HandshakesOK' /\ StoreOK'
  <2>1. CASE Pai!Leave(h)
    BY <1>10, <2>1, <1>a, <1>c, <1>d DEF Pai!Lookup
  <2>2. ASSUME NEW known \in BOOLEAN, NEW label \in {"seen", "compare"},
               hs[h].pc # "idle",
               hs' = [hs EXCEPT ![h].known = known, ![h].pc = label]
        PROVE  HandshakesOK'
    <3> DEFINE r == [hs[h] EXCEPT !.known = known, !.pc = label]
    <3>1. hs \in [Handshakes -> Handshake] /\ hs[h] \in Handshake
      BY <1>0 DEF HandshakesOK
    <3>2. hs[h].dev \in PairDevices
      BY <1>0, <2>2 DEF HandshakesOK
    <3>3. r \in Handshake
      BY <3>1 DEF Handshake, Pai!Labels
    <3>4. r.dev \in PairDevices
      BY <3>1, <3>2 DEF Handshake
    <3>5. hs' = [hs EXCEPT ![h] = r]
      BY <2>2, <3>1
    <3> HIDE DEF r
    <3>6. QED
      BY <1>0, <3>1, <3>3, <3>4, <3>5 DEF HandshakesOK
  <2>3. CASE ~Pai!Leave(h)
    <3>1. hs' = [hs EXCEPT ![h].known = hs[h].dev \in records,
                           ![h].pc = IF hs[h].dev \in records /\ hs[h].pin = 0
                                     THEN "seen" ELSE "compare"]
      BY <1>10, <2>3 DEF Pai!Lookup, Pai!Known, Pai!NoPin
    <3>2. HandshakesOK'
      <4> DEFINE known == hs[h].dev \in records
      <4> DEFINE label == IF known /\ hs[h].pin = 0 THEN "seen" ELSE "compare"
      <4>1. known \in BOOLEAN /\ label \in {"seen", "compare"} /\ hs[h].pc # "idle"
        BY <1>10 DEF Pai!Lookup, Pai!At
      <4>2. hs' = [hs EXCEPT ![h].known = known, ![h].pc = label]
        BY <3>1
      <4>3. QED
        BY <2>2, <4>1, <4>2
    <3>3. QED
      BY <1>10, <3>2, <1>a, <1>c DEF Pai!Lookup
  <2>4. QED
    BY <2>1, <2>3
<1>11. ASSUME NEW h \in Handshakes, Pai!Compare(h)
       PROVE  CodeOK' /\ HandshakesOK' /\ StoreOK'
  <2>1. CodeOK' /\ StoreOK'
    BY <1>0, <1>11, <1>a, <1>c, FailureKeepsCode DEF Pai!Compare
  <2>2. HandshakesOK'
    BY <1>0, <1>11, <1>d, <1>e DEF Pai!Compare, Pai!Labels, Pai!At, CodeOK
  <2>3. QED
    BY <2>1, <2>2
<1>12. ASSUME NEW h \in Handshakes, Pai!CompareLate(h)
       PROVE  CodeOK' /\ HandshakesOK' /\ StoreOK'
  BY <1>0, <1>12, <1>b, <1>c, RenewKeepsCode DEF Pai!CompareLate
<1>13. ASSUME NEW h \in Handshakes, Pai!Upsert(h)
       PROVE  CodeOK' /\ HandshakesOK' /\ StoreOK'
  <2>1. HandshakesOK'
    BY <1>0, <1>13, <1>d, <1>e DEF Pai!Upsert, Pai!Labels, Pai!At, HandshakesOK
  <2>2. hs[h].dev \in PairDevices
    BY <1>0, <1>13 DEF Pai!Upsert, Pai!At, HandshakesOK
  <2>3. StoreOK'
    BY <1>0, <1>13, <2>2 DEF Pai!Upsert, Pai!Put, Pai!Saved, StoreOK
  <2>4. QED
    BY <1>13, <2>1, <2>3, <1>a DEF Pai!Upsert
<1>14. ASSUME NEW h \in Handshakes, Pai!Consume(h)
       PROVE  CodeOK' /\ HandshakesOK' /\ StoreOK'
  <2>1. CodeOK'
    BY <1>0, <1>14, DrawKeepsCode
       DEF Pai!Consume, Pai!At, HandshakesOK
  <2>2. HandshakesOK'
    BY <1>14, <1>e DEF Pai!Consume, Pai!At, Pai!Labels
  <2>3. QED
    BY <1>14, <2>1, <2>2, <1>c DEF Pai!Consume
<1>15. ASSUME NEW h \in Handshakes, Pai!MarkSeen(h)
       PROVE  CodeOK' /\ HandshakesOK' /\ StoreOK'
  <2>1. StoreOK'
    BY <1>0, <1>15, <1>c DEF Pai!MarkSeen, Pai!Touch, Pai!Saved, StoreOK
  <2>2. QED
    BY <1>15, <2>1, <1>a, <1>d DEF Pai!MarkSeen
<1>16. QED
  BY <1>1, <1>2, <1>3, <1>4, <1>5, <1>6, <1>7, <1>8, <1>9, <1>10, <1>11, <1>12,
     <1>13, <1>14, <1>15 DEF Pai!Next

LEMMA PaiIsInvariant == Spec => [](on = "pairing" => PaiInv)
<1>1. Init => (on = "pairing" => PaiInv)
  BY PaiInit DEF Init
<1>2. (on = "pairing" => PaiInv) /\ [Next]_vars => (on = "pairing" => PaiInv)'
  <2>1. PaiInv /\ UNCHANGED paiVars => PaiInv'
    BY DEF PaiInv, CodeOK, HandshakesOK, StoreOK, paiVars
  <2>2. QED
    BY <2>1, PaiStep, StepOfOnePart
<1>3. QED
  BY <1>1, <1>2, PTL DEF Spec

\* A PIN that has been replaced lets nobody in, though the PAKE with it has
\* succeeded: what is presented is the current PIN (transport_pairing.go).
THEOREM SpentPinTheorem == Spec => SpentPinIsRefused
<1>1. ASSUME PaiInv, Pai!Next, NEW h \in Handshakes, Pai!LetsIn(h)
      PROVE  hs[h].pin \notin spent
  <2>1. CodeOK /\ hs \in [Handshakes -> Handshake]
    BY <1>1 DEF PaiInv, HandshakesOK
  <2>2. hs[h].pc = "compare" /\ hs'[h].pc \in {"upsert", "consume"}
    BY <1>1 DEF Pai!LetsIn, Pai!At
  <2>3. ASSUME NEW g \in Handshakes, NEW r,
               hs' = [hs EXCEPT ![g] = r], r.pc \in {"upsert", "consume"} => g # h
        PROVE  FALSE
    BY <2>1, <2>2, <2>3
  <2>4. ASSUME NEW g \in Handshakes, Pai!Leave(g)
        PROVE  FALSE
    <3>1. hs' = [hs EXCEPT ![g] = Pai!Idle] /\ Pai!Idle.pc = "idle"
      BY <2>4, IdleIsHandshake DEF Pai!Leave
    <3>2. QED
      BY <2>3, <3>1, Zenon
  <2>5. hs' # hs
    BY <2>2
  <2>6. ~ Pai!ShowPin /\ ~ Pai!GrowOld /\ ~ Pai!Unlock
    BY <2>5 DEF Pai!ShowPin, Pai!GrowOld, Pai!Unlock
  <2>7. ~ Pai!Restart
    BY <2>2, IdleIsHandshake DEF Pai!Restart
  <2>8. \A d \in PairDevices : ~ Pai!Remove(d)
    BY <2>5 DEF Pai!Remove
  <2>9. \A g \in Handshakes, d \in PairDevices : ~ Pai!BeginPlain(g, d)
    BY <2>3 DEF Pai!BeginPlain, Pai!Idle
  <2>10. \A g \in Handshakes, d \in PairDevices : ~ Pai!BeginPairing(g, d)
    BY <2>3, <2>5 DEF Pai!BeginPairing
  <2>11. ASSUME NEW g \in Handshakes, NEW label, Pai!Goto(g, label),
                hs[g].pc # "compare" \/ label \notin {"upsert", "consume"}
         PROVE  FALSE
    BY <2>1, <2>2, <2>11 DEF Pai!Goto, Handshake
  <2>12. \A g \in Handshakes : ~ Pai!PakeSucceeds(g)
    BY <2>11 DEF Pai!PakeSucceeds
  <2>13. \A g \in Handshakes : ~ Pai!PakeFails(g)
    BY <2>4 DEF Pai!PakeFails
  <2>14. ASSUME NEW g \in Handshakes, Pai!Lookup(g)
         PROVE  FALSE
    <3>1. g # h
      BY <2>2, <2>14 DEF Pai!Lookup, Pai!At
    <3>2. hs'[h] = hs[h]
      BY <2>1, <2>4, <2>14, <3>1 DEF Pai!Lookup
    <3>3. QED
      BY <2>2, <3>2
  <2>15. \A g \in Handshakes : ~ Pai!CompareLate(g)
    BY <2>5 DEF Pai!CompareLate
  <2>16. \A g \in Handshakes : ~ Pai!Upsert(g)
    BY <2>4, <2>11 DEF Pai!Upsert, Pai!At
  <2>17. \A g \in Handshakes : ~ Pai!Consume(g)
    BY <2>11 DEF Pai!Consume, Pai!At
  <2>18. \A g \in Handshakes : ~ Pai!MarkSeen(g)
    BY <2>4 DEF Pai!MarkSeen
  <2>19. PICK g \in Handshakes : Pai!Compare(g)
    BY <1>1, <2>6, <2>7, <2>8, <2>9, <2>10, <2>12, <2>13, <2>14, <2>15, <2>16,
       <2>17, <2>18 DEF Pai!Next
  <2>20. hs[g].pin = pin /\ \E label : Pai!Goto(g, label)
    BY <2>4, <2>19 DEF Pai!Compare
  <2>21. g = h
    BY <2>1, <2>2, <2>20 DEF Pai!Goto
  <2>22. QED
    BY <2>1, <2>20, <2>21 DEF CodeOK
<1>2. ASSUME on = "pairing" => PaiInv, [Next]_vars
      PROVE  [on = "pairing" => \A h \in Handshakes :
                  Pai!LetsIn(h) => hs[h].pin \notin spent]_vars
  <2> SUFFICES ASSUME on = "pairing", NEW h \in Handshakes, Pai!LetsIn(h)
               PROVE  hs[h].pin \notin spent
    OBVIOUS
  <2>1. CASE Pai!Next
    BY <1>1, <1>2, <2>1
  <2>2. CASE UNCHANGED paiVars
    BY <2>2 DEF paiVars, Pai!LetsIn, Pai!At
  <2>3. QED
    BY <1>2, <2>1, <2>2, StepOfOnePart
<1>3. QED
  BY <1>2, PaiIsInvariant, PTL DEF Spec, SpentPinIsRefused

\* A device stored without an error is in the table and in the file until its
\* removal is asked for, whatever fails or crashes (trust.go).
THEOREM PairedTheorem == Spec => []PairedSurvivesRestart
<1>1. (on = "pairing" => PaiInv) => PairedSurvivesRestart
  BY DEF PaiInv, StoreOK, PairedSurvivesRestart, Pai!PairedSurvivesRestart
<1>2. QED
  BY <1>1, PaiIsInvariant, PTL

(***************************************************************************)
(* AudioLink.                                                              *)
(***************************************************************************)

Speech(f) == f.kind = "data"

\* What the receiver is told: field F of its settings, and who tells it.
Field == {"config", "mode"}

Tells(F, f) == f.kind = "transport" \/ (F = "config" /\ f.kind = "format")

\* Frame f is decoded by its own x, or two threads had its configuration in hand.
Agree(F, x, f) == x = f[F] \/ f.config \in torn

\* Queue q behind a stream set to d, which counts as frame 0: frame j is decoded
\* by what frame i has set.
Marks(F, q, i)    == i = 0 \/ Tells(F, q[i])
Under(F, q, i, j) == Marks(F, q, i) /\ \A k \in i + 1..j - 1 : ~Tells(F, q[k])
Sets(F, q, d, i)  == IF i = 0 THEN d ELSE q[i][F]

\* All that is queued will be decoded well; what comes next is decoded by c.
Sound(F, q, d) ==
    \A j \in 1..Len(q) : Speech(q[j]) =>
        \A i \in 0..j - 1 : Under(F, q, i, j) => Agree(F, Sets(F, q, d, i), q[j])

EndsIn(F, q, d, c) ==
    \A i \in 0..Len(q) : Under(F, q, i, Len(q) + 1) => Sets(F, q, d, i) = c

\* A thread that holds frames of a configuration that is not torn is alone,
\* and holds the newest.
HandsOK ==
    \A t \in Aud!Actors : \A i \in DOMAIN hand[t] :
        /\ hand[t][i].config \notin torn \/ source.config \notin torn =>
            /\ hand[t][i].config = source.config
            /\ source.mode # "" => hand[t][i].mode = source.mode
            /\ \A u \in Aud!Actors \ {t} : hand[u] = <<>>
        /\ Speech(hand[t][i]) => t = "capture" /\ Len(hand[t]) = 1 /\ source.mode # ""
        /\ hand[t][i].kind # "transport" => \A k \in DOMAIN hand[t] : k <= i

CaptureOK ==
    /\ capture # "delivering" => hand["capture"] = <<>>
    /\ session = "sourceReset" => source.mode = "" /\ capture = "off"

\* What is encoded now will be decoded well: the frames that say how are still
\* in hand, or the last of them is queued.
Announced ==
    source.mode # "" /\ source.config \notin torn =>
        \A F \in Field :
            \/ \E t \in Aud!Actors : \E i \in DOMAIN hand[t] : Tells(F, hand[t][i])
            \/ EndsIn(F, lane, sink[F], source[F])

LaneOK == (\A F \in Field : Sound(F, lane, sink[F])) /\ Announced

Setting == [mode : Aud!Modes \cup {""}, config : Aud!Configs]
Decoded == [sent : Setting, by : Setting, cut : BOOLEAN]

Fits(d) == d.sent = d.by \/ d.sent.config \in torn

DecodingOK ==
    /\ decoding \in [at : {"idle", "data", "dead"}, frame : Decoded] /\ last \in Decoded
    /\ decoding.at = "data" => Fits(decoding.frame) /\ (sink.ready \/ decoding.frame.cut)
    /\ Fits(last) \/ (last.cut /\ last.sent.mode = "opus")

AudInv ==
    /\ Aud!TypeOK /\ HandsOK /\ CaptureOK /\ DecodingOK
    /\ session = "up" => LaneOK

(* Queues. *)

LEMMA LeastElement ==
    ASSUME NEW T, T \subseteq Nat, T # {}
    PROVE  \E x \in T : \A y \in T : x <= y
<1>1. \E x \in T : \A y \in T : ~(<<y, x>> \in OpToRel(<, Nat))
  BY NatLessThanWellFounded, WFMin
<1>2. PICK x \in T : \A y \in T : ~(<<y, x>> \in OpToRel(<, Nat))
  BY <1>1
<1>3. \A y \in T : ~(y < x)
  BY <1>2 DEF OpToRel
<1>4. QED
  BY <1>3

LEMMA Removed ==
    ASSUME NEW S, NEW q \in Seq(S), NEW k \in 1..Len(q)
    PROVE  /\ Aud!RemoveAt(q, k) \in Seq(S)
           /\ Len(Aud!RemoveAt(q, k)) = Len(q) - 1
           /\ \A i \in 1..Len(q) - 1 :
                Aud!RemoveAt(q, k)[i] = IF i < k THEN q[i] ELSE q[i + 1]
<1> DEFINE a == SubSeq(q, 1, k - 1)
<1> DEFINE b == SubSeq(q, k + 1, Len(q))
<1>1. /\ a \in Seq(S) /\ Len(a) = k - 1
      /\ \A i \in 1..k - 1 : a[i] = q[i]
  BY SubSeqProperties
<1>2. /\ b \in Seq(S) /\ Len(b) = Len(q) - k
      /\ \A i \in 1..Len(q) - k : b[i] = q[k + i]
  BY SubSeqProperties
<1>3. Aud!RemoveAt(q, k) = a \o b
  BY DEF Aud!RemoveAt
<1> HIDE DEF a, b
<1>4. /\ a \o b \in Seq(S) /\ Len(a \o b) = Len(a) + Len(b)
      /\ \A i \in 1..Len(a) + Len(b) : (a \o b)[i] = IF i <= Len(a) THEN a[i] ELSE b[i - Len(a)]
  BY <1>1, <1>2, ConcatProperties
<1>5. Len(q) \in Nat /\ k \in 1..Len(q) /\ Len(a) + Len(b) = Len(q) - 1
  BY <1>1, <1>2
<1>6. ASSUME NEW i \in 1..Len(q) - 1
      PROVE  (a \o b)[i] = IF i < k THEN q[i] ELSE q[i + 1]
  <2>1. CASE i < k
    <3>1. i \in 1..k - 1 /\ i <= Len(a)
      BY <1>1, <1>5, <2>1
    <3>2. QED
      BY <1>1, <1>4, <1>5, <2>1, <3>1
  <2>2. CASE ~(i < k)
    <3>1. /\ i - (k - 1) \in 1..Len(q) - k /\ k + (i - (k - 1)) = i + 1
          /\ ~(i <= Len(a)) /\ i - Len(a) = i - (k - 1)
      BY <1>1, <1>5, <2>2
    <3>2. (a \o b)[i] = b[i - (k - 1)]
      BY <1>4, <1>5, <3>1
    <3>3. QED
      BY <1>2, <2>2, <3>1, <3>2
  <2>3. QED
    BY <2>1, <2>2
<1>7. QED
  BY <1>3, <1>4, <1>5, <1>6

\* A lane that is full makes room by a frame of speech, or drops the new one.
LEMMA Pushed ==
    ASSUME NEW S, NEW q \in Seq(S), NEW f
    PROVE  \/ Aud!Push(q, f) = Append(q, f)
           \/ Aud!Push(q, f) = q /\ Speech(f)
           \/ \E k \in 1..Len(q) :
                Speech(q[k]) /\ Aud!Push(q, f) = Append(Aud!RemoveAt(q, k), f)
<1> DEFINE data == {i \in DOMAIN q : q[i].kind = "data"}
<1> DEFINE k == CHOOSE i \in data : \A j \in data : i <= j
<1>1. CASE data = {}
  BY <1>1 DEF Aud!Push, Speech
<1>2. CASE data # {}
  <2>1. data \subseteq Nat
    OBVIOUS
  <2>2. \E i \in data : \A j \in data : i <= j
    BY <1>2, <2>1, LeastElement
  <2>3. k \in data
    BY <2>2
  <2>4. \/ Aud!Push(q, f) = Append(q, f)
        \/ Aud!Push(q, f) = Append(Aud!RemoveAt(q, k), f)
    BY <1>2 DEF Aud!Push
  <2> HIDE DEF k
  <2>5. QED
    BY <2>3, <2>4 DEF Speech
<1>3. QED
  BY <1>1, <1>2

LEMMA RemoveSpeech ==
    ASSUME NEW S, NEW F, NEW q \in Seq(S), NEW k \in 1..Len(q), Speech(q[k]), NEW d
    PROVE  LET r == Aud!RemoveAt(q, k)
           IN  /\ Sound(F, q, d) => Sound(F, r, d)
               /\ \A c : EndsIn(F, q, d, c) => EndsIn(F, r, d, c)
<1> DEFINE r == Aud!RemoveAt(q, k)
<1> DEFINE g(i) == IF i < k THEN i ELSE i + 1
<1>1. /\ Len(q) \in Nat /\ r \in Seq(S) /\ Len(r) = Len(q) - 1
      /\ \A i \in 1..Len(q) - 1 : r[i] = q[g(i)]
  BY SMTT(40), Removed
<1> HIDE DEF r
<1>2. ASSUME NEW j \in 1..Len(q), NEW i \in 0..j - 1, Under(F, r, i, j)
      PROVE  /\ Under(F, q, g(i), g(j)) /\ Sets(F, q, d, g(i)) = Sets(F, r, d, i)
             /\ g(i) \in 0..g(j) - 1
  <2>1. i \in 0..Len(q) - 1 /\ (i = 0 <=> g(i) = 0)
    BY <1>1
  <2>2. Marks(F, q, g(i)) /\ Sets(F, q, d, g(i)) = Sets(F, r, d, i)
    <3>1. CASE i = 0
      BY <2>1, <3>1 DEF Marks, Sets
    <3>2. CASE i # 0
      <4>1. r[i] = q[g(i)] /\ g(i) # 0
        BY <1>1, <2>1, <3>2
      <4>2. Tells(F, r[i])
        BY <1>2, <3>2 DEF Under, Marks
      <4> HIDE DEF g
      <4>3. QED
        BY <3>2, <4>1, <4>2 DEF Marks, Sets
    <3>3. QED
      BY <3>1, <3>2
  <2>3. ASSUME NEW m \in g(i) + 1..g(j) - 1
        PROVE  ~Tells(F, q[m])
    <3>1. CASE m = k
      BY <3>1 DEF Tells, Speech
    <3>2. CASE m < k
      <4>1. m \in i + 1..j - 1 /\ m \in 1..Len(q) - 1 /\ g(m) = m
        BY <1>1, <2>3, <3>2
      <4>2. ~Tells(F, r[m]) /\ r[m] = q[m]
        BY <1>1, <1>2, <4>1 DEF Under
      <4>3. QED
        BY <4>2
    <3>3. CASE m > k
      <4>1. m - 1 \in i + 1..j - 1 /\ m - 1 \in 1..Len(q) - 1 /\ g(m - 1) = m
        BY <1>1, <2>3, <3>3
      <4>2. ~Tells(F, r[m - 1]) /\ r[m - 1] = q[m]
        BY <1>1, <1>2, <4>1 DEF Under
      <4>3. QED
        BY <4>2
    <3>4. QED
      BY <1>1, <2>3, <3>1, <3>2, <3>3
  <2>4. g(i) \in 0..g(j) - 1
    BY <1>1
  <2>5. QED
    BY <2>2, <2>3, <2>4 DEF Under
<1>3. ASSUME Sound(F, q, d) PROVE Sound(F, r, d)
  <2> SUFFICES ASSUME NEW j \in 1..Len(r), Speech(r[j]), NEW i \in 0..j - 1, Under(F, r, i, j)
               PROVE  Agree(F, Sets(F, r, d, i), r[j])
    BY DEF Sound
  <2>1. j \in 1..Len(q) /\ g(j) \in 1..Len(q) /\ r[j] = q[g(j)]
    BY <1>1
  <2>2. Under(F, q, g(i), g(j)) /\ Sets(F, q, d, g(i)) = Sets(F, r, d, i) /\ g(i) \in 0..g(j) - 1
    BY <1>2, <2>1
  <2> HIDE DEF g
  <2>3. QED
    BY <1>3, <2>1, <2>2 DEF Sound
<1>4. ASSUME NEW c, EndsIn(F, q, d, c) PROVE EndsIn(F, r, d, c)
  <2> SUFFICES ASSUME NEW i \in 0..Len(r), Under(F, r, i, Len(r) + 1)
               PROVE  Sets(F, r, d, i) = c
    BY DEF EndsIn
  <2>1. Len(q) \in 1..Len(q) /\ i \in 0..Len(q) - 1 /\ g(Len(q)) = Len(q) + 1
        /\ Len(r) + 1 = Len(q)
    BY <1>1
  <2>2. /\ Under(F, q, g(i), Len(q) + 1) /\ Sets(F, q, d, g(i)) = Sets(F, r, d, i)
        /\ g(i) \in 0..Len(q)
    BY <1>1, <1>2, <2>1
  <2>3. QED
    BY <1>4, <2>2 DEF EndsIn
<1>5. QED
  BY <1>3, <1>4 DEF r

LEMMA AppendFrame ==
    ASSUME NEW S, NEW F, NEW q \in Seq(S), NEW f \in S, NEW d
    PROVE  LET r == Append(q, f)
           IN  /\ Tells(F, f) => EndsIn(F, r, d, f[F])
               /\ ~Tells(F, f) => \A c : EndsIn(F, q, d, c) => EndsIn(F, r, d, c)
               /\ (Speech(f) => f.config \in torn \/ EndsIn(F, q, d, f[F])) =>
                    (Sound(F, q, d) => Sound(F, r, d))
<1> DEFINE r == Append(q, f)
<1>1. /\ Len(q) \in Nat /\ Len(r) = Len(q) + 1 /\ r[Len(q) + 1] = f
      /\ \A i \in 1..Len(q) : r[i] = q[i]
  OBVIOUS
<1> HIDE DEF r
<1>2. ASSUME NEW i \in 0..Len(q), NEW j \in 1..Len(q) + 1, i < j
      PROVE  /\ Under(F, r, i, j) <=> Under(F, q, i, j)
             /\ Sets(F, r, d, i) = Sets(F, q, d, i)
  BY <1>1, <1>2 DEF Under, Marks, Sets
<1>3. ASSUME Sound(F, q, d), Speech(f) => f.config \in torn \/ EndsIn(F, q, d, f[F])
      PROVE  Sound(F, r, d)
  <2> SUFFICES ASSUME NEW j \in 1..Len(r), Speech(r[j]), NEW i \in 0..j - 1, Under(F, r, i, j)
               PROVE  Agree(F, Sets(F, r, d, i), r[j])
    BY DEF Sound
  <2>1. /\ i \in 0..Len(q) /\ j \in 1..Len(q) + 1 /\ i < j
        /\ Under(F, q, i, j) /\ Sets(F, r, d, i) = Sets(F, q, d, i)
    BY <1>1, <1>2
  <2>2. CASE j \in 1..Len(q)
    BY <1>1, <1>3, <2>1, <2>2 DEF Sound
  <2>3. CASE j = Len(q) + 1
    BY <1>1, <1>3, <2>1, <2>3 DEF EndsIn, Agree
  <2>4. QED
    BY <2>1, <2>2, <2>3
<1>4. ASSUME Tells(F, f) PROVE EndsIn(F, r, d, f[F])
  <2> SUFFICES ASSUME NEW i \in 0..Len(r), Under(F, r, i, Len(r) + 1)
               PROVE  Sets(F, r, d, i) = f[F]
    BY DEF EndsIn
  <2>1. i = Len(q) + 1
    BY <1>1, <1>4 DEF Under
  <2>2. QED
    BY <1>1, <2>1 DEF Sets
<1>5. ASSUME ~Tells(F, f), NEW c, EndsIn(F, q, d, c) PROVE EndsIn(F, r, d, c)
  <2> SUFFICES ASSUME NEW i \in 0..Len(r), Under(F, r, i, Len(r) + 1)
               PROVE  Sets(F, r, d, i) = c
    BY DEF EndsIn
  <2>1. i \in 0..Len(q)
    BY <1>1, <1>5 DEF Under, Marks
  <2>2. Under(F, r, i, Len(q) + 1)
    BY <1>1, <2>1 DEF Under
  <2>3. Under(F, q, i, Len(q) + 1) /\ Sets(F, r, d, i) = Sets(F, q, d, i)
    BY <1>1, <1>2, <2>1, <2>2
  <2>4. QED
    BY <1>5, <2>1, <2>3 DEF EndsIn
<1>6. QED
  BY <1>3, <1>4, <1>5 DEF r

LEMMA TailFrame ==
    ASSUME NEW S, NEW F, NEW q \in Seq(S), q # <<>>, NEW d
    PROVE  LET e == IF Tells(F, Head(q)) THEN Head(q)[F] ELSE d
           IN  /\ Sound(F, q, d) => Sound(F, Tail(q), e)
               /\ \A c : EndsIn(F, q, d, c) => EndsIn(F, Tail(q), e, c)
               /\ Sound(F, q, d) /\ Speech(Head(q)) => Agree(F, d, Head(q))
<1> DEFINE r == Tail(q)
<1> DEFINE e == IF Tells(F, Head(q)) THEN Head(q)[F] ELSE d
<1>1. /\ Len(q) \in Nat /\ Len(q) # 0 /\ Len(r) = Len(q) - 1 /\ Head(q) = q[1]
      /\ \A i \in 1..Len(q) - 1 : r[i] = q[i + 1]
  BY HeadTailProperties
<1> HIDE DEF r
<1>2. ASSUME NEW j \in 1..Len(q), NEW i \in 0..j - 1, Under(F, r, i, j)
      PROVE  \E h \in 0..j : Under(F, q, h, j + 1) /\ Sets(F, q, d, h) = Sets(F, r, e, i)
  <2>1. \A m \in i + 2..j : ~Tells(F, q[m])
    <3>1. ASSUME NEW m \in i + 2..j PROVE ~Tells(F, q[m])
      <4>1. m - 1 \in i + 1..j - 1 /\ m - 1 \in 1..Len(q) - 1 /\ (m - 1) + 1 = m
        BY <1>1
      <4>2. ~Tells(F, r[m - 1]) /\ r[m - 1] = q[m]
        BY <1>1, <1>2, <4>1 DEF Under
      <4>3. QED
        BY <4>2
    <3>2. QED
      BY <3>1
  <2>2. CASE i # 0
    <3>1. i \in 1..Len(q) - 1 /\ i + 1 \in 0..j /\ i + 1 # 0 /\ r[i] = q[i + 1]
      BY <1>1, <2>2
    <3>2. Under(F, q, i + 1, j + 1) /\ Sets(F, q, d, i + 1) = Sets(F, r, e, i)
      BY <1>1, <1>2, <2>1, <2>2, <3>1 DEF Under, Marks, Sets
    <3>3. QED
      BY <3>1, <3>2
  <2>3. CASE i = 0 /\ Tells(F, Head(q))
    <3>1. Under(F, q, 1, j + 1) /\ Sets(F, q, d, 1) = Sets(F, r, e, i) /\ 1 \in 0..j
      BY <1>1, <2>1, <2>3 DEF Under, Marks, Sets
    <3>2. QED
      BY <3>1
  <2>4. CASE i = 0 /\ ~Tells(F, Head(q))
    <3>1. \A m \in 1..j : ~Tells(F, q[m])
      BY <1>1, <2>1, <2>4
    <3>2. Under(F, q, 0, j + 1) /\ Sets(F, q, d, 0) = Sets(F, r, e, i) /\ 0 \in 0..j
      BY <1>1, <2>4, <3>1 DEF Under, Marks, Sets
    <3>3. QED
      BY <3>2
  <2>5. QED
    BY <2>2, <2>3, <2>4
<1>3. ASSUME Sound(F, q, d) PROVE Sound(F, r, e)
  <2> SUFFICES ASSUME NEW j \in 1..Len(r), Speech(r[j]), NEW i \in 0..j - 1, Under(F, r, i, j)
               PROVE  Agree(F, Sets(F, r, e, i), r[j])
    BY DEF Sound
  <2>1. j \in 1..Len(q) /\ j + 1 \in 1..Len(q) /\ r[j] = q[j + 1] /\ (j + 1) - 1 = j
    BY <1>1
  <2>2. PICK h \in 0..j : Under(F, q, h, j + 1) /\ Sets(F, q, d, h) = Sets(F, r, e, i)
    BY <1>2, <2>1
  <2> HIDE DEF e
  <2>3. QED
    BY <1>3, <2>1, <2>2 DEF Sound
<1>4. ASSUME NEW c, EndsIn(F, q, d, c) PROVE EndsIn(F, r, e, c)
  <2> SUFFICES ASSUME NEW i \in 0..Len(r), Under(F, r, i, Len(r) + 1)
               PROVE  Sets(F, r, e, i) = c
    BY DEF EndsIn
  <2>1. Len(q) \in 1..Len(q) /\ i \in 0..Len(q) - 1 /\ Len(r) + 1 = Len(q)
    BY <1>1
  <2>2. PICK h \in 0..Len(q) : Under(F, q, h, Len(q) + 1) /\ Sets(F, q, d, h) = Sets(F, r, e, i)
    BY <1>2, <2>1
  <2> HIDE DEF e
  <2>3. QED
    BY <1>4, <2>2 DEF EndsIn
<1>5. ASSUME Sound(F, q, d), Speech(Head(q)) PROVE Agree(F, d, Head(q))
  <2>1. Under(F, q, 0, 1) /\ Sets(F, q, d, 0) = d /\ 1 \in 1..Len(q) /\ 0 \in 0..1 - 1
    BY <1>1 DEF Under, Marks, Sets
  <2>2. QED
    BY <1>1, <1>5, <2>1 DEF Sound
<1>6. QED
  BY <1>3, <1>4, <1>5 DEF r

\* A stream without a transport frame decodes nothing well, so it may be taken
\* for any.
LEMMA FromNothing ==
    ASSUME NEW q \in Seq(Aud!Wire), NEW d
    PROVE  /\ Sound("mode", q, "") => Sound("mode", q, d)
           /\ \A c : c # "" /\ EndsIn("mode", q, "", c) => EndsIn("mode", q, d, c)
<1>1. \A i \in 1..Len(q) : q[i]["mode"] # ""
  <2>1. \A f \in Aud!Wire : f.mode # ""
    BY DEF Aud!Wire, Aud!Modes
  <2>2. \A i \in 1..Len(q) : q[i] \in Aud!Wire
    OBVIOUS
  <2>3. QED
    BY <2>1, <2>2
<1>2. ASSUME Sound("mode", q, "") PROVE Sound("mode", q, d)
  <2> SUFFICES ASSUME NEW j \in 1..Len(q), Speech(q[j]), NEW i \in 0..j - 1,
                      Under("mode", q, i, j)
               PROVE  Agree("mode", Sets("mode", q, d, i), q[j])
    BY DEF Sound
  <2>1. Agree("mode", Sets("mode", q, "", i), q[j])
    BY <1>2 DEF Sound
  <2>2. QED
    BY <1>1, <2>1 DEF Agree, Sets
<1>3. ASSUME NEW c, c # "", EndsIn("mode", q, "", c) PROVE EndsIn("mode", q, d, c)
  <2> SUFFICES ASSUME NEW i \in 0..Len(q), Under("mode", q, i, Len(q) + 1)
               PROVE  Sets("mode", q, d, i) = c
    BY DEF EndsIn
  <2>1. Sets("mode", q, "", i) = c
    BY <1>3 DEF EndsIn
  <2>2. QED
    BY <1>3, <2>1 DEF Sets
<1>4. QED
  BY <1>2, <1>3

(* The sender. *)

LEMMA AudInit == Aud!Init => AudInv
<1> SUFFICES ASSUME Aud!Init PROVE AudInv
  OBVIOUS
<1>1. 0 \in Aud!Configs
  BY AudioAssumption DEF Aud!Configs
<1>2. <<>> \in Seq(Aud!Wire)
  OBVIOUS
<1>3. Aud!TypeOK
  BY <1>1, <1>2 DEF Aud!Init, Aud!TypeOK, Aud!Unset, Aud!Silent, Aud!Idle
<1>4. HandsOK /\ CaptureOK
  <2>1. "capture" \in Aud!Actors /\ \A t \in Aud!Actors : hand[t] = <<>> /\ DOMAIN hand[t] = {}
    BY DEF Aud!Init, Aud!Actors
  <2>2. HandsOK
    BY <2>1 DEF HandsOK
  <2>3. CaptureOK
    BY <2>1 DEF Aud!Init, CaptureOK
  <2>4. QED
    BY <2>2, <2>3
<1>5. DecodingOK
  BY <1>1 DEF Aud!Init, DecodingOK, Aud!Idle, Aud!Nothing, Aud!Unset, Decoded, Setting, Fits
<1>6. LaneOK
  <2>1. Len(lane) = 0 /\ 1..Len(lane) = {}
    BY DEF Aud!Init
  <2>2. \A F \in Field : Sound(F, lane, sink[F])
    BY <2>1 DEF Sound
  <2>3. source.mode = ""
    BY DEF Aud!Init, Aud!Unset
  <2>4. QED
    BY <2>2, <2>3 DEF LaneOK, Announced
<1>7. QED
  BY <1>3, <1>4, <1>5, <1>6 DEF AudInv

LEMMA Frames ==
    ASSUME NEW S, NEW q \in Seq(S)
    PROVE  /\ \A i \in DOMAIN q : q[i] \in S
           /\ q # <<>> => 1 \in DOMAIN q
           /\ q = <<>> => DOMAIN q = {}
  OBVIOUS

LEMMA HeldFrames ==
    \A x : x \in Aud!Held <=>
            \E t \in Aud!Actors : \E i \in DOMAIN hand[t] : x = hand[t][i].config
<1> DEFINE configs(t) == {hand[t][i].config : i \in DOMAIN hand[t]}
<1>1. \A t, x : x \in configs(t) <=> \E i \in DOMAIN hand[t] : x = hand[t][i].config
  OBVIOUS
<1>2. Aud!Held = UNION {configs(t) : t \in Aud!Actors}
  BY DEF Aud!Held
<1> HIDE DEF configs
<1>3. \A x : x \in Aud!Held <=> \E t \in Aud!Actors : x \in configs(t)
  BY <1>2
<1>4. QED
  BY <1>1, <1>3

\* Whoever takes frames while others hold some tears all of them.
LEMMA Taken ==
    ASSUME Aud!TypeOK, HandsOK, NEW t \in Aud!Actors,
           NEW taken \in Seq(Aud!Wire), NEW c \in Aud!Configs, Aud!Takes(t, taken, c),
           \A i \in DOMAIN taken :
                /\ taken[i].config = c /\ taken[i].mode = source'.mode
                /\ Speech(taken[i]) => t = "capture" /\ Len(taken) = 1
                /\ taken[i].kind # "transport" => \A k \in DOMAIN taken : k <= i,
           c = source'.config, source'.mode # ""
    PROVE  /\ hand' \in [Aud!Actors -> Seq(Aud!Wire)]
           /\ torn \subseteq torn' /\ torn' \subseteq Aud!Configs
           /\ HandsOK'
<1>1. /\ hand[t] = <<>> /\ hand' = [hand EXCEPT ![t] = taken]
      /\ torn' = IF Aud!Held = {} THEN torn ELSE torn \cup Aud!Held \cup {c}
  BY DEF Aud!Takes
<1>2. /\ hand \in [Aud!Actors -> Seq(Aud!Wire)] /\ torn \subseteq Aud!Configs
      /\ hand'[t] = taken /\ \A u \in Aud!Actors \ {t} : hand'[u] = hand[u]
  BY <1>1 DEF Aud!TypeOK
<1>3. \A u \in Aud!Actors : \A i \in DOMAIN hand[u] :
        hand[u][i].config \in Aud!Held /\ hand[u][i] \in Aud!Wire
  <2>1. ASSUME NEW u \in Aud!Actors, NEW i \in DOMAIN hand[u]
        PROVE  hand[u][i].config \in Aud!Held
    BY HeldFrames
  <2>2. ASSUME NEW u \in Aud!Actors, NEW i \in DOMAIN hand[u]
        PROVE  hand[u][i] \in Aud!Wire
    <3>1. hand[u] \in Seq(Aud!Wire)
      BY <1>2
    <3>2. QED
      BY <3>1, Frames
  <2>3. QED
    BY <2>1, <2>2
<1>4. Aud!Held \subseteq Aud!Configs
  <2>1. \A f \in Aud!Wire : f.config \in Aud!Configs
    BY DEF Aud!Wire
  <2>2. ASSUME NEW x \in Aud!Held PROVE x \in Aud!Configs
    <3>1. PICK u \in Aud!Actors : \E i \in DOMAIN hand[u] : x = hand[u][i].config
      BY ZenonT(90), HeldFrames
    <3>2. PICK i \in DOMAIN hand[u] : x = hand[u][i].config
      BY <3>1
    <3>3. hand[u][i] \in Aud!Wire
      BY <1>3
    <3>4. QED
      BY <2>1, <3>2, <3>3
  <2>3. QED
    BY <2>2
<1>5. \A u \in Aud!Actors : Aud!Held = {} => hand[u] = <<>>
  <2>1. ASSUME NEW u \in Aud!Actors, hand[u] # <<>>
        PROVE  1 \in DOMAIN hand[u]
    <3>1. hand[u] \in Seq(Aud!Wire)
      BY <1>2
    <3>2. QED
      BY <2>1, <3>1, Frames
  <2>2. QED
    BY <1>3, <2>1
<1>6. hand' \in [Aud!Actors -> Seq(Aud!Wire)]
  BY <1>1, <1>2
<1>7. torn \subseteq torn' /\ torn' \subseteq Aud!Configs
  BY <1>1, <1>2, <1>4
<1>8. ASSUME NEW u \in Aud!Actors, NEW i \in DOMAIN hand'[u]
      PROVE  /\ Speech(hand'[u][i]) => u = "capture" /\ Len(hand'[u]) = 1
             /\ hand'[u][i].kind # "transport" => \A k \in DOMAIN hand'[u] : k <= i
  BY <1>2, <1>8 DEF HandsOK
<1>9. ASSUME NEW u \in Aud!Actors, NEW i \in DOMAIN hand'[u],
             hand'[u][i].config \notin torn' \/ source'.config \notin torn'
      PROVE  /\ hand'[u][i].config = source'.config
             /\ hand'[u][i].mode = source'.mode
             /\ \A v \in Aud!Actors \ {u} : hand'[v] = <<>>
  <2>1. hand'[u][i].config \in Aud!Held \cup {c}
    BY <1>2, <1>3, <1>9
  <2>2. Aud!Held = {}
    <3>1. source'.config = c
      OBVIOUS
    <3>2. ASSUME Aud!Held # {} PROVE FALSE
      <4>1. Aud!Held \subseteq torn' /\ c \in torn'
        BY <1>1, <3>2
      <4>2. QED
        BY <1>9, <2>1, <3>1, <4>1
    <3>3. QED
      BY <3>2
  <2>3. u = t
    <3>1. ASSUME u # t PROVE FALSE
      <4>1. hand'[u] = hand[u] /\ hand[u] = <<>> /\ hand[u] \in Seq(Aud!Wire)
        BY <1>2, <1>5, <2>2, <3>1
      <4>2. QED
        BY <4>1, Frames
    <3>2. QED
      BY <3>1
  <2>4. QED
    BY <1>2, <1>5, <1>9, <2>2, <2>3
<1>10. QED
  BY <1>6, <1>7, <1>8, <1>9 DEF HandsOK

LEMMA Configured ==
    ASSUME Aud!TypeOK, HandsOK, NEW t \in Aud!Actors, NEW wanted \in Aud!Modes,
           Aud!Configures(t, wanted)
    PROVE  /\ source' \in [mode : Aud!Modes, config : Aud!Configs]
           /\ hand' \in [Aud!Actors -> Seq(Aud!Wire)]
           /\ torn \subseteq torn' /\ torn' \subseteq Aud!Configs
           /\ HandsOK'
           /\ \E i \in DOMAIN hand'[t] : hand'[t][i].kind = "transport"
           /\ \A u \in Aud!Actors \ {t} : hand'[u] = hand[u]
<1>1. PICK m \in {wanted, "pcm"} :
        LET c == source.config + 1
        IN  /\ source' = [mode |-> m, config |-> c]
            /\ Aud!Takes(t, <<[kind |-> "transport", mode |-> m, config |-> c],
                              [kind |-> "format", mode |-> m, config |-> c]>>, c)
  BY DEF Aud!Configures
<1> DEFINE c == source.config + 1
<1> DEFINE x == [kind |-> "transport", mode |-> m, config |-> c]
<1> DEFINE y == [kind |-> "format", mode |-> m, config |-> c]
<1>2. c \in Aud!Configs
  <2>1. MaxConfigs \in Nat /\ source.config \in 0..MaxConfigs /\ source.config < MaxConfigs
    BY AudioAssumption DEF Aud!Configures, Aud!TypeOK, Aud!Configs
  <2>2. QED
    BY <2>1 DEF Aud!Configs
<1>3. source' = [mode |-> m, config |-> c] /\ Aud!Takes(t, <<x, y>>, c)
  BY <1>1
<1>4. m \in Aud!Modes /\ m # ""
  BY DEF Aud!Modes
<1> HIDE DEF c
<1>5. x \in Aud!Wire /\ y \in Aud!Wire
  BY <1>2, <1>4 DEF Aud!Wire
<1>6. /\ x.config = c /\ y.config = c /\ x.mode = m /\ y.mode = m
      /\ x.kind = "transport" /\ ~Speech(x) /\ ~Speech(y)
      /\ source'.config = c /\ source'.mode = m /\ source'.mode # ""
      /\ source' \in [mode : Aud!Modes, config : Aud!Configs]
  BY <1>2, <1>3, <1>4 DEF Speech
<1> HIDE DEF x, y
<1>7. /\ <<x, y>> \in Seq(Aud!Wire) /\ DOMAIN <<x, y>> = 1..2 /\ Len(<<x, y>>) = 2
      /\ \A i \in 1..2 :
            /\ <<x, y>>[i].config = c /\ <<x, y>>[i].mode = m /\ ~Speech(<<x, y>>[i])
            /\ <<x, y>>[i].kind # "transport" => \A k \in 1..2 : k <= i
  <2>1. /\ <<x, y>>[1] = x /\ <<x, y>>[2] = y
        /\ \A i \in 1..2 : i = 1 \/ (i = 2 /\ \A k \in 1..2 : k <= i)
    OBVIOUS
  <2>2. <<x, y>> \in Seq(Aud!Wire) /\ DOMAIN <<x, y>> = 1..2 /\ Len(<<x, y>>) = 2
    BY <1>5
  <2>3. QED
    BY <1>6, <2>1, <2>2
<1>8. /\ hand' \in [Aud!Actors -> Seq(Aud!Wire)]
      /\ torn \subseteq torn' /\ torn' \subseteq Aud!Configs /\ HandsOK'
  BY ZenonT(90), <1>2, <1>3, <1>6, <1>7, Taken
<1>9. hand' = [hand EXCEPT ![t] = <<x, y>>]
  BY <1>3 DEF Aud!Takes
<1>10. hand'[t] = <<x, y>> /\ \A u \in Aud!Actors \ {t} : hand'[u] = hand[u]
  BY <1>9 DEF Aud!TypeOK
<1>11. \E i \in DOMAIN hand'[t] : hand'[t][i].kind = "transport"
  <2>1. 1 \in DOMAIN <<x, y>> /\ <<x, y>>[1] = x
    OBVIOUS
  <2>2. QED
    BY <1>6, <1>10, <2>1
<1>12. QED
  BY <1>6, <1>8, <1>10, <1>11

\* More may be torn, while the queue stays as it is.
LEMMA MoreTorn ==
    ASSUME torn \subseteq torn', lane' = lane, sink' = sink, NEW F
    PROVE  /\ Sound(F, lane, sink[F]) => Sound(F, lane, sink[F])'
           /\ \A c : EndsIn(F, lane, sink[F], c) => EndsIn(F, lane, sink[F], c)'
  BY DEF Sound, EndsIn, Agree, Under, Marks, Sets

LEMMA SameTorn ==
    ASSUME torn' = torn, NEW F
    PROVE  /\ Sound(F, lane', sink'[F]) => Sound(F, lane, sink[F])'
           /\ EndsIn(F, lane', sink'[F], source'[F]) => EndsIn(F, lane, sink[F], source[F])'
  BY DEF Sound, EndsIn, Agree, Under, Marks, Sets

LEMMA SinkType ==
    ASSUME NEW m \in Aud!Modes \cup {""}, NEW c \in Aud!Configs, NEW r \in BOOLEAN
    PROVE  [mode |-> m, config |-> c, ready |-> r]
                \in [mode : Aud!Modes \cup {""}, config : Aud!Configs, ready : BOOLEAN]
  OBVIOUS

LEMMA SingleFrame ==
    ASSUME NEW S, NEW q \in Seq(S), Len(q) = 1
    PROVE  Tail(q) = <<>> /\ DOMAIN q = {1}
<1>1. q # <<>> /\ DOMAIN q = 1..1
  OBVIOUS
<1>2. Tail(q) \in Seq(S) /\ Len(Tail(q)) = 0
  BY <1>1, HeadTailProperties
<1>3. \A r \in Seq(S) : Len(r) = 0 => r = <<>>
  BY EmptySeq
<1>4. Tail(q) = <<>>
  BY <1>2, <1>3
<1>5. DOMAIN q = {1}
  BY <1>1
<1>6. QED
  BY <1>4, <1>5

LEMMA SenderStep ==
    ASSUME AudInv,
           \/ Aud!StartCapture \/ Aud!OnCaptureData \/ Aud!DeviceReopens \/ Aud!StopCapture
           \/ \E t \in Threads : Aud!Reannounce(t)
           \/ \E wanted \in Aud!Modes :
                Aud!OnCaptureFormat(wanted) \/ \E t \in Threads : Aud!Reconfigure(t, wanted)
    PROVE  AudInv'
<1>1. /\ UNCHANGED <<lane, sink, decoding, session, last>>
      /\ Aud!TypeOK /\ HandsOK /\ CaptureOK /\ DecodingOK
      /\ session = "up" => LaneOK
  BY DEF AudInv, Aud!StartCapture, Aud!OnCaptureData, Aud!DeviceReopens, Aud!StopCapture,
     Aud!Reannounce, Aud!OnCaptureFormat, Aud!Reconfigure
<1>2. CASE Aud!StartCapture \/ Aud!DeviceReopens \/ Aud!StopCapture
  <2>1. UNCHANGED <<source, hand, torn>>
    BY <1>2 DEF Aud!StartCapture, Aud!DeviceReopens, Aud!StopCapture
  <2>2. capture' \in {"off", "opening", "delivering"} /\ CaptureOK'
    BY <1>1, <1>2 DEF Aud!StartCapture, Aud!DeviceReopens, Aud!StopCapture, CaptureOK
  <2>3. Aud!TypeOK'
    BY <1>1, <2>1, <2>2 DEF Aud!TypeOK
  <2>4. HandsOK' /\ DecodingOK'
    BY ZenonT(90), <1>1, <2>1 DEF HandsOK, DecodingOK, Fits
  <2>5. (session = "up" => LaneOK)'
    BY <1>1, <2>1 DEF LaneOK, Announced, Sound, EndsIn, Agree, Under, Marks, Sets
  <2>6. QED
    BY <2>2, <2>3, <2>4, <2>5 DEF AudInv
\* What is left to show when frames are taken.
<1>3. ASSUME HandsOK', CaptureOK', hand' \in [Aud!Actors -> Seq(Aud!Wire)],
             source' \in [mode : Aud!Modes \cup {""}, config : Aud!Configs],
             capture' \in {"off", "opening", "delivering"},
             torn \subseteq torn', torn' \subseteq Aud!Configs,
             session = "up" => Announced'
      PROVE  AudInv'
  <2>1. Aud!TypeOK'
    BY <1>1, <1>3 DEF Aud!TypeOK
  <2>2. DecodingOK'
    BY <1>1, <1>3 DEF DecodingOK, Fits
  <2>3. (session = "up" => LaneOK)'
    BY <1>1, <1>3, MoreTorn DEF LaneOK
  <2>4. QED
    BY <1>3, <2>1, <2>2, <2>3 DEF AudInv
<1>4. ASSUME NEW t \in Aud!Actors, NEW wanted \in Aud!Modes, Aud!Configures(t, wanted),
             capture' \in {"off", "opening", "delivering"}, CaptureOK'
      PROVE  AudInv'
  <2>1. /\ source' \in [mode : Aud!Modes, config : Aud!Configs]
        /\ hand' \in [Aud!Actors -> Seq(Aud!Wire)]
        /\ torn \subseteq torn' /\ torn' \subseteq Aud!Configs /\ HandsOK'
        /\ \E i \in DOMAIN hand'[t] : hand'[t][i].kind = "transport"
    BY <1>1, <1>4, Configured
  <2>2. Announced'
    BY <2>1 DEF Announced, Tells, Aud!Actors
  <2>3. QED
    BY <1>3, <1>4, <2>1, <2>2
<1>5. ASSUME NEW t \in Threads, NEW wanted \in Aud!Modes, Aud!Configures(t, wanted),
             capture' = capture, source.mode # ""
      PROVE  AudInv'
  <2>1. t \in Aud!Actors /\ t # "capture" /\ "capture" \in Aud!Actors
    BY AudioAssumption DEF Aud!Actors
  <2>2. hand'["capture"] = hand["capture"]
    BY <1>1, <1>5, <2>1, Configured
  <2>3. CaptureOK'
    BY <1>1, <1>5, <2>2 DEF CaptureOK
  <2>4. QED
    BY <1>1, <1>4, <1>5, <2>1, <2>3 DEF Aud!TypeOK
<1>6. CASE Aud!OnCaptureData
  <2> DEFINE c == source.config
  <2> DEFINE f == [kind |-> "data", mode |-> source.mode, config |-> c]
  <2>1. /\ capture = "delivering" /\ source.mode # "" /\ source' = source /\ capture' = capture
        /\ Aud!Takes("capture", <<f>>, c)
    BY <1>6 DEF Aud!OnCaptureData
  <2>2. /\ source.mode \in Aud!Modes /\ c \in Aud!Configs /\ "capture" \in Aud!Actors
        /\ source' \in [mode : Aud!Modes \cup {""}, config : Aud!Configs]
    BY <1>1, <2>1 DEF Aud!TypeOK, Aud!Actors
  <2>3. f \in Aud!Wire /\ f.config = c /\ f.mode = source.mode /\ Speech(f)
    BY <2>2 DEF Aud!Wire, Speech
  <2> HIDE DEF f
  <2>4. /\ <<f>> \in Seq(Aud!Wire) /\ Len(<<f>>) = 1 /\ DOMAIN <<f>> = 1..1
        /\ \A i \in 1..1 :
                /\ <<f>>[i] = f /\ \A k \in 1..1 : k <= i
                /\ <<f>>[i].config = c /\ <<f>>[i].mode = source.mode
    BY <2>3
  <2>5. /\ hand' \in [Aud!Actors -> Seq(Aud!Wire)]
        /\ torn \subseteq torn' /\ torn' \subseteq Aud!Configs /\ HandsOK'
    BY <1>1, <2>1, <2>2, <2>3, <2>4, Taken
  <2>6. CaptureOK'
    BY <1>1, <2>1 DEF CaptureOK
  <2>7. session = "up" => Announced'
    <3> SUFFICES ASSUME session = "up", c \notin torn', NEW F \in Field
                 PROVE  EndsIn(F, lane, sink[F], source[F])'
      BY <2>1 DEF Announced
    <3>1. /\ torn' = IF Aud!Held = {} THEN torn ELSE torn \cup Aud!Held \cup {c}
      BY <2>1 DEF Aud!Takes
    <3>2. Aud!Held = {} /\ c \notin torn
      BY <3>1
    <3>3. ASSUME NEW t \in Aud!Actors, NEW i \in DOMAIN hand[t]
          PROVE  FALSE
      BY <3>2, <3>3, HeldFrames
    <3>4. EndsIn(F, lane, sink[F], source[F])
      BY <1>1, <2>1, <3>2, <3>3 DEF LaneOK, Announced
    <3>5. QED
      BY <1>1, <2>1, <2>5, <3>4, MoreTorn
  <2>8. capture' \in {"off", "opening", "delivering"}
    BY <2>1
  <2>9. QED
    BY <1>3, <2>2, <2>5, <2>6, <2>7, <2>8
<1>7. ASSUME NEW wanted \in Aud!Modes, Aud!OnCaptureFormat(wanted)
      PROVE  AudInv'
  <2>1. /\ Aud!Configures("capture", wanted) /\ capture' = "delivering" /\ capture = "opening"
        /\ "capture" \in Aud!Actors
    BY <1>7 DEF Aud!OnCaptureFormat, Aud!Actors
  <2>2. CaptureOK'
    BY <1>1, <2>1 DEF CaptureOK
  <2>3. QED
    BY <1>4, <2>1, <2>2
<1>8. ASSUME NEW wanted \in Aud!Modes, NEW t \in Threads, Aud!Reconfigure(t, wanted)
      PROVE  AudInv'
  BY <1>5, <1>8 DEF Aud!Reconfigure
<1>9. ASSUME NEW t \in Threads, Aud!Reannounce(t)
      PROVE  AudInv'
  <2>1. source.mode \in Aud!Modes
    BY <1>1, <1>9 DEF Aud!Reannounce, Aud!TypeOK
  <2>2. QED
    BY <1>5, <1>9, <2>1 DEF Aud!Reannounce
<1>10. QED
  BY <1>2, <1>6, <1>7, <1>8, <1>9

(* The lane. *)

LEMMA EnqueueStep ==
    ASSUME AudInv, NEW t \in Aud!Actors, Aud!Enqueue(t)
    PROVE  AudInv'
<1> DEFINE f == Head(hand[t])
<1>1. /\ hand[t] # <<>> /\ lane' = Aud!Push(lane, f) /\ hand' = [hand EXCEPT ![t] = Tail(@)]
      /\ UNCHANGED <<source, capture, sink, decoding, session, last, torn>>
      /\ Aud!TypeOK /\ HandsOK /\ CaptureOK /\ DecodingOK
      /\ session = "up" => LaneOK
  BY DEF AudInv, Aud!Enqueue
<1>2. /\ hand[t] \in Seq(Aud!Wire) /\ lane \in Seq(Aud!Wire)
      /\ hand'[t] = Tail(hand[t]) /\ \A u \in Aud!Actors \ {t} : hand'[u] = hand[u]
  BY <1>1 DEF Aud!TypeOK
<1>3. /\ f \in Aud!Wire /\ Tail(hand[t]) \in Seq(Aud!Wire)
      /\ 1 \in DOMAIN hand[t] /\ f = hand[t][1]
      /\ \A i \in DOMAIN Tail(hand[t]) :
            i + 1 \in DOMAIN hand[t] /\ Tail(hand[t])[i] = hand[t][i + 1]
  BY <1>1, <1>2, HeadTailProperties
<1>4. /\ f.kind # "transport" => Len(hand[t]) = 1
      /\ Speech(f) => source.mode # ""
      /\ f.config \notin torn \/ source.config \notin torn =>
            /\ f.config = source.config
            /\ source.mode # "" => f.mode = source.mode
            /\ \A u \in Aud!Actors \ {t} : hand[u] = <<>>
  <2> HIDE DEF f
  <2>1. f.kind # "transport" => \A k \in DOMAIN hand[t] : k <= 1
    BY <1>1, <1>3 DEF HandsOK
  <2>2. /\ Speech(f) => source.mode # ""
        /\ f.config \notin torn \/ source.config \notin torn =>
            /\ f.config = source.config
            /\ source.mode # "" => f.mode = source.mode
            /\ \A u \in Aud!Actors \ {t} : hand[u] = <<>>
    BY <1>1, <1>3 DEF HandsOK
  <2>3. ASSUME \A k \in DOMAIN hand[t] : k <= 1
        PROVE  Len(hand[t]) = 1
    <3>1. Len(hand[t]) \in Nat /\ DOMAIN hand[t] = 1..Len(hand[t]) /\ 1 \in DOMAIN hand[t]
      BY <1>2, <1>3
    <3>2. Len(hand[t]) <= 1
      BY <2>3, <3>1
    <3>3. 1 \in 1..Len(hand[t])
      BY <3>1
    <3> DEFINE n == Len(hand[t])
    <3>4. n \in Nat /\ n <= 1 /\ 1 \in 1..n
      BY <3>1, <3>2, <3>3
    <3> HIDE DEF n
    <3>5. n = 1
      BY <3>4
    <3>6. QED
      BY <3>5 DEF n
  <2>4. QED
    BY <2>1, <2>2, <2>3
<1> HIDE DEF f
<1>5. HandsOK'
  <2>1. ASSUME NEW u \in Aud!Actors, NEW i \in DOMAIN hand'[u]
        PROVE  \E k \in DOMAIN hand[u] : hand'[u][i] = hand[u][k]
    <3>1. CASE u = t
      BY <1>2, <1>3, <2>1, <3>1
    <3>2. CASE u # t
      BY <1>2, <2>1, <3>2
    <3>3. QED
      BY <3>1, <3>2
  <2>2. \A u \in Aud!Actors : hand[u] = <<>> => hand'[u] = <<>>
    BY <1>1, <1>2
  <2>3. ASSUME NEW u \in Aud!Actors, NEW i \in DOMAIN hand'[u]
        PROVE  /\ Speech(hand'[u][i]) => u = "capture" /\ Len(hand'[u]) = 1 /\ source.mode # ""
               /\ hand'[u][i].kind # "transport" => \A k \in DOMAIN hand'[u] : k <= i
    <3>1. CASE u # t
      BY <1>1, <1>2, <2>3, <3>1 DEF HandsOK
    <3>2. CASE u = t
      <4>1. /\ i + 1 \in DOMAIN hand[t] /\ hand'[u][i] = hand[t][i + 1]
            /\ i \in Nat \ {0} /\ Len(hand'[u]) = Len(hand[t]) - 1
            /\ Len(hand[t]) \in Nat /\ i + 1 <= Len(hand[t])
        <5>1. /\ Len(Tail(hand[t])) = Len(hand[t]) - 1 /\ Len(hand[t]) \in Nat
              /\ DOMAIN hand[t] = 1..Len(hand[t]) /\ DOMAIN hand'[u] = 1..Len(hand'[u])
              /\ hand'[u] = Tail(hand[t])
          BY <1>1, <1>2, <1>3, <3>2, HeadTailProperties
        <5>2. /\ i + 1 \in DOMAIN hand[t] /\ hand'[u][i] = hand[t][i + 1]
              /\ i \in 1..Len(hand'[u])
          BY <1>3, <2>3, <5>1
        <5>3. QED
          BY <5>1, <5>2
      <4>2. /\ ~Speech(hand[t][i + 1])
            /\ hand[t][i + 1].kind # "transport" => \A k \in DOMAIN hand[t] : k <= i + 1
        <5>1. hand[t][i + 1].kind # "transport" => \A k \in DOMAIN hand[t] : k <= i + 1
          BY <1>1, <4>1 DEF HandsOK
        <5>2. Speech(hand[t][i + 1]) => Len(hand[t]) = 1
          BY <1>1, <4>1 DEF HandsOK
        <5>3. QED
          BY <4>1, <5>1, <5>2
      <4>3. QED
        <5>1. \A k \in DOMAIN hand'[u] : k \in Nat /\ k + 1 \in DOMAIN hand[t]
          <6>1. /\ hand'[u] = Tail(hand[t]) /\ Tail(hand[t]) \in Seq(Aud!Wire)
            BY <1>2, <1>3, <3>2
          <6>2. \A k \in DOMAIN Tail(hand[t]) : k + 1 \in DOMAIN hand[t]
            BY <1>3
          <6>3. \A k \in DOMAIN Tail(hand[t]) : k \in Nat
            BY <6>1
          <6>4. QED
            BY <6>1, <6>2, <6>3
        <5>2. ASSUME hand'[u][i].kind # "transport", NEW k \in DOMAIN hand'[u]
              PROVE  k <= i
          <6>1. k + 1 <= i + 1 /\ k \in Nat
            BY <4>1, <4>2, <5>1, <5>2
          <6>2. QED
            BY <4>1, <6>1
        <5>3. QED
          BY <4>1, <4>2, <5>2
    <3>3. QED
      BY <3>1, <3>2
  <2>4. ASSUME NEW u \in Aud!Actors, NEW i \in DOMAIN hand'[u],
               hand'[u][i].config \notin torn \/ source.config \notin torn
        PROVE  /\ hand'[u][i].config = source.config
               /\ source.mode # "" => hand'[u][i].mode = source.mode
               /\ \A v \in Aud!Actors \ {u} : hand'[v] = <<>>
    <3>1. PICK k \in DOMAIN hand[u] : hand'[u][i] = hand[u][k]
      BY <2>1, <2>4
    <3>2. QED
      BY ZenonT(90), <1>1, <2>2, <2>4, <3>1 DEF HandsOK
  <2>5. QED
    BY ZenonT(90), <1>1, <2>3, <2>4 DEF HandsOK
<1>6. CaptureOK'
  <2>1. "capture" \in Aud!Actors
    BY DEF Aud!Actors
  <2>2. hand["capture"] = <<>> => hand'["capture"] = <<>>
    BY <1>1, <1>2, <2>1
  <2>3. QED
    BY <1>1, <2>2 DEF CaptureOK
<1>7. hand' \in [Aud!Actors -> Seq(Aud!Wire)]
  BY <1>1, <1>3 DEF Aud!TypeOK
\* Where the frame ends up.
<1>8. PICK q \in Seq(Aud!Wire) :
        /\ lane' = Append(q, f) \/ (lane' = q /\ Speech(f))
        /\ \A F \in Field :
            /\ Sound(F, lane, sink[F]) => Sound(F, q, sink[F])
            /\ \A c : EndsIn(F, lane, sink[F], c) => EndsIn(F, q, sink[F], c)
  <2>1. CASE lane' = Append(lane, f) \/ (lane' = lane /\ Speech(f))
    BY <1>2, <2>1
  <2>2. ASSUME NEW k \in 1..Len(lane), Speech(lane[k]),
               lane' = Append(Aud!RemoveAt(lane, k), f)
        PROVE  \E q \in Seq(Aud!Wire) :
                /\ lane' = Append(q, f) \/ (lane' = q /\ Speech(f))
                /\ \A F \in Field :
                    /\ Sound(F, lane, sink[F]) => Sound(F, q, sink[F])
                    /\ \A c : EndsIn(F, lane, sink[F], c) => EndsIn(F, q, sink[F], c)
    <3>1. /\ Aud!RemoveAt(lane, k) \in Seq(Aud!Wire)
          /\ \A F \in Field :
                /\ Sound(F, lane, sink[F]) => Sound(F, Aud!RemoveAt(lane, k), sink[F])
                /\ \A c : EndsIn(F, lane, sink[F], c) =>
                    EndsIn(F, Aud!RemoveAt(lane, k), sink[F], c)
      BY <1>2, <2>2, Removed, RemoveSpeech
    <3>2. QED
      BY <2>2, <3>1
  <2>3. QED
    BY <1>1, <1>2, <2>1, <2>2, Pushed
<1>9. lane' \in Seq(Aud!Wire)
  BY <1>3, <1>8
<1>10. ASSUME session = "up" PROVE LaneOK'
  <2>1. (\A F \in Field : Sound(F, lane, sink[F])) /\ Announced
    BY <1>1, <1>10 DEF LaneOK
  <2>2. ASSUME NEW F \in Field, source.mode # "", source.config \notin torn, ~Tells(F, f)
        PROVE  EndsIn(F, lane, sink[F], source[F])
    <3>1. Len(hand[t]) = 1 /\ \A u \in Aud!Actors \ {t} : hand[u] = <<>>
      BY <1>4, <2>2 DEF Tells
    <3>2. ASSUME NEW u \in Aud!Actors, NEW i \in DOMAIN hand[u] PROVE ~Tells(F, hand[u][i])
      <4>1. u = t
        BY <3>1, <3>2
      <4>2. DOMAIN hand[t] = {1}
        BY <1>2, <3>1, SingleFrame
      <4>3. QED
        BY <1>3, <2>2, <3>2, <4>1, <4>2
    <3>3. QED
      BY <2>1, <2>2, <3>2 DEF Announced
  <2>3. ASSUME NEW F \in Field, Speech(f)
        PROVE  f.config \in torn \/ EndsIn(F, q, sink[F], f[F])
    <3> SUFFICES ASSUME f.config \notin torn
                 PROVE  EndsIn(F, q, sink[F], f[F])
      OBVIOUS
    <3>1. /\ f.config = source.config /\ f.mode = source.mode /\ source.mode # ""
          /\ source.config \notin torn /\ ~Tells(F, f)
      BY <1>4, <2>3 DEF Speech, Tells
    <3>2. f[F] = source[F]
      BY <3>1 DEF Field
    <3>3. EndsIn(F, lane, sink[F], source[F])
      BY <2>2, <3>1
    <3>4. QED
      BY <1>8, <3>2, <3>3
  <2>4. ASSUME NEW F \in Field
        PROVE  /\ Sound(F, lane', sink[F])
               /\ Tells(F, f) => EndsIn(F, lane', sink[F], f[F])
               /\ ~Tells(F, f) => \A c : EndsIn(F, lane, sink[F], c) => EndsIn(F, lane', sink[F], c)
    <3>1. /\ Sound(F, q, sink[F]) /\ \A c : EndsIn(F, lane, sink[F], c) => EndsIn(F, q, sink[F], c)
          /\ Speech(f) => f.config \in torn \/ EndsIn(F, q, sink[F], f[F])
      BY <1>8, <2>1, <2>3
    <3>2. CASE lane' = Append(q, f)
      <4>1. /\ Tells(F, f) => EndsIn(F, Append(q, f), sink[F], f[F])
            /\ ~Tells(F, f) => \A c : EndsIn(F, q, sink[F], c) => EndsIn(F, Append(q, f), sink[F], c)
            /\ Sound(F, Append(q, f), sink[F])
        BY <1>3, <3>1, AppendFrame
      <4>2. QED
        BY <3>1, <3>2, <4>1
    <3>3. CASE lane' = q /\ Speech(f)
      BY <3>1, <3>3 DEF Speech, Tells
    <3>4. QED
      BY <1>8, <3>2, <3>3
  <2>5. ASSUME NEW F \in Field, source.mode # "", source.config \notin torn
        PROVE  EndsIn(F, lane', sink[F], source[F])
    <3>1. CASE Tells(F, f)
      <4>1. f.config = source.config /\ f.mode = source.mode
        BY <1>4, <2>5
      <4>2. f[F] = source[F]
        BY <4>1 DEF Field
      <4>3. QED
        BY <2>4, <3>1, <4>2
    <3>2. CASE ~Tells(F, f)
      BY <2>2, <2>4, <2>5, <3>2
    <3>3. QED
      BY <3>1, <3>2
  <2>6. \A F \in Field : Sound(F, lane, sink[F])'
    BY <1>1, <2>4, SameTorn
  <2>7. Announced'
    <3> SUFFICES ASSUME NEW F \in Field, source.mode # "", source.config \notin torn
                 PROVE  EndsIn(F, lane, sink[F], source[F])'
      BY <1>1 DEF Announced
    <3>1. EndsIn(F, lane', sink'[F], source'[F])
      BY <1>1, <2>5
    <3>2. QED
      BY <1>1, <3>1, SameTorn
  <2>8. QED
    BY <2>6, <2>7 DEF LaneOK
<1>11. Aud!TypeOK'
  BY <1>1, <1>7, <1>9 DEF Aud!TypeOK
<1>12. DecodingOK'
  BY <1>1 DEF DecodingOK, Fits
<1>13. QED
  BY <1>1, <1>5, <1>6, <1>10, <1>11, <1>12 DEF AudInv

(* The receiver and the sessions. *)

LEMMA ReceiverStep ==
    ASSUME AudInv, Aud!Hear \/ Aud!Lose \/ Aud!Decode
    PROVE  AudInv'
<1>1. /\ UNCHANGED <<source, hand, capture, session, torn>>
      /\ Aud!TypeOK /\ HandsOK /\ CaptureOK /\ DecodingOK
      /\ session = "up" => LaneOK
      /\ lane \in Seq(Aud!Wire)
  BY DEF AudInv, Aud!Hear, Aud!Lose, Aud!Decode, Aud!TypeOK
<1>2. HandsOK' /\ CaptureOK'
  BY <1>1 DEF HandsOK, CaptureOK
<1>3. ASSUME lane # <<>>, lane' = Tail(lane),
             \A F \in Field : sink'[F] =
                IF Tells(F, Head(lane)) THEN Head(lane)[F]
                ELSE IF F = "mode" /\ Head(lane).kind = "format" /\ sink.mode = "" THEN "pcm"
                ELSE sink[F]
      PROVE  /\ lane' \in Seq(Aud!Wire) /\ Head(lane) \in Aud!Wire
             /\ session = "up" => LaneOK'
             /\ session = "up" /\ Speech(Head(lane)) =>
                    \A F \in Field : Agree(F, sink[F], Head(lane))
  <2>1. lane' \in Seq(Aud!Wire) /\ Head(lane) \in Aud!Wire
    BY <1>1, <1>3, HeadTailProperties
  <2>2. ASSUME NEW F \in Field
        PROVE  /\ Sound(F, lane, sink[F]) => Sound(F, lane', sink'[F])
               /\ \A c : (F = "mode" => c # "") /\ EndsIn(F, lane, sink[F], c)
                    => EndsIn(F, lane', sink'[F], c)
               /\ Sound(F, lane, sink[F]) /\ Speech(Head(lane)) => Agree(F, sink[F], Head(lane))
    <3> DEFINE e == IF Tells(F, Head(lane)) THEN Head(lane)[F] ELSE sink[F]
    <3>1. /\ Sound(F, lane, sink[F]) => Sound(F, lane', e)
          /\ \A c : EndsIn(F, lane, sink[F], c) => EndsIn(F, lane', e, c)
          /\ Sound(F, lane, sink[F]) /\ Speech(Head(lane)) => Agree(F, sink[F], Head(lane))
      BY <1>1, <1>3, TailFrame
    <3>2. CASE sink'[F] = e
      BY <3>1, <3>2
    <3>3. CASE F = "mode" /\ e = ""
      BY <2>1, <3>1, <3>3, FromNothing
    <3>4. sink'[F] = e \/ (F = "mode" /\ e = "")
      BY <1>3
    <3>5. QED
      BY <3>2, <3>3, <3>4
  <2>3. session = "up" => LaneOK'
    <3> SUFFICES ASSUME session = "up" PROVE LaneOK'
      OBVIOUS
    <3>1. (\A F \in Field : Sound(F, lane, sink[F])) /\ Announced
      BY <1>1 DEF LaneOK
    <3>2. \A F \in Field : Sound(F, lane, sink[F])'
      BY <1>1, <2>2, <3>1, SameTorn
    <3>3. Announced'
      <4> SUFFICES ASSUME source.mode # "", source.config \notin torn, NEW F \in Field,
                          EndsIn(F, lane, sink[F], source[F])
                   PROVE  EndsIn(F, lane, sink[F], source[F])'
        BY <1>1, <3>1 DEF Announced
      <4>1. F = "mode" => source[F] # ""
        OBVIOUS
      <4>2. EndsIn(F, lane', sink'[F], source'[F])
        BY <1>1, <2>2, <4>1
      <4>3. QED
        BY <1>1, <4>2, SameTorn
    <3>4. QED
      BY <3>2, <3>3 DEF LaneOK
  <2>4. QED
    BY <1>1, <2>1, <2>2, <2>3 DEF LaneOK
<1>4. CASE Aud!Lose
  <2>1. /\ lane # <<>> /\ lane' = Tail(lane) /\ Speech(Head(lane))
        /\ sink' = sink /\ decoding' = decoding /\ last' = last
    BY <1>4 DEF Aud!Lose, Speech
  <2>2. lane' \in Seq(Aud!Wire) /\ (session = "up" => LaneOK')
    BY <1>3, <2>1 DEF Tells, Speech
  <2>3. Aud!TypeOK' /\ DecodingOK'
    BY <1>1, <2>1, <2>2 DEF Aud!TypeOK, DecodingOK, Fits
  <2>4. QED
    BY <1>1, <1>2, <2>2, <2>3 DEF AudInv
<1>5. CASE Aud!Decode
  <2>1. /\ decoding.at = "data" /\ lane' = lane /\ sink' = sink
        /\ \/ last' = decoding.frame /\ decoding' = Aud!Idle
           \/ /\ last' = [decoding.frame EXCEPT !.by.mode = "pcm"] /\ decoding' = Aud!Idle
              /\ ~sink.ready /\ decoding.frame.by.mode = "opus"
           \/ decoding' = [Aud!Idle EXCEPT !.at = "dead"] /\ last' = last
    BY <1>5 DEF Aud!Decode
  <2>2. 0 \in Aud!Configs
    BY AudioAssumption DEF Aud!Configs
  <2>3. Aud!Nothing \in Decoded
    BY <2>2 DEF Aud!Nothing, Aud!Unset, Decoded, Setting
  <2>4. /\ decoding.frame \in Decoded /\ last \in Decoded
        /\ Fits(decoding.frame) /\ (sink.ready \/ decoding.frame.cut)
        /\ Fits(last) \/ (last.cut /\ last.sent.mode = "opus")
    BY <1>1, <2>1 DEF DecodingOK
  <2>5. /\ last' \in Decoded
        /\ Fits(last') \/ (last'.cut /\ last'.sent.mode = "opus")
    <3>1. CASE last' = decoding.frame \/ last' = last
      BY <2>4, <3>1
    <3>2. CASE last' = [decoding.frame EXCEPT !.by.mode = "pcm"] /\ ~sink.ready
                /\ decoding.frame.by.mode = "opus"
      <4>1. PICK a \in Setting, x \in Setting, y \in BOOLEAN :
                decoding.frame = [sent |-> a, by |-> x, cut |-> y]
        BY <2>4 DEF Decoded
      <4>2. /\ last' = [sent |-> a, by |-> [x EXCEPT !.mode = "pcm"], cut |-> y]
            /\ y /\ x.mode = "opus" /\ (a = x \/ a.config \in torn)
        BY <2>4, <3>2, <4>1 DEF Fits
      <4>3. [x EXCEPT !.mode = "pcm"] \in Setting
        BY DEF Setting, Aud!Modes
      <4>4. QED
        BY <4>2, <4>3 DEF Decoded, Fits
    <3>3. QED
      BY <2>1, <3>1, <3>2
  <2>6. /\ decoding' \in [at : {"idle", "data", "dead"}, frame : Decoded]
        /\ decoding'.at # "data"
    BY <2>1, <2>3 DEF Aud!Idle
  <2>7. DecodingOK'
    BY <1>1, <2>5, <2>6 DEF DecodingOK, Fits
  <2>8. Aud!TypeOK'
    BY <1>1, <2>1, <2>6 DEF Aud!TypeOK
  <2>9. (session = "up" => LaneOK)'
    BY <1>1, <2>1 DEF LaneOK, Announced, Sound, EndsIn, Agree, Under, Marks, Sets
  <2>10. QED
    BY <1>2, <2>7, <2>8, <2>9 DEF AudInv
<1>6. CASE Aud!Hear
  <2> DEFINE f == Head(lane)
  <2>1. /\ session = "up" /\ lane # <<>> /\ lane' = Tail(lane) /\ last' = last
        /\ \/ /\ f.kind = "transport" /\ decoding' = decoding
              /\ sink' = [mode |-> f.mode, config |-> f.config, ready |-> FALSE]
           \/ /\ f.kind = "format" /\ decoding' = decoding
              /\ sink' = [mode |-> IF sink.mode = "" THEN "pcm" ELSE sink.mode,
                          config |-> f.config, ready |-> TRUE]
           \/ /\ f.kind = "data" /\ sink' = sink /\ decoding = Aud!Idle
              /\ decoding' = IF ~sink.ready THEN Aud!Idle
                             ELSE [at |-> "data",
                                   frame |-> [sent |-> Aud!Settings(f), by |-> Aud!Settings(sink), cut |-> FALSE]]
    BY <1>6 DEF Aud!Hear
  <2>2. f \in Aud!Wire
    BY <1>1, <2>1, HeadTailProperties
  <2> HIDE DEF f
  <2>3. ASSUME NEW F \in Field
        PROVE  sink'[F] =
                IF Tells(F, f) THEN f[F]
                ELSE IF F = "mode" /\ f.kind = "format" /\ sink.mode = "" THEN "pcm"
                ELSE sink[F]
    <3>1. CASE f.kind = "transport"
      BY <2>1, <3>1 DEF Field, Tells
    <3>2. CASE f.kind = "format"
      <4>1. sink'.config = f.config /\ sink'.mode = IF sink.mode = "" THEN "pcm" ELSE sink.mode
        <5> DEFINE m == IF sink.mode = "" THEN "pcm" ELSE sink.mode
        <5>1. sink' = [mode |-> m, config |-> f.config, ready |-> TRUE]
          BY <2>1, <3>2
        <5> HIDE DEF m
        <5>2. sink'.config = f.config /\ sink'.mode = m
          BY <5>1
        <5>3. QED
          BY <5>2 DEF m
      <4>2. CASE F = "config"
        BY <3>2, <4>1, <4>2 DEF Tells
      <4>3. CASE F = "mode"
        BY <3>2, <4>1, <4>3 DEF Tells
      <4>4. QED
        BY <4>2, <4>3 DEF Field
    <3>3. CASE f.kind = "data"
      BY <2>1, <3>3 DEF Tells
    <3>4. QED
      BY <2>1, <3>1, <3>2, <3>3
  <2>4. /\ lane' \in Seq(Aud!Wire) /\ LaneOK'
        /\ Speech(f) => \A F \in Field : Agree(F, sink[F], f)
    BY <1>3, <2>1, <2>3 DEF f
  <2>5. sink' \in [mode : Aud!Modes \cup {""}, config : Aud!Configs, ready : BOOLEAN]
    <3>1. /\ sink \in [mode : Aud!Modes \cup {""}, config : Aud!Configs, ready : BOOLEAN]
          /\ f.config \in Aud!Configs /\ f.mode \in Aud!Modes /\ "pcm" \in Aud!Modes
      BY <1>1, <2>2 DEF Aud!TypeOK, Aud!Wire, Aud!Modes
    <3>2. CASE f.kind = "transport"
      <4>1. f.mode \in Aud!Modes \cup {""} /\ f.config \in Aud!Configs /\ FALSE \in BOOLEAN
        BY <3>1
      <4>2. sink' = [mode |-> f.mode, config |-> f.config, ready |-> FALSE]
        BY <2>1, <3>2
      <4>3. QED
        BY <4>1, <4>2, SinkType, Zenon
    <3>3. CASE f.kind = "format"
      <4> DEFINE m == IF sink.mode = "" THEN "pcm" ELSE sink.mode
      <4>1. sink.mode \in Aud!Modes \cup {""}
        BY <3>1
      <4>2. m \in Aud!Modes \cup {""} /\ f.config \in Aud!Configs
        BY <3>1, <4>1
      <4>3. sink' = [mode |-> m, config |-> f.config, ready |-> TRUE]
        BY <2>1, <3>3
      <4> HIDE DEF m
      <4>4. TRUE \in BOOLEAN
        OBVIOUS
      <4>5. QED
        BY <4>2, <4>3, <4>4, SinkType, Zenon
    <3>4. CASE f.kind = "data"
      BY <2>1, <3>1, <3>4
    <3>5. QED
      BY <2>1, <3>2, <3>3, <3>4
  <2>6. CASE decoding' = decoding
    <3>1. decoding'.at # "data"
      BY <1>6, <2>6 DEF Aud!Hear, Aud!Idle
    <3>2. DecodingOK'
      BY <1>1, <2>1, <2>6, <3>1 DEF DecodingOK, Fits
    <3>3. Aud!TypeOK'
      BY <1>1, <2>4, <2>5, <2>6 DEF Aud!TypeOK
    <3>4. QED
      BY <1>2, <2>4, <3>2, <3>3 DEF AudInv
  <2>7. CASE Speech(f)
    <3> DEFINE d == [sent |-> Aud!Settings(f), by |-> Aud!Settings(sink), cut |-> FALSE]
    <3>1. 0 \in Aud!Configs
      BY AudioAssumption DEF Aud!Configs
    <3>2. Aud!Nothing \in Decoded
      BY <3>1 DEF Aud!Nothing, Aud!Unset, Decoded, Setting
    <3>3. /\ d \in Decoded /\ d.sent.config = f.config
          /\ (f.config = sink.config /\ f.mode = sink.mode) => d.sent = d.by
      BY <1>1, <2>2 DEF Aud!Settings, Decoded, Setting, Aud!TypeOK, Aud!Wire
    <3>4. decoding' = Aud!Idle \/ (decoding' = [at |-> "data", frame |-> d] /\ sink'.ready)
      BY <2>1, <2>7 DEF Speech
    <3>5. Fits(d)
      <4>1. Agree("config", sink["config"], f) /\ Agree("mode", sink["mode"], f)
        BY <2>4, <2>7 DEF Field
      <4>2. (sink.config = f.config /\ sink.mode = f.mode) \/ f.config \in torn
        BY <4>1 DEF Agree
      <4>3. QED
        BY <3>3, <4>2 DEF Fits
    <3> HIDE DEF d
    <3>6. /\ decoding' \in [at : {"idle", "data", "dead"}, frame : Decoded]
          /\ decoding'.at = "data" => decoding'.frame = d /\ sink'.ready
      BY <3>2, <3>3, <3>4 DEF Aud!Idle
    <3>7. DecodingOK'
      <4>1. decoding'.at = "data" => Fits(decoding.frame)' /\ sink'.ready
        BY <1>1, <3>5, <3>6 DEF Fits
      <4>2. QED
        BY <1>1, <2>1, <3>6, <4>1 DEF DecodingOK, Fits
    <3>8. Aud!TypeOK'
      BY <1>1, <2>4, <2>5, <3>6 DEF Aud!TypeOK
    <3>9. QED
      BY <1>2, <2>4, <3>7, <3>8 DEF AudInv
  <2>8. QED
    BY <2>1, <2>6, <2>7 DEF Speech
<1>7. QED
  BY <1>4, <1>5, <1>6

LEMMA SessionStep ==
    ASSUME AudInv, Aud!SessionEnds \/ Aud!SourceResets \/ Aud!SinkResets
    PROVE  AudInv'
<1>1. /\ UNCHANGED <<hand, capture, last, torn>> /\ lane' = <<>>
      /\ Aud!TypeOK /\ HandsOK /\ CaptureOK /\ DecodingOK
      /\ source'.config = source.config
      /\ source.mode = "" => source'.mode = ""
      /\ session' \in {"up", "ended", "sourceReset", "sinkReset"}
  BY DEF AudInv, Aud!SessionEnds, Aud!SourceResets, Aud!SinkResets, Aud!TypeOK
<1>2. /\ source' \in [mode : Aud!Modes \cup {""}, config : Aud!Configs]
      /\ sink' \in [mode : Aud!Modes \cup {""}, config : Aud!Configs, ready : BOOLEAN]
  <2>1. 0 \in Aud!Configs
    BY AudioAssumption DEF Aud!Configs
  <2>2. source' = source \/ source' = [source EXCEPT !.mode = ""]
    BY DEF Aud!SessionEnds, Aud!SourceResets, Aud!SinkResets
  <2>3. sink' = sink \/ sink' = Aud!Silent
    BY DEF Aud!SessionEnds, Aud!SourceResets, Aud!SinkResets
  <2>4. source' \in [mode : Aud!Modes \cup {""}, config : Aud!Configs]
    BY <1>1, <2>2 DEF Aud!TypeOK
  <2>5. sink' \in [mode : Aud!Modes \cup {""}, config : Aud!Configs, ready : BOOLEAN]
    <3>1. "" \in Aud!Modes \cup {""} /\ FALSE \in BOOLEAN
      OBVIOUS
    <3>2. Aud!Silent \in [mode : Aud!Modes \cup {""}, config : Aud!Configs, ready : BOOLEAN]
      BY <2>1, <3>1, SinkType DEF Aud!Silent
    <3>3. QED
      BY <1>1, <2>3, <3>2 DEF Aud!TypeOK
  <2>6. QED
    BY <2>4, <2>5
<1>3. <<>> \in Seq(Aud!Wire)
  OBVIOUS
<1>4. /\ decoding' \in [at : {"idle", "data", "dead"}, frame : Decoded]
      /\ decoding'.at = decoding.at
      /\ decoding.at = "data" => Fits(decoding.frame)' /\ (sink'.ready \/ decoding'.frame.cut)
  <2>1. CASE decoding' = decoding /\ (sink' = sink \/ decoding.at # "data")
    BY <1>1, <2>1 DEF DecodingOK, Fits
  <2>2. CASE decoding.at = "data" /\ decoding' = [decoding EXCEPT !.frame.cut = TRUE]
    <3>1. PICK a \in Setting, x \in Setting, y \in BOOLEAN :
            decoding = [at |-> "data", frame |-> [sent |-> a, by |-> x, cut |-> y]]
      BY <1>1, <2>2 DEF DecodingOK, Decoded
    <3>2. decoding' = [at |-> "data", frame |-> [sent |-> a, by |-> x, cut |-> TRUE]]
      BY <2>2, <3>1
    <3>3. a = x \/ a.config \in torn
      BY <1>1, <3>1 DEF DecodingOK, Fits
    <3>4. QED
      BY <1>1, <3>1, <3>2, <3>3 DEF Decoded, Fits
  <2>3. QED
    BY <2>1, <2>2 DEF Aud!SessionEnds, Aud!SourceResets, Aud!SinkResets
<1>5. DecodingOK'
  BY <1>1, <1>4 DEF DecodingOK, Fits
<1>11. Aud!TypeOK'
  BY <1>1, <1>2, <1>3, <1>4 DEF Aud!TypeOK
\* A source that is reset has nothing in hand.
<1>6. source' # source => capture = "off" /\ source'.mode = ""
  BY <1>1 DEF Aud!SessionEnds, Aud!SourceResets, Aud!SinkResets, Aud!TypeOK
<1>7. HandsOK'
  <2>1. ASSUME source' # source
        PROVE  \A t \in Aud!Actors : \A i \in DOMAIN hand[t] : ~Speech(hand[t][i])
    <3>1. hand["capture"] = <<>>
      <4>1. capture # "delivering"
        BY <1>6, <2>1
      <4>2. QED
        BY <1>1, <4>1 DEF CaptureOK
    <3>2. DOMAIN hand["capture"] = {}
      BY <1>3, <3>1, Frames
    <3>3. QED
      BY <1>1, <3>2 DEF HandsOK
  <2>2. source'.mode # "" => source' = source
    BY <1>6
  <2>3. ASSUME NEW t \in Aud!Actors, NEW i \in DOMAIN hand[t]
        PROVE  /\ hand[t][i].config \notin torn \/ source'.config \notin torn =>
                    /\ hand[t][i].config = source'.config
                    /\ source'.mode # "" => hand[t][i].mode = source'.mode
                    /\ \A u \in Aud!Actors \ {t} : hand[u] = <<>>
               /\ Speech(hand[t][i]) => t = "capture" /\ Len(hand[t]) = 1 /\ source'.mode # ""
               /\ hand[t][i].kind # "transport" => \A k \in DOMAIN hand[t] : k <= i
    BY <1>1, <2>1, <2>2, <2>3 DEF HandsOK
  <2>4. QED
    BY <1>1, <2>3 DEF HandsOK
<1>8. CaptureOK' /\ (session' = "up" => source'.mode = "")
  BY <1>1 DEF CaptureOK, Aud!SessionEnds, Aud!SourceResets, Aud!SinkResets, Aud!TypeOK
<1>9. (session = "up" => LaneOK)'
  <2>1. Len(<<>>) = 0 /\ 1..0 = {}
    OBVIOUS
  <2>2. (\A F \in Field : Sound(F, lane, sink[F]))'
    BY <1>1, <2>1 DEF Sound
  <2>3. QED
    BY <1>8, <2>2 DEF LaneOK, Announced
<1>10. QED
  BY <1>5, <1>7, <1>8, <1>9, <1>11 DEF AudInv

LEMMA AudStep ==
    ASSUME AudInv, Aud!Next
    PROVE  AudInv'
  BY SenderStep, EnqueueStep, ReceiverStep, SessionStep DEF Aud!Next

LEMMA AudIsInvariant == Spec => [](on = "audio" => AudInv)
<1>1. Init => (on = "audio" => AudInv)
  BY AudInit DEF Init
<1>2. (on = "audio" => AudInv) /\ [Next]_vars => (on = "audio" => AudInv)'
  <2>1. AudInv /\ UNCHANGED audVars => AudInv'
    <3> SUFFICES ASSUME AudInv, UNCHANGED audVars PROVE AudInv'
      OBVIOUS
    <3>1. UNCHANGED <<source, hand, capture, lane, sink, decoding, session, last, torn>>
      BY DEF audVars
    <3>2. Aud!TypeOK'
      BY <3>1 DEF AudInv, Aud!TypeOK
    <3>3. HandsOK' /\ CaptureOK' /\ DecodingOK'
      BY ZenonT(90), <3>1 DEF AudInv, HandsOK, CaptureOK, DecodingOK, Fits
    <3>4. (session = "up" => LaneOK)'
      BY <3>1 DEF AudInv, LaneOK, Announced, Sound, EndsIn, Agree, Under, Marks, Sets
    <3>5. QED
      BY <3>2, <3>3, <3>4 DEF AudInv
  <2>2. QED
    BY <2>1, AudStep, StepOfOnePart
<1>3. QED
  BY <1>1, <1>2, PTL DEF Spec

\* Audio is decoded by the transport and the format it was encoded with, but
\* for the two cases the property names: every data frame stands in the queue
\* behind the frames that announce it (audio/stream.go, app_audio_runtime.go).
THEOREM DecodedByItsOwnTheorem == Spec => []DecodedByItsOwn
<1>1. (on = "audio" => AudInv) => DecodedByItsOwn
  BY DEF AudInv, DecodingOK, Fits, DecodedByItsOwn, Aud!DecodedByItsOwn
<1>2. QED
  BY <1>1, AudIsInvariant, PTL

(***************************************************************************)
(* Clipboard.                                                              *)
(***************************************************************************)

\* What m's clipboard will show when all that is on its way has been written.
Final(m) ==
    IF wire[m] # <<>> THEN wire[m][Len(wire[m])]
    ELSE IF arriving[m] # Cli!None THEN arriving[m]
    ELSE IF inbox[m] # Cli!None THEN inbox[m]
    ELSE clip[m].text

\* The text received last, while nobody copies.
Received(m) ==
    IF arriving[m] # Cli!None THEN arriving[m]
    ELSE IF inbox[m] # Cli!None THEN inbox[m]
    ELSE clip[m].text

\* m has still to look at its text, and will send it.
Owes(m) ==
    /\ ~Cli!Coming(m)
    /\ clip[m].text \notin {Cli!None, lastText[m], pending[m]}
    /\ clip[m].changed \/ polled[m] = clip[m].text

\* What has been polled and offered is the text, or the text has changed since,
\* or the record has been reset.
Followed(m) ==
    /\ ~clip[m].changed =>
        \/ polled[m] = clip[m].text
        \/ polled[m] = Cli!None /\ lastText[m] = clip[m].text
        \/ /\ polled[m] = Cli!None /\ lastText[m] = Cli!None
           /\ pending[m] = Cli!None \/ Cli!Coming(m)
    /\ clip[m].text = Cli!None =>
        clip[m].changed /\ polled[m] = Cli!None /\ lastText[m] = Cli!None

\* What is held back is what was received last, or a copy will be sent first.
HeldBack(m) ==
    \/ pending[m] \in {Cli!None, Received(m)}
    \/ /\ arriving[m] = Cli!None /\ inbox[m] = Cli!None
       /\ clip[m].text # lastText[m]
       /\ clip[m].changed \/ polled[m] = clip[m].text
       /\ polled[m] \in {Cli!None, clip[m].text}

\* Texts go one way at a time, and the two end up equal or one has to send.
Together(m, n) ==
    /\ ~(Cli!Coming(m) /\ Cli!Coming(n))
    /\ clip[m].text = Cli!None => ~Cli!Coming(n)
    /\ clip[n].text = Cli!None => ~Cli!Coming(m)
    /\ Final(m) = Final(n) \/ Owes(m) \/ Owes(n)

Converges ==
    /\ \A m \in Machines : Followed(m) /\ HeldBack(m)
    /\ \A m, n \in Machines : m # n => Together(m, n)

Even == ~crossed /\ ~lost

CliInv == Cli!TypeOK /\ (Even => Converges)

LEMMA OtherMachine ==
    ASSUME NEW m \in Machines
    PROVE  /\ Cli!Other(m) \in Machines /\ Cli!Other(m) # m
           /\ \A n \in Machines : n = m \/ n = Cli!Other(m)
<1>1. PICK a, b \in Machines : a # b /\ Machines = {a, b}
  BY ClipboardAssumption
<1>2. \E n \in Machines : n # m
  BY <1>1
<1>3. Cli!Other(m) \in Machines /\ Cli!Other(m) # m
  BY <1>2 DEF Cli!Other
<1>4. QED
  BY <1>1, <1>3

LEMMA LastOfTail ==
    ASSUME NEW S, NEW q \in Seq(S), q # <<>>
    PROVE  /\ Head(q) \in S /\ Tail(q) \in Seq(S)
           /\ Tail(q) = <<>> => q[Len(q)] = Head(q)
           /\ Tail(q) # <<>> => Tail(q)[Len(Tail(q))] = q[Len(q)]
<1>1. Len(q) \in Nat /\ Len(q) # 0 /\ Head(q) = q[1]
  OBVIOUS
<1>2. /\ Tail(q) \in Seq(S) /\ Len(Tail(q)) = Len(q) - 1
      /\ \A i \in 1..Len(q) - 1 : Tail(q)[i] = q[i + 1]
  OBVIOUS
<1>3. Head(q) \in S
  BY <1>1
<1>4. Tail(q) = <<>> => Len(q) = 1
  <2>1. Len(<<>>) = 0
    OBVIOUS
  <2>2. Tail(q) = <<>> => Len(Tail(q)) = 0
    BY <2>1
  <2>3. QED
    BY <1>1, <1>2, <2>2
<1>5. Tail(q) # <<>> => Len(q) - 1 \in 1..Len(q) - 1
  BY <1>1, <1>2
<1>6. QED
  BY <1>1, <1>2, <1>3, <1>4, <1>5

LEMMA LastOfAppend ==
    ASSUME NEW S, NEW q \in Seq(S), NEW x \in S
    PROVE  /\ Append(q, x) \in Seq(S) /\ Append(q, x) # <<>>
           /\ Append(q, x)[Len(Append(q, x))] = x
  OBVIOUS

\* What is cut from a lane or a connection.
LEMMA CutFacts ==
    ASSUME NEW S, NEW q \in Seq(S), NEW k \in Nat, k <= Len(q)
    PROVE  /\ SubSeq(q, 1, k) \in Seq(S) /\ Len(SubSeq(q, 1, k)) = k
           /\ k = Len(q) => SubSeq(q, 1, k) = q
           /\ SubSeq(q, k + 1, Len(q)) \in Seq(S)
           /\ k = 0 => SubSeq(q, k + 1, Len(q)) = q
           /\ LET r == SubSeq(q, 1, k) \o SubSeq(q, k + 2, Len(q))
              IN  k < Len(q) => r \in Seq(S) /\ Len(r) = Len(q) - 1
<1>1. SubSeq(q, 1, k) \in Seq(S) /\ Len(SubSeq(q, 1, k)) = k
  OBVIOUS
<1>2. k = Len(q) => SubSeq(q, 1, k) = q
  OBVIOUS
<1>3. SubSeq(q, k + 1, Len(q)) \in Seq(S)
  OBVIOUS
<1>4. k = 0 => SubSeq(q, k + 1, Len(q)) = q
  OBVIOUS
<1>5. ASSUME k < Len(q)
      PROVE  LET r == SubSeq(q, 1, k) \o SubSeq(q, k + 2, Len(q))
             IN  r \in Seq(S) /\ Len(r) = Len(q) - 1
  <2> DEFINE s == SubSeq(q, 1, k)
             u == SubSeq(q, k + 2, Len(q))
  <2>1. s \in Seq(S) /\ Len(s) = k
    BY <1>1
  <2>2. u \in Seq(S) /\ Len(u) = Len(q) - k - 1 /\ Len(q) \in Nat
    BY <1>5
  <2> HIDE DEF s, u
  <2>3. s \o u \in Seq(S) /\ Len(s \o u) = Len(s) + Len(u)
    BY <2>1, <2>2
  <2>4. s \o u \in Seq(S) /\ Len(s \o u) = Len(q) - 1
    BY <2>1, <2>2, <2>3
  <2>5. QED
    BY <2>4 DEF s, u
<1>6. QED
  BY <1>1, <1>2, <1>3, <1>4, <1>5

LEMMA CliInit == Cli!Init => CliInv
<1> SUFFICES ASSUME Cli!Init PROVE CliInv
  OBVIOUS
<1>1. Cli!TypeOK
  <2>1. copies \in 0..MaxCopies
    <3>1. MaxCopies \in Nat
      BY ClipboardAssumption
    <3>2. QED
      BY <3>1 DEF Cli!Init
  <2>2. <<>> \in Seq(Texts) /\ Len(<<>>) = 0
    OBVIOUS
  <2>3. \A m \in Machines : sent[m] <= Len(wire[m])
    BY <2>2 DEF Cli!Init
  <2>4. QED
    BY <2>1, <2>2, <2>3 DEF Cli!Init, Cli!TypeOK, Cli!None
<1>2. Converges
  BY DEF Cli!Init, Converges, Followed, HeldBack, Together, Final, Cli!Coming, Cli!None
<1>3. QED
  BY <1>1, <1>2 DEF CliInv

\* What the steps do to the texts on their way.
WayOK ==
    /\ wire \in [Machines -> Seq(Texts)]
    /\ sent \in [Machines -> Nat] /\ \A m \in Machines : sent[m] <= Len(wire[m])

LEMMA DrainTypes ==
    ASSUME Cli!TypeOK, NEW m \in Machines, Cli!DrainLanes(m)
    PROVE  /\ WayOK' /\ lost' \in BOOLEAN
           /\ ~lost' => ~lost /\ UNCHANGED wire
<1> DEFINE n == Cli!Other(m)
<1>1. n \in Machines /\ sent[n] \in Nat /\ wire[n] \in Seq(Texts) /\ sent[n] <= Len(wire[n])
  BY OtherMachine DEF Cli!TypeOK
<1>2. /\ SubSeq(wire[n], 1, sent[n]) \in Seq(Texts)
      /\ Len(SubSeq(wire[n], 1, sent[n])) = sent[n]
      /\ sent[n] = Len(wire[n]) => SubSeq(wire[n], 1, sent[n]) = wire[n]
  BY <1>1, CutFacts
<1>3. /\ wire' = [wire EXCEPT ![n] = SubSeq(wire[n], 1, sent[n])]
      /\ lost' = (lost \/ sent[n] < Len(wire[n])) /\ sent' = sent
  BY DEF Cli!DrainLanes
<1>4. Len(wire[n]) \in Nat /\ lost \in BOOLEAN /\ wire \in [Machines -> Seq(Texts)]
  BY <1>1 DEF Cli!TypeOK
<1> HIDE DEF n
<1>5. WayOK'
  BY <1>1, <1>2, <1>3 DEF WayOK, Cli!TypeOK
<1>6. ~lost' => ~lost /\ UNCHANGED wire
  <2>1. ~(sent[n] < Len(wire[n])) => sent[n] = Len(wire[n])
    BY <1>1, <1>4
  <2>2. ~lost' => ~lost /\ sent[n] = Len(wire[n])
    BY <1>3, <2>1
  <2>3. sent[n] = Len(wire[n]) => wire' = [wire EXCEPT ![n] = wire[n]]
    BY <1>2, <1>3
  <2>4. QED
    BY <1>4, <2>2, <2>3
<1>7. QED
  BY <1>3, <1>4, <1>5, <1>6

\* The lane or the connection to one machine changes.
LEMMA WayChange ==
    ASSUME WayOK, NEW n \in Machines, NEW s \in Seq(Texts), NEW k \in Nat, k <= Len(s),
           wire' = [wire EXCEPT ![n] = s], sent' = [sent EXCEPT ![n] = k]
    PROVE  WayOK'
<1>1. wire' \in [Machines -> Seq(Texts)] /\ sent' \in [Machines -> Nat]
  BY DEF WayOK
<1>2. \A m \in Machines :
        /\ wire'[m] = IF m = n THEN s ELSE wire[m]
        /\ sent'[m] = IF m = n THEN k ELSE sent[m]
  BY DEF WayOK
<1>3. \A m \in Machines : sent'[m] <= Len(wire'[m])
  BY <1>2 DEF WayOK
<1>4. QED
  BY <1>1, <1>3 DEF WayOK

LEMMA CliTypes ==
    ASSUME Cli!TypeOK, Cli!Next
    PROVE  Cli!TypeOK'
<1> USE DEF Cli!text, Cli!records, Cli!way, Cli!session, Cli!history
<1> DEFINE Clips == /\ clip \in [Machines -> [text : Texts \cup {Cli!None}, changed : BOOLEAN]]
                    /\ lastText \in [Machines -> Texts \cup {Cli!None}]
                    /\ pending \in [Machines -> Texts \cup {Cli!None}]
                    /\ arriving \in [Machines -> Texts \cup {Cli!None}]
                    /\ inbox \in [Machines -> Texts \cup {Cli!None}]
                    /\ polled \in [Machines -> Texts \cup {Cli!None}]
           Session == /\ joined \in [Machines -> BOOLEAN] /\ opening \in [Machines -> BOOLEAN]
                      /\ ending \in [Machines -> {"no", "drain", "reset"}] /\ alive \in BOOLEAN
           Account == copies \in 0..MaxCopies /\ crossed \in BOOLEAN /\ lost \in BOOLEAN
<1>0. Clips /\ WayOK /\ Session /\ Account
  BY DEF Cli!TypeOK, WayOK
<1>1. Clips' /\ WayOK' /\ Session' /\ Account' => Cli!TypeOK'
  BY DEF Cli!TypeOK, WayOK
<1>2. UNCHANGED Cli!way => WayOK'
  BY <1>0 DEF WayOK
<1>3. ASSUME NEW m \in Machines, NEW new \in Texts, Cli!Copy(m, new)
      PROVE  Cli!TypeOK'
  <2>1. copies' \in 0..MaxCopies
    <3>1. copies < MaxCopies /\ copies' = copies + 1 /\ MaxCopies \in Nat
      BY <1>3, ClipboardAssumption DEF Cli!Copy
    <3>2. QED
      BY <1>0, <3>1
  <2>2. Clips'
    BY <1>0, <1>3 DEF Cli!Copy
  <2>3. crossed' \in BOOLEAN
    BY <1>0, <1>3 DEF Cli!Copy
  <2>4. QED
    BY <1>0, <1>1, <1>2, <1>3, <2>1, <2>2, <2>3 DEF Cli!Copy
<1>4. ASSUME NEW m \in Machines, Cli!Poll(m)
      PROVE  Cli!TypeOK'
  <2>1. Clips'
    BY ZenonT(90), <1>0, <1>4 DEF Cli!Poll
  <2>2. QED
    BY <1>0, <1>1, <1>2, <1>4, <2>1 DEF Cli!Poll
<1>5. ASSUME NEW m \in Machines, Cli!Offer(m)
      PROVE  Cli!TypeOK'
  <2> DEFINE n == Cli!Other(m)
  <2>1. polled[m] \in Texts /\ n \in Machines
    BY <1>0, <1>5, OtherMachine DEF Cli!Offer, Cli!None
  <2>2. WayOK' /\ lost' \in BOOLEAN
    <3>1. /\ Append(wire[n], polled[m]) \in Seq(Texts)
          /\ Len(Append(wire[n], polled[m])) = Len(wire[n]) + 1
          /\ Len(wire[n]) \in Nat /\ sent[n] \in Nat
      BY <1>0, <2>1 DEF WayOK
    <3>2. \/ wire' = [wire EXCEPT ![n] = Append(wire[n], polled[m])]
          \/ wire' = wire
      BY <1>5 DEF Cli!Offer, Cli!Enqueue
    <3>3. sent' = sent /\ lost' \in {lost, TRUE}
      BY <1>5 DEF Cli!Offer, Cli!Enqueue
    <3>4. sent[n] <= Len(Append(wire[n], polled[m]))
      BY <1>0, <2>1, <3>1 DEF WayOK
    <3>5. sent' = [sent EXCEPT ![n] = sent[n]]
      BY <1>0, <3>3 DEF WayOK
    <3> HIDE DEF n
    <3>6. WayOK'
      BY <1>0, <1>2, <2>1, <3>1, <3>2, <3>3, <3>4, <3>5, WayChange
    <3>7. QED
      BY <1>0, <3>3, <3>6
  <2>3. crossed' \in BOOLEAN
    BY <1>0, <1>5 DEF Cli!Offer
  <2>4. Clips'
    BY <1>0, <1>5, <2>1 DEF Cli!Offer, Cli!None
  <2>5. QED
    BY <1>0, <1>1, <1>5, <2>2, <2>3, <2>4 DEF Cli!Offer
<1>6. ASSUME NEW m \in Machines, Cli!Send(m)
      PROVE  Cli!TypeOK'
  <2> DEFINE n == Cli!Other(m)
             s == SubSeq(wire[n], 1, sent[n]) \o SubSeq(wire[n], sent[n] + 2, Len(wire[n]))
  <2>1. /\ n \in Machines /\ wire[n] \in Seq(Texts) /\ sent[n] \in Nat
        /\ Len(wire[n]) \in Nat /\ sent[n] < Len(wire[n])
    BY <1>0, <1>6, OtherMachine DEF Cli!Send, WayOK
  <2>2. /\ s \in Seq(Texts)
        /\ Len(s) = Len(wire[n]) - 1
    <3>1. sent[n] <= Len(wire[n])
      BY <2>1
    <3>2. QED
      BY <2>1, <3>1, CutFacts, Zenon
  <2>3. \/ /\ sent' = [sent EXCEPT ![n] = sent[n] + 1]
           /\ wire' = wire /\ lost' = lost
        \/ /\ wire' = [wire EXCEPT ![n] = s]
           /\ sent' = sent /\ lost' = TRUE
    BY <1>6 DEF Cli!Send
  <2> HIDE DEF n, s
  <2>4. WayOK' /\ lost' \in BOOLEAN
    <3>1. wire = [wire EXCEPT ![n] = wire[n]] /\ sent = [sent EXCEPT ![n] = sent[n]]
      BY <1>0 DEF WayOK
    <3>2. sent[n] + 1 \in Nat /\ sent[n] + 1 <= Len(wire[n]) /\ sent[n] <= Len(s)
      BY <2>1, <2>2
    <3>3. WayOK'
      BY <1>0, <2>1, <2>2, <2>3, <3>1, <3>2, WayChange
    <3>4. QED
      BY <1>0, <2>3, <3>3
  <2>5. QED
    BY <1>0, <1>1, <1>6, <2>4 DEF Cli!Send
<1>7. ASSUME NEW m \in Machines, Cli!Receive(m)
      PROVE  Cli!TypeOK'
  <2>1. wire[m] \in Seq(Texts) /\ sent[m] \in Nat /\ sent[m] > 0 /\ sent[m] <= Len(wire[m])
    BY <1>0, <1>7 DEF Cli!Receive, WayOK
  <2>2. /\ Head(wire[m]) \in Texts /\ Tail(wire[m]) \in Seq(Texts)
        /\ Len(Tail(wire[m])) = Len(wire[m]) - 1
    BY <2>1
  <2>3. /\ wire' = [wire EXCEPT ![m] = Tail(wire[m])]
        /\ sent' = [sent EXCEPT ![m] = sent[m] - 1]
    BY <1>7 DEF Cli!Receive
  <2>4. WayOK'
    BY <1>0, <2>1, <2>2, <2>3 DEF WayOK
  <2>5. Clips'
    BY <1>0, <1>7, <2>2 DEF Cli!Receive
  <2>6. QED
    BY <1>0, <1>1, <1>7, <2>4, <2>5 DEF Cli!Receive
<1>8. ASSUME NEW m \in Machines, Cli!Queue(m)
      PROVE  Cli!TypeOK'
  <2>1. Clips'
    BY <1>0, <1>8 DEF Cli!Queue
  <2>2. QED
    BY <1>0, <1>1, <1>2, <1>8, <2>1 DEF Cli!Queue
<1>9. ASSUME NEW m \in Machines, Cli!Write(m)
      PROVE  Cli!TypeOK'
  <2>1. clip' \in [Machines -> [text : Texts \cup {Cli!None}, changed : BOOLEAN]]
    <3>1. inbox[m] \in Texts \cup {Cli!None}
      BY <1>0
    <3>2. \E new \in [text : Texts \cup {Cli!None}, changed : BOOLEAN] :
             clip' = [clip EXCEPT ![m] = new] \/ clip' = clip
      BY <1>0, <1>9, <3>1 DEF Cli!Write
    <3>3. QED
      BY <1>0, <3>2
  <2>2. lost' \in BOOLEAN
    BY <1>0, <1>9 DEF Cli!Write
  <2>3. Clips'
    BY <1>0, <1>9, <2>1 DEF Cli!Write
  <2>4. QED
    BY <1>0, <1>1, <1>2, <1>9, <2>2, <2>3 DEF Cli!Write
<1>10. ASSUME NEW m \in Machines, Cli!Begin(m)
       PROVE  Cli!TypeOK'
  <2>1. Clips'
    BY <1>0, <1>10 DEF Cli!Begin
  <2>2. QED
    BY <1>0, <1>1, <1>2, <1>10, <2>1 DEF Cli!Begin
<1>11. ASSUME NEW m \in Machines, Cli!End(m)
       PROVE  Cli!TypeOK'
  <2>1. \A n \in Machines :
            /\ sent[n] \in Nat /\ wire[n] \in Seq(Texts) /\ sent[n] <= Len(wire[n])
            /\ SubSeq(wire[n], sent[n] + 1, Len(wire[n])) \in Seq(Texts)
    BY <1>0, CutFacts DEF WayOK
  <2>2. WayOK'
    <3>1. /\ wire' \in [Machines -> Seq(Texts)]
          /\ sent' = [n \in Machines |-> 0]
      BY <1>11, <2>1 DEF Cli!End
    <3>2. \A n \in Machines : sent'[n] = 0 /\ wire'[n] \in Seq(Texts)
      BY <3>1
    <3>3. \A n \in Machines : sent'[n] <= Len(wire'[n])
      BY <3>2
    <3>4. QED
      BY <3>1, <3>3 DEF WayOK
  <2>3. lost' \in BOOLEAN
    BY <1>0, <1>11 DEF Cli!End
  <2>4. QED
    BY <1>0, <1>1, <1>11, <2>2, <2>3 DEF Cli!End
<1>12. ASSUME NEW m \in Machines, Cli!OpenDrain(m) \/ Cli!EndDrain(m)
       PROVE  Cli!TypeOK'
  <2>1. Cli!DrainLanes(m) /\ UNCHANGED <<Cli!text, copies, crossed>>
    BY <1>12 DEF Cli!OpenDrain, Cli!EndDrain
  <2>2. WayOK' /\ lost' \in BOOLEAN
    BY <2>1, DrainTypes
  <2>3. Session'
    BY <1>0, <1>12 DEF Cli!OpenDrain, Cli!EndDrain
  <2>4. QED
    BY <1>0, <1>1, <2>1, <2>2, <2>3
<1>13. ASSUME NEW m \in Machines, Cli!Reset(m)
       PROVE  Cli!TypeOK'
  <2>1. Clips'
    BY <1>0, <1>13 DEF Cli!Reset
  <2>2. QED
    BY <1>0, <1>1, <1>2, <1>13, <2>1 DEF Cli!Reset
<1>14. QED
  BY <1>3, <1>4, <1>5, <1>6, <1>7, <1>8, <1>9, <1>10, <1>11, <1>12, <1>13 DEF Cli!Next

LEMMA CliStep ==
    ASSUME CliInv, Cli!Next
    PROVE  CliInv'
<1> USE DEF Cli!text, Cli!records, Cli!way, Cli!session, Cli!history
<1>1. Cli!TypeOK /\ Cli!TypeOK'
  BY CliTypes DEF CliInv
<1>2. \A m \in Machines :
        /\ clip[m].text \in Texts \cup {""} /\ clip[m].changed \in BOOLEAN
        /\ wire[m] \in Seq(Texts)
  BY ZenonT(90), <1>1 DEF Cli!TypeOK, Cli!None
<1>3. ASSUME UNCHANGED Cli!text, ~lost' => ~lost /\ UNCHANGED wire, crossed' = crossed
      PROVE  CliInv'
  BY <1>1, <1>3 DEF CliInv, Even, Converges, Followed, HeldBack, Received, Together, Final,
     Owes, Cli!Coming
\* A step of one machine that loses nothing.
<1>4. ASSUME NEW p \in Machines, NEW o \in Machines, o = Cli!Other(p),
             Even' => /\ Followed(p)' /\ Followed(o)'
                      /\ HeldBack(p)' /\ HeldBack(o)' /\ Together(p, o)'
      PROVE  CliInv'
  <2>1. \A m \in Machines : m = p \/ m = o
    BY <1>4, OtherMachine
  <2>2. ASSUME Even' PROVE Converges'
    <3>1. \A m \in Machines : Followed(m)' /\ HeldBack(m)'
      BY <1>4, <2>1, <2>2
    <3>2. Together(p, o)' /\ Together(o, p)'
      BY <1>4, <2>2 DEF Together
    <3>3. QED
      BY <2>1, <3>1, <3>2 DEF Converges
  <2>3. QED
    BY <1>1, <2>2 DEF CliInv
<1>5. ASSUME NEW p \in Machines
      PROVE  LET o == Cli!Other(p)
             IN  /\ o \in Machines /\ o # p
                 /\ Even => /\ Followed(p) /\ Followed(o)
                            /\ HeldBack(p) /\ HeldBack(o) /\ Together(p, o)
  BY <1>5, OtherMachine DEF CliInv, Converges
<1>6. ASSUME NEW p \in Machines, NEW new \in Texts, Cli!Copy(p, new)
      PROVE  CliInv'
  <2> DEFINE o == Cli!Other(p)
  <2>1. /\ o \in Machines /\ o # p
        /\ Even => /\ Followed(p) /\ Followed(o)
                   /\ HeldBack(p) /\ HeldBack(o) /\ Together(p, o)
    BY <1>5
  <2> HIDE DEF o
  <2>2. /\ clip'[p].text = new /\ clip'[p].changed /\ clip'[o] = clip[o]
        /\ lastText' = lastText /\ pending' = pending /\ arriving' = arriving
        /\ inbox' = inbox /\ polled' = polled /\ wire' = wire
        /\ Even' => Even /\ Cli!Quiet
        /\ new # Cli!None
    BY ZenonT(90), <1>1, <1>6, <2>1, ClipboardAssumption
       DEF Cli!Copy, Cli!TypeOK, Cli!None, Even
  <2>3. Even' => Followed(p)' /\ Followed(o)'
    BY <2>1, <2>2 DEF Followed, Cli!Coming
  <2>4. ASSUME Even' PROVE HeldBack(p)' /\ HeldBack(o)' /\ Together(p, o)'
    <3>1. \A m \in {p, o} :
            /\ wire[m] = <<>> /\ arriving[m] = Cli!None /\ inbox[m] = Cli!None
            /\ polled[m] = Cli!None /\ (clip[m].changed => clip[m].text = Cli!None)
      BY <2>1, <2>2, <2>4 DEF Cli!Quiet, Cli!Coming
    <3>2. /\ lastText[p] \in {Cli!None, clip[p].text}
          /\ pending[p] \in {Cli!None, clip[p].text}
          /\ clip[p].text = clip[o].text
      BY <2>1, <2>2, <2>4, <3>1
         DEF HeldBack, Received, Followed, Together, Final, Owes, Cli!Coming
    <3>3. HeldBack(p)' /\ HeldBack(o)'
      BY <2>1, <2>2, <2>4, <3>1, <3>2 DEF HeldBack, Received
    <3>4. Together(p, o)'
      BY <2>1, <2>2, <3>1, <3>2 DEF Together, Final, Owes, Cli!Coming
    <3>5. QED
      BY <3>3, <3>4
  <2>5. QED
    BY <1>4, <2>1, <2>3, <2>4 DEF o
<1>7. ASSUME NEW p \in Machines, Cli!Poll(p)
      PROVE  CliInv'
  <2> DEFINE o == Cli!Other(p)
  <2>1. /\ o \in Machines /\ o # p
        /\ Even => /\ Followed(p) /\ Followed(o)
                   /\ HeldBack(p) /\ HeldBack(o) /\ Together(p, o)
    BY <1>5
  <2> HIDE DEF o
  <2>2. /\ clip'[p].text = clip[p].text /\ ~clip'[p].changed /\ clip'[o] = clip[o]
        /\ polled'[p] = clip[p].text /\ polled'[o] = polled[o]
        /\ polled[p] = Cli!None /\ clip[p].changed /\ clip[p].text # Cli!None
        /\ lastText' = lastText /\ pending' = pending /\ arriving' = arriving
        /\ inbox' = inbox /\ wire' = wire /\ (Even' <=> Even)
    BY <1>1, <1>7, <2>1 DEF Cli!Poll, Cli!TypeOK, Even
  <2>3. Even' => Followed(p)' /\ Followed(o)'
    BY <2>1, <2>2 DEF Followed, Cli!Coming
  <2>4. Even' => HeldBack(p)' /\ HeldBack(o)'
    BY <2>1, <2>2 DEF HeldBack, Received
  <2>5. Even' => Together(p, o)'
    BY <2>1, <2>2 DEF Together, Final, Owes, Cli!Coming
  <2>6. QED
    BY <1>4, <2>1, <2>3, <2>4, <2>5 DEF o
<1>8. ASSUME NEW p \in Machines, Cli!Offer(p)
      PROVE  CliInv'
  <2> DEFINE o == Cli!Other(p)
  <2>1. /\ o \in Machines /\ o # p
        /\ Even => /\ Followed(p) /\ Followed(o)
                   /\ HeldBack(p) /\ HeldBack(o) /\ Together(p, o)
    BY <1>5
  <2>2. /\ clip' = clip /\ arriving' = arriving /\ inbox' = inbox
        /\ polled[p] # Cli!None /\ polled'[p] = Cli!None /\ polled'[o] = polled[o]
        /\ lastText'[p] = polled[p] /\ lastText'[o] = lastText[o]
        /\ pending'[p] = IF polled[p] = lastText[p] THEN pending[p] ELSE Cli!None
        /\ pending'[o] = pending[o]
        /\ wire'[p] = wire[p]
        /\ Even' => Even /\ ~(Cli!Fresh(p) /\ Cli!Coming(p))
    BY ZenonT(90), <1>1, <1>8, <2>1 DEF Cli!Offer, Cli!Enqueue, Cli!TypeOK, Even
  <2>3. Even => clip[p].text # Cli!None
    BY <2>1, <2>2 DEF Followed
  <2>4. Even' =>
        /\ Cli!Fresh(p) => wire'[o] # <<>> /\ wire'[o][Len(wire'[o])] = polled[p]
        /\ ~Cli!Fresh(p) => wire'[o] = wire[o]
    <3>1. polled[p] \in Texts /\ wire[o] \in Seq(Texts)
      BY <1>1, <2>1, <2>2 DEF Cli!TypeOK, Cli!None
    <3>2. Even' => /\ Cli!Fresh(p) => wire'[o] = Append(wire[o], polled[p])
                   /\ ~Cli!Fresh(p) => wire'[o] = wire[o]
      BY <1>1, <1>8, <2>1 DEF Cli!Offer, Cli!Enqueue, Cli!TypeOK, Even
    <3>3. QED
      BY <3>1, <3>2, LastOfAppend
  <2> HIDE DEF o
  <2>5. Even' => Followed(p)' /\ Followed(o)'
    <3>1. Even' => Followed(p)'
      BY <2>1, <2>2, <2>3 DEF Followed
    <3>2. Even' => Followed(o)'
      BY <2>1, <2>2, <2>4 DEF Followed, Cli!Coming
    <3>3. QED
      BY <3>1, <3>2
  <2>6. Even' => HeldBack(p)' /\ HeldBack(o)'
    BY <2>1, <2>2, <2>3 DEF HeldBack, Received
  <2>7. ASSUME Even' PROVE Together(p, o)'
    <3>1. /\ Even /\ Together(p, o)
          /\ Cli!Coming(p)' <=> Cli!Coming(p)
          /\ Final(p)' = Final(p)
      BY <2>1, <2>2, <2>7 DEF Cli!Coming, Final
    <3>2. CASE Cli!Fresh(p)
      <4>1. ~Cli!Coming(p) /\ Final(p)' = clip[p].text /\ Final(o)' = polled[p]
        BY <2>2, <2>4, <2>7, <3>1, <3>2 DEF Cli!Coming, Final
      <4>2. polled[p] # clip[p].text => Owes(p)'
        BY <2>1, <2>2, <2>3, <3>1, <3>2, <4>1 DEF Owes, Followed, Cli!Fresh
      <4>3. QED
        BY <2>1, <2>2, <2>3, <3>1, <4>1, <4>2 DEF Together
    <3>3. CASE ~Cli!Fresh(p)
      <4>1. /\ Cli!Coming(o)' <=> Cli!Coming(o)
            /\ Final(o)' = Final(o) /\ (Owes(o) => Owes(o)')
        BY <2>2, <2>4, <2>7, <3>3 DEF Cli!Coming, Final, Owes
      <4>2. Owes(p) => Owes(p)'
        BY <2>1, <2>2, <2>3, <3>1, <3>3 DEF Owes, Followed, Cli!Fresh
      <4>3. QED
        BY <2>2, <3>1, <4>1, <4>2 DEF Together
    <3>4. QED
      BY <3>2, <3>3
  <2>8. QED
    BY <1>4, <2>1, <2>5, <2>6, <2>7 DEF o
<1>9. ASSUME NEW p \in Machines, Cli!Receive(p)
      PROVE  CliInv'
  <2> DEFINE o == Cli!Other(p)
  <2>1. /\ o \in Machines /\ o # p
        /\ Even => /\ Followed(p) /\ Followed(o)
                   /\ HeldBack(p) /\ HeldBack(o) /\ Together(p, o)
    BY <1>5
  <2> HIDE DEF o
  <2>2. /\ wire[p] \in Seq(Texts) /\ wire[p] # <<>> /\ arriving[p] = Cli!None
        /\ wire'[p] = Tail(wire[p]) /\ wire'[o] = wire[o]
        /\ arriving'[p] = Head(wire[p]) /\ arriving'[o] = arriving[o]
        /\ pending'[p] \in {Cli!None, Head(wire[p])} /\ pending'[o] = pending[o]
        /\ clip' = clip /\ lastText' = lastText /\ inbox' = inbox
        /\ polled' = polled /\ (Even' <=> Even)
    <3>1. wire[p] \in Seq(Texts) /\ wire[p] # <<>>
      BY <1>1, <1>9 DEF Cli!Receive, Cli!TypeOK
    <3>2. QED
      BY <1>1, <1>9, <2>1, <3>1 DEF Cli!Receive, Cli!TypeOK, Even
  <2>3. /\ Head(wire[p]) # Cli!None
        /\ Tail(wire[p]) = <<>> => wire[p][Len(wire[p])] = Head(wire[p])
        /\ Tail(wire[p]) # <<>> =>
            Tail(wire[p])[Len(Tail(wire[p]))] = wire[p][Len(wire[p])]
    BY <2>2, LastOfTail, ClipboardAssumption DEF Cli!None
  <2>4. Cli!Coming(p) /\ Cli!Coming(p)' /\ Final(p)' = Final(p)
    BY <2>2, <2>3 DEF Cli!Coming, Final
  <2>5. Even' => Followed(p)' /\ Followed(o)'
    BY <2>1, <2>2, <2>4 DEF Followed, Cli!Coming
  <2>6. Even' => HeldBack(p)' /\ HeldBack(o)'
    BY <2>1, <2>2, <2>3 DEF HeldBack, Received
  <2>7. Even' => Together(p, o)'
    <3>1. Final(o)' = Final(o) /\ (Cli!Coming(o)' <=> Cli!Coming(o)) /\ (Owes(o) => Owes(o)')
      BY <2>2 DEF Final, Cli!Coming, Owes
    <3>2. ~Owes(p)
      BY <2>4 DEF Owes
    <3>3. QED
      BY <2>1, <2>2, <2>4, <3>1, <3>2 DEF Together
  <2>8. QED
    BY <1>4, <2>1, <2>5, <2>6, <2>7 DEF o
<1>10. ASSUME NEW p \in Machines, Cli!Queue(p) \/ Cli!Write(p), Even'
       PROVE  CliInv'
  <2> DEFINE o == Cli!Other(p)
  <2>1. /\ o \in Machines /\ o # p
        /\ Even => /\ Followed(p) /\ Followed(o)
                   /\ HeldBack(p) /\ HeldBack(o) /\ Together(p, o)
    BY <1>5
  <2> HIDE DEF o
  <2>2. /\ clip'[o] = clip[o] /\ arriving'[o] = arriving[o] /\ inbox'[o] = inbox[o]
        /\ lastText' = lastText /\ pending' = pending /\ polled' = polled
        /\ wire' = wire /\ Even
    BY <1>1, <1>10, <2>1 DEF Cli!Queue, Cli!Write, Cli!TypeOK, Even
  <2>3. \/ /\ arriving[p] # Cli!None /\ inbox'[p] = arriving[p]
           /\ arriving'[p] = Cli!None /\ clip' = clip
        \/ /\ inbox[p] # Cli!None /\ clip'[p].text = inbox[p] /\ clip'[p].changed
           /\ inbox'[p] = Cli!None /\ arriving' = arriving
    BY <1>1, <1>10 DEF Cli!Queue, Cli!Write, Cli!TypeOK, Even
  <2>4. /\ Cli!Coming(p) /\ Final(p)' = Final(p) /\ Received(p)' = Received(p)
        /\ ~Owes(p)
    BY <2>2, <2>3 DEF Cli!Coming, Final, Received, Owes
  <2>5. Followed(p)' /\ Followed(o)'
    <3>1. inbox[p] # Cli!None => inbox[p] \in Texts /\ inbox[p] # ""
      BY <1>1, ClipboardAssumption DEF Cli!TypeOK, Cli!None
    <3>2. QED
      BY <2>1, <2>2, <2>3, <3>1 DEF Followed, Cli!Coming, Cli!None
  <2>6. Even' => HeldBack(p)' /\ HeldBack(o)'
    BY <2>1, <2>2, <2>3, <2>4 DEF HeldBack, Received
  <2>7. Even' => Together(p, o)'
    <3>1. Final(o)' = Final(o) /\ (Cli!Coming(o)' <=> Cli!Coming(o)) /\ (Owes(o) => Owes(o)')
      BY <2>2 DEF Final, Cli!Coming, Owes
    <3>2. QED
      BY <2>1, <2>2, <2>4, <3>1 DEF Together
  <2>8. QED
    BY <1>4, <2>1, <2>5, <2>6, <2>7 DEF o
<1>11. ASSUME NEW p \in Machines, Cli!Queue(p) \/ Cli!Write(p), ~Even'
       PROVE  CliInv'
  BY <1>1, <1>11 DEF CliInv
<1>12. ASSUME NEW p \in Machines, Cli!Begin(p) \/ Cli!Reset(p)
       PROVE  CliInv'
  <2> DEFINE o == Cli!Other(p)
  <2>1. /\ o \in Machines /\ o # p
        /\ Even => /\ Followed(p) /\ Followed(o)
                   /\ HeldBack(p) /\ HeldBack(o) /\ Together(p, o)
    BY <1>5
  <2> HIDE DEF o
  <2>2. /\ clip'[p].text = clip[p].text /\ clip'[o] = clip[o]
        /\ clip[p].changed => clip'[p].changed
        /\ arriving' = arriving /\ inbox' = inbox /\ polled' = polled /\ wire' = wire
        /\ lastText'[o] = lastText[o] /\ pending'[o] = pending[o]
        /\ Even' <=> Even
    BY <1>1, <1>12, <2>1 DEF Cli!Begin, Cli!Reset, Cli!TypeOK, Even
  <2>3. \/ /\ clip'[p].changed /\ lastText'[p] = lastText[p] /\ pending'[p] = pending[p]
        \/ /\ clip' = clip /\ lastText'[p] = Cli!None /\ pending'[p] = Cli!None
    BY <1>1, <1>12 DEF Cli!Begin, Cli!Reset, Cli!TypeOK
  <2>4. Even' => Followed(p)' /\ Followed(o)'
    BY <2>1, <2>2, <2>3 DEF Followed, Cli!Coming
  <2>5. Even' => HeldBack(p)' /\ HeldBack(o)'
    BY <2>1, <2>2, <2>3 DEF HeldBack, Received
  <2>6. Even' => Together(p, o)'
    <3>1. \A m \in {p, o} :
            /\ Final(m)' = Final(m) /\ (Cli!Coming(m)' <=> Cli!Coming(m))
            /\ Owes(m) => Owes(m)'
      BY <2>2, <2>3 DEF Final, Cli!Coming, Owes
    <3>2. QED
      BY <2>1, <2>2, <3>1 DEF Together
  <2>7. QED
    BY <1>4, <2>1, <2>4, <2>5, <2>6 DEF o
<1>13. ASSUME NEW p \in Machines, Cli!Send(p)
       PROVE  CliInv'
  <2>1. UNCHANGED Cli!text /\ crossed' = crossed /\ (~lost' => ~lost /\ UNCHANGED wire)
    BY <1>13 DEF Cli!Send
  <2>2. QED
    BY <1>3, <2>1
<1>14. ASSUME NEW p \in Machines, Cli!OpenDrain(p) \/ Cli!EndDrain(p)
       PROVE  CliInv'
  <2>1. Cli!DrainLanes(p) /\ UNCHANGED Cli!text /\ crossed' = crossed
    BY <1>14 DEF Cli!OpenDrain, Cli!EndDrain
  <2>2. ~lost' => ~lost /\ UNCHANGED wire
    BY <1>1, <2>1, DrainTypes
  <2>3. QED
    BY <1>3, <2>1, <2>2
<1>15. ASSUME NEW p \in Machines, Cli!End(p)
       PROVE  CliInv'
  <2>1. UNCHANGED Cli!text /\ crossed' = crossed
    BY <1>15 DEF Cli!End
  <2>2. ASSUME ~lost' PROVE ~lost /\ UNCHANGED wire
    <3>1. ~lost /\ \A n \in Machines : ~(sent[n] > 0)
      BY <1>15, <2>2 DEF Cli!End
    <3>2. \A n \in Machines : sent[n] = 0 /\ wire[n] \in Seq(Texts)
      BY <1>1, <3>1 DEF Cli!TypeOK
    <3>3. \A n \in Machines : SubSeq(wire[n], sent[n] + 1, Len(wire[n])) = wire[n]
      BY <3>2, CutFacts
    <3>4. wire' = [n \in Machines |-> wire[n]]
      BY <1>15, <3>3 DEF Cli!End
    <3>5. QED
      BY <1>1, <3>1, <3>4 DEF Cli!TypeOK
  <2>3. QED
    BY <1>3, <2>1, <2>2
<1>16. QED
  BY <1>6, <1>7, <1>8, <1>9, <1>10, <1>11, <1>12, <1>13, <1>14, <1>15 DEF Cli!Next

LEMMA CliIsInvariant == Spec => [](on = "clipboard" => CliInv)
<1>1. Init => (on = "clipboard" => CliInv)
  BY CliInit DEF Init
<1>2. (on = "clipboard" => CliInv) /\ [Next]_vars => (on = "clipboard" => CliInv)'
  <2>1. CliInv /\ UNCHANGED cliVars => CliInv'
    BY DEF CliInv, Even, Cli!TypeOK, Followed, Converges, Together, HeldBack, Received, Final,
       Owes, Cli!Coming, cliVars
  <2>2. QED
    BY <2>1, CliStep, StepOfOnePart
<1>3. QED
  BY <1>1, <1>2, PTL DEF Spec

\* Clipboards that settle are equal, unless copies crossed or a text was lost:
\* whatever is still to be sent is the text of the machine that will send it
\* (clipboard_sync.go).
THEOREM AgreeTheorem == Spec => []AgreeUnlessCrossed
<1>1. (on = "clipboard" => CliInv) => AgreeUnlessCrossed
  <2> SUFFICES ASSUME CliInv, Cli!Quiet, ~crossed, ~lost,
                      NEW m \in Machines, NEW n \in Machines, m # n
               PROVE  clip[m].text = clip[n].text
    BY DEF AgreeUnlessCrossed, Cli!AgreeUnlessCrossed
  <2>1. \A p \in {m, n} :
          Final(p) = clip[p].text /\ ~Owes(p)
    BY DEF Cli!Quiet, Cli!Coming, Final, Owes
  <2>2. QED
    BY <2>1 DEF CliInv, Even, Converges, Together
<1>2. QED
  BY <1>1, CliIsInvariant, PTL

(***************************************************************************)
(* MediaControl.                                                           *)
(***************************************************************************)

\* Reconciliations exclude each other.  Whatever one of an older generation
\* still does, one of the newest comes after it; and that one starts what the
\* mode says.
Inside(j) == jobs[j].pc \notin {"idle", "lock"}

JobsOK ==
    /\ \A i, j \in Jobs : Inside(i) /\ Inside(j) => i = j
    /\ \A j \in Jobs :
        /\ Inside(j) /\ ~jobs[j].current =>
            \E i \in Jobs : jobs[i].current /\ jobs[i].pc = "lock"
        /\ jobs[j].current /\ jobs[j].pc = "start" => jobs[j].mode = mode

\* Where the session and the callbacks stand, unless two sessions overlapped.
LinkOK ==
    /\ ~linked => ~asked /\ ~away
    /\ notifier = "idle" => ~stateChangePending
    /\ ~raced =>
        /\ disconnect # "idle" => ~linked
        /\ connect.pc # "idle" => linked
        /\ connect.pc = "role" => ~controller /\ ~away
        /\ ~linked /\ disconnect = "idle" => ~controller

\* The second half of stopAllAudio is still to come.
SilenceAhead == disconnect = "silence" \/ \E j \in Jobs : jobs[j].pc = "silence"

\* A start that follows the settings is still to come.
StartAhead ==
    \/ Med!NoteAhead
    \/ \E j \in Jobs : jobs[j].current /\ jobs[j].pc # "idle"
    \/ connect.pc = "read" /\ timing = "always"
    \/ connect.pc = "start" /\ connect.mode = mode

\* What runs and should not will be stopped.
Surplus ==
    /\ capturing => (Med!Due /\ mode = "local") \/ Med!StopAhead
    /\ asked => (Med!Due /\ mode = "remote") \/ Med!StopAhead \/ SilenceAhead
    /\ playing => (linked /\ mode = "remote") \/ Med!StopAhead \/ SilenceAhead

\* What should run and does not will be started.
Deficit ==
    /\ Med!Due /\ mode = "local" =>
        capturing \/ StartAhead \/ (change.pc = "start" /\ change.of = "capture")
    /\ Med!Due /\ mode = "remote" => asked \/ StartAhead

MedInv == Med!TypeOK /\ JobsOK /\ LinkOK /\ (~raced => Surplus /\ Deficit)

LEMMA MedInit == Med!Init => MedInv
<1> SUFFICES ASSUME Med!Init PROVE MedInv
  OBVIOUS
<1>1. Med!TypeOK
  <2>1. owed \in 0..MaxNotes
    BY MediaAssumption DEF Med!Init
  <2>2. jobs \in [Jobs -> [pc : Med!JobSteps, current : BOOLEAN, mode : Med!ModeSet]]
    BY DEF Med!Init, Med!Rest, Med!JobSteps, Med!ModeSet
  <2>3. QED
    BY <2>1, <2>2 DEF Med!Init, Med!TypeOK, Med!ModeSet
<1>2. JobsOK /\ LinkOK
  BY DEF Med!Init, Med!Rest, JobsOK, Inside, LinkOK
<1>3. Surplus /\ Deficit
  BY DEF Med!Init, Surplus, Deficit, Med!Due
<1>4. QED
  BY <1>1, <1>2, <1>3 DEF MedInv

\* What the steps of one reconciliation do to the reconciliations.
JobRecord == [pc : Med!JobSteps, current : BOOLEAN, mode : Med!ModeSet]

LEMMA Scheduled ==
    ASSUME Med!TypeOK, Med!Schedule
    PROVE  /\ jobs' \in [Jobs -> JobRecord]
           /\ \E j \in Jobs :
                /\ jobs[j].pc = "idle"
                /\ jobs'[j].pc = "lock" /\ jobs'[j].current
                /\ \A i \in Jobs \ {j} :
                    /\ jobs'[i].pc = jobs[i].pc /\ jobs'[i].mode = jobs[i].mode
                    /\ ~jobs'[i].current
<1>1. PICK j \in Jobs :
        /\ jobs[j].pc = "idle"
        /\ jobs' = [i \in Jobs |->
            IF i = j THEN [Med!Rest EXCEPT !.pc = "lock", !.current = TRUE]
            ELSE [jobs[i] EXCEPT !.current = FALSE]]
  BY DEF Med!Schedule
<1>2. \A i \in Jobs : jobs[i] \in JobRecord
  BY DEF Med!TypeOK, JobRecord
<1>3. /\ jobs'[j] = [pc |-> "lock", current |-> TRUE, mode |-> "off"]
      /\ jobs'[j] \in JobRecord
  BY <1>1 DEF Med!Rest, JobRecord, Med!JobSteps, Med!ModeSet
<1>4. \A i \in Jobs \ {j} :
        /\ jobs'[i].pc = jobs[i].pc /\ jobs'[i].mode = jobs[i].mode
        /\ ~jobs'[i].current /\ jobs'[i] \in JobRecord
  BY <1>1, <1>2 DEF JobRecord
<1>5. jobs' \in [Jobs -> JobRecord]
  BY <1>1, <1>3, <1>4
<1>6. QED
  BY <1>1, <1>3, <1>4, <1>5

\* Job j moves on, or it is over.
Moved(j, label) ==
    /\ jobs'[j].pc = label /\ jobs'[j].current = jobs[j].current
    /\ \A i \in Jobs \ {j} : jobs'[i] = jobs[i]

Over(j) ==
    /\ jobs'[j].pc = "idle" /\ ~jobs'[j].current
    /\ \A i \in Jobs \ {j} : jobs'[i] = jobs[i]

LEMMA JobMoves ==
    ASSUME Med!TypeOK, NEW j \in Jobs, Med!Job(j)
    PROVE  /\ jobs' \in [Jobs -> JobRecord]
           /\ \/ /\ jobs[j].pc = "lock" /\ \A i \in Jobs : ~Inside(i)
                 /\ IF jobs[j].current THEN Moved(j, "stop") ELSE Over(j)
              \/ jobs[j].pc = "stop" /\ Moved(j, "silence")
              \/ jobs[j].pc = "silence" /\ Moved(j, "check")
              \/ /\ jobs[j].pc = "check"
                 /\ IF jobs[j].current /\ linked /\ controller THEN Moved(j, "read") ELSE Over(j)
              \/ /\ jobs[j].pc = "read"
                 /\ IF timing = "always" \/ away
                    THEN Moved(j, "start") /\ jobs'[j].mode = mode
                    ELSE Over(j)
              \/ jobs[j].pc = "start" /\ Over(j)
<1>1. \A i \in Jobs : jobs[i] \in JobRecord
  BY DEF Med!TypeOK, JobRecord
<1>2. mode \in Med!ModeSet /\ jobs \in [Jobs -> JobRecord]
  BY DEF Med!TypeOK, JobRecord
<1>3. ASSUME NEW label \in Med!JobSteps, Med!Goto(j, label)
      PROVE  Moved(j, label) /\ jobs' \in [Jobs -> JobRecord]
  BY <1>1, <1>2, <1>3 DEF Med!Goto, Moved, JobRecord
<1>4. ASSUME Med!Ends(j)
      PROVE  Over(j) /\ jobs' \in [Jobs -> JobRecord]
  BY <1>1, <1>2, <1>4 DEF Med!Ends, Med!Rest, Over, JobRecord, Med!JobSteps, Med!ModeSet
<1>5. {"stop", "silence", "check", "read", "start"} \subseteq Med!JobSteps
  BY DEF Med!JobSteps
<1>6. CASE Med!JobLocks(j)
  BY <1>3, <1>4, <1>5, <1>6 DEF Med!JobLocks, Med!At, Inside
<1>7. CASE Med!JobStops(j) \/ Med!JobSilences(j)
  BY <1>3, <1>5, <1>7 DEF Med!JobStops, Med!JobSilences, Med!At
<1>8. CASE Med!JobChecks(j)
  BY <1>3, <1>4, <1>5, <1>8 DEF Med!JobChecks, Med!At
<1>9. CASE Med!JobReads(j)
  <2>1. CASE timing = "always" \/ away
    <3>1. jobs' = [jobs EXCEPT ![j].pc = "start", ![j].mode = mode]
      BY <1>9, <2>1 DEF Med!JobReads
    <3>2. /\ Moved(j, "start") /\ jobs'[j].mode = mode
          /\ jobs'[j] \in JobRecord
      BY <1>1, <1>2, <1>5, <3>1 DEF Moved, JobRecord
    <3>3. jobs' \in [Jobs -> JobRecord]
      BY <1>2, <3>1, <3>2
    <3>4. QED
      BY <1>9, <2>1, <3>2, <3>3 DEF Med!JobReads, Med!At
  <2>2. CASE ~(timing = "always" \/ away)
    BY <1>4, <1>9, <2>2 DEF Med!JobReads, Med!At
  <2>3. QED
    BY <2>1, <2>2
<1>10. CASE Med!At(j, "start") /\ Med!Ends(j)
  BY <1>4, <1>10 DEF Med!At
<1>11. QED
  BY <1>6, <1>7, <1>8, <1>9, <1>10 DEF Med!Job

LEMMA MedTypes ==
    ASSUME Med!TypeOK, Med!Next
    PROVE  Med!TypeOK'
<1>2. CASE \E m \in Med!ModeSet : Med!SetAudioMode(m)
  BY <1>2, Scheduled DEF Med!SetAudioMode, Med!notes, Med!session, Med!streams, Med!TypeOK, JobRecord
<1>3. CASE \E t \in {"always", "switched"} : Med!SetAudioTiming(t)
  BY <1>3, Scheduled DEF Med!SetAudioTiming, Med!notes, Med!session, Med!streams, Med!TypeOK, JobRecord
<1>1. (Med!Owe => owed' \in 0..MaxNotes) /\ owed \in 0..MaxNotes
  BY MediaAssumption DEF Med!Owe, Med!TypeOK
<1>4. CASE Med!HookSwitches
  <2>1. away' = ~away /\ raced' = (raced \/ ~controller) /\ owed' \in 0..MaxNotes
    BY <1>1, <1>4 DEF Med!HookSwitches
  <2>2. away' \in BOOLEAN /\ raced' \in BOOLEAN
    BY <2>1
  <2>3. QED
    BY <1>4, <2>1, <2>2 DEF Med!HookSwitches, Med!session, Med!streams, Med!threads, Med!TypeOK
<1>15. CASE Med!NotifyStateChange
  <2>1. owed' \in 0..MaxNotes
    BY <1>1, <1>15, MediaAssumption DEF Med!NotifyStateChange
  <2>2. /\ stateChangePending' \in BOOLEAN
        /\ notifier' \in {"idle", "role", "timing", "schedule", "decide", "finish"}
    BY <1>15 DEF Med!NotifyStateChange, Med!TypeOK
  <2>3. QED
    BY <1>15, <2>1, <2>2 DEF Med!NotifyStateChange, Med!settings, Med!session, Med!streams,
       Med!threads, Med!TypeOK
<1>16. CASE Med!Notifier
  <2>1. jobs' \in [Jobs -> JobRecord]
    BY <1>16, Scheduled DEF Med!Notifier, Med!HandleControlStateChange, Med!NotifierGoesOn,
       Med!TypeOK, JobRecord
  <2>2. /\ stateChangePending' \in BOOLEAN /\ raced' \in BOOLEAN
        /\ notifier' \in {"idle", "role", "timing", "schedule", "decide", "finish"}
    BY <1>16 DEF Med!Notifier, Med!HandleControlStateChange, Med!NotifierGoesOn, Med!Now,
       Med!TypeOK
  <2>3. QED
    BY <1>16, <2>1, <2>2 DEF Med!Notifier, Med!settings, Med!session, Med!streams,
       Med!TypeOK, JobRecord
<1>5. ASSUME NEW j \in Jobs, Med!Job(j)
      PROVE  Med!TypeOK'
  <2>1. jobs' \in [Jobs -> JobRecord]
    BY <1>5, JobMoves
  <2>2. capturing' \in BOOLEAN /\ playing' \in BOOLEAN /\ asked' \in BOOLEAN /\ raced' \in BOOLEAN
    BY <1>5 DEF Med!Job, Med!JobLocks, Med!JobStops, Med!JobSilences, Med!JobChecks,
       Med!JobReads, Med!StartFor, Med!StopCapture, Med!Silence, Med!Race, Med!streams,
       Med!TypeOK
  <2>3. QED
    BY <1>5, <2>1, <2>2 DEF Med!Job, Med!notes, Med!settings, Med!session, Med!TypeOK, JobRecord
<1>6. CASE Med!SessionBegins
  BY <1>6 DEF Med!SessionBegins, Med!notes, Med!settings, Med!streams, Med!TypeOK
<1>7. CASE Med!OnConnect
  <2>1. connect' \in [pc : {"idle", "role", "read", "start"}, mode : Med!ModeSet]
    BY <1>7 DEF Med!OnConnect, Med!TypeOK, Med!ModeSet
  <2>2. controller' \in BOOLEAN /\ capturing' \in BOOLEAN /\ playing' \in BOOLEAN
        /\ asked' \in BOOLEAN /\ raced' \in BOOLEAN
    BY <1>7 DEF Med!OnConnect, Med!StartFor, Med!Race, Med!streams, Med!TypeOK
  <2>3. QED
    BY <1>7, <2>1, <2>2 DEF Med!OnConnect, Med!notes, Med!settings, Med!TypeOK
<1>8. CASE Med!SessionEnds
  <2>1. owed' \in 0..MaxNotes
    BY <1>1, <1>8 DEF Med!SessionEnds
  <2>2. /\ raced' \in BOOLEAN /\ linked' = FALSE /\ asked' = FALSE /\ away' = FALSE
        /\ disconnect' = "stop"
        /\ UNCHANGED <<mode, timing, notifier, stateChangePending, controller, capturing, playing,
                       jobs, connect, change, inbound>>
    BY <1>8 DEF Med!SessionEnds, Med!TypeOK
  <2>3. QED
    <3>1. /\ mode' \in Med!ModeSet /\ timing' \in {"always", "switched"}
          /\ notifier' \in {"idle", "role", "timing", "schedule", "decide", "finish"}
          /\ jobs' \in [Jobs -> [pc : Med!JobSteps, current : BOOLEAN, mode : Med!ModeSet]]
          /\ connect' \in [pc : {"idle", "role", "read", "start"}, mode : Med!ModeSet]
          /\ disconnect' \in {"idle", "stop", "silence", "role"}
          /\ change' \in [pc : {"idle", "stop", "start"}, of : {"capture", "playback"}]
      BY <2>2 DEF Med!TypeOK
    <3>2. /\ stateChangePending' \in BOOLEAN /\ controller' \in BOOLEAN /\ inbound' \in BOOLEAN
          /\ capturing' \in BOOLEAN /\ playing' \in BOOLEAN /\ linked' \in BOOLEAN
          /\ asked' \in BOOLEAN /\ away' \in BOOLEAN
      BY <2>2 DEF Med!TypeOK
    <3>3. QED
      BY <2>1, <2>2, <3>1, <3>2 DEF Med!TypeOK
<1>9. CASE Med!OnDisconnect
  <2>1. disconnect' \in {"idle", "stop", "silence", "role"}
    BY <1>9 DEF Med!OnDisconnect
  <2>2. controller' \in BOOLEAN /\ capturing' \in BOOLEAN /\ playing' \in BOOLEAN
        /\ asked' \in BOOLEAN
    BY <1>9 DEF Med!OnDisconnect, Med!StopCapture, Med!Silence, Med!streams, Med!TypeOK
  <2>3. QED
    BY <1>9, <2>1, <2>2 DEF Med!OnDisconnect, Med!notes, Med!settings, Med!TypeOK
<1>10. CASE \E of \in {"capture", "playback"} : Med!ChangeDevice(of)
  BY <1>10 DEF Med!ChangeDevice, Med!notes, Med!settings, Med!session, Med!streams, Med!TypeOK
<1>11. CASE Med!Restart
  <2>1. change' \in [pc : {"idle", "stop", "start"}, of : {"capture", "playback"}]
    BY <1>11 DEF Med!Restart, Med!TypeOK
  <2>2. capturing' \in BOOLEAN /\ playing' \in BOOLEAN /\ asked' \in BOOLEAN
        /\ raced' \in BOOLEAN
    BY <1>11 DEF Med!Restart, Med!Race, Med!TypeOK
  <2>3. QED
    BY <1>11, <2>1, <2>2 DEF Med!Restart, Med!notes, Med!settings, Med!session, Med!TypeOK
<1>12. CASE Med!Accept
  BY <1>12 DEF Med!Accept, Med!notes, Med!settings, Med!session, Med!streams, Med!TypeOK
<1>13. CASE Med!Play
  <2>1. playing' \in BOOLEAN /\ inbound' \in BOOLEAN /\ raced' \in BOOLEAN
    BY <1>13 DEF Med!Play, Med!Race, Med!TypeOK
  <2>2. QED
    BY <1>13, <2>1 DEF Med!Play, Med!notes, Med!settings, Med!session, Med!TypeOK
<1>14. QED
  BY <1>2, <1>3, <1>4, <1>5, <1>6, <1>7, <1>8, <1>9, <1>10, <1>11, <1>12, <1>13,
     <1>15, <1>16 DEF Med!Next

LEMMA JobsStep ==
    ASSUME Med!TypeOK, JobsOK, Med!Next
    PROVE  JobsOK'
<1>1. ASSUME Med!Schedule
      PROVE  JobsOK'
  BY <1>1, Scheduled DEF JobsOK, Inside
<1>2. CASE mode' = mode /\ jobs' = jobs
  BY <1>2 DEF JobsOK, Inside
<1>3. ASSUME NEW j \in Jobs, Med!Job(j)
      PROVE  JobsOK'
  <2>1. mode' = mode
    BY <1>3 DEF Med!Job, Med!settings
  <2>2. CASE jobs[j].pc = "lock"
    BY <1>3, <2>1, <2>2, JobMoves DEF JobsOK, Inside, Moved, Over
  <2>3. CASE Inside(j)
    <3>1. /\ jobs'[j].current = jobs[j].current \/ jobs'[j].pc = "idle"
          /\ jobs'[j].pc # "lock"
          /\ jobs'[j].pc = "start" => jobs'[j].mode = mode
          /\ \A i \in Jobs \ {j} : jobs'[i] = jobs[i]
      BY <1>3, <2>3, JobMoves DEF Inside, Moved, Over
    <3>2. QED
      BY <2>1, <2>3, <3>1 DEF JobsOK, Inside
  <2>4. QED
    BY <1>3, <2>2, <2>3, JobMoves DEF Inside
<1>4. QED
  BY <1>1, <1>2, <1>3
     DEF Med!Next, Med!SetAudioMode, Med!SetAudioTiming, Med!HookSwitches, Med!threads,
         Med!NotifyStateChange, Med!Notifier, Med!HandleControlStateChange, Med!NotifierGoesOn,
         Med!SessionBegins, Med!OnConnect, Med!SessionEnds, Med!OnDisconnect,
         Med!ChangeDevice, Med!Restart, Med!Accept, Med!Play, Med!settings

\* A start never asks a peer that is not there; what raced stays so.
LEMMA Starts ==
    ASSUME Med!TypeOK, NEW m, Med!StartFor(m)
    PROVE  /\ capturing' <=> capturing \/ m = "local"
           /\ asked' <=> asked \/ (m = "remote" /\ linked)
           /\ playing' = playing
           /\ raced => raced'
           /\ ~raced' => \/ m = "off" \/ Med!StopAhead
                         \/ Med!Due /\ mode = m
<1>1. /\ capturing' = (capturing \/ m = "local")
      /\ asked' = (asked \/ (m = "remote" /\ linked))
      /\ playing' = playing
      /\ raced' = (raced \/ ~((m = "off" \/ (Med!Due /\ mode = m)) \/ Med!StopAhead))
  BY DEF Med!StartFor, Med!Race
<1>2. QED
  BY <1>1, Zenon

LEMMA Stops ==
    ASSUME Med!TypeOK
    PROVE  /\ Med!StopCapture => ~capturing' /\ playing' = playing /\ asked' = asked
           /\ Med!Silence => /\ ~playing' /\ capturing' = capturing
                             /\ asked' <=> asked /\ ~linked
<1>1. Med!Silence => asked' = (asked /\ ~linked)
  BY DEF Med!Silence
<1>2. QED
  BY <1>1, Zenon DEF Med!StopCapture, Med!Silence

LEMMA Restarts ==
    ASSUME Med!TypeOK, Med!Restart
    PROVE  \/ /\ change'.pc = "start" /\ change'.of = change.of
              /\ capturing' <=> capturing /\ change.of # "capture"
              /\ playing' <=> playing /\ change.of # "playback"
              /\ raced' = raced
           \/ /\ change.pc = "start"
              /\ capturing' <=> capturing \/ change.of = "capture"
              /\ playing' <=> playing \/ change.of = "playback"
              /\ raced => raced'
              /\ ~raced' =>
                    \/ Med!Due /\ mode = (IF change.of = "capture" THEN "local" ELSE "remote")
                    \/ Med!StopAhead
<1>1. CASE change.pc = "stop"
  <2>1. change' = [change EXCEPT !.pc = "start"] /\ raced' = raced
    BY <1>1 DEF Med!Restart
  <2>2. change'.pc = "start" /\ change'.of = change.of
    BY <2>1 DEF Med!TypeOK
  <2>3. /\ capturing' = (capturing /\ change.of # "capture")
        /\ playing' = (playing /\ change.of # "playback")
    BY <1>1 DEF Med!Restart
  <2>4. QED
    BY <2>1, <2>2, <2>3, Zenon
<1>2. CASE change.pc = "start"
  <2> DEFINE wanted == Med!Due /\ mode = (IF change.of = "capture" THEN "local" ELSE "remote")
  <2>1. /\ capturing' = (capturing \/ change.of = "capture")
        /\ playing' = (playing \/ change.of = "playback")
        /\ raced' = (raced \/ ~(wanted \/ Med!StopAhead))
    BY <1>2 DEF Med!Restart, Med!Race
  <2> HIDE DEF wanted
  <2>2. /\ capturing' <=> capturing \/ change.of = "capture"
        /\ playing' <=> playing \/ change.of = "playback"
        /\ raced => raced'
        /\ ~raced' => wanted \/ Med!StopAhead
    BY <2>1, Zenon
  <2>3. QED
    BY <1>2, <2>2 DEF wanted
<1>3. QED
  BY <1>1, <1>2 DEF Med!Restart

LEMMA Plays ==
    ASSUME Med!TypeOK, Med!Play
    PROVE  /\ playing' /\ (raced => raced')
           /\ ~raced' => Med!StopAhead \/ (linked /\ mode = "remote")
<1>1. /\ playing' = TRUE
      /\ raced' = (raced \/ ~((linked /\ mode = "remote") \/ Med!StopAhead))
  BY DEF Med!Play, Med!Race
<1>2. QED
  BY <1>1, Zenon

LEMMA LinkStep ==
    ASSUME Med!TypeOK, LinkOK, Med!Next
    PROVE  LinkOK'
<1>1. CASE /\ UNCHANGED <<away, linked, controller, asked, connect, disconnect>>
           /\ notifier' = "idle" => ~stateChangePending'
           /\ raced => raced'
  BY <1>1 DEF LinkOK
<1>2. CASE Med!HookSwitches
  BY <1>2 DEF Med!HookSwitches, Med!session, Med!streams, Med!threads, LinkOK
<1>10. CASE Med!NotifyStateChange
  BY <1>1, <1>10 DEF Med!NotifyStateChange, Med!settings, Med!session, Med!streams, Med!threads,
     LinkOK
<1>11. CASE Med!Notifier
  <2>1. UNCHANGED <<away, linked, controller, asked, connect, disconnect>>
    BY <1>11 DEF Med!Notifier, Med!settings, Med!session, Med!streams
  <2>2. CASE Med!NotifierGoesOn
    <3>1. /\ stateChangePending' = FALSE
          /\ raced' = raced \/ raced' = (raced \/ stateChangePending)
      BY <2>2 DEF Med!NotifierGoesOn
    <3>2. QED
      BY <1>1, <2>1, <3>1
  <2>3. CASE Med!HandleControlStateChange /\ UNCHANGED <<stateChangePending, raced>>
    <3>1. notifier' # "idle"
      BY <2>3 DEF Med!HandleControlStateChange, Med!Now
    <3>2. QED
      BY <1>1, <2>1, <2>3, <3>1
  <2>4. QED
    BY <1>11, <2>2, <2>3 DEF Med!Notifier
<1>3. ASSUME NEW j \in Jobs, Med!Job(j)
      PROVE  LinkOK'
  <2>1. /\ UNCHANGED <<away, linked, controller, connect, disconnect, notifier, stateChangePending>>
        /\ ~linked /\ ~asked => ~asked'
        /\ raced => raced'
    BY <1>3, Starts, Stops DEF Med!Job, Med!JobLocks, Med!JobStops, Med!JobSilences,
       Med!JobChecks, Med!JobReads, Med!streams, Med!notes, Med!settings, Med!session
  <2>2. QED
    BY <2>1 DEF LinkOK
<1>4. CASE Med!SessionBegins
  <2>1. /\ ~linked /\ linked' /\ connect'.pc = "role" /\ UNCHANGED <<away, controller, asked, disconnect, notifier, stateChangePending>>
        /\ raced' = (raced \/ disconnect # "idle")
    BY <1>4 DEF Med!SessionBegins, Med!notes, Med!settings, Med!streams, Med!TypeOK
  <2>2. ~raced' => ~raced /\ disconnect = "idle"
    BY <2>1
  <2>3. QED
    BY <2>1, <2>2 DEF LinkOK
<1>5. CASE Med!SessionEnds
  <2>1. /\ ~linked' /\ ~asked' /\ ~away' /\ disconnect' = "stop" /\ connect' = connect
        /\ UNCHANGED <<notifier, stateChangePending>>
        /\ raced' = (raced \/ connect.pc # "idle")
    BY <1>5 DEF Med!SessionEnds
  <2>2. ~raced' => connect.pc = "idle"
    BY <2>1
  <2>3. QED
    BY <2>1, <2>2 DEF LinkOK
<1>6. CASE Med!OnConnect
  <2>1. /\ UNCHANGED <<away, linked, disconnect, notifier, stateChangePending>>
        /\ ~linked /\ ~asked => ~asked'
        /\ raced => raced'
        /\ connect.pc # "idle" /\ connect'.pc # "role"
        /\ controller' = controller \/ connect.pc = "role"
    BY <1>6, Starts DEF Med!OnConnect, Med!notes, Med!settings, Med!streams, Med!TypeOK
  <2>2. QED
    BY <2>1 DEF LinkOK
<1>7. CASE Med!OnDisconnect
  <2>1. /\ UNCHANGED <<away, linked, connect, raced, notifier, stateChangePending>>
        /\ ~linked /\ ~asked => ~asked'
        /\ disconnect # "idle"
        /\ controller' = controller \/ ~controller'
        /\ disconnect' = "idle" => ~controller'
    BY <1>7, Stops DEF Med!OnDisconnect, Med!notes, Med!settings, Med!streams
  <2>2. QED
    BY <2>1 DEF LinkOK
<1>8. CASE Med!Restart \/ Med!Play
  <2>1. /\ UNCHANGED <<away, linked, controller, asked, connect, disconnect>>
        /\ UNCHANGED <<notifier, stateChangePending>>
    BY <1>8 DEF Med!Restart, Med!Play, Med!notes, Med!settings, Med!session
  <2>2. raced => raced'
    BY <1>8, Restarts, Plays
  <2>3. QED
    BY <1>1, <2>1, <2>2 DEF LinkOK
<1>9. QED
  BY <1>1, <1>2, <1>3, <1>4, <1>5, <1>6, <1>7, <1>8, <1>10, <1>11
     DEF LinkOK, Med!notes, Med!Next, Med!SetAudioMode, Med!SetAudioTiming, Med!ChangeDevice,
         Med!Accept, Med!settings, Med!session, Med!streams

\* Where a step of reconciliation j leaves the stops to come.
LEMMA StopsAhead ==
    ASSUME Med!TypeOK, JobsOK, NEW j \in Jobs, Med!Job(j)
    PROVE  /\ disconnect' = disconnect
           /\ Med!StopAhead /\ jobs[j].pc # "stop" => Med!StopAhead'
           /\ SilenceAhead /\ jobs[j].pc # "silence" => SilenceAhead'
           /\ jobs[j].pc = "stop" => SilenceAhead'
<1>1. disconnect' = disconnect /\ (Med!NoteAhead' <=> Med!NoteAhead)
  BY DEF Med!Job, Med!NoteAhead, Med!settings, Med!notes, Med!session
<1>2. ASSUME Med!StopAhead, jobs[j].pc # "stop"
      PROVE  Med!StopAhead'
  <2>1. CASE disconnect = "stop"
    BY <1>1, <2>1 DEF Med!StopAhead
  <2>2. CASE \E i \in Jobs : jobs[i].current /\ jobs[i].pc \in {"lock", "stop"}
    <3>1. PICK i \in Jobs : jobs[i].current /\ jobs[i].pc \in {"lock", "stop"}
      BY <2>2
    <3>2. jobs'[i].current /\ jobs'[i].pc \in {"lock", "stop"}
      BY <1>2, <3>1, JobMoves DEF Moved, Over
    <3>3. QED
      BY <3>2 DEF Med!StopAhead
  <2>3. CASE Med!NoteAhead
    BY <1>1, <2>3 DEF Med!StopAhead
  <2>4. QED
    BY <1>2, <2>1, <2>2, <2>3 DEF Med!StopAhead
<1>3. ASSUME SilenceAhead, jobs[j].pc # "silence"
      PROVE  SilenceAhead'
  BY <1>1, <1>3, JobMoves DEF SilenceAhead, Moved, Over
<1>4. ASSUME jobs[j].pc = "stop"
      PROVE  SilenceAhead'
  BY <1>4, JobMoves DEF SilenceAhead, Moved
<1>5. QED
  BY <1>1, <1>2, <1>3, <1>4

\* The note of a switch is given, or it is lost.
LEMMA NotesAhead ==
    ASSUME Med!TypeOK, Med!NotifyStateChange \/ Med!Notifier, ~raced'
    PROVE  /\ UNCHANGED <<mode, timing, away, linked, controller, connect, disconnect, change,
                          capturing, playing, asked>>
           /\ ~raced
           /\ Med!Schedule \/ (jobs' = jobs /\ (Med!NoteAhead => Med!NoteAhead'))
<1>1. CASE Med!NotifyStateChange
  BY <1>1 DEF Med!NotifyStateChange, Med!settings, Med!session, Med!streams, Med!threads,
     Med!NoteAhead
<1>2. CASE Med!Notifier
  <2>1. /\ UNCHANGED <<mode, timing, away, linked, controller, connect, disconnect, change,
                       capturing, playing, asked, owed>>
    BY <1>2 DEF Med!Notifier, Med!settings, Med!session, Med!streams
  <2>2. CASE Med!NotifierGoesOn
    <3>1. CASE notifier = "decide"
      <4>1. /\ notifier' = IF stateChangePending THEN "role" ELSE "finish"
            /\ UNCHANGED <<raced, jobs>>
        BY <2>2, <3>1 DEF Med!NotifierGoesOn, Med!Now
      <4>2. QED
        BY <2>1, <3>1, <4>1 DEF Med!NoteAhead
    <3>2. CASE notifier = "finish"
      <4>1. raced' = (raced \/ stateChangePending) /\ jobs' = jobs
        BY <2>2, <3>2 DEF Med!NotifierGoesOn
      <4>2. ~raced /\ ~stateChangePending
        BY <4>1
      <4>3. QED
        BY <2>1, <3>2, <4>1, <4>2 DEF Med!NoteAhead
    <3>3. QED
      BY <2>2, <3>1, <3>2 DEF Med!NotifierGoesOn
  <2>3. CASE Med!HandleControlStateChange /\ UNCHANGED <<stateChangePending, raced>>
    BY <2>1, <2>3 DEF Med!HandleControlStateChange, Med!Now, Med!NoteAhead
  <2>4. QED
    BY <1>2, <2>1, <2>2, <2>3 DEF Med!Notifier
<1>3. QED
  BY <1>1, <1>2

LEMMA Owed ==
    ASSUME Med!TypeOK, Med!Owe
    PROVE  owed' > 0
  BY MediaAssumption DEF Med!Owe, Med!TypeOK

\* What runs without being wanted has its stop before it, after every step.
LEMMA SurplusStep ==
    ASSUME Med!TypeOK, JobsOK, LinkOK, Med!Next, ~raced => Surplus, ~raced'
    PROVE  ~raced /\ Surplus'
<1>1. CASE Med!Schedule /\ UNCHANGED raced
  <2>1. Med!StopAhead'
    BY <1>1, Scheduled DEF Med!StopAhead
  <2>2. QED
    BY <1>1, <2>1 DEF Surplus
<1>2. CASE /\ UNCHANGED <<mode, timing, away, linked, controller, jobs, disconnect>>
           /\ UNCHANGED <<owed, notifier, stateChangePending>>
           /\ raced => raced'
           /\ capturing' => capturing \/ Med!StopAhead \/ (Med!Due /\ mode = "local")
           /\ asked' => asked \/ Med!StopAhead \/ (Med!Due /\ mode = "remote")
           /\ playing' => playing \/ Med!StopAhead \/ (linked /\ mode = "remote")
  <2>1. /\ Med!StopAhead' <=> Med!StopAhead
        /\ SilenceAhead' <=> SilenceAhead
        /\ Med!Due' <=> Med!Due
    BY <1>2 DEF Med!Due, Med!StopAhead, Med!NoteAhead, SilenceAhead
  <2>2. QED
    BY <1>2, <2>1 DEF Surplus
<1>3. CASE Med!HookSwitches
  <2>1. /\ UNCHANGED <<mode, timing, linked, controller, jobs, disconnect, capturing, asked, playing>>
        /\ linked /\ Med!Owe /\ UNCHANGED <<notifier, stateChangePending>>
        /\ raced' = (raced \/ ~controller)
    BY <1>3 DEF Med!HookSwitches, Med!session, Med!streams, Med!threads
  <2>2. ~raced /\ controller
    BY <2>1
  <2>3. CASE timing = "switched"
    <3>1. Med!NoteAhead'
      BY <2>1, <2>2, <2>3, Owed DEF Med!NoteAhead
    <3>2. QED
      BY <2>2, <3>1 DEF Surplus, Med!StopAhead
  <2>4. CASE timing # "switched"
    <3>1. timing = "always"
      BY <2>4 DEF Med!TypeOK
    <3>2. QED
      BY <2>1, <2>2, <3>1 DEF Surplus, Med!Due, Med!StopAhead, Med!NoteAhead, SilenceAhead
  <2>5. QED
    BY <2>3, <2>4
<1>12. CASE Med!NotifyStateChange \/ Med!Notifier
  <2>1. /\ UNCHANGED <<mode, timing, away, linked, controller, disconnect, capturing, playing, asked>>
        /\ ~raced
        /\ Med!Schedule \/ (jobs' = jobs /\ (Med!NoteAhead => Med!NoteAhead'))
    BY <1>12, NotesAhead
  <2>2. CASE Med!Schedule
    <3>1. Med!StopAhead'
      BY <2>2, Scheduled DEF Med!StopAhead
    <3>2. QED
      BY <2>1, <3>1 DEF Surplus
  <2>3. CASE jobs' = jobs /\ (Med!NoteAhead => Med!NoteAhead')
    <3>1. /\ Med!StopAhead => Med!StopAhead'
          /\ SilenceAhead' <=> SilenceAhead
          /\ Med!Due' <=> Med!Due
      BY <2>1, <2>3 DEF Med!Due, Med!StopAhead, SilenceAhead
    <3>2. QED
      BY <2>1, <3>1 DEF Surplus
  <2>4. QED
    BY <2>1, <2>2, <2>3
<1>4. ASSUME NEW j \in Jobs, Med!Job(j)
      PROVE  ~raced /\ Surplus'
  <2>1. UNCHANGED <<mode, timing, away, linked, controller>>
    BY <1>4 DEF Med!Job, Med!settings, Med!session
  <2>2. CASE jobs[j].pc \in {"lock", "check", "read"}
    <3>1. UNCHANGED <<capturing, asked, playing, raced>>
      BY <1>4, <2>2 DEF Med!Job, Med!JobLocks, Med!JobStops, Med!JobSilences, Med!JobChecks,
         Med!JobReads, Med!At, Med!streams
    <3>2. QED
      BY <1>4, <2>1, <2>2, <3>1, StopsAhead DEF Surplus, Med!Due
  <2>3. CASE jobs[j].pc = "stop"
    <3>1. Med!StopCapture /\ raced' = raced
      BY <1>4, <2>3 DEF Med!Job, Med!JobLocks, Med!JobStops, Med!JobSilences, Med!JobChecks,
         Med!JobReads, Med!At
    <3>2. QED
      BY <1>4, <2>3, <3>1, Stops, StopsAhead DEF Surplus
  <2>4. CASE jobs[j].pc = "silence"
    <3>1. Med!Silence /\ raced' = raced
      BY <1>4, <2>4 DEF Med!Job, Med!JobLocks, Med!JobStops, Med!JobSilences, Med!JobChecks,
         Med!JobReads, Med!At
    <3>2. ~asked' /\ ~playing' /\ capturing' = capturing
      BY <3>1, Stops DEF LinkOK
    <3>3. QED
      BY <1>4, <2>1, <2>4, <3>1, <3>2, StopsAhead DEF Surplus, Med!Due
  <2>5. CASE jobs[j].pc = "start"
    <3>1. Med!StartFor(jobs[j].mode)
      BY <1>4, <2>5 DEF Med!Job, Med!JobLocks, Med!JobStops, Med!JobSilences, Med!JobChecks,
         Med!JobReads, Med!At
    <3>2. /\ Med!StopAhead => Med!StopAhead'
          /\ SilenceAhead => SilenceAhead'
          /\ Med!Due' <=> Med!Due
      BY <1>4, <2>1, <2>5, StopsAhead DEF Med!Due
    <3>3. QED
      BY <2>1, <3>1, <3>2, Starts DEF Surplus, Med!Due
  <2>6. QED
    BY <1>4, <2>2, <2>3, <2>4, <2>5, JobMoves
<1>5. CASE Med!SessionBegins
  <2>1. /\ ~linked /\ UNCHANGED <<capturing, asked, playing, jobs, disconnect, mode>>
        /\ raced' = (raced \/ disconnect # "idle")
    BY <1>5 DEF Med!SessionBegins, Med!settings, Med!streams
  <2>2. ~raced
    BY <2>1
  <2>3. QED
    BY <2>1, <2>2 DEF Surplus, LinkOK, Med!Due, Med!StopAhead, Med!NoteAhead, SilenceAhead
<1>6. CASE Med!SessionEnds
  <2>1. /\ Med!StopAhead' /\ raced' = (raced \/ connect.pc # "idle")
    BY <1>6 DEF Med!SessionEnds, Med!StopAhead
  <2>2. QED
    BY <2>1 DEF Surplus
<1>7. CASE Med!OnConnect
  <2>1. /\ UNCHANGED <<mode, timing, away, linked, jobs, disconnect>>
        /\ UNCHANGED <<owed, notifier, stateChangePending>>
    BY <1>7 DEF Med!OnConnect, Med!notes, Med!settings
  <2>2. CASE connect.pc = "start"
    <3>1. Med!StartFor(connect.mode) /\ controller' = controller
      BY <1>7, <2>2 DEF Med!OnConnect
    <3>2. QED
      BY <1>2, <2>1, <3>1, Starts
  <2>3. CASE connect.pc # "start"
    <3>1. /\ UNCHANGED <<capturing, asked, playing, raced>>
          /\ controller' = controller \/ controller'
      BY <1>7, <2>3 DEF Med!OnConnect, Med!streams
    <3>2. QED
      BY <2>1, <3>1 DEF Surplus, Med!Due, Med!StopAhead, Med!NoteAhead, SilenceAhead
  <2>4. QED
    BY <2>2, <2>3
<1>8. CASE Med!OnDisconnect
  <2>1. UNCHANGED <<mode, timing, away, linked, jobs, raced>>
    BY <1>8 DEF Med!OnDisconnect, Med!settings
  <2>2. ~linked /\ ~asked
    BY <1>8, <2>1 DEF Med!OnDisconnect, LinkOK
  <2>3. CASE disconnect = "stop"
    <3>1. Med!StopCapture /\ disconnect' = "silence"
      BY <1>8, <2>3 DEF Med!OnDisconnect
    <3>2. QED
      BY <2>1, <3>1, Stops DEF Surplus, SilenceAhead
  <2>4. CASE disconnect = "silence"
    <3>1. Med!Silence /\ disconnect' = "role"
      BY <1>8, <2>4 DEF Med!OnDisconnect
    <3>2. ~asked' /\ ~playing' /\ capturing' = capturing
      BY <2>2, <3>1, Stops
    <3>3. QED
      BY <2>1, <2>2, <2>4, <3>1, <3>2 DEF Surplus, Med!Due, Med!StopAhead, Med!NoteAhead
  <2>5. CASE disconnect = "role"
    <3>1. UNCHANGED <<capturing, asked, playing>> /\ disconnect' = "idle"
      BY <1>8, <2>5 DEF Med!OnDisconnect, Med!streams
    <3>2. QED
      BY <2>1, <2>2, <2>5, <3>1 DEF Surplus, Med!Due, Med!StopAhead, Med!NoteAhead, SilenceAhead
  <2>6. QED
    BY <1>8, <2>3, <2>4, <2>5 DEF Med!OnDisconnect
<1>9. CASE Med!Restart
  <2>1. /\ UNCHANGED <<mode, timing, away, linked, controller, jobs, disconnect, asked>>
        /\ UNCHANGED <<owed, notifier, stateChangePending>>
    BY <1>9 DEF Med!Restart, Med!notes, Med!settings, Med!session
  <2>2. /\ raced => raced'
        /\ capturing' => capturing \/ Med!StopAhead \/ (Med!Due /\ mode = "local")
        /\ playing' => playing \/ Med!StopAhead \/ (linked /\ mode = "remote")
    BY <1>9, Restarts DEF Med!Due
  <2>3. QED
    BY <1>2, <2>1, <2>2
<1>10. CASE Med!Play
  BY <1>2, <1>10, Plays DEF Med!Play, Med!notes, Med!settings, Med!session
<1>11. QED
  BY <1>1, <1>2, <1>3, <1>4, <1>5, <1>6, <1>7, <1>8, <1>9, <1>10, <1>12
     DEF Med!Next, Med!notes, Med!SetAudioMode, Med!SetAudioTiming, Med!ChangeDevice, Med!Accept,
         Med!settings, Med!session, Med!streams

LEMMA DeficitStep ==
    ASSUME Med!TypeOK, JobsOK, LinkOK, Med!Next, ~raced, ~raced', Deficit
    PROVE  Deficit'
<1>1. CASE Med!Schedule
  <2>1. StartAhead'
    BY <1>1, Scheduled DEF StartAhead
  <2>2. QED
    BY <2>1 DEF Deficit
<1>2. CASE /\ UNCHANGED <<mode, timing, away, linked, controller, jobs, connect>>
           /\ UNCHANGED <<owed, notifier, stateChangePending>>
           /\ capturing => capturing' \/ (change'.pc = "start" /\ change'.of = "capture")
           /\ change.pc = "start" /\ change.of = "capture" =>
                capturing' \/ (change'.pc = "start" /\ change'.of = "capture")
           /\ asked => asked'
  <2>1. (StartAhead' <=> StartAhead) /\ (Med!Due' <=> Med!Due)
    BY <1>2 DEF StartAhead, Med!NoteAhead, Med!Due
  <2>2. QED
    BY <1>2, <2>1 DEF Deficit
<1>3. CASE Med!HookSwitches
  <2>1. /\ UNCHANGED <<mode, timing, linked, controller, jobs, connect, change, capturing, asked>>
        /\ linked /\ Med!Owe /\ UNCHANGED <<notifier, stateChangePending>>
        /\ raced' = (raced \/ ~controller)
    BY <1>3 DEF Med!HookSwitches, Med!session, Med!streams, Med!threads
  <2>2. controller
    BY <2>1
  <2>3. CASE timing = "switched"
    <3>1. Med!NoteAhead'
      BY <2>1, <2>2, <2>3, Owed DEF Med!NoteAhead
    <3>2. QED
      BY <3>1 DEF Deficit, StartAhead
  <2>4. CASE timing # "switched"
    <3>1. timing = "always"
      BY <2>4 DEF Med!TypeOK
    <3>2. (StartAhead' <=> StartAhead) /\ (Med!Due' <=> Med!Due)
      BY <2>1, <3>1 DEF StartAhead, Med!NoteAhead, Med!Due
    <3>3. QED
      BY <2>1, <3>2 DEF Deficit
  <2>5. QED
    BY <2>3, <2>4
<1>13. CASE Med!NotifyStateChange \/ Med!Notifier
  BY <1>1, <1>13, NotesAhead DEF Deficit, Med!Due, StartAhead
<1>4. ASSUME NEW j \in Jobs, Med!Job(j)
      PROVE  Deficit'
  <2>1. /\ UNCHANGED <<mode, timing, away, linked, controller, connect, change>>
        /\ UNCHANGED <<owed, notifier, stateChangePending>>
    BY <1>4 DEF Med!Job, Med!notes, Med!settings, Med!session
  <2>2. Med!Due' <=> Med!Due
    BY <2>1 DEF Med!Due
  <2>3. ASSUME Moved(j, jobs'[j].pc), jobs'[j].pc # "idle"
        PROVE  StartAhead => StartAhead'
    BY <2>1, <2>3 DEF StartAhead, Med!NoteAhead, Moved
  \* The current reconciliation goes on, and behind an older one it waits.
  <2>4. CASE jobs[j].pc \in {"lock", "stop", "silence", "check", "read"}
    <3>1. Med!Due => (StartAhead => StartAhead') /\ (jobs[j].pc # "lock" => StartAhead')
      <4>1. CASE \E i \in Jobs \ {j} : jobs[i].current /\ jobs[i].pc # "idle"
        <5>1. StartAhead'
          BY <1>4, <4>1, JobMoves DEF StartAhead, Moved, Over
        <5>2. QED
          BY <5>1
      <4>2. CASE jobs[j].current
        <5>1. Med!Due => jobs'[j].current /\ jobs'[j].pc # "idle"
          BY <1>4, <2>4, <4>2, JobMoves DEF Moved, Med!Due
        <5>2. QED
          BY <5>1 DEF StartAhead
      <4>3. CASE ~jobs[j].current /\ ~\E i \in Jobs \ {j} : jobs[i].current /\ jobs[i].pc # "idle"
        <5>1. jobs[j].pc = "lock"
          BY <2>4, <4>3 DEF JobsOK, Inside
        <5>2. StartAhead => StartAhead'
          BY <2>1, <4>3 DEF StartAhead, Med!NoteAhead
        <5>3. QED
          BY <5>1, <5>2
      <4>4. QED
        BY <4>1, <4>2, <4>3
    <3>2. jobs[j].pc = "lock" => UNCHANGED <<capturing, asked>>
      BY <1>4 DEF Med!Job, Med!JobLocks, Med!JobStops, Med!JobSilences, Med!JobChecks,
         Med!JobReads, Med!At, Med!streams
    <3>3. QED
      BY <2>1, <2>2, <3>1, <3>2 DEF Deficit
  <2>5. CASE jobs[j].pc = "start"
    <3>1. Med!StartFor(jobs[j].mode)
      BY <1>4, <2>5 DEF Med!Job, Med!JobLocks, Med!JobStops, Med!JobSilences, Med!JobChecks,
         Med!JobReads, Med!At
    <3>2. CASE jobs[j].current
      <4>1. jobs[j].mode = mode
        BY <2>5, <3>2 DEF JobsOK
      <4>2. QED
        BY <2>1, <2>2, <3>1, <4>1, Starts DEF Deficit, Med!Due
    <3>3. CASE ~jobs[j].current
      <4>1. PICK i \in Jobs : jobs[i].current /\ jobs[i].pc = "lock"
        BY <2>5, <3>3 DEF JobsOK, Inside
      <4>2. StartAhead'
        BY <1>4, <2>5, <4>1, JobMoves DEF StartAhead, Over
      <4>3. QED
        BY <4>2 DEF Deficit
    <3>4. QED
      BY <3>2, <3>3
  <2>6. QED
    BY <1>4, <2>4, <2>5, JobMoves
<1>5. CASE Med!SessionBegins
  <2>1. raced' = (raced \/ disconnect # "idle") /\ ~linked /\ controller' = controller
    BY <1>5 DEF Med!SessionBegins
  <2>2. ~controller'
    BY <2>1 DEF LinkOK
  <2>3. QED
    BY <2>2 DEF Deficit, Med!Due
<1>6. CASE Med!SessionEnds
  BY <1>6 DEF Med!SessionEnds, Deficit, Med!Due
<1>7. CASE Med!OnConnect
  <2>1. /\ UNCHANGED <<mode, timing, away, linked, jobs, change>>
        /\ UNCHANGED <<owed, notifier, stateChangePending>>
    BY <1>7 DEF Med!OnConnect, Med!notes, Med!settings
  <2>2. CASE connect.pc = "role"
    <3>1. connect'.pc = "read" /\ ~away
      BY <1>7, <2>2 DEF Med!OnConnect, Med!TypeOK, LinkOK
    <3>2. Med!Due' => StartAhead'
      BY <2>1, <3>1 DEF Med!Due, StartAhead
    <3>3. QED
      BY <3>2 DEF Deficit
  <2>3. CASE connect.pc = "read"
    <3>1. /\ connect' = [pc |-> "start", mode |-> IF timing = "always" THEN mode ELSE "off"]
          /\ UNCHANGED <<controller, capturing, asked>>
      BY <1>7, <2>3 DEF Med!OnConnect, Med!streams
    <3>2. StartAhead => StartAhead'
      BY <2>1, <2>3, <3>1 DEF StartAhead, Med!NoteAhead
    <3>3. QED
      BY <2>1, <3>1, <3>2 DEF Deficit, Med!Due
  <2>4. CASE connect.pc = "start"
    <3>1. Med!StartFor(connect.mode) /\ controller' = controller
      BY <1>7, <2>4 DEF Med!OnConnect
    <3>2. Med!Due' <=> Med!Due
      BY <2>1, <3>1 DEF Med!Due
    <3>3. CASE connect.mode = mode
      BY <2>1, <3>1, <3>2, <3>3, Starts DEF Deficit, Med!Due
    <3>4. CASE connect.mode # mode
      <4>1. StartAhead => StartAhead'
        BY <2>1, <2>4, <3>1, <3>4 DEF StartAhead, Med!NoteAhead
      <4>2. QED
        BY <2>1, <3>1, <3>2, <4>1, Starts DEF Deficit
    <3>5. QED
      BY <3>3, <3>4
  <2>5. QED
    BY <1>7, <2>2, <2>3, <2>4 DEF Med!OnConnect
<1>8. CASE Med!OnDisconnect
  <2>1. ~linked'
    BY <1>8 DEF Med!OnDisconnect, LinkOK
  <2>2. QED
    BY <2>1 DEF Deficit, Med!Due
<1>9. CASE Med!Restart
  <2>1. /\ UNCHANGED <<mode, timing, away, linked, controller, jobs, connect, asked>>
        /\ UNCHANGED <<owed, notifier, stateChangePending>>
    BY <1>9 DEF Med!Restart, Med!notes, Med!settings, Med!session
  <2>2. /\ capturing => capturing' \/ (change'.pc = "start" /\ change'.of = "capture")
        /\ change.pc = "start" /\ change.of = "capture" =>
            capturing' \/ (change'.pc = "start" /\ change'.of = "capture")
    BY <1>9, Restarts DEF Med!TypeOK
  <2>3. QED
    BY <1>2, <2>1, <2>2
<1>10. CASE \E of \in {"capture", "playback"} : Med!ChangeDevice(of)
  BY <1>2, <1>10 DEF Med!ChangeDevice, Med!notes, Med!settings, Med!session, Med!streams
<1>11. CASE Med!Accept \/ Med!Play
  BY <1>2, <1>11 DEF Med!Accept, Med!Play, Med!notes, Med!settings, Med!session,
     Med!streams
<1>12. QED
  BY <1>1, <1>3, <1>4, <1>5, <1>6, <1>7, <1>8, <1>9, <1>10, <1>11, <1>13
     DEF Med!Next, Med!SetAudioMode, Med!SetAudioTiming

LEMMA MedIsInvariant == Spec => [](on = "media" => MedInv)
<1>1. Init => (on = "media" => MedInv)
  BY MedInit DEF Init
<1>2. (on = "media" => MedInv) /\ [Next]_vars => (on = "media" => MedInv)'
  <2>1. MedInv /\ UNCHANGED medVars => MedInv'
    BY DEF MedInv, Med!TypeOK, JobsOK, Inside, LinkOK, Surplus, Deficit, SilenceAhead,
       StartAhead, Med!Due, Med!NoteAhead, Med!StopAhead, medVars
  <2>2. MedInv /\ Med!Next => MedInv'
    BY MedTypes, JobsStep, LinkStep, SurplusStep, DeficitStep DEF MedInv
  <2>3. QED
    BY <2>1, <2>2, StepOfOnePart
<1>3. QED
  BY <1>1, <1>2, PTL DEF Spec

\* Streams that settle are those the settings ask for: what runs without being
\* wanted has a stop coming, what is wanted and does not run a start
\* (app_media.go).
THEOREM SettledTheorem == Spec => []StreamsFitSettings
<1>1. (on = "media" => MedInv) => StreamsFitSettings
  <2> SUFFICES ASSUME MedInv, Med!Quiet, ~raced
               PROVE  /\ capturing <=> (Med!Due /\ mode = "local")
                      /\ asked <=> (Med!Due /\ mode = "remote")
                      /\ playing => linked /\ mode = "remote"
    BY Zenon DEF StreamsFitSettings, Med!StreamsFitSettings
  <2>1. ~Med!StopAhead /\ ~SilenceAhead /\ ~StartAhead /\ change.pc # "start"
    BY DEF MedInv, LinkOK, Med!Quiet, Med!NoteAhead, Med!StopAhead, SilenceAhead, StartAhead
  <2>2. Surplus /\ Deficit
    BY DEF MedInv
  <2>3. QED
    BY <2>1, <2>2 DEF Surplus, Deficit
<1>2. QED
  BY <1>1, MedIsInvariant, PTL

(***************************************************************************)
(* Playout.                                                                *)
(***************************************************************************)

LEMMA ProductMonotone ==
    ASSUME NEW r \in Nat, NEW a \in Nat, NEW b \in Nat, a <= b
    PROVE  r * a \in Nat /\ r * b \in Nat /\ r * a <= r * b
OBVIOUS

LEMMA PastHistory == \A p \in Nat : p >= 2 => p \div 2 >= 1
OBVIOUS

LEMMA DivisionBounds ==
    ASSUME NEW m \in Nat, NEW s \in Nat \ {0}
    PROVE  m \div s \in Nat /\ s * (m \div s) <= m /\ m < s * (m \div s + 1)
OBVIOUS

\* The longest run of frames that has its neighbours exists.
LEMMA PlayableFits ==
    ASSUME NEW block \in Nat, NEW step \in Nat \ {0}, frames \in Nat, pos \in Nat
    PROVE  LET played == Pla!Playable(block, step)
           IN  /\ played \in 0..block
               /\ played # 0 => (pos + (played - 1) * step) \div 2 + 2 < frames
<1> DEFINE fits == {k \in 1..block : (pos + (k - 1) * step) \div 2 + 2 < frames}
<1>1. CASE fits = {}
  BY <1>1 DEF Pla!Playable
<1>2. CASE fits # {}
  <2> DEFINE room == 2 * frames - 5 - pos
  <2>1. \A k \in 1..block : k \in fits <=> step * (k - 1) <= room
    OBVIOUS
  <2>2. room \in Nat
    <3>1. PICK k \in fits : TRUE
      BY <1>2
    <3>2. step * 0 <= step * (k - 1)
      BY <3>1, ProductMonotone
    <3>3. QED
      BY <2>1, <3>1, <3>2
  <2> DEFINE m == room \div step
  <2>3. m \in Nat /\ step * m <= room /\ room < step * (m + 1)
    BY <2>2, DivisionBounds
  <2> DEFINE most == IF m + 1 <= block THEN m + 1 ELSE block
  <2>4. most \in fits
    <3>1. most \in 1..block
      BY <1>2, <2>3
    <3>2. step * (most - 1) <= step * m
      BY <2>3, <3>1, ProductMonotone
    <3>3. QED
      BY <2>1, <2>2, <2>3, <3>1, <3>2
  <2>5. ASSUME NEW k \in fits
        PROVE  k <= most
    <3>1. CASE k <= m + 1
      BY <2>3, <3>1
    <3>2. CASE k > m + 1
      <4>1. step * (m + 1) <= step * (k - 1)
        BY <2>3, <3>2, ProductMonotone
      <4>2. step * (k - 1) <= room
        BY <2>1
      <4>3. QED
        BY <2>2, <2>3, <4>1, <4>2
    <3>3. QED
      BY <2>3, <3>1, <3>2
  <2>6. Pla!Playable(block, step) \in fits
    BY <1>2, <2>4, <2>5 DEF Pla!Playable
  <2>7. QED
    BY <2>6
<1>3. QED
  BY <1>1, <1>2

\* Until a block panics the position is not past the frames that are dropped.
PlaInv ==
    /\ Pla!TypeOK
    /\ rate # NoRate => pos >= 2 /\ (~panicked => Pla!Position - 1 <= frames)
    /\ Pla!ReadsInside /\ Pla!TargetInBounds

\* The profile's bounds in frames of the current rate.
LEMMA BoundsInOrder ==
    ASSUME NEW r \in Rates, NEW p \in Profiles
    PROVE  /\ r \in Nat \ {0} /\ r * p.target \in Nat /\ r * p.ceiling \in Nat
           /\ r * p.target <= r * p.ceiling
<1>1. p.target \in Nat /\ p.ceiling \in Nat /\ p.target <= p.ceiling /\ r \in Nat \ {0}
  BY PlayoutAssumption
<1>2. QED
  BY <1>1, ProductMonotone

LEMMA CeilingBelowMax ==
    ASSUME NEW r \in Rates, NEW p \in Profiles
    PROVE  r * p.max \in Nat /\ r * p.ceiling \in Nat /\ r * p.ceiling <= r * p.max
<1>1. p.max \in Nat /\ p.ceiling \in Nat /\ p.ceiling <= p.max /\ r \in Nat
  BY PlayoutAssumption
<1>2. QED
  BY <1>1, ProductMonotone

LEMMA PlaInit == Pla!Init => PlaInv
<1> SUFFICES ASSUME Pla!Init PROVE PlaInv
  OBVIOUS
<1> USE DEF Pla!Init
<1>1. cfg \in Profiles
  BY PlayoutAssumption
<1>2. primed \in BOOLEAN /\ strained \in BOOLEAN /\ relaxed \in BOOLEAN /\ panicked \in BOOLEAN
  OBVIOUS
<1>3. frames \in Nat /\ pos \in Nat /\ target \in Nat /\ moved \in Nat
  OBVIOUS
<1>4. QED
  BY <1>1, <1>2, <1>3 DEF PlaInv, Pla!TypeOK, Pla!ReadsInside, Pla!TargetInBounds

\* What is left after Drop, and that it panics only from more than a frame past
\* the queue.
LEMMA DropKeepsInside ==
    ASSUME frames \in Nat, pos \in Nat, pos >= 2, panicked = FALSE,
           NEW at \in Nat, at >= 2, Pla!Drop(at)
    PROVE  /\ frames' \in Nat /\ pos' \in Nat /\ pos' >= 2 /\ panicked' \in BOOLEAN
           /\ panicked' => at \div 2 - 1 > frames
           /\ ~panicked' => pos' \div 2 - 1 <= frames'
<1> DEFINE drop == at \div 2 - 1
<1>1. drop \in Nat
  OBVIOUS
<1>2. CASE drop \in 0..frames /\ frames' = frames - drop /\ pos' = at - 2 * drop
           /\ panicked' = FALSE
  <2>1. pos' \in Nat /\ pos' >= 2 /\ pos' < 4
    BY <1>2
  <2>2. frames' \in Nat /\ pos' \div 2 - 1 <= frames'
    BY <1>1, <1>2, <2>1
  <2>3. QED
    BY <1>2, <2>1, <2>2
<1>3. CASE drop \notin 0..frames /\ frames' = frames /\ pos' = pos /\ panicked' = TRUE
  BY <1>1, <1>3
<1>4. CASE /\ ~(drop > DropAfter \/ (drop > 0 /\ drop * 2 > frames))
           /\ frames' = frames /\ pos' = at /\ panicked' = FALSE
  <2>1. drop <= frames
    BY <1>1, <1>4
  <2>2. QED
    BY <1>4, <2>1
<1>5. QED
  BY <1>2, <1>3, <1>4 DEF Pla!Drop, Pla!CutAt

LEMMA PlaStep ==
    ASSUME PlaInv, Pla!Next
    PROVE  PlaInv'
<1>0. /\ panicked = FALSE /\ moved \in Nat
      /\ cfg \in Profiles /\ rate \in Rates \cup {NoRate} /\ NoRate \notin Rates
      /\ frames \in Nat /\ pos \in Nat /\ target \in Nat
      /\ rate # NoRate => /\ pos >= 2 /\ pos \div 2 - 1 <= frames
                          /\ target >= rate * cfg.target
                          /\ target <= rate * cfg.ceiling
  BY PlayoutAssumption
     DEF PlaInv, Pla!TypeOK, Pla!TargetInBounds, Pla!Position, Pla!FramesFor, Pla!Next
<1>f. primed \in BOOLEAN /\ strained \in BOOLEAN /\ relaxed \in BOOLEAN
  BY DEF PlaInv, Pla!TypeOK
<1>a. ASSUME cfg' \in Profiles, rate' \in Rates \cup {NoRate},
             frames' \in Nat, pos' \in Nat, target' \in Nat,
             primed' \in BOOLEAN, strained' \in BOOLEAN, relaxed' \in BOOLEAN,
             panicked' \in BOOLEAN, moved' \in Nat,
             rate' # NoRate => /\ pos' >= 2 /\ (panicked' => moved' > 8)
                               /\ ~panicked' => pos' \div 2 - 1 <= frames'
                               /\ target' >= rate' * cfg'.target
                               /\ target' <= rate' * cfg'.ceiling
      PROVE  PlaInv'
  <2>1. Pla!TypeOK'
    BY <1>a DEF Pla!TypeOK
  <2>2. Pla!ReadsInside'
    <3>1. rate' # NoRate => pos' \div 2 >= 1 /\ (panicked' => moved' > 8)
      BY <1>a, PastHistory
    <3>2. QED
      BY <3>1 DEF Pla!ReadsInside, Pla!Position
  <2>3. Pla!TargetInBounds'
    BY <1>a DEF Pla!TargetInBounds, Pla!FramesFor
  <2>4. QED
    BY <1>a, <2>1, <2>2, <2>3 DEF PlaInv, Pla!Position
<1>1. ASSUME NEW p \in Profiles, Pla!SetConfig(p)
      PROVE  PlaInv'
  <2>1. CASE rate = NoRate
    BY <1>0, <1>f, <1>1, <1>a, <2>1 DEF Pla!SetConfig
  <2>2. CASE rate \in Rates
    <3>1. /\ cfg' = p /\ target' = rate * p.target
          /\ UNCHANGED <<rate, frames, pos, primed, strained, relaxed, panicked, moved>>
      BY <1>0, <1>1, <2>2 DEF Pla!SetConfig
    <3>2. /\ target' \in Nat /\ target' >= rate' * cfg'.target
          /\ target' <= rate' * cfg'.ceiling
      BY <2>2, <3>1, BoundsInOrder
    <3>3. QED
      BY <1>0, <1>f, <1>a, <3>1, <3>2
  <2>3. QED
    BY <1>0, <2>1, <2>2
<1>2. ASSUME NEW r \in Rates, Pla!SetSource(r)
      PROVE  PlaInv'
  <2>1. primed' \in BOOLEAN /\ strained' \in BOOLEAN /\ relaxed' \in BOOLEAN
    BY <1>f, <1>2 DEF Pla!SetSource, Pla!Empty
  <2>2. /\ rate' = r /\ cfg' = cfg /\ target' = r * cfg.target /\ frames' = 1 /\ pos' = 2
        /\ panicked' = panicked /\ moved' = moved
    BY <1>2 DEF Pla!SetSource, Pla!Empty
  <2>3. /\ target' \in Nat /\ target' >= rate' * cfg'.target
        /\ target' <= rate' * cfg'.ceiling
    BY <1>0, <2>2, BoundsInOrder
  <2>4. pos' >= 2 /\ panicked' = FALSE /\ pos' \div 2 - 1 <= frames'
    BY <1>0, <2>2
  <2>5. QED
    BY <1>0, <1>a, <2>1, <2>2, <2>3, <2>4
<1>3. CASE Pla!Reset
  <2>1. primed' \in BOOLEAN /\ strained' \in BOOLEAN /\ relaxed' \in BOOLEAN
    BY <1>f, <1>3 DEF Pla!Reset, Pla!Empty
  <2>2. /\ rate \in Rates /\ rate' = rate /\ cfg' = cfg /\ target' = rate * cfg.target
        /\ frames' = 1 /\ pos' = 2 /\ panicked' = panicked /\ moved' = moved
    BY <1>0, <1>3 DEF Pla!Reset, Pla!Empty, Pla!FramesFor
  <2>3. /\ target' \in Nat /\ target' >= rate' * cfg'.target
        /\ target' <= rate' * cfg'.ceiling
    BY <1>0, <2>2, BoundsInOrder
  <2>4. pos' >= 2 /\ panicked' = FALSE /\ pos' \div 2 - 1 <= frames'
    BY <1>0, <2>2
  <2>5. QED
    BY <1>0, <1>a, <2>1, <2>2, <2>3, <2>4
<1>4. ASSUME NEW n \in Bursts, Pla!Push(n)
      PROVE  PlaInv'
  <2>1. n \in Nat
    BY PlayoutAssumption
  <2> DEFINE full == frames + n
  <2>2. /\ rate \in Rates
        /\ UNCHANGED <<cfg, rate, primed, target, strained, relaxed, moved>>
        /\ \/ Pla!Overflows(full) /\ Pla!CutAt(full, full - (target + 2), 2)
           \/ frames' = full /\ pos' = pos /\ panicked' = panicked
    BY <1>0, <1>4 DEF Pla!Push
  \* The target is within the maximum, so the overflow finds its first frame.
  <2>3. Pla!Overflows(full) => full - (target + 2) \in 0..full
    <3>1. /\ rate * cfg.max \in Nat /\ rate * cfg.ceiling \in Nat
          /\ rate * cfg.ceiling <= rate * cfg.max /\ target <= rate * cfg.ceiling /\ pos >= 2
      BY <1>0, <2>2, CeilingBelowMax
    <3>2. Pla!Overflows(full) => full - pos \div 2 - 1 > rate * cfg.max
      BY DEF Pla!Overflows, Pla!FramesFor, Pla!Position
    <3> DEFINE high == rate * cfg.max
    <3>3. target <= high /\ (Pla!Overflows(full) => full - pos \div 2 - 1 > high) /\ high \in Nat
      BY <1>0, <3>1, <3>2
    <3> HIDE DEF high
    <3>4. QED
      BY <1>0, <2>1, <3>1, <3>3
  <2>4. /\ frames' \in Nat /\ pos' \in Nat /\ panicked' = FALSE
        /\ pos' >= 2 /\ pos' \div 2 - 1 <= frames'
    <3>1. CASE Pla!Overflows(full) /\ Pla!CutAt(full, full - (target + 2), 2)
      BY <1>0, <2>1, <2>3, <3>1 DEF Pla!CutAt
    <3>2. CASE frames' = full /\ pos' = pos /\ panicked' = panicked
      BY <1>0, <2>1, <2>2, <3>2
    <3>3. QED
      BY <2>2, <3>1, <3>2
  <2>5. QED
    BY <1>0, <1>f, <1>a, <2>2, <2>4
<1>5. ASSUME NEW block \in Blocks, NEW step \in Steps, Pla!Render(block, step)
      PROVE  PlaInv'
  <2>0. /\ rate \in Rates /\ block \in Nat /\ step \in Nat \ {0}
        /\ UNCHANGED <<cfg, rate>>
    BY <1>0, <1>5, PlayoutAssumption DEF Pla!Render
  <2>1. CASE UNCHANGED <<frames, pos, primed, target, strained, relaxed, panicked, moved>>
    BY <1>0, <1>f, <1>a, <2>0, <2>1
  <2>2. CASE ~UNCHANGED <<frames, pos, primed, target, strained, relaxed, panicked, moved>>
    <3> DEFINE played == Pla!Playable(block, step)
    <3> DEFINE at == pos + played * step
    <3>1. /\ Pla!Drop(at)
          /\ moved' = IF panicked' THEN step ELSE moved
          /\ \/ Pla!Underrun /\ UNCHANGED relaxed
             \/ primed' = TRUE /\ Pla!Relax /\ UNCHANGED strained
             \/ primed' = TRUE /\ UNCHANGED <<target, relaxed, strained>>
      BY <1>5, <2>2 DEF Pla!Render
    <3>2. at \in Nat /\ at >= 2 /\ (step <= 8 => at \div 2 - 1 <= frames)
      <4>1. played \in Nat /\ (played # 0 => (pos + (played - 1) * step) \div 2 + 2 < frames)
        <5>1. step \in Nat \ {0}
          BY <2>0
        <5>2. QED
          BY <1>0, <2>0, <5>1, PlayableFits
      <4>2. CASE played = 0
        BY <1>0, <2>0, <4>2
      <4>3. CASE played # 0
        <5> DEFINE before == (played - 1) * step
        <5>1. before \in Nat /\ played * step = before + step
          BY <2>0, <4>1, <4>3, ProductMonotone
        <5>2. QED
          BY <1>0, <2>0, <4>1, <4>3, <5>1
      <4>4. QED
        BY <4>2, <4>3
    <3>3. /\ frames' \in Nat /\ pos' \in Nat /\ pos' >= 2 /\ panicked' \in BOOLEAN
          /\ panicked' => at \div 2 - 1 > frames
          /\ ~panicked' => pos' \div 2 - 1 <= frames'
      <4> HIDE DEF at
      <4>1. QED
        BY <1>0, <2>0, <3>1, <3>2, DropKeepsInside
    <3>7. moved' \in Nat /\ (panicked' => moved' > 8)
      <4>1. panicked' => step > 8
        <5> HIDE DEF at
        <5>1. QED
          BY <1>0, <2>0, <3>2, <3>3
      <4>2. QED
        BY <1>0, <2>0, <3>1, <4>1
    <3>4. /\ target' \in Nat /\ target' >= rate * cfg.target
          /\ target' <= rate * cfg.ceiling
      <4>1. /\ rate \in Nat \ {0} /\ rate * cfg.target \in Nat /\ rate * cfg.ceiling \in Nat
            /\ rate * cfg.target <= rate * cfg.ceiling /\ rate * 1 = rate /\ rate * 2 \in Nat
            /\ target >= rate * cfg.target /\ target <= rate * cfg.ceiling
        BY <1>0, <2>0, BoundsInOrder
      <4> DEFINE low == rate * cfg.target
      <4> DEFINE high == rate * cfg.ceiling
      <4>2. CASE Pla!Underrun
        <5>1. target' = IF target < high
                        THEN (IF target + rate * 2 <= high THEN target + rate * 2 ELSE high)
                        ELSE target
          BY <4>1, <4>2 DEF Pla!Underrun, Pla!FramesFor, Pla!Least
        <5>2. QED
          BY <1>0, <4>1, <5>1
      <4>3. CASE Pla!Relax
        <5>1. \/ target' = target
              \/ target > low /\ target' = IF target - rate >= low THEN target - rate ELSE low
          BY <4>1, <4>3 DEF Pla!Relax, Pla!FramesFor, Pla!Most
        <5>2. QED
          BY <1>0, <4>1, <5>1
      <4>4. QED
        BY <1>0, <3>1, <4>1, <4>2, <4>3
    <3>5. primed' \in BOOLEAN /\ strained' \in BOOLEAN /\ relaxed' \in BOOLEAN
      BY <1>f, <3>1 DEF Pla!Underrun, Pla!Relax
    <3>6. QED
      BY <1>0, <1>a, <2>0, <3>3, <3>4, <3>5, <3>7
  <2>3. QED
    BY <2>1, <2>2
<1>6. CASE Pla!TimePasses
  <2>1. strained' \in BOOLEAN /\ relaxed' \in BOOLEAN /\ primed' \in BOOLEAN
    BY <1>f, <1>6 DEF Pla!TimePasses
  <2>2. QED
    BY <1>0, <1>6, <1>a, <2>1 DEF Pla!TimePasses
<1>7. QED
  BY <1>1, <1>2, <1>3, <1>4, <1>5, <1>6 DEF Pla!Next, Pla!Operation

LEMMA PlaIsInvariant == Spec => [](on = "playout" => PlaInv)
<1>1. Init => (on = "playout" => PlaInv)
  BY PlaInit DEF Init
<1>2. (on = "playout" => PlaInv) /\ [Next]_vars => (on = "playout" => PlaInv)'
  <2>1. PlaInv /\ UNCHANGED plaVars => PlaInv'
    BY DEF PlaInv, Pla!TypeOK, Pla!ReadsInside, Pla!TargetInBounds, Pla!Position,
           Pla!FramesFor, plaVars
  <2>2. QED
    BY <2>1, PlaStep, StepOfOnePart
<1>3. QED
  BY <1>1, <1>2, PTL DEF Spec

\* The jitter buffer is read and cut inside what it holds, unless a rendered frame
\* moves it by more than four, and its target stays within its profile's bounds
\* (playout.go).
THEOREM BufferTheorem == Spec => []BufferIsSound
<1>1. (on = "playout" => PlaInv) => BufferIsSound
  BY DEF PlaInv, BufferIsSound
<1>2. QED
  BY <1>1, PlaIsInvariant, PTL

(***************************************************************************)
(* BluetoothManager.                                                       *)
(***************************************************************************)

\* A socket is in Run's hands only between the backend's call and Install, and
\* it is opened only when the manager has none.
RunHolds ==
    /\ run.socket # NoSocket => run.pc = "install"
    /\ run.pc \in {"listen", "install"} => listener = NoSocket

BluInv == Blu!TypeOK /\ RunHolds /\ Blu!OpenIsHeld

LEMMA BluInit == Blu!Init => BluInv
<1> SUFFICES ASSUME Blu!Init PROVE BluInv
  OBVIOUS
<1> USE DEF Blu!Init
<1>1. /\ radio \in BOOLEAN /\ enabled \in BOOLEAN /\ tryOK \in BOOLEAN
      /\ wake \in BOOLEAN
  OBVIOUS
<1>2. nearby \in [BtDevices -> {"away", "other", "peer"}]
  OBVIOUS
<1>3. run \in [pc : Blu!Labels, socket : Sockets \cup {NoSocket}, found : SUBSET BtDevices]
  BY DEF Blu!Labels
<1>4. RunHolds /\ Blu!OpenIsHeld
  BY DEF RunHolds, Blu!OpenIsHeld
<1>5. QED
  BY <1>1, <1>2, <1>3, <1>4 DEF BluInv, Blu!TypeOK

LEMMA BluTypeStep ==
    ASSUME Blu!TypeOK, Blu!Next
    PROVE  Blu!TypeOK'
<1> USE DEF Blu!TypeOK, Blu!world, Blu!user
<1>1. CASE Blu!Reconcile
  BY <1>1 DEF Blu!Reconcile, Blu!CloseListener, Blu!Goto, Blu!Labels
<1>2. CASE Blu!ListenWorks
  BY <1>2 DEF Blu!ListenWorks, Blu!Labels
<1>3. CASE Blu!ListenFails
  BY <1>3 DEF Blu!ListenFails, Blu!Goto, Blu!Labels
<1>4. CASE Blu!Install
  BY <1>4 DEF Blu!Install, Blu!Labels
<1>5. CASE Blu!Serve
  BY <1>5 DEF Blu!Serve, Blu!Goto, Blu!Labels
<1>6. CASE Blu!Ask
  BY <1>6 DEF Blu!Ask, Blu!Goto, Blu!Labels
<1>7. CASE Blu!Scan
  <2>1. checked' \subseteq BtDevices
    BY <1>7 DEF Blu!Scan
  <2>2. run' \in [pc : Blu!Labels, socket : Sockets \cup {NoSocket}, found : SUBSET BtDevices]
    <3>1. ASSUME NEW answers \in SUBSET BtDevices,
                 run' = [run EXCEPT !.pc = "store", !.found = {d \in answers : nearby[d] = "peer"}]
          PROVE  run' \in [pc : Blu!Labels, socket : Sockets \cup {NoSocket},
                          found : SUBSET BtDevices]
      BY <3>1 DEF Blu!Labels
    <3>2. CASE Blu!Goto("wait")
      BY <3>2 DEF Blu!Goto, Blu!Labels
    <3>3. QED
      BY <1>7, <3>1, <3>2 DEF Blu!Scan
  <2>3. QED
    BY <1>7, <2>1, <2>2 DEF Blu!Scan
<1>8. CASE Blu!Store
  BY <1>8 DEF Blu!Store, Blu!Labels
<1>9. CASE Blu!ClearPeers
  BY <1>9 DEF Blu!ClearPeers, Blu!Goto, Blu!Labels
<1>10. CASE Blu!WakesUp
  BY <1>10 DEF Blu!WakesUp, Blu!Goto, Blu!Labels
<1>11. CASE Blu!RunAgain
  BY <1>11 DEF Blu!RunAgain, Blu!Goto, Blu!Labels
<1>12. CASE Blu!Panics
  BY <1>12 DEF Blu!Panics, Blu!CloseListener, Blu!Goto, Blu!Labels
<1>13. CASE Blu!RadioChanges
  BY <1>13 DEF Blu!RadioChanges
<1>14. CASE Blu!Refresh
  BY <1>14 DEF Blu!Refresh
<1>15. CASE Blu!RetryTimePasses
  BY <1>15 DEF Blu!RetryTimePasses
<1>16. ASSUME NEW s \in BOOLEAN, Blu!SetEnabled(s)
       PROVE  Blu!TypeOK'
  BY <1>16 DEF Blu!SetEnabled
<1>17. ASSUME NEW d \in BtDevices, Blu!DeviceMoves(d)
       PROVE  Blu!TypeOK'
  BY <1>17 DEF Blu!DeviceMoves
<1>18. ASSUME NEW d \in BtDevices, Blu!Outdated(d)
       PROVE  Blu!TypeOK'
  BY <1>18 DEF Blu!Outdated
<1>19. QED
  BY <1>1, <1>2, <1>3, <1>4, <1>5, <1>6, <1>7, <1>8, <1>9, <1>10, <1>11, <1>12,
     <1>13, <1>14, <1>15, <1>16, <1>17, <1>18 DEF Blu!Next, Blu!Loop

LEMMA BluStep ==
    ASSUME BluInv, Blu!Next
    PROVE  BluInv'
<1> SUFFICES RunHolds' /\ Blu!OpenIsHeld'
  BY BluTypeStep DEF BluInv
<1>0. /\ run \in [pc : Blu!Labels, socket : Sockets \cup {NoSocket}, found : SUBSET BtDevices]
      /\ open \subseteq Sockets /\ NoSocket \notin Sockets
      /\ RunHolds /\ Blu!OpenIsHeld
  BY BluetoothAssumption DEF BluInv, Blu!TypeOK
<1> USE <1>0 DEF RunHolds, Blu!OpenIsHeld, Blu!At, Blu!Goto, Blu!world, Blu!user
<1>1. CASE Blu!Reconcile
  BY <1>1 DEF Blu!Reconcile, Blu!CloseListener
<1>2. CASE Blu!ListenWorks
  BY <1>2 DEF Blu!ListenWorks
<1>3. CASE Blu!ListenFails
  BY <1>3 DEF Blu!ListenFails
<1>4. CASE Blu!Install
  BY <1>4 DEF Blu!Install
<1>5. CASE Blu!Serve
  BY <1>5 DEF Blu!Serve
<1>6. CASE Blu!Panics
  BY <1>6 DEF Blu!Panics, Blu!CloseListener
<1>7. CASE Blu!Scan
  BY <1>7 DEF Blu!Scan
<1>8. CASE Blu!Ask \/ Blu!Store \/ Blu!ClearPeers \/ Blu!WakesUp \/ Blu!RunAgain
  BY <1>8 DEF Blu!Ask, Blu!Store, Blu!ClearPeers, Blu!WakesUp, Blu!RunAgain
<1>9. CASE /\ Blu!Next
           /\ ~(\/ Blu!Loop \/ Blu!Panics)
  BY <1>9 DEF Blu!Next, Blu!RadioChanges, Blu!Refresh, Blu!RetryTimePasses,
              Blu!SetEnabled, Blu!DeviceMoves, Blu!Outdated
<1>10. QED
  BY <1>1, <1>2, <1>3, <1>4, <1>5, <1>6, <1>7, <1>8, <1>9 DEF Blu!Loop

LEMMA BluIsInvariant == Spec => [](on = "bluetooth" => BluInv)
<1>1. Init => (on = "bluetooth" => BluInv)
  BY BluInit DEF Init
<1>2. (on = "bluetooth" => BluInv) /\ [Next]_vars => (on = "bluetooth" => BluInv)'
  <2>1. BluInv /\ UNCHANGED bluVars => BluInv'
    BY DEF BluInv, RunHolds, Blu!TypeOK, Blu!OpenIsHeld, bluVars
  <2>2. QED
    BY <2>1, BluStep, StepOfOnePart
<1>3. QED
  BY <1>1, <1>2, PTL DEF Spec

\* No listening socket is lost, wherever the switch, the radio or a panic
\* catches Run (bluetooth/manager.go).
THEOREM OpenIsHeldTheorem == Spec => []OpenIsHeld
<1>1. (on = "bluetooth" => BluInv) => OpenIsHeld
  BY DEF BluInv, OpenIsHeld
<1>2. QED
  BY <1>1, BluIsInvariant, PTL

(***************************************************************************)
(* AudioDevice.                                                            *)
(***************************************************************************)

\* Only the worker's loop is alive; it has to unmute only between the mute and
\* the close, and then the user had not muted the speakers himself, where
\* Windows did as it was asked.
OneLoop == \A l \in Loops : Dev!Alive(l) => l = worker

OnlyOwnMute ==
    \A l \in Loops :
        /\ loops[l].unmute => loops[l].pc \in {"run", "close"}
        /\ loops[l].pc \in {"run", "close"} /\ ~doubt =>
              (silenced <=> speakers /\ ~loops[l].unmute)

DevInv == Dev!TypeOK /\ OneLoop /\ OnlyOwnMute /\ Dev!SpeakersRestored

LEMMA DevInit == Dev!Init => DevInv
<1> SUFFICES ASSUME Dev!Init PROVE DevInv
  OBVIOUS
<1> USE DEF Dev!Init
<1>1. Dev!NoRun \in [pc : Dev!LoopSteps, failures : 0..MaxQuickFailures,
                     unmute : BOOLEAN, stopped : BOOLEAN]
  BY DeviceAssumption DEF Dev!NoRun, Dev!LoopSteps
<1>2. worker \in Loops \cup {NoLoop} /\ closed \subseteq Loops
  OBVIOUS
<1>3. loops \in [Loops -> [pc : Dev!LoopSteps, failures : 0..MaxQuickFailures,
                           unmute : BOOLEAN, stopped : BOOLEAN]]
  BY <1>1
<1>4. callers \in [Callers -> Dev!CallSteps]
  BY DEF Dev!CallSteps
<1>5. /\ speakers \in BOOLEAN /\ silenced \in BOOLEAN /\ muteSource \in BOOLEAN
      /\ doubt \in BOOLEAN
  OBVIOUS
<1>6. OneLoop /\ OnlyOwnMute /\ Dev!SpeakersRestored
  BY DEF OneLoop, OnlyOwnMute, Dev!SpeakersRestored, Dev!Alive, Dev!NoRun
<1>7. QED
  BY <1>2, <1>3, <1>4, <1>5, <1>6 DEF DevInv, Dev!TypeOK

LoopSet ==
    [pc : Dev!LoopSteps, failures : 0..MaxQuickFailures, unmute : BOOLEAN,
     stopped : BOOLEAN]

LEMMA RunsAreLoops ==
    /\ Dev!NoRun \in LoopSet
    /\ [Dev!NoRun EXCEPT !.pc = "open"] \in LoopSet
<1>1. 0 \in 0..MaxQuickFailures
  BY DeviceAssumption
<1>2. QED
  BY <1>1 DEF LoopSet, Dev!NoRun, Dev!LoopSteps

LEMMA LoopsStep ==
    ASSUME loops \in [Loops -> LoopSet], NEW l \in Loops, Dev!LoopStep(l)
    PROVE  loops' \in [Loops -> LoopSet]
<1>1. ASSUME NEW pc \in Dev!LoopSteps, loops' = [loops EXCEPT ![l].pc = pc]
      PROVE  loops' \in [Loops -> LoopSet]
  BY <1>1 DEF LoopSet
<1>2. CASE Dev!OpenEndpoint(l)
  BY <1>1, <1>2 DEF Dev!OpenEndpoint, Dev!Fails, Dev!LoopSteps
<1>3. CASE Dev!Mute(l)
  <2>1. PICK muted \in {FALSE, muteSource}, previous \in {FALSE, speakers}, pc \in {"run", "close"} :
            loops' = [loops EXCEPT ![l].pc = pc, ![l].unmute = muted /\ ~previous]
    BY ZenonT(60), <1>3 DEF Dev!Mute
  <2>2. (muted /\ ~previous) \in BOOLEAN
    OBVIOUS
  <2>3. QED
    BY ZenonT(60), <2>1, <2>2 DEF LoopSet, Dev!LoopSteps
<1>4. CASE Dev!Run(l)
  <2>1. CASE l \in closed
    BY <1>4, <2>1 DEF Dev!Run, LoopSet, Dev!LoopSteps
  <2>2. CASE l \notin closed
    BY <1>4, <2>2, DeviceAssumption DEF Dev!Run, LoopSet, Dev!LoopSteps
  <2>3. QED
    BY <2>1, <2>2
<1>5. CASE Dev!Close(l)
  <2> DEFINE n == loops[l].failures + 1
  <2> DEFINE m == IF n > MaxQuickFailures THEN MaxQuickFailures ELSE n
  <2>1. m \in 0..MaxQuickFailures
    BY DeviceAssumption DEF LoopSet
  <2>2. PICK pc \in {"ended", "backoff"} :
            loops' = [loops EXCEPT ![l].unmute = FALSE, ![l].pc = pc, ![l].failures = m]
    BY <1>5 DEF Dev!Close, Dev!Reopen
  <2>3. QED
    BY ZenonT(60), <2>1, <2>2 DEF LoopSet, Dev!LoopSteps
<1>6. CASE Dev!Backoff(l)
  BY <1>1, <1>6 DEF Dev!Backoff, Dev!LoopSteps
<1>7. QED
  BY <1>2, <1>3, <1>4, <1>5, <1>6 DEF Dev!LoopStep

LEMMA DevTypeStep ==
    ASSUME Dev!TypeOK, Dev!Next
    PROVE  Dev!TypeOK'
<1>0. /\ worker \in Loops \cup {NoLoop} /\ closed \subseteq Loops
      /\ loops \in [Loops -> LoopSet] /\ callers \in [Callers -> Dev!CallSteps]
      /\ speakers \in BOOLEAN /\ silenced \in BOOLEAN /\ muteSource \in BOOLEAN
      /\ doubt \in BOOLEAN
  BY DEF Dev!TypeOK, LoopSet
<1>a. /\ worker' \in Loops \cup {NoLoop} /\ closed' \subseteq Loops
      /\ loops' \in [Loops -> LoopSet] /\ callers' \in [Callers -> Dev!CallSteps]
      /\ speakers' \in BOOLEAN /\ silenced' \in BOOLEAN /\ muteSource' \in BOOLEAN
      /\ doubt' \in BOOLEAN
      => Dev!TypeOK'
  BY DEF Dev!TypeOK, LoopSet
<1>1. ASSUME NEW c \in Callers, NEW step \in {"start", "stop", "restop"}, Dev!Call(c, step)
      PROVE  Dev!TypeOK'
  BY <1>0, <1>1, <1>a DEF Dev!Call, Dev!CallSteps
<1>2. ASSUME NEW c \in Callers, Dev!SetMuteSource(c)
      PROVE  Dev!TypeOK'
  <2>1. callers' \in [Callers -> Dev!CallSteps]
    BY <1>0, <1>2 DEF Dev!SetMuteSource, Dev!CallSteps
  <2>2. QED
    BY <1>0, <1>2, <2>1, <1>a DEF Dev!SetMuteSource
<1>3. ASSUME NEW c \in Callers, Dev!Start(c)
      PROVE  Dev!TypeOK'
  <2>1. callers' \in [Callers -> Dev!CallSteps]
    BY <1>0, <1>3 DEF Dev!Start, Dev!Launch, Dev!CallSteps
  <2>2. worker' \in Loops \cup {NoLoop} /\ loops' \in [Loops -> LoopSet]
    BY <1>0, <1>3, RunsAreLoops DEF Dev!Start, Dev!Launch
  <2>3. QED
    BY <1>0, <1>3, <2>1, <2>2, <1>a DEF Dev!Start
<1>4. ASSUME NEW c \in Callers, Dev!Stop(c)
      PROVE  Dev!TypeOK'
  <2>1. callers' \in [Callers -> Dev!CallSteps]
    BY <1>0, <1>4 DEF Dev!Stop, Dev!CallSteps
  <2>2. closed' \subseteq Loops
    BY <1>0, <1>4 DEF Dev!Stop
  <2>3. QED
    BY <1>0, <1>4, <2>1, <2>2, <1>a DEF Dev!Stop
<1>5. ASSUME NEW c \in Callers, Dev!Stopped(c)
      PROVE  Dev!TypeOK'
  <2>1. callers' \in [Callers -> Dev!CallSteps]
    BY <1>0, <1>5 DEF Dev!Stopped, Dev!CallSteps
  <2>2. loops' \in [Loops -> LoopSet]
    BY <1>0, <1>5, RunsAreLoops DEF Dev!Stopped
  <2>3. QED
    BY <1>0, <1>5, <2>1, <2>2, <1>a DEF Dev!Stopped
<1>6. ASSUME NEW l \in Loops, Dev!LoopStep(l)
      PROVE  Dev!TypeOK'
  <2>1. UNCHANGED <<worker, closed, callers, silenced, muteSource>>
    BY <1>6 DEF Dev!LoopStep, Dev!OpenEndpoint, Dev!Mute, Dev!Run, Dev!Close, Dev!Backoff
  <2>2. speakers' \in BOOLEAN /\ doubt' \in BOOLEAN
    BY <1>0, <1>6 DEF Dev!LoopStep, Dev!OpenEndpoint, Dev!Mute, Dev!Run, Dev!Close, Dev!Unmute,
       Dev!Backoff
  <2>3. loops' \in [Loops -> LoopSet]
    BY <1>0, <1>6, LoopsStep
  <2>4. QED
    BY <1>0, <2>1, <2>2, <2>3, <1>a
<1>7. CASE Dev!UserMutes
  <2>1. speakers' \in BOOLEAN /\ silenced' \in BOOLEAN /\ doubt' \in BOOLEAN
    BY <1>7 DEF Dev!UserMutes
  <2>2. QED
    BY <1>0, <1>7, <2>1, <1>a DEF Dev!UserMutes
<1>8. QED
  BY <1>1, <1>2, <1>3, <1>4, <1>5, <1>6, <1>7
     DEF Dev!Next, Dev!CallRestart, Dev!CallStep

LEMMA DevStep ==
    ASSUME DevInv, Dev!Next
    PROVE  DevInv'
<1> SUFFICES OneLoop' /\ OnlyOwnMute' /\ Dev!SpeakersRestored'
  BY DevTypeStep DEF DevInv
<1>0. /\ worker \in Loops \cup {NoLoop} /\ NoLoop \notin Loops
      /\ loops \in [Loops -> LoopSet]
      /\ speakers \in BOOLEAN /\ silenced \in BOOLEAN /\ doubt \in BOOLEAN
      /\ OneLoop /\ OnlyOwnMute /\ Dev!SpeakersRestored
  BY DeviceAssumption DEF DevInv, Dev!TypeOK, LoopSet
<1> USE DEF Dev!At
<1>1. CASE UNCHANGED <<worker, loops, speakers, silenced, doubt>>
  BY <1>0, <1>1 DEF OneLoop, OnlyOwnMute, Dev!SpeakersRestored, Dev!Alive
<1>2. ASSUME NEW c \in Callers,
             \/ \E step \in Dev!CallSteps : Dev!Call(c, step)
             \/ Dev!SetMuteSource(c)
             \/ Dev!Stop(c)
      PROVE  UNCHANGED <<worker, loops, speakers, silenced, doubt>>
  BY <1>2 DEF Dev!Call, Dev!SetMuteSource, Dev!Stop
<1>3. ASSUME NEW c \in Callers, Dev!Start(c)
      PROVE  OneLoop' /\ OnlyOwnMute' /\ Dev!SpeakersRestored'
  <2>1. CASE worker # NoLoop /\ Dev!Alive(worker)
    BY <1>1, <1>3, <2>1 DEF Dev!Start
  <2>2. CASE ~(worker # NoLoop /\ Dev!Alive(worker))
    <3>1. PICK l \in Loops : /\ loops[l].pc = "none" /\ worker' = l
                             /\ loops' = [loops EXCEPT ![l] = [Dev!NoRun EXCEPT !.pc = "open"]]
      BY <1>3, <2>2 DEF Dev!Start, Dev!Launch
    <3>2. UNCHANGED <<speakers, silenced, doubt>>
      BY <1>3 DEF Dev!Start
    <3>3. \A k \in Loops : ~Dev!Alive(k)
      BY <1>0, <2>2 DEF OneLoop
    <3>4. loops'[l].pc = "open" /\ loops'[l].unmute = FALSE
      BY <1>0, <3>1 DEF Dev!NoRun
    <3>5. \A k \in Loops \ {l} : loops'[k] = loops[k]
      BY <1>0, <3>1
    <3>6. QED
      BY <1>0, <3>1, <3>2, <3>3, <3>4, <3>5
         DEF OneLoop, OnlyOwnMute, Dev!SpeakersRestored, Dev!Alive
  <2>3. QED
    BY <2>1, <2>2
<1>4. ASSUME NEW c \in Callers, Dev!Stopped(c)
      PROVE  OneLoop' /\ OnlyOwnMute' /\ Dev!SpeakersRestored'
  <2>1. /\ loops[worker].pc = "ended" /\ worker' = NoLoop
        /\ loops' = [loops EXCEPT ![worker] = Dev!NoRun]
        /\ UNCHANGED <<speakers, silenced, doubt>>
    BY <1>4 DEF Dev!Stopped
  <2>2. \A k \in Loops : ~Dev!Alive(k)
    BY <1>0, <2>1 DEF OneLoop, Dev!Alive
  <2>3. \A k \in Loops : loops'[k] = IF k = worker THEN Dev!NoRun ELSE loops[k]
    BY <1>0, <2>1
  <2>4. QED
    BY <1>0, <2>1, <2>2, <2>3
       DEF OneLoop, OnlyOwnMute, Dev!SpeakersRestored, Dev!Alive, Dev!NoRun
<1>5. ASSUME NEW l \in Loops, Dev!LoopStep(l)
      PROVE  OneLoop' /\ OnlyOwnMute' /\ Dev!SpeakersRestored'
  <2>0. UNCHANGED <<worker, silenced>> /\ Dev!Alive(l) /\ l = worker
    BY <1>0, <1>5 DEF Dev!LoopStep, Dev!OpenEndpoint, Dev!Mute, Dev!Run, Dev!Close,
                     Dev!Backoff, Dev!Alive, OneLoop
  <2>1. /\ \A k \in Loops \ {l} : loops'[k] = loops[k] /\ ~Dev!Alive(k)
        /\ loops'[l] \in LoopSet
    <3>1. \A k \in Loops \ {l} : ~Dev!Alive(k)
      BY <1>0, <2>0 DEF OneLoop
    <3>2. \A k \in Loops \ {l} : loops'[k] = loops[k]
      BY <1>0, <1>5 DEF Dev!LoopStep, Dev!OpenEndpoint, Dev!Mute, Dev!Run, Dev!Close,
                       Dev!Backoff, Dev!Fails, Dev!Reopen
    <3>3. QED
      BY <1>0, <1>5, <3>1, <3>2, LoopsStep
  <2>2. CASE Dev!OpenEndpoint(l)
    <3>1. /\ loops[l].pc = "open" /\ loops'[l].pc \in {"mute", "close"}
          /\ loops'[l].unmute = loops[l].unmute /\ UNCHANGED <<speakers, doubt>>
      BY <1>0, <2>2 DEF Dev!OpenEndpoint, Dev!Fails, LoopSet
    <3>2. QED
      BY <1>0, <2>0, <2>1, <3>1 DEF OneLoop, OnlyOwnMute, Dev!SpeakersRestored, Dev!Alive
  <2>3. CASE Dev!Mute(l)
    <3>1. PICK muted \in {FALSE, muteSource}, previous \in {FALSE, speakers} :
            /\ loops[l].pc = "mute" /\ loops'[l].pc \in {"run", "close"}
            /\ loops'[l].unmute = (muted /\ ~previous)
            /\ speakers' = (speakers \/ muted)
            /\ doubt' = (doubt \/ (muted /\ previous # speakers))
      BY ZenonT(60), <1>0, <2>3 DEF Dev!Mute, LoopSet
    <3>2. ~doubt => (speakers <=> silenced)
      BY <1>0, <2>0, <2>1, <3>1 DEF Dev!SpeakersRestored, Dev!Alive
    <3>3. ~doubt' => (silenced' <=> speakers' /\ ~loops'[l].unmute)
      <4>1. ~doubt' => ~doubt /\ (~muted \/ (previous <=> speakers))
        <5>1. doubt' = (doubt \/ (muted /\ previous # speakers))
          BY <3>1
        <5>2. ~doubt' => ~doubt /\ ~(muted /\ previous # speakers)
          BY <5>1, Zenon
        <5>3. previous = speakers => (previous <=> speakers)
          OBVIOUS
        <5>4. QED
          BY <5>2, <5>3
      <4>2. /\ speakers' <=> speakers \/ muted
            /\ loops'[l].unmute <=> muted /\ ~previous
        BY <3>1
      <4>3. silenced' = silenced
        BY <2>0
      <4>4. QED
        BY <3>2, <4>1, <4>2, <4>3
    <3>4. QED
      BY <1>0, <2>0, <2>1, <3>1, <3>3 DEF OneLoop, OnlyOwnMute, Dev!SpeakersRestored, Dev!Alive
  <2>4. CASE Dev!Run(l)
    <3>1. /\ loops[l].pc = "run" /\ loops'[l].pc = "close"
          /\ loops'[l].unmute = loops[l].unmute /\ UNCHANGED <<speakers, doubt>>
      BY <1>0, <2>4 DEF Dev!Run, LoopSet
    <3>2. QED
      BY <1>0, <2>0, <2>1, <3>1 DEF OneLoop, OnlyOwnMute, Dev!SpeakersRestored, Dev!Alive
  <2>5. CASE Dev!Close(l)
    <3>1. /\ loops[l].pc = "close" /\ loops'[l].pc \in {"ended", "backoff"}
          /\ loops'[l].unmute = FALSE
      BY <1>0, <2>5 DEF Dev!Close, Dev!Reopen, LoopSet
    <3>2. PICK refused \in {FALSE, loops[l].unmute} :
            /\ speakers' = (speakers /\ (~loops[l].unmute \/ refused))
            /\ doubt' = (doubt \/ (refused /\ speakers))
      BY <2>5 DEF Dev!Close, Dev!Unmute
    <3>3. ~doubt => (silenced <=> speakers /\ ~loops[l].unmute)
      BY <1>0, <3>1 DEF OnlyOwnMute
    <3>4. ~doubt' => (silenced' <=> speakers')
      BY Zenon, <2>0, <3>2, <3>3
    <3>5. QED
      BY <1>0, <2>0, <2>1, <3>1, <3>4 DEF OneLoop, OnlyOwnMute, Dev!SpeakersRestored, Dev!Alive
  <2>6. CASE Dev!Backoff(l)
    <3>1. /\ loops[l].pc = "backoff" /\ loops'[l].pc \in {"open", "ended"}
          /\ loops'[l].unmute = loops[l].unmute /\ UNCHANGED <<speakers, doubt>>
      BY <1>0, <2>6 DEF Dev!Backoff, LoopSet
    <3>2. QED
      BY <1>0, <2>0, <2>1, <3>1 DEF OneLoop, OnlyOwnMute, Dev!SpeakersRestored, Dev!Alive
  <2>7. QED
    BY <1>5, <2>2, <2>3, <2>4, <2>5, <2>6 DEF Dev!LoopStep
<1>6. CASE Dev!UserMutes
  <2>1. /\ UNCHANGED <<worker, loops>> /\ speakers' = ~speakers /\ silenced' = ~speakers
        /\ doubt' = (~speakers /\ \E l \in Loops : loops[l].unmute)
    BY <1>6 DEF Dev!UserMutes
  <2>2. /\ silenced' <=> speakers'
        /\ ~doubt' => ~speakers' \/ \A l \in Loops : ~loops[l].unmute
    BY <2>1
  <2>3. QED
    BY <1>0, <2>1, <2>2 DEF OneLoop, OnlyOwnMute, Dev!SpeakersRestored, Dev!Alive
<1>7. QED
  BY <1>1, <1>2, <1>3, <1>4, <1>5, <1>6
     DEF Dev!Next, Dev!CallRestart, Dev!CallStep, Dev!CallSteps

LEMMA DevIsInvariant == Spec => [](on = "device" => DevInv)
<1>1. Init => (on = "device" => DevInv)
  BY DevInit DEF Init
<1>2. (on = "device" => DevInv) /\ [Next]_vars => (on = "device" => DevInv)'
  <2>1. DevInv /\ UNCHANGED devVars => DevInv'
    BY DEF DevInv, OneLoop, OnlyOwnMute, Dev!Alive, Dev!TypeOK, Dev!SpeakersRestored, devVars
  <2>2. QED
    BY <2>1, DevStep, StepOfOnePart
<1>3. QED
  BY <1>1, <1>2, PTL DEF Spec

\* Capturing leaves the speakers as it found them, whatever fails, unless Windows
\* refused to unmute them or to tell, or the user muted them meanwhile
\* (streamer_windows.go).
THEOREM SpeakersTheorem == Spec => []SpeakersRestored
<1>1. (on = "device" => DevInv) => SpeakersRestored
  BY DEF DevInv, SpeakersRestored
<1>2. QED
  BY <1>1, DevIsInvariant, PTL

(***************************************************************************)
(* Supervision.                                                            *)
(***************************************************************************)

LEMMA SupInit == Sup!Init => Sup!TypeOK
<1> SUFFICES ASSUME Sup!Init PROVE Sup!TypeOK
  OBVIOUS
<1>1. /\ 1 \in 1..MaxRestarts
      /\ streak \in 0..RemediateAfter + 1 /\ panics \in 0..MaxPanics
  BY SupervisionAssumption DEF Sup!Init
<1>2. supervisor \in [at : {"running", "cooldown", "stopped", "aborted"},
                      attempt : 1..MaxRestarts]
  BY <1>1 DEF Sup!Init
<1>3. QED
  BY <1>1, <1>2 DEF Sup!Init, Sup!TypeOK

LEMMA SupStep ==
    ASSUME Sup!TypeOK, Sup!Next
    PROVE  Sup!TypeOK'
<1>1. /\ MaxRestarts \in Nat \ {0} /\ RemediateAfter \in Nat /\ MaxPanics \in Nat
      /\ streak \in 0..RemediateAfter + 1 /\ panics \in 0..MaxPanics
  BY SupervisionAssumption DEF Sup!TypeOK
<1>2. /\ supervisor = [at |-> supervisor.at, attempt |-> supervisor.attempt]
      /\ supervisor.at \in {"running", "cooldown", "stopped", "aborted"}
      /\ supervisor.attempt \in 1..MaxRestarts
  BY DEF Sup!TypeOK
<1>3. CASE Sup!ChildExits
  <2>1. PICK next \in {"stopped", "cooldown"} :
            supervisor' = [supervisor EXCEPT !.at = next]
    BY <1>3 DEF Sup!ChildExits
  <2>2. supervisor' \in [at : {"running", "cooldown", "stopped", "aborted"},
                         attempt : 1..MaxRestarts]
    BY <1>2, <2>1
  <2>3. QED
    BY <1>3, <2>2 DEF Sup!ChildExits, Sup!child, Sup!TypeOK
<1>4. CASE Sup!Respawn
  <2>1. CASE supervisor.attempt < MaxRestarts
    <3>1. supervisor' = [at |-> "running", attempt |-> supervisor.attempt + 1]
      BY <1>4, <2>1 DEF Sup!Respawn
    <3>2. supervisor' \in [at : {"running", "cooldown", "stopped", "aborted"},
                           attempt : 1..MaxRestarts]
      BY <1>1, <1>2, <2>1, <3>1
    <3>3. PICK up \in BOOLEAN : Sup!Fresh(up)
      BY <1>4, <2>1 DEF Sup!Respawn
    <3>4. streak' \in 0..RemediateAfter + 1 /\ panics' \in 0..MaxPanics
      BY <1>1, <3>3 DEF Sup!Fresh
    <3>5. QED
      BY <3>2, <3>3, <3>4 DEF Sup!Fresh, Sup!TypeOK
  <2>2. CASE ~(supervisor.attempt < MaxRestarts)
    <3>1. supervisor' = [supervisor EXCEPT !.at = "aborted"] /\ UNCHANGED Sup!child
      BY <1>4, <2>2 DEF Sup!Respawn
    <3>2. supervisor' \in [at : {"running", "cooldown", "stopped", "aborted"},
                           attempt : 1..MaxRestarts]
      BY <1>2, <3>1
    <3>3. QED
      BY <3>1, <3>2 DEF Sup!child, Sup!TypeOK
  <2>3. QED
    BY <2>1, <2>2
<1>5. CASE Sup!Poll
  <2>1. streak' \in 0..RemediateAfter + 1
    BY <1>1, <1>5 DEF Sup!Poll
  <2>2. remedy' \in BOOLEAN
    BY <1>5 DEF Sup!Poll, Sup!TypeOK
  <2>3. QED
    BY <1>5, <2>1, <2>2 DEF Sup!Poll, Sup!TypeOK
<1>6. CASE Sup!Panic
  <2>1. panics' \in 0..MaxPanics
    BY <1>1, <1>6 DEF Sup!Panic
  <2>2. QED
    BY <1>6, <2>1 DEF Sup!Panic, Sup!TypeOK
<1>7. CASE Sup!RestartMonitor
  <2>1. streak' \in 0..RemediateAfter + 1
    BY <1>1, <1>7 DEF Sup!RestartMonitor
  <2>2. QED
    BY <1>7, <2>1 DEF Sup!RestartMonitor, Sup!TypeOK
<1>8. CASE Sup!ListenerDies \/ Sup!GracePasses \/ Sup!Remediate
  BY <1>8 DEF Sup!ListenerDies, Sup!GracePasses, Sup!Remediate, Sup!TypeOK
<1>9. QED
  BY <1>3, <1>4, <1>5, <1>6, <1>7, <1>8 DEF Sup!Next

LEMMA SupIsInvariant == Spec => [](on = "supervision" => Sup!TypeOK)
<1>1. Init => (on = "supervision" => Sup!TypeOK)
  BY SupInit DEF Init
<1>2. (on = "supervision" => Sup!TypeOK) /\ [Next]_vars
          => (on = "supervision" => Sup!TypeOK)'
  <2>1. Sup!TypeOK /\ UNCHANGED supVars => Sup!TypeOK'
    BY DEF Sup!TypeOK, supVars
  <2>2. QED
    BY <2>1, SupStep, StepOfOnePart
<1>3. QED
  BY <1>1, <1>2, PTL DEF Spec

(***************************************************************************)
(* All parts.                                                              *)
(***************************************************************************)

\* Every part of the services keeps its types, whichever of them runs.
THEOREM ServicesTypes == Spec => []TypeOK
<1>1. DisInv => Dis!TypeOK
  BY DEF DisInv
<1>2. RouInv => Rou!TypeOK
  BY DEF RouInv
<1>3. PaiInv => Pai!TypeOK
  BY DEF PaiInv, CodeOK, HandshakesOK, StoreOK, Handshake, Pai!TypeOK, Pai!NoPin
<1>4. AudInv => Aud!TypeOK
  BY DEF AudInv
<1>5. CliInv => Cli!TypeOK
  BY DEF CliInv
<1>6. MedInv => Med!TypeOK
  BY DEF MedInv
<1>7. PlaInv => Pla!TypeOK
  BY DEF PlaInv
<1>8. BluInv => Blu!TypeOK
  BY DEF BluInv
<1>9. DevInv => Dev!TypeOK
  BY DEF DevInv
<1> DEFINE AllInv ==
    /\ on = "discovery" => DisInv
    /\ on = "routes" => RouInv
    /\ on = "pairing" => PaiInv
    /\ on = "audio" => AudInv
    /\ on = "clipboard" => CliInv
    /\ on = "media" => MedInv
    /\ on = "playout" => PlaInv
    /\ on = "bluetooth" => BluInv
    /\ on = "device" => DevInv
    /\ on = "supervision" => Sup!TypeOK
<1>10. AllInv => TypeOK
  BY <1>1, <1>2, <1>3, <1>4, <1>5, <1>6, <1>7, <1>8, <1>9 DEF TypeOK
<1>11. QED
  BY <1>10, DisIsInvariant, RouIsInvariant, PaiIsInvariant, AudIsInvariant, CliIsInvariant,
     MedIsInvariant, PlaIsInvariant, BluIsInvariant, DevIsInvariant, SupIsInvariant, PTL
=============================================================================
