------------------------------ MODULE Discovery ------------------------------
(***************************************************************************)
(* The table of machines heard on the local network                        *)
(* (internal/discovery/discovery.go): listen enters announcements, cleanup *)
(* drops what has not been heard for a while.  What Peers makes of the     *)
(* table for the user, with the machines of other sources, is left out.    *)
(*                                                                         *)
(* Time is counted in ticks.  Ages are relative to now; the ticker of      *)
(* cleanup fires when its period is over and never later.                  *)
(***************************************************************************)
EXTENDS Integers, FiniteSets, Functions

CONSTANTS
    Devices, Addresses,
    MaxPeers,     \* maxPeers
    MaxAddresses, \* maxAddressesPerPeer
    TTL,          \* peerTTL
    Period        \* of the ticker of cleanup

VARIABLES
    lastSeen,  \* age of DiscoveredPeer.LastSeen; its domain is the table
    seen,      \* age of addressSeen's entries
    addresses, \* DiscoveredPeer.Addresses, the snapshot of addressSeen
    timer      \* time since cleanup last ran

vars == <<lastSeen, seen, addresses, timer>>

Table == DOMAIN lastSeen
Ages  == 0..(TTL + Period)

TypeOK ==
    /\ Table \subseteq Devices /\ DOMAIN seen = Table /\ DOMAIN addresses = Table
    /\ \A d \in Table :
        /\ lastSeen[d] \in Ages /\ addresses[d] \subseteq Addresses
        /\ DOMAIN seen[d] \subseteq Addresses /\ \A a \in DOMAIN seen[d] : seen[d][a] \in Ages
    /\ timer \in 0..Period

Empty == [d \in {} |-> 0]

Init ==
    /\ lastSeen = Empty /\ seen = Empty /\ addresses = Empty
    /\ timer = 0

\* The map f with key k set to v.
Put(f, k, v) == [x \in DOMAIN f \cup {k} |-> IF x = k THEN v ELSE f[x]]

\* Mutant of refreshPeerSnapshot: the list of addresses only grows.
FreshKeepsAll(ages) == ages

\* refreshPeerSnapshot: addresses past their time go, the rest are listed.
Fresh(ages) == Restrict(ages, {a \in DOMAIN ages : ages[a] <= TTL})

\* listen: a new device enters the table if there is room, a new address the
\* device's own list if there is room; only then do expired addresses go.
Announce(d, a) ==
    /\ d \in Table \/ Cardinality(Table) < MaxPeers
    /\ LET old   == IF d \in Table THEN seen[d] ELSE Empty
           room  == a \in DOMAIN old \/ Cardinality(DOMAIN old) < MaxAddresses
           fresh == Fresh(IF room THEN Put(old, a, 0) ELSE old)
       IN  /\ seen' = Put(seen, d, fresh)
           /\ addresses' = Put(addresses, d, DOMAIN fresh)
    /\ lastSeen' = Put(lastSeen, d, 0)
    /\ UNCHANGED timer

\* cleanup.
Cleanup ==
    /\ timer = Period
    /\ LET live == {d \in Table : lastSeen[d] <= TTL}
       IN  /\ lastSeen' = Restrict(lastSeen, live)
           /\ seen' = [d \in live |-> Fresh(seen[d])]
           /\ addresses' = [d \in live |-> DOMAIN Fresh(seen[d])]
    /\ timer' = 0

Older(ages) == [k \in DOMAIN ages |-> ages[k] + 1]

Tick ==
    /\ timer < Period
    /\ timer' = timer + 1
    /\ lastSeen' = Older(lastSeen)
    /\ seen' = [d \in Table |-> Older(seen[d])]
    /\ UNCHANGED addresses

Next ==
    \/ Cleanup \/ Tick
    \/ \E d \in Devices, a \in Addresses : Announce(d, a)

Spec == Init /\ [][Next]_vars

(***************************************************************************)
(* Properties.                                                             *)
(***************************************************************************)

\* A machine that went away, or moved to another address, is not offered for
\* ever: an address from the network is listed at most peerTTL and one period
\* of cleanup after it was last heard, and so is its device; neither the table
\* nor a device's list outgrows its limit.
OnlyRecentlyHeard ==
    /\ Cardinality(Table) <= MaxPeers
    /\ \A d \in Table :
        /\ lastSeen[d] <= TTL + Period
        /\ Cardinality(addresses[d]) <= MaxAddresses
        /\ \A a \in addresses[d] : a \in DOMAIN seen[d] /\ seen[d][a] <= TTL + Period
=============================================================================
