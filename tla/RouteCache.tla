----------------------------- MODULE RouteCache -----------------------------
(***************************************************************************)
(* The cache of adapters and routes (internal/link/cache.go).  A route is  *)
(* resolved without the lock, against the snapshot of adapters taken       *)
(* before; it is stored only if that snapshot is still the current one.    *)
(*                                                                         *)
(* A network is the adapter configuration of one moment; the kind of an    *)
(* address is abstracted to the network it was resolved against (KindForIP *)
(* also asks Windows for the route of the moment, which is left out).  A   *)
(* slice is a network and an identity, the address of its first element.   *)
(***************************************************************************)
EXTENDS Integers

CONSTANTS
    Networks,   \* adapter configurations, NoAdapters (an empty list) included
    NoAdapters,
    IPs,
    Callers,    \* goroutines in kindForIP
    Slices,     \* identities of snapshots
    TTL         \* adapterCacheTTL in ticks of the model

VARIABLES
    network,    \* the adapters the system has now
    adapters,   \* routeCache.adapters
    valid, age, \* routeCache.valid, and the time since fetchedAt
    routes,     \* routeCache.routes: the network a route belongs to
    held        \* the lookup a caller is at, and its copy of the slice

vars == <<network, adapters, valid, age, routes, held>>

Snapshots == [net : Networks, id : Slices]
Missing   == "missing"
Idle      == [ip |-> "none"]

TypeOK ==
    /\ network \in Networks /\ adapters \in Snapshots
    /\ valid \in BOOLEAN /\ age \in 0..TTL
    /\ routes \in [IPs -> Networks \cup {Missing}]
    /\ held \in [Callers -> [ip : IPs, slice : Snapshots] \cup {Idle}]

NoRoutes == [ip \in IPs |-> Missing]

\* The zero value of the cache; its nil slice is an empty list.
Init ==
    /\ network = NoAdapters
    /\ adapters = [net |-> NoAdapters, id |-> CHOOSE i \in Slices : TRUE]
    /\ valid = FALSE /\ age = 0
    /\ routes = NoRoutes
    /\ held = [c \in Callers |-> Idle]

Used == {adapters.id} \cup {held[c].slice.id : c \in {d \in Callers : held[d] # Idle}}

Stale == ~valid \/ age = TTL

\* sameAdapters compares contents, not identities.
SameAdapters(slice, net) == slice.net = net

\* The snapshot and the routes after adaptersLocked: an unchanged list keeps
\* its identity, a changed one takes a new one and drops every route.
AdaptersLocked(force, snapshot, kept) ==
    /\ IF ~force /\ ~Stale
       THEN snapshot = adapters /\ kept = routes /\ UNCHANGED <<valid, age>>
       ELSE /\ IF valid /\ SameAdapters(adapters, network)
               THEN snapshot = adapters /\ kept = routes
               ELSE /\ \E i \in Slices \ Used : snapshot = [net |-> network, id |-> i]
                    /\ kept = NoRoutes
            /\ valid' = TRUE /\ age' = 0
    /\ adapters' = snapshot

\* Adapters and RefreshAdapters.
Get ==
    /\ \E force \in BOOLEAN : AdaptersLocked(force, adapters', routes')
    /\ UNCHANGED <<network, held>>

\* kindForIP, first section: a hit, or a miss that goes on to resolve.
Lookup(c) ==
    /\ held[c] = Idle
    /\ AdaptersLocked(FALSE, adapters', routes')
    /\ \E ip \in IPs :
        held' = IF routes'[ip] # Missing THEN held
                ELSE [held EXCEPT ![c] = [ip |-> ip, slice |-> adapters']]
    /\ UNCHANGED network

\* Mutant: lists of the same length are the same.
SameLength(a, b) == (a.net = NoAdapters) <=> (b.net = NoAdapters)

\* sameAdapterSlice: empty lists are all the same.
SameSlice(a, b) ==
    a = b \/ (a.net = NoAdapters /\ b.net = NoAdapters)

\* kindForIP, second section.
Store(c) ==
    /\ held[c] # Idle
    /\ routes' = IF SameSlice(adapters, held[c].slice)
                 THEN [routes EXCEPT ![held[c].ip] = held[c].slice.net]
                 ELSE routes
    /\ held' = [held EXCEPT ![c] = Idle]
    /\ UNCHANGED <<network, adapters, valid, age>>

\* An entry runs out: from then on it is not looked at.
Expire(ip) ==
    /\ routes[ip] # Missing
    /\ routes' = [routes EXCEPT ![ip] = Missing]
    /\ UNCHANGED <<network, adapters, valid, age, held>>

Tick ==
    /\ age < TTL
    /\ age' = age + 1
    /\ UNCHANGED <<network, adapters, valid, routes, held>>

\* A cable is plugged, an address is leased.
NetworkChanges ==
    /\ network' \in Networks \ {network}
    /\ UNCHANGED <<adapters, valid, age, routes, held>>

Next ==
    \/ Get \/ Tick \/ NetworkChanges
    \/ \E c \in Callers : Lookup(c) \/ Store(c)
    \/ \E ip \in IPs : Expire(ip)

Spec == Init /\ [][Next]_vars

(***************************************************************************)
(* Properties.                                                             *)
(***************************************************************************)

\* A route in the cache was resolved against the adapters the cache has now,
\* however long the resolution took and whatever was plugged meanwhile: a hit
\* is never older than the snapshot, which is refreshed before every use.
RoutesFitAdapters ==
    \A ip \in IPs : routes[ip] \in {Missing, adapters.net}
=============================================================================
