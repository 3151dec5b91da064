------------------------------ MODULE Services ------------------------------
(***************************************************************************)
(* The services around the session.  These modules share nothing with each *)
(* other, so one behaviour runs one of them, chosen in the beginning, and  *)
(* the variables of the others stay at Unused.  Parts says which ones a    *)
(* run takes.                                                              *)
(***************************************************************************)
EXTENDS Integers, FiniteSets

CONSTANT Parts

CONSTANTS  \* Discovery
    NetDevices, Addresses, MaxPeers, MaxAddresses, PeerTTL, CleanupPeriod

ASSUME DiscoveryAssumption ==
    /\ MaxPeers \in Nat /\ MaxAddresses \in Nat
    /\ PeerTTL \in Nat /\ CleanupPeriod \in Nat

CONSTANTS  \* RouteCache
    Networks, NoAdapters, IPs, Resolvers, Slices, AdapterTTL

ASSUME RouteAssumption ==
    /\ NoAdapters \in Networks /\ "missing" \notin Networks
    /\ Slices # {} /\ AdapterTTL \in Nat

CONSTANTS  \* Pairing
    PairDevices, Handshakes, Pins, MaxPinFailures

\* Among the PINs there is always one that nobody is using.
ASSUME PairingAssumption ==
    /\ Pins # {} /\ MaxPinFailures \in Nat \ {0}
    /\ \A used \in Pins, f \in [Handshakes -> Pins \cup {0}] :
        \E p \in Pins : p # used /\ \A h \in Handshakes : p # f[h]

CONSTANTS  \* AudioLink
    Threads, LaneCap, MaxConfigs

ASSUME AudioAssumption ==
    LaneCap \in Nat \ {0} /\ MaxConfigs \in Nat /\ "capture" \notin Threads

CONSTANTS  \* Clipboard
    Machines, Texts, MaxCopies

ASSUME ClipboardAssumption ==
    /\ \E m, n \in Machines : m # n /\ Machines = {m, n}
    /\ "" \notin Texts /\ MaxCopies \in Nat

CONSTANTS  \* MediaControl
    Jobs, MaxNotes

ASSUME MediaAssumption == MaxNotes \in Nat \ {0}

CONSTANTS  \* Playout
    Profiles, Rates, Bursts, Blocks, Steps, DropAfter, NoRate

\* The profiles are those of playoutConfigForProfile in that their bounds are
\* in order; rates, bursts, blocks and steps are any.
ASSUME PlayoutAssumption ==
    /\ Profiles \subseteq [target : Nat, ceiling : Nat, max : Nat]
    /\ \A p \in Profiles : p.target <= p.ceiling /\ p.ceiling <= p.max
    /\ \E p \in Profiles : \A q \in Profiles : p.target >= q.target
    /\ Rates \subseteq Nat \ {0} /\ NoRate \notin Rates
    /\ Bursts \subseteq Nat /\ Blocks \subseteq Nat /\ Steps \subseteq Nat \ {0}
    /\ DropAfter \in Nat

CONSTANTS  \* BluetoothManager
    Sockets, BtDevices, NoSocket

ASSUME BluetoothAssumption == NoSocket \notin Sockets

CONSTANTS  \* AudioDevice
    Callers, Loops, MaxQuickFailures, NoLoop

ASSUME DeviceAssumption == MaxQuickFailures \in Nat /\ NoLoop \notin Loops

CONSTANTS  \* Supervision
    MaxRestarts, RemediateAfter, MaxPanics

ASSUME SupervisionAssumption ==
    MaxRestarts \in Nat \ {0} /\ RemediateAfter \in Nat /\ MaxPanics \in Nat

VARIABLE on  \* the part that runs

VARIABLES
    lastSeen, seen, addresses, timer

VARIABLES
    network, adapters, valid, age, routes, held

VARIABLES
    pin, old, failures, locked, hs, records, file, spent, stored

VARIABLES
    source, hand, capture, lane, sink, decoding, session, last, torn

VARIABLES
    clip, lastText, pending, arriving, inbox, polled, wire, sent, joined,
    opening, ending, alive, copies, crossed, lost

VARIABLES
    mode, timing, away, owed, notifier, stateChangePending, linked, controller,
    jobs, connect, disconnect, change, inbound, capturing, playing, asked, raced

VARIABLES
    cfg, rate, frames, pos, primed, target, strained, relaxed, panicked, moved

VARIABLES
    radio, nearby, enabled, listener, tryOK, wake, peers, run, open, checked

VARIABLES
    worker, closed, loops, callers, speakers, silenced, muteSource, doubt

VARIABLES
    supervisor, listening, grace, monitor, streak, panics, remedy, alerted

Dis == INSTANCE Discovery WITH
    Devices <- NetDevices, TTL <- PeerTTL, Period <- CleanupPeriod
Rou == INSTANCE RouteCache WITH Callers <- Resolvers, TTL <- AdapterTTL
Pai == INSTANCE Pairing WITH
    Devices <- PairDevices, MaxFailures <- MaxPinFailures
Aud == INSTANCE AudioLink
Cli == INSTANCE Clipboard
Med == INSTANCE MediaControl
Pla == INSTANCE Playout
Blu == INSTANCE BluetoothManager
Dev == INSTANCE AudioDevice WITH MaxFailures <- MaxQuickFailures
Sup == INSTANCE Supervision

disVars == <<lastSeen, seen, addresses, timer>>
rouVars == <<network, adapters, valid, age, routes, held>>
paiVars == <<pin, old, failures, locked, hs, records, file, spent, stored>>
audVars == <<source, hand, capture, lane, sink, decoding, session, last, torn>>
cliVars == <<clip, lastText, pending, arriving, inbox, polled, wire, sent,
    joined, opening, ending, alive, copies, crossed, lost>>
medVars == <<mode, timing, away, owed, notifier, stateChangePending, linked,
    controller, jobs, connect, disconnect, change, inbound, capturing, playing, asked, raced>>
plaVars == <<cfg, rate, frames, pos, primed, target, strained, relaxed, panicked,
    moved>>
bluVars == <<radio, nearby, enabled, listener, tryOK, wake, peers, run, open,
    checked>>
devVars == <<worker, closed, loops, callers, speakers, silenced, muteSource,
    doubt>>
supVars == <<supervisor, listening, grace, monitor, streak, panics, remedy,
    alerted>>

vars ==
    <<on, disVars, rouVars, paiVars, audVars, cliVars, medVars, plaVars, bluVars,
      devVars, supVars>>

Unused == "unused"

DisIdle ==
    /\ lastSeen = Unused /\ seen = Unused /\ addresses = Unused
    /\ timer = Unused

RouIdle ==
    /\ network = Unused /\ adapters = Unused /\ valid = Unused /\ age = Unused
    /\ routes = Unused /\ held = Unused

PaiIdle ==
    /\ pin = Unused /\ old = Unused /\ failures = Unused /\ locked = Unused
    /\ hs = Unused /\ records = Unused /\ file = Unused /\ spent = Unused
    /\ stored = Unused

AudIdle ==
    /\ source = Unused /\ hand = Unused /\ capture = Unused /\ lane = Unused
    /\ sink = Unused /\ decoding = Unused /\ session = Unused /\ last = Unused
    /\ torn = Unused

CliIdle ==
    /\ clip = Unused /\ lastText = Unused /\ pending = Unused
    /\ arriving = Unused /\ inbox = Unused /\ polled = Unused /\ wire = Unused
    /\ sent = Unused /\ joined = Unused /\ opening = Unused /\ ending = Unused
    /\ alive = Unused /\ copies = Unused /\ crossed = Unused /\ lost = Unused

MedIdle ==
    /\ mode = Unused /\ timing = Unused /\ away = Unused /\ owed = Unused
    /\ notifier = Unused /\ stateChangePending = Unused /\ linked = Unused
    /\ controller = Unused /\ jobs = Unused /\ connect = Unused
    /\ disconnect = Unused /\ change = Unused /\ inbound = Unused
    /\ capturing = Unused /\ playing = Unused /\ asked = Unused
    /\ raced = Unused

PlaIdle ==
    /\ cfg = Unused /\ rate = Unused /\ frames = Unused /\ pos = Unused
    /\ primed = Unused /\ target = Unused /\ strained = Unused
    /\ relaxed = Unused /\ panicked = Unused /\ moved = Unused

BluIdle ==
    /\ radio = Unused /\ nearby = Unused /\ enabled = Unused
    /\ listener = Unused /\ tryOK = Unused /\ wake = Unused /\ peers = Unused
    /\ run = Unused /\ open = Unused /\ checked = Unused

DevIdle ==
    /\ worker = Unused /\ closed = Unused /\ loops = Unused /\ callers = Unused
    /\ speakers = Unused /\ silenced = Unused /\ muteSource = Unused
    /\ doubt = Unused

SupIdle ==
    /\ supervisor = Unused /\ listening = Unused /\ grace = Unused
    /\ monitor = Unused /\ streak = Unused /\ panics = Unused
    /\ remedy = Unused /\ alerted = Unused

Init ==
    /\ on \in Parts
    /\ IF on = "discovery" THEN Dis!Init ELSE DisIdle
    /\ IF on = "routes" THEN Rou!Init ELSE RouIdle
    /\ IF on = "pairing" THEN Pai!Init ELSE PaiIdle
    /\ IF on = "audio" THEN Aud!Init ELSE AudIdle
    /\ IF on = "clipboard" THEN Cli!Init ELSE CliIdle
    /\ IF on = "media" THEN Med!Init ELSE MedIdle
    /\ IF on = "playout" THEN Pla!Init ELSE PlaIdle
    /\ IF on = "bluetooth" THEN Blu!Init ELSE BluIdle
    /\ IF on = "device" THEN Dev!Init ELSE DevIdle
    /\ IF on = "supervision" THEN Sup!Init ELSE SupIdle

\* The other parts stay as they are.
Only(part) ==
    /\ IF part = "discovery" THEN TRUE ELSE UNCHANGED disVars
    /\ IF part = "routes" THEN TRUE ELSE UNCHANGED rouVars
    /\ IF part = "pairing" THEN TRUE ELSE UNCHANGED paiVars
    /\ IF part = "audio" THEN TRUE ELSE UNCHANGED audVars
    /\ IF part = "clipboard" THEN TRUE ELSE UNCHANGED cliVars
    /\ IF part = "media" THEN TRUE ELSE UNCHANGED medVars
    /\ IF part = "playout" THEN TRUE ELSE UNCHANGED plaVars
    /\ IF part = "bluetooth" THEN TRUE ELSE UNCHANGED bluVars
    /\ IF part = "device" THEN TRUE ELSE UNCHANGED devVars
    /\ IF part = "supervision" THEN TRUE ELSE UNCHANGED supVars

Step(part, step) == on = part /\ step /\ UNCHANGED on /\ Only(part)

Next ==
    \/ Step("discovery", Dis!Next)
    \/ Step("routes", Rou!Next)
    \/ Step("pairing", Pai!Next)
    \/ Step("audio", Aud!Next)
    \/ Step("clipboard", Cli!Next)
    \/ Step("media", Med!Next)
    \/ Step("playout", Pla!Next)
    \/ Step("bluetooth", Blu!Next)
    \/ Step("device", Dev!Next)
    \/ Step("supervision", Sup!Next)

Spec == Init /\ [][Next]_vars

\* The fairness of the parts that state one.
Fairness ==
    /\ WF_vars(Step("bluetooth", Blu!Loop))
    /\ \A l \in Loops : WF_vars(Step("device", Dev!LoopStep(l)))
    /\ \A c \in Callers : WF_vars(Step("device", Dev!Stopped(c)))
    /\ WF_vars(Step("supervision", Sup!Poll))
    /\ WF_vars(Step("supervision", Sup!GracePasses))
    /\ WF_vars(Step("supervision", Sup!RestartMonitor))
    /\ WF_vars(Step("supervision", Sup!Remediate))

FairSpec == Spec /\ Fairness

(***************************************************************************)
(* The parts' properties; each module says more of its own.  The temporal   *)
(* ones are written out from its predicates, so that they look at the      *)
(* variables only where these are the part's.                              *)
(***************************************************************************)

\* Every part keeps its types.
TypeOK ==
    /\ on = "discovery" => Dis!TypeOK
    /\ on = "routes" => Rou!TypeOK
    /\ on = "pairing" => Pai!TypeOK
    /\ on = "audio" => Aud!TypeOK
    /\ on = "clipboard" => Cli!TypeOK
    /\ on = "media" => Med!TypeOK
    /\ on = "playout" => Pla!TypeOK
    /\ on = "bluetooth" => Blu!TypeOK
    /\ on = "device" => Dev!TypeOK
    /\ on = "supervision" => Sup!TypeOK

\* An address is listed only as long as it was heard lately (discovery.go).
OnlyRecentlyHeard == on = "discovery" => Dis!OnlyRecentlyHeard

\* A cached route fits the cached adapters (link/cache.go).
RoutesFitAdapters == on = "routes" => Rou!RoutesFitAdapters

\* A PIN that has been replaced lets nobody in, though the PAKE with it has
\* succeeded (transport_pairing.go).
SpentPinIsRefused ==
    [][on = "pairing" =>
        \A h \in Handshakes : Pai!LetsIn(h) => hs[h].pin \notin spent]_vars

\* A device stored without an error is trusted after every restart (trust.go).
PairedSurvivesRestart == on = "pairing" => Pai!PairedSurvivesRestart

\* Audio is decoded by the transport and the format it was encoded with, unless
\* two threads had frames of the stream in hand or the decoder was reset in the
\* middle of an Opus packet (audio/stream.go).
DecodedByItsOwn == on = "audio" => Aud!DecodedByItsOwn

\* Clipboards that settle are equal, unless copies crossed or a text was lost
\* on its way (clipboard_sync.go).
AgreeUnlessCrossed == on = "clipboard" => Cli!AgreeUnlessCrossed

\* Streams that settle are those the settings ask for, unless a start raced, the
\* callbacks of sessions did, or a note of a switch was lost (app_media.go).
StreamsFitSettings == on = "media" => Med!StreamsFitSettings

\* The jitter buffer is read and cut inside what it holds unless a rendered
\* frame moves it by more than four, and waits for a level within its profile's
\* bounds (playout.go).
BufferIsSound == on = "playout" => Pla!ReadsInside /\ Pla!TargetInBounds

\* No listening socket is lost (bluetooth/manager.go).
OpenIsHeld == on = "bluetooth" => Blu!OpenIsHeld

\* Bluetooth that stays off goes quiet (bluetooth/manager.go).
OffIsOff ==
    <>[](on = "bluetooth" => Blu!Off) => <>[](on = "bluetooth" => Blu!Silent)

\* Capturing leaves the speakers as it found them, unless Windows refused to
\* unmute them or to tell, or the user muted them meanwhile (streamer_windows.go).
SpeakersRestored == on = "device" => Dev!SpeakersRestored

\* Whoever stops a capture comes back (audio/streamer.go).
StopReturns ==
    \A c \in Callers :
        (on = "device" /\ Dev!Waits(c)) ~> (on = "device" => ~Dev!Waits(c))

\* A listener that is down for good is reported (resilience.go).
DownIsReported ==
    <>[](on = "supervision" => Sup!Down) => <>[](on = "supervision" => Sup!Reported)
=============================================================================
