------------------------------- MODULE Pairing -------------------------------
(***************************************************************************)
(* Trust on the machine that is connected to: the pairing PIN, inbound     *)
(* handshakes and the trust store with its file (internal/transport/       *)
(* transport_handshake.go, transport_pairing.go, transport_pairing_pake.go *)
(* and internal/trust/trust.go).                                           *)
(*                                                                         *)
(* A handshake holds no lock: it snapshots the PIN, runs the PAKE, looks   *)
(* the device up, compares the PIN again, stores the device and draws a    *)
(* new PIN, each step in a section of its own.  A save replaces the file   *)
(* as a whole or fails.  Whether the peer typed the PIN right is its       *)
(* choice; the passing of two minutes (pairingCodeTTL) or of a lock is a   *)
(* step of its own.                                                        *)
(***************************************************************************)
EXTENDS Integers

CONSTANTS
    Devices,
    Handshakes,  \* inbound connections under way at once
    Pins,
    MaxFailures  \* pairingMaxFailures

VARIABLES
    pin, old,    \* Transport.pairingCode, and that it is past its time
    failures,    \* Transport.pairingFailures
    locked,      \* now is before pairingLockedUntil
    hs,          \* where each inbound handshake is
    records,     \* devices in Store.records
    file,        \* devices in peers.json
    spent,       \* PINs that have been replaced, or have paired a device (history)
    stored       \* devices stored without an error, whose removal nobody asked
                 \* for since (history)

code    == <<pin, old, failures, locked>>
store   == <<records, file>>
history == <<spent, stored>>
vars    == <<code, hs, store, history>>

Labels == {"idle", "pake", "lookup", "compare", "upsert", "consume", "seen"}
NoPin  == 0
Idle   == [pc |-> "idle", dev |-> "none", pin |-> NoPin, known |-> FALSE]

TypeOK ==
    /\ pin \in Pins /\ old \in BOOLEAN
    /\ failures \in 0..(MaxFailures - 1) /\ locked \in BOOLEAN
    /\ hs \in [Handshakes -> [pc : Labels, dev : Devices \cup {"none"},
                              pin : Pins \cup {NoPin}, known : BOOLEAN]]
    /\ records \subseteq Devices /\ file \subseteq Devices
    /\ spent \subseteq Pins /\ stored \subseteq Devices

Init ==
    /\ pin = (CHOOSE p \in Pins : TRUE) /\ old = FALSE /\ failures = 0 /\ locked = FALSE
    /\ hs = [h \in Handshakes |-> Idle]
    /\ records = {} /\ file = {}
    /\ spent = {} /\ stored = {}

At(h, label)   == hs[h].pc = label
Goto(h, label) == hs' = [hs EXCEPT ![h].pc = label]
Leave(h)      == hs' = [hs EXCEPT ![h] = Idle]

(***************************************************************************)
(* The PIN.                                                                *)
(***************************************************************************)

\* setPairingCodeLocked(""): six random digits, taken to be unlike the ones
\* that are in use.
Draw(lock) ==
    /\ pin' = CHOOSE p \in Pins : p \notin {pin} \cup {hs[h].pin : h \in Handshakes}
    /\ spent' = (spent \cup {pin}) \ {pin'}
    /\ old' = FALSE /\ failures' = 0 /\ locked' = lock

\* ensurePairingCodeLocked, when the PIN is past its time.
Renew == old /\ Draw(FALSE)

Current == ~old /\ UNCHANGED <<code, spent>>

\* Mutant: one failure too many before the PIN is replaced.
RecordFailureLate ==
    IF failures >= MaxFailures THEN Draw(TRUE)
    ELSE /\ failures' = failures + 1 /\ locked' = TRUE
         /\ UNCHANGED <<pin, old, spent>>

\* recordPairingFailureLocked.
RecordFailure ==
    IF failures + 1 >= MaxFailures THEN Draw(TRUE)
    ELSE /\ failures' = failures + 1 /\ locked' = TRUE
         /\ UNCHANGED <<pin, old, spent>>

\* The window shows the PIN, or the user asks for a new one.
ShowPin ==
    /\ Renew \/ Draw(FALSE)
    /\ UNCHANGED <<hs, store, stored>>

GrowOld == ~old /\ old' = TRUE /\ UNCHANGED <<pin, failures, locked, hs, store, history>>
Unlock  == locked /\ locked' = FALSE /\ UNCHANGED <<pin, old, failures, hs, store, history>>

(***************************************************************************)
(* The trust store.                                                        *)
(***************************************************************************)

\* saveLocked: the whole table, by a temporary file and a rename.
Saved(new, ok) == records' = new /\ file' = IF ok THEN new ELSE file

\* GetByDeviceID; Upsert, where only the set of devices tells; MarkSeen, which
\* leaves a device that has been removed alone.
Known(d)     == d \in records
Put(d, ok)   == Saved(records \cup {d}, ok)
Touch(d)     == IF Known(d) THEN \E ok \in BOOLEAN : Saved(records, ok) ELSE UNCHANGED store

\* Store.Remove, which UntrustPeer reports to the user: a device that is not
\* in the table is done with.
Remove(d) ==
    /\ stored' = stored \ {d}
    /\ IF Known(d) THEN \E ok \in BOOLEAN : Saved(records \ {d}, ok)
       ELSE UNCHANGED store
    /\ UNCHANGED <<code, hs, spent>>

\* The program ends, or crashes, and starts again: OpenStore reads the file.
Restart ==
    /\ records' = file /\ file' = file
    /\ hs' = [h \in Handshakes |-> Idle]
    /\ Draw(FALSE)
    /\ UNCHANGED stored

(***************************************************************************)
(* An inbound handshake.                                                   *)
(***************************************************************************)

\* A peer connects without a PIN.
BeginPlain(h, d) ==
    /\ At(h, "idle")
    /\ hs' = [hs EXCEPT ![h] = [Idle EXCEPT !.pc = "lookup", !.dev = d]]
    /\ UNCHANGED <<code, store, history>>

\* runPairingInbound snapshots the PIN; a lock ends the handshake.
BeginPairing(h, d) ==
    /\ At(h, "idle")
    /\ Renew \/ Current
    /\ IF locked' THEN UNCHANGED hs
       ELSE hs' = [hs EXCEPT ![h] = [pc |-> "pake", dev |-> d, pin |-> pin',
                                     known |-> FALSE]]
    /\ UNCHANGED <<store, stored>>

PakeSucceeds(h) ==
    /\ At(h, "pake")
    /\ Goto(h, "lookup")
    /\ UNCHANGED <<code, store, history>>

PakeFails(h) ==
    /\ At(h, "pake")
    /\ RecordFailure
    /\ Leave(h)
    /\ UNCHANGED <<store, stored>>

\* authorizeInboundPeer: GetByDeviceID, a fingerprint that does not match is
\* refused; a known device without a PIN goes straight on.
Lookup(h) ==
    /\ At(h, "lookup")
    /\ LET known == Known(hs[h].dev)
       IN  \/ hs' = [hs EXCEPT
                     ![h].known = known,
                     ![h].pc = IF known /\ hs[h].pin = NoPin THEN "seen" ELSE "compare"]
           \/ known /\ Leave(h)
    /\ UNCHANGED <<code, store, history>>

\* Mutant: the PAKE proved that the peer knows the PIN, and that is enough.
CompareNothing(h) ==
    /\ At(h, "compare") /\ ~old
    /\ IF locked THEN Leave(h)
       ELSE Goto(h, IF hs[h].known THEN "consume" ELSE "upsert")
    /\ UNCHANGED <<code, store, history>>

\* The PIN is compared with the current one, and an absent or outdated one
\* counts as a failure.
Compare(h) ==
    /\ At(h, "compare") /\ ~old
    /\ IF locked
       THEN Leave(h) /\ UNCHANGED <<code, spent>>
       ELSE IF hs[h].pin # pin
       THEN RecordFailure /\ Leave(h)
       ELSE /\ Goto(h, IF hs[h].known THEN "consume" ELSE "upsert")
            /\ UNCHANGED <<code, spent>>
    /\ UNCHANGED <<store, stored>>

\* Comparing renews a PIN that is past its time, and the one presented is then
\* the wrong one.
CompareLate(h) ==
    /\ At(h, "compare") /\ Renew
    /\ UNCHANGED <<hs, store, stored>>

\* Mutant: the device is accepted whether or not the file could be written.
UpsertIgnoresError(h) ==
    /\ At(h, "upsert")
    /\ \E ok \in BOOLEAN :
        /\ Put(hs[h].dev, ok)
        /\ stored' = stored \cup {hs[h].dev}
    /\ Goto(h, "consume")
    /\ UNCHANGED <<code, spent>>

\* Store.Upsert: an error ends the handshake, and the record stays in memory.
Upsert(h) ==
    /\ At(h, "upsert")
    /\ \E ok \in BOOLEAN :
        /\ Put(hs[h].dev, ok)
        /\ IF ok THEN stored' = stored \cup {hs[h].dev} /\ Goto(h, "consume")
           ELSE UNCHANGED stored /\ Leave(h)
    /\ UNCHANGED <<code, spent>>

\* The PIN is consumed: whatever is current is replaced.
Consume(h) ==
    /\ At(h, "consume")
    /\ Draw(FALSE)
    /\ Goto(h, "seen")
    /\ UNCHANGED <<store, stored>>

\* Store.MarkSeen; an error is only logged.  The handshake is over, and its
\* session goes on elsewhere.
MarkSeen(h) ==
    /\ At(h, "seen")
    /\ Touch(hs[h].dev)
    /\ Leave(h)
    /\ UNCHANGED <<code, history>>

Next ==
    \/ ShowPin \/ GrowOld \/ Unlock \/ Restart
    \/ \E d \in Devices : Remove(d)
    \/ \E h \in Handshakes :
        \/ \E d \in Devices : BeginPlain(h, d) \/ BeginPairing(h, d)
        \/ PakeSucceeds(h) \/ PakeFails(h) \/ Lookup(h) \/ Compare(h)
        \/ CompareLate(h) \/ Upsert(h) \/ Consume(h) \/ MarkSeen(h)

Spec == Init /\ [][Next]_vars

(***************************************************************************)
(* Properties.                                                             *)
(***************************************************************************)

\* The comparison lets the handshake in.
LetsIn(h) == At(h, "compare") /\ hs'[h].pc \in {"upsert", "consume"}

\* A PIN is of no use once it has been replaced, though the PAKE with it has
\* succeeded: another handshake has paired a device with it, wrong guesses have
\* used it up, it has grown old or the user has drawn a new one meanwhile.
SpentPinIsRefused ==
    [][\A h \in Handshakes : LetsIn(h) => hs[h].pin \notin spent]_vars

\* A device stored without an error is trusted after every restart, through
\* saves that fail later, until somebody asks for its removal.
PairedSurvivesRestart == stored \subseteq records \cap file
=============================================================================
