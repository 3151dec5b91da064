----------------------------- MODULE MCServices -----------------------------
(***************************************************************************)
(* The small instances of the services: what a configuration cannot say.   *)
(***************************************************************************)
EXTENDS Services, TLC

\* Two profiles of the jitter buffer, the second with the larger bounds.
TwoProfiles ==
    {[target |-> 1, ceiling |-> 3, max |-> 5], [target |-> 2, ceiling |-> 4, max |-> 6]}

\* Handshakes, machines, texts and reconciliations are not told apart by what
\* they are called.
Symmetry ==
    Permutations(Handshakes) \cup Permutations(Machines) \cup Permutations(Texts)
        \cup Permutations(Jobs)

\* What is under way in MediaControl at once: reconciliations, the state-change
\* goroutine, the callbacks of a session, a device change, a received frame.
UnderWay ==
    {x \in {"jobs", "notifier", "callbacks", "change", "inbound"} :
        \/ x = "jobs" /\ \E j \in Jobs : jobs[j].pc # "idle"
        \/ x = "notifier" /\ notifier # "idle"
        \/ x = "callbacks" /\ (connect.pc # "idle" \/ disconnect # "idle")
        \/ x = "change" /\ change.pc # "idle"
        \/ x = "inbound" /\ inbound}

MaxUnderWay == 2

\* StreamsFitSettings promises nothing from the state on where raced is TRUE,
\* and AgreeUnlessCrossed from where crossed or lost is, and none of them
\* becomes FALSE again: such a state is checked and not continued.  Nor is one
\* with more than MaxUnderWay of MediaControl's activities under way.
Undecided ==
    /\ on = "media" => ~raced /\ Cardinality(UnderWay) <= MaxUnderWay
    /\ on = "clipboard" => ~crossed /\ ~lost
=============================================================================
