----------------------------- MODULE Supervision ------------------------------
(***************************************************************************)
(* What keeps the program up and tells the user that it is not: the        *)
(* supervisor process and its restarts (internal/bootstrap), the TCP       *)
(* listener that may fail to start or die later (internal/transport), and  *)
(* the health monitor that polls it and raises an alert, itself restarted  *)
(* after a panic (internal/resilience, wired in internal/app/app_startup). *)
(***************************************************************************)
EXTENDS Integers

CONSTANTS
    MaxRestarts,    \* children the supervisor starts
    RemediateAfter, \* consecutive failures before the alert
    MaxPanics       \* panics of the monitor in one run of the child: a bound

VARIABLES
    supervisor, \* what the supervisor does, and how many children it started
    listening,  \* Transport.listener is set
    grace,      \* healthGracePeriod has not passed
    monitor,    \* the health monitor's loop runs
    streak,     \* failStreak["transport"]
    panics,
    remedy,     \* the remediation's goroutine is on its way
    alerted     \* the user has been shown the alert

child == <<listening, grace, monitor, streak, panics, remedy, alerted>>
vars  == <<supervisor, child>>

TypeOK ==
    /\ supervisor \in [at : {"running", "cooldown", "stopped", "aborted"}, attempt : 1..MaxRestarts]
    /\ listening \in BOOLEAN /\ grace \in BOOLEAN /\ monitor \in BOOLEAN
    /\ streak \in 0..RemediateAfter + 1 /\ panics \in 0..MaxPanics
    /\ remedy \in BOOLEAN /\ alerted \in BOOLEAN

Running == supervisor.at = "running"

\* A child starts: nothing is left of the one before it.  Transport.Start
\* works, or the port is taken and the program goes on without a listener.
Fresh(up) ==
    /\ listening' = up
    /\ grace' = TRUE /\ monitor' = TRUE /\ streak' = 0 /\ panics' = 0
    /\ remedy' = FALSE /\ alerted' = FALSE

Init ==
    /\ supervisor = [at |-> "running", attempt |-> 1]
    /\ listening = TRUE /\ grace = TRUE /\ monitor = TRUE
    /\ streak = 0 /\ panics = 0 /\ remedy = FALSE /\ alerted = FALSE

(***************************************************************************)
(* runSupervisor.                                                          *)
(***************************************************************************)

\* The child ends by itself, or in an error.
ChildExits ==
    /\ Running
    /\ \E next \in {"stopped", "cooldown"} : supervisor' = [supervisor EXCEPT !.at = next]
    /\ UNCHANGED child

Respawn ==
    /\ supervisor.at = "cooldown"
    /\ IF supervisor.attempt < MaxRestarts
       THEN /\ supervisor' = [at |-> "running", attempt |-> supervisor.attempt + 1]
            /\ \E up \in BOOLEAN : Fresh(up)
       ELSE supervisor' = [supervisor EXCEPT !.at = "aborted"] /\ UNCHANGED child

(***************************************************************************)
(* The child.                                                              *)
(***************************************************************************)

\* acceptLoop meets a permanent error: it clears the field and ends.  Nothing
\* starts it again.
ListenerDies ==
    /\ Running /\ listening
    /\ listening' = FALSE
    /\ UNCHANGED <<supervisor, grace, monitor, streak, panics, remedy, alerted>>

GracePasses ==
    /\ Running /\ grace
    /\ grace' = FALSE
    /\ UNCHANGED <<supervisor, listening, monitor, streak, panics, remedy, alerted>>

\* Mutant: failures count in the grace period, only the alert waits for its end.
PollCountsInGrace ==
    /\ Running /\ monitor
    /\ IF listening
       THEN streak' = 0 /\ UNCHANGED remedy
       ELSE /\ streak' = IF streak > RemediateAfter THEN streak ELSE streak + 1
            /\ remedy' = (remedy \/ (streak + 1 = RemediateAfter /\ ~grace))
    /\ UNCHANGED <<supervisor, listening, grace, monitor, panics, alerted>>

\* One turn of HealthMonitor.Run: in the grace period every check counts as
\* passed; the remediation is called when the streak reaches its length.
Poll ==
    /\ Running /\ monitor
    /\ IF listening \/ grace
       THEN streak' = 0 /\ UNCHANGED remedy
       ELSE /\ streak' = IF streak > RemediateAfter THEN streak ELSE streak + 1
            /\ remedy' = (remedy \/ streak + 1 = RemediateAfter)
    /\ UNCHANGED <<supervisor, listening, grace, monitor, panics, alerted>>

\* A check or the emission panics: the streaks are gone with the loop.
Panic ==
    /\ Running /\ monitor /\ panics < MaxPanics
    /\ monitor' = FALSE /\ panics' = panics + 1
    /\ UNCHANGED <<supervisor, listening, grace, streak, remedy, alerted>>

\* SafeGoRestart, after its delay.
RestartMonitor ==
    /\ Running /\ ~monitor
    /\ monitor' = TRUE /\ streak' = 0
    /\ UNCHANGED <<supervisor, listening, grace, panics, remedy, alerted>>

\* The remediation's own goroutine: the alert is emitted.
Remediate ==
    /\ Running /\ remedy
    /\ remedy' = FALSE /\ alerted' = TRUE
    /\ UNCHANGED <<supervisor, listening, grace, monitor, streak, panics>>

Next ==
    \/ ChildExits \/ Respawn
    \/ ListenerDies \/ GracePasses \/ Poll \/ Panic \/ RestartMonitor \/ Remediate

Spec == Init /\ [][Next]_vars /\ WF_vars(Poll) /\ WF_vars(GracePasses) /\ WF_vars(RestartMonitor) /\ WF_vars(Remediate)

(***************************************************************************)
(* Properties.                                                             *)
(***************************************************************************)

Down     == Running /\ ~listening
Reported == alerted

\* A program that nobody can connect to says so: while it runs without its
\* listener, whenever that died or although it never started, the user is
\* alerted in the end, whatever grace period, panics of the monitor and earlier
\* streaks came before.
DownIsReported == <>[]Down => <>[]Reported
=============================================================================
