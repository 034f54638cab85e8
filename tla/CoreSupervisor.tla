--------------------------- MODULE CoreSupervisor ---------------------------
(***************************************************************************)
(* What xray.Manager promises about rw-core, without its locks, epochs and *)
(* goroutines: the four published states of docs/architecture.md section   *)
(* 7.1 and the process groups that may be alive behind them.  It is the    *)
(* abstract specification that XrayLifecycle implements.                   *)
(***************************************************************************)
EXTENDS Naturals, FiniteSets

CONSTANT Procs    \* identities of the processes the Manager may spawn

VARIABLES
    status,    \* the published lifecycle state
    groups,    \* process groups spawned and not yet verified gone
    spawned    \* every process ever spawned

vars == <<status, groups, spawned>>

Init == status = "stopped" /\ groups = {} /\ spawned = {}

\* Start is accepted; a second one is not.
Accept ==
    /\ status \in {"stopped", "running"}
    /\ status' = "starting"
    /\ UNCHANGED <<groups, spawned>>

\* A new core is spawned only when no older group can be alive, inside a Start
\* or under a Stop that overtook it.
Spawn(p) ==
    /\ status \in {"starting", "stopping"}
    /\ groups = {} /\ p \notin spawned
    /\ groups' = {p} /\ spawned' = spawned \cup {p}
    /\ UNCHANGED status

\* The group is verified gone and its leader reaped.
Reap == groups # {} /\ groups' = {} /\ UNCHANGED <<status, spawned>>

\* Only a Start that still owns the lifecycle reports a core, and one that
\* has not been reaped.
Online ==
    /\ status = "starting" /\ groups # {}
    /\ status' = "running"
    /\ UNCHANGED <<groups, spawned>>

\* A Stop, a failed cleanup, or an exit whose cleanup is unfinished.
Stopping == status # "stopping" /\ status' = "stopping" /\ UNCHANGED <<groups, spawned>>

\* "stopped" is published only once nothing is left.
Offline ==
    /\ status # "stopped" /\ groups = {}
    /\ status' = "stopped"
    /\ UNCHANGED <<groups, spawned>>

Next == Accept \/ (\E p \in Procs : Spawn(p)) \/ Reap \/ Online \/ Stopping \/ Offline

Spec == Init /\ [][Next]_vars
=============================================================================
