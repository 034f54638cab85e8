---------------------------- MODULE MCXrayManager ----------------------------
(* XrayLifecycle with three callers at a time: two Starts and a Stop, or a    *)
(* Start and two Stops.  The initial state chooses them.  forceRestart is     *)
(* read only by a Start that found a core running: the others leave it unset. *)
EXTENDS MCXrayLifecycle

VARIABLE cast   \* the callers that make calls

ManagerInit ==
    /\ Init
    /\ cast \in {c \in SUBSET Callers : Cardinality(c) = 3}

ManagerNext ==
    /\ Next /\ cast' = cast
    /\ \A s \in Starters \ cast : startPc'[s] = "idle"
    /\ \A t \in Stoppers \ cast : stopPc'[t] = "idle"
    /\ \A s \in cast \cap Starters :
        startPc'[s] = "begun" /\ request'[s].force => previous'[s] = "running"

ManagerSpec == ManagerInit /\ [][ManagerNext]_<<vars, cast>>
=============================================================================
