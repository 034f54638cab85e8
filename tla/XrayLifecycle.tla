---------------------------- MODULE XrayLifecycle ----------------------------
(***************************************************************************)
(* The lifecycle of the supervised rw-core process: xray.Manager's Start,  *)
(* Stop and BeginMutation, the goroutine that monitors every process, and  *)
(* the termination of a process, as in internal/xray/{lifecycle,mutation,  *)
(* hashstate}.go.                                                          *)
(*                                                                         *)
(* Every Go critical section on Manager.mu, and every blocking operation   *)
(* between two of them, is one action.  Start and Stop are modelled by a   *)
(* program counter per caller; the monitor of a process by one per         *)
(* process; and terminateProcess, which only the owner of lifecycleMu ever *)
(* runs, by the single counter term.                                       *)
(***************************************************************************)
EXTENDS Naturals, FiniteSets

CONSTANTS
    Starters,      \* concurrent callers of Manager.Start
    Stoppers,      \* concurrent callers of Manager.Stop
    Mutators,      \* concurrent holders of a mutation lease
    UserMutators,  \* those that add and remove users: nodehandler requests
    Users,         \* user identities of the one modelled inbound
    Bases,         \* values of the panel's EmptyConfig hash
    HashCheck,     \* ~disableHashCheck
    MaxEpoch,      \* bound on operationEpoch
    MaxProc,       \* bound on nextProcessEpoch
    None           \* Go's nil

ASSUME BoundsAssumption == MaxEpoch \in Nat /\ MaxProc \in Nat /\ HashCheck \in BOOLEAN
ASSUME CallersAssumption ==
    /\ Starters \cap Stoppers = {}
    /\ None \notin Starters \cup Stoppers \cup Mutators \cup Bases
    /\ UserMutators \subseteq Mutators

VARIABLES
    \* Manager, under Manager.mu
    state, operationEpoch, nextProcessEpoch, startCancel, stopOp, process, lifecycleMu,
    pendingConfig, runtimeEpoch, hashes,
    \* processState, one per process epoch
    os, leader, cleanupErr, finalized, done, monitor, mutationGate, core, diverged,
    \* the callers
    startPc, startEpoch, previous, previousProcess, reserved, ctxDone, request,
    stopPc, stopCancels, stopProcess, retryCleanup,
    term,
    mutPc, mutProcess, mutCall,
    handlerGate    \* nodehandler.Service.mutationGate: its holder

managerVars == <<state, operationEpoch, nextProcessEpoch, startCancel, stopOp, process, lifecycleMu>>
runtimeVars == <<pendingConfig, runtimeEpoch, hashes>>
exitVars    == <<os, leader, cleanupErr, finalized, done, monitor>>
coreVars    == <<core, diverged>>
startVars   == <<startPc, startEpoch, previous, previousProcess, reserved, ctxDone, request>>
stopVars    == <<stopPc, stopCancels, stopProcess, retryCleanup>>
mutVars     == <<mutPc, mutProcess, mutCall, handlerGate>>
vars == <<managerVars, runtimeVars, exitVars, mutationGate, coreVars, startVars, stopVars, term, mutVars>>

Procs    == 1..MaxProc
NoProc   == 0
ProcIds  == 0..MaxProc
Callers  == Starters \cup Stoppers

Configs  == [base : Bases \cup {None}, users : SUBSET Users]
NoConfig == [base |-> None, users |-> {}]
\* runtimeState's hash fields: listed says that inboundHashes holds the inbound.
Hashes   == [base : Bases \cup {None}, listed : BOOLEAN, users : SUBSET Users]
NoHashes == [base |-> None, listed |-> FALSE, users |-> {}]
Requests == [config : Configs, force : BOOLEAN]
NoRequest == [config |-> NoConfig, force |-> FALSE]
\* What the panel sends: an EmptyConfig hash is never empty.
PanelRequests == {r \in Requests : r.config.base # None}
Calls    == [op : {"add", "remove"}, user : Users]
NoCall   == [op |-> "none", user |-> None]

BeforeSpawn == {"begun", "gate", "locked", "probe", "unchanged", "reserve", "restore",
                "prepare", "termPrevious", "preStart", "stage", "spawn"}
AfterSpawn  == {"assign", "termUnassigned", "retain", "await", "version", "commit", "termFailed"}
Completing  == {"failStopped", "failStopping", "failCleared", "failBare"}
StartPcs    == {"idle", "release"} \cup BeforeSpawn \cup AfterSpawn \cup Completing
StopPcs     == {"idle", "waiting", "cancel", "lock", "read", "gate", "act", "term",
                "closeDone", "judge", "publishStopped", "publishUnstopped", "release"}
MutPcs      == {"idle", "gate", "validate", "leased", "called"}
Monitors    == {"none", "wait", "finalize", "closeDone", "closeMonitor", "observe",
                "publishFinalized", "publishUnclean", "gone"}

Init ==
    /\ state = "stopped" /\ operationEpoch = 0 /\ nextProcessEpoch = 0
    /\ startCancel = None /\ stopOp = None /\ process = NoProc /\ lifecycleMu = None
    /\ pendingConfig = NoConfig /\ runtimeEpoch = NoProc /\ hashes = NoHashes
    /\ os = [p \in Procs |-> "none"]
    /\ leader = [p \in Procs |-> "unseen"]
    /\ cleanupErr = [p \in Procs |-> FALSE]
    /\ finalized = [p \in Procs |-> FALSE]
    /\ done = [p \in Procs |-> FALSE]
    /\ monitor = [p \in Procs |-> "none"]
    /\ mutationGate = [p \in Procs |-> None]
    /\ core = [p \in Procs |-> NoConfig]
    /\ diverged = [p \in Procs |-> FALSE]
    /\ startPc = [s \in Starters |-> "idle"]
    /\ startEpoch = [s \in Starters |-> 0]
    /\ previous = [s \in Starters |-> "stopped"]
    /\ previousProcess = [s \in Starters |-> NoProc]
    /\ reserved = [s \in Starters |-> NoProc]
    /\ ctxDone = [s \in Starters |-> FALSE]
    /\ request = [s \in Starters |-> NoRequest]
    /\ stopPc = [t \in Stoppers |-> "idle"]
    /\ stopCancels = [t \in Stoppers |-> None]
    /\ stopProcess = [t \in Stoppers |-> NoProc]
    /\ retryCleanup = [t \in Stoppers |-> FALSE]
    /\ term = "idle"
    /\ mutPc = [m \in Mutators |-> "idle"]
    /\ mutProcess = [m \in Mutators |-> NoProc]
    /\ mutCall = [m \in Mutators |-> NoCall]
    /\ handlerGate = None

-----------------------------------------------------------------------------
(* What the code reads off a process *)

\* leaderUnavailable: the leader's exit was observed, could not be observed,
\* or the process is finalized.
LeaderUnavailable(p) == leader[p] # "unseen" \/ finalized[p]

MonitorDone(p) == monitor[p] \in {"observe", "publishFinalized", "publishUnclean", "gone"}

\* finalizeMu is held from markFinalized to the close of done that follows it.
FinalizeHeld(p) ==
    \/ monitor[p] = "closeDone"
    \/ \E t \in Stoppers : stopPc[t] = "closeDone" /\ stopProcess[t] = p

\* sync.RWMutex: a reader gets in unless a writer holds the gate or waits for it.
WriterWaits(p) ==
    \/ \E s \in Starters : startPc[s] = "gate" /\ previousProcess[s] = p
    \/ \E t \in Stoppers : stopPc[t] = "gate" /\ stopProcess[t] = p
Readers(p) == {m \in Mutators : mutPc[m] \in {"validate", "leased", "called"} /\ mutProcess[m] = p}
\* A plausible bug: an exclusive lock that does not drain the readers.
UndrainedGate(p) == mutationGate[p] = None
GateFree(p) == mutationGate[p] = None /\ Readers(p) = {}

ClearRuntime == pendingConfig' = NoConfig /\ runtimeEpoch' = NoProc /\ hashes' = NoHashes

Goto(s, pc) == startPc' = [startPc EXCEPT ![s] = pc]
StopGoto(t, pc) == stopPc' = [stopPc EXCEPT ![t] = pc]

-----------------------------------------------------------------------------
(* Manager.Start *)

\* A plausible bug: a Start publishes without looking at its epoch.
NoEpochCheck(s) == TRUE
Owns(s) == operationEpoch = startEpoch[s]
OwnsStarting(s) == Owns(s) /\ state = "starting"

\* beginStart's conditions on the state and on a process retained unclean.
StartAdmitted ==
    /\ state \in {"stopped", "running"}
    /\ process # NoProc => ~cleanupErr[process] /\ leader[process] # "unobservable"

\* beginStart.  A caller that meets a false guard is answered "Request already
\* in progress" and changes nothing.
BeginStart(s, r) ==
    /\ startPc[s] = "idle"
    /\ operationEpoch < MaxEpoch /\ nextProcessEpoch < MaxProc
    /\ StartAdmitted
    /\ lifecycleMu = None
    /\ lifecycleMu' = s
    /\ operationEpoch' = operationEpoch + 1
    /\ state' = "starting"
    /\ startCancel' = s
    /\ startEpoch' = [startEpoch EXCEPT ![s] = operationEpoch + 1]
    /\ previous' = [previous EXCEPT ![s] = state]
    /\ request' = [request EXCEPT ![s] = r]
    /\ Goto(s, "begun")
    /\ UNCHANGED <<nextProcessEpoch, stopOp, process, runtimeVars, exitVars, mutationGate, coreVars,
                   previousProcess, reserved, ctxDone, stopVars, term, mutVars>>

\* The caller's context ends: the panel hangs up or its deadline passes.
CancelRequest(s) ==
    /\ startPc[s] \notin {"idle", "release"} /\ ~ctxDone[s]
    /\ ctxDone' = [ctxDone EXCEPT ![s] = TRUE]
    /\ UNCHANGED <<managerVars, runtimeVars, exitVars, mutationGate, coreVars, startPc, startEpoch,
                   previous, previousProcess, reserved, request, stopVars, term, mutVars>>

\* Steps that only move a Start from one program point to the next.
StartMoves(s, from, to) ==
    /\ startPc[s] = from
    /\ Goto(s, to)
    /\ UNCHANGED <<managerVars, runtimeVars, exitVars, mutationGate, coreVars, startEpoch,
                   previous, previousProcess, reserved, ctxDone, request, stopVars, term, mutVars>>

ReadPrevious(s) ==
    /\ startPc[s] = "begun"
    /\ previousProcess' = [previousProcess EXCEPT ![s] = process]
    /\ Goto(s, IF ctxDone[s] THEN "restore" ELSE IF process = NoProc THEN "locked" ELSE "gate")
    /\ UNCHANGED <<managerVars, runtimeVars, exitVars, mutationGate, coreVars, startEpoch,
                   previous, reserved, ctxDone, request, stopVars, term, mutVars>>

\* previousProcess.mutationGate.Lock()
LockPreviousGate(s) ==
    /\ startPc[s] = "gate"
    /\ GateFree(previousProcess[s])
    /\ mutationGate' = [mutationGate EXCEPT ![previousProcess[s]] = s]
    /\ Goto(s, "locked")
    /\ UNCHANGED <<managerVars, runtimeVars, exitVars, coreVars, startEpoch, previous,
                   previousProcess, reserved, ctxDone, request, stopVars, term, mutVars>>

ConsiderUnchanged(s) ==
    LET mayKeep == /\ previous[s] = "running" /\ HashCheck /\ ~request[s].force
                   /\ previousProcess[s] # NoProc
    IN  StartMoves(s, "locked",
                   IF ctxDone[s] THEN "restore" ELSE IF mayKeep THEN "probe" ELSE "reserve")

\* A plausible bug: only the base configuration and the list of inbounds are compared.
ComparesBaseOnly(config) ==
    hashes.base = None \/ config.base # hashes.base \/ ~hashes.listed

\* isNeedRestartCoreLocked
NeedRestart(config) ==
    \/ hashes.base = None
    \/ config.base # hashes.base
    \/ ~hashes.listed
    \/ config.users # hashes.users

\* probeProcessReadiness of the previous process and the hash comparison.
ProbePrevious(s) ==
    /\ startPc[s] = "probe"
    /\ \E ready \in {FALSE, os[previousProcess[s]] = "up"} :
           StartMoves(s, "probe",
                      IF ctxDone[s] THEN "restore"
                      ELSE IF ready /\ ~NeedRestart(request[s].config) THEN "unchanged" ELSE "reserve")

\* completeUnchangedStart
CompleteUnchanged(s) ==
    /\ startPc[s] = "unchanged"
    /\ \/ /\ ~Owns(s)
          /\ lifecycleMu' = None
          /\ Goto(s, "release")
          /\ UNCHANGED <<state, startCancel>>
       \/ /\ Owns(s)
          /\ process = NoProc \/ LeaderUnavailable(process)
          /\ Goto(s, IF ctxDone[s] THEN "restore" ELSE "reserve")
          /\ UNCHANGED <<state, startCancel, lifecycleMu>>
       \/ /\ Owns(s)
          /\ process # NoProc /\ ~LeaderUnavailable(process)
          /\ state' = "running"
          /\ startCancel' = None
          /\ lifecycleMu' = None
          /\ Goto(s, "release")
    /\ UNCHANGED <<operationEpoch, nextProcessEpoch, stopOp, process, runtimeVars, exitVars,
                   mutationGate, coreVars, startEpoch, previous, previousProcess, reserved,
                   ctxDone, request, stopVars, term, mutVars>>

\* The bound on process epochs never blocks here: BeginStart has observed it.
ReserveProcessIdentity(s) ==
    /\ startPc[s] = "reserve" /\ nextProcessEpoch < MaxProc
    /\ IF OwnsStarting(s)
       THEN /\ nextProcessEpoch' = nextProcessEpoch + 1
            /\ reserved' = [reserved EXCEPT ![s] = nextProcessEpoch + 1]
            /\ Goto(s, "prepare")
       ELSE /\ Goto(s, "restore")
            /\ UNCHANGED <<nextProcessEpoch, reserved>>
    /\ UNCHANGED <<state, operationEpoch, startCancel, stopOp, process, lifecycleMu, runtimeVars,
                   exitVars, mutationGate, coreVars, startEpoch, previous, previousProcess,
                   ctxDone, request, stopVars, term, mutVars>>

\* prepareRuntimeConfig and preparePanelRuntime; either may fail.
Prepare(s) ==
    /\ startPc[s] = "prepare"
    /\ \/ /\ ~ctxDone[s]
          /\ Goto(s, "termPrevious")
          /\ term' = "enter"
       \/ /\ Goto(s, "restore")
          /\ UNCHANGED term
    /\ UNCHANGED <<managerVars, runtimeVars, exitVars, mutationGate, coreVars, startEpoch, previous,
                   previousProcess, reserved, ctxDone, request, stopVars, mutVars>>

\* terminateProcess has returned to Start: at its three calls.
Terminated(s) ==
    /\ startPc[s] \in {"termPrevious", "termUnassigned", "termFailed"}
    /\ term \in {"ok", "failed"}
    /\ term' = "idle"
    /\ Goto(s, CASE startPc[s] = "termPrevious" ->
                        IF term = "failed" THEN "failStopping"
                        ELSE IF ctxDone[s] THEN "failStopped" ELSE "preStart"
                 [] startPc[s] = "termUnassigned" ->
                        IF term = "failed" THEN "retain" ELSE "failBare"
                 [] startPc[s] = "termFailed" ->
                        IF term = "failed" THEN "failStopping" ELSE "failStopped")
    /\ UNCHANGED <<managerVars, runtimeVars, exitVars, mutationGate, coreVars, startEpoch, previous,
                   previousProcess, reserved, ctxDone, request, stopVars, mutVars>>

RunPreStart(s) == StartMoves(s, "preStart", IF ctxDone[s] THEN "failStopped" ELSE "stage")

\* RWMutex.Unlock lets every blocked reader in, ahead of the next writer.
AdmitReaders(p) ==
    mutPc' = [m \in Mutators |-> IF mutPc[m] = "gate" /\ mutProcess[m] = p THEN "validate" ELSE mutPc[m]]

\* stagePendingConfig, and the release of the previous process's gate after it.
StagePendingConfig(s) ==
    /\ startPc[s] = "stage"
    /\ IF OwnsStarting(s)
       THEN /\ process' = IF process = previousProcess[s] THEN NoProc ELSE process
            /\ pendingConfig' = request[s].config
            /\ runtimeEpoch' = NoProc
            /\ hashes' = NoHashes
            /\ mutationGate' = [p \in Procs |-> IF mutationGate[p] = s THEN None ELSE mutationGate[p]]
            /\ AdmitReaders(previousProcess[s])
            /\ Goto(s, "spawn")
       ELSE /\ Goto(s, "failBare")
            /\ UNCHANGED <<process, runtimeVars, mutationGate, mutPc>>
    /\ UNCHANGED <<state, operationEpoch, nextProcessEpoch, startCancel, stopOp, lifecycleMu, exitVars,
                   coreVars, startEpoch, previous, previousProcess, reserved, ctxDone, request,
                   stopVars, term, mutProcess, mutCall, handlerGate>>

\* startProcess, with the monitor goroutine it launches.
StartProcess(s) ==
    /\ startPc[s] = "spawn"
    /\ \/ /\ os' = [os EXCEPT ![reserved[s]] = "boot"]
          /\ monitor' = [monitor EXCEPT ![reserved[s]] = "wait"]
          /\ Goto(s, "assign")
       \/ /\ Goto(s, "failCleared")
          /\ UNCHANGED <<os, monitor>>
    /\ UNCHANGED <<managerVars, runtimeVars, leader, cleanupErr, finalized, done, mutationGate, coreVars,
                   startEpoch, previous, previousProcess, reserved, ctxDone, request, stopVars,
                   term, mutVars>>

AssignProcess(s) ==
    /\ startPc[s] = "assign"
    /\ IF OwnsStarting(s)
       THEN process' = reserved[s] /\ Goto(s, "await") /\ UNCHANGED term
       ELSE UNCHANGED process /\ Goto(s, "termUnassigned") /\ term' = "enter"
    /\ UNCHANGED <<state, operationEpoch, nextProcessEpoch, startCancel, stopOp, lifecycleMu, runtimeVars,
                   exitVars, mutationGate, coreVars, startEpoch, previous, previousProcess, reserved,
                   ctxDone, request, stopVars, mutVars>>

RetainUncleanProcess(s) ==
    /\ startPc[s] = "retain"
    /\ process' = IF process = NoProc THEN reserved[s] ELSE process
    /\ state' = "stopping"
    /\ Goto(s, "failStopping")
    /\ UNCHANGED <<operationEpoch, nextProcessEpoch, startCancel, stopOp, lifecycleMu, runtimeVars,
                   exitVars, mutationGate, coreVars, startEpoch, previous, previousProcess, reserved,
                   ctxDone, request, stopVars, term, mutVars>>

\* waitForGRPC.  The API answers only once rw-core has loaded a configuration
\* that names this process's own socket.
AwaitReady(s) ==
    /\ startPc[s] = "await" /\ ~ctxDone[s]
    /\ os[reserved[s]] = "up" /\ core[reserved[s]] # NoConfig
    /\ ~LeaderUnavailable(reserved[s])
    /\ StartMoves(s, "await", "version")

\* It gives up on a timeout, an exit or a cancelled context; so does the
\* context check after the version probe.
StartFails(s) ==
    /\ startPc[s] = "await" \/ (startPc[s] = "version" /\ ctxDone[s])
    /\ Goto(s, "termFailed")
    /\ term' = "enter"
    /\ UNCHANGED <<managerVars, runtimeVars, exitVars, mutationGate, coreVars, startEpoch, previous,
                   previousProcess, reserved, ctxDone, request, stopVars, mutVars>>

ProbeVersion(s) == ~ctxDone[s] /\ StartMoves(s, "version", "commit")

\* commitRunningStart
CommitRunningStart(s) ==
    /\ startPc[s] = "commit"
    /\ \/ /\ ~OwnsStarting(s)
          /\ lifecycleMu' = None
          /\ Goto(s, "release")
          /\ UNCHANGED <<state, startCancel, runtimeVars, term>>
       \/ /\ OwnsStarting(s)
          /\ process # reserved[s] \/ LeaderUnavailable(reserved[s])
          /\ Goto(s, "termFailed")
          /\ term' = "enter"
          /\ UNCHANGED <<state, startCancel, lifecycleMu, runtimeVars>>
       \/ /\ OwnsStarting(s)
          /\ process = reserved[s] /\ ~LeaderUnavailable(reserved[s])
          /\ pendingConfig' = NoConfig
          /\ hashes' = [base |-> request[s].config.base, listed |-> TRUE, users |-> request[s].config.users]
          /\ runtimeEpoch' = reserved[s]
          /\ state' = "running"
          /\ startCancel' = None
          /\ lifecycleMu' = None
          /\ Goto(s, "release")
          /\ UNCHANGED term
    /\ UNCHANGED <<operationEpoch, nextProcessEpoch, stopOp, process, exitVars, mutationGate, coreVars,
                   startEpoch, previous, previousProcess, reserved, ctxDone, request, stopVars, mutVars>>

\* completeStart, at its calls with (stopped, process = nil and clear),
\* (stopping, nil), (stopped, clear) and (stopped, nil).
CompleteStart(s) ==
    /\ startPc[s] \in Completing
    /\ lifecycleMu' = None
    /\ Goto(s, "release")
    /\ IF Owns(s)
       THEN /\ state' = IF startPc[s] = "failStopping" THEN "stopping" ELSE "stopped"
            /\ startCancel' = None
            /\ process' = IF startPc[s] = "failStopped" THEN NoProc ELSE process
            /\ IF startPc[s] \in {"failStopped", "failCleared"} THEN ClearRuntime ELSE UNCHANGED runtimeVars
       ELSE UNCHANGED <<state, startCancel, process, runtimeVars>>
    /\ UNCHANGED <<operationEpoch, nextProcessEpoch, stopOp, exitVars, mutationGate, coreVars, startEpoch,
                   previous, previousProcess, reserved, ctxDone, request, stopVars, term, mutVars>>

\* restorePreviousStart
RestorePreviousStart(s) ==
    LET p == previousProcess[s]
        lost == p = NoProc \/ process # p
        final == IF previous[s] # "running" THEN previous[s]
                 ELSE IF lost \/ done[p] THEN "stopped"
                 ELSE IF leader[p] # "unseen" THEN "stopping" ELSE "running"
    IN  /\ startPc[s] = "restore"
        /\ lifecycleMu' = None
        /\ Goto(s, "release")
        /\ IF Owns(s)
           THEN /\ state' = final
                /\ startCancel' = None
                /\ process' = IF previous[s] = "running" /\ ~lost /\ done[p] THEN NoProc ELSE process
                /\ IF previous[s] = "running" /\ final # "running" THEN ClearRuntime ELSE UNCHANGED runtimeVars
           ELSE UNCHANGED <<state, startCancel, process, runtimeVars>>
        /\ UNCHANGED <<operationEpoch, nextProcessEpoch, stopOp, exitVars, mutationGate, coreVars, startEpoch,
                       previous, previousProcess, reserved, ctxDone, request, stopVars, term, mutVars>>

\* The deferred releasePreviousGate, and Start returns.
ReturnStart(s) ==
    /\ startPc[s] = "release"
    /\ Goto(s, "idle")
    /\ mutationGate' = [p \in Procs |-> IF mutationGate[p] = s THEN None ELSE mutationGate[p]]
    /\ IF \E p \in Procs : mutationGate[p] = s THEN AdmitReaders(previousProcess[s]) ELSE UNCHANGED mutPc
    /\ startEpoch' = [startEpoch EXCEPT ![s] = 0]
    /\ previous' = [previous EXCEPT ![s] = "stopped"]
    /\ previousProcess' = [previousProcess EXCEPT ![s] = NoProc]
    /\ reserved' = [reserved EXCEPT ![s] = NoProc]
    /\ ctxDone' = [ctxDone EXCEPT ![s] = FALSE]
    /\ request' = [request EXCEPT ![s] = NoRequest]
    /\ UNCHANGED <<managerVars, runtimeVars, exitVars, coreVars, stopVars, term, mutProcess, mutCall, handlerGate>>

-----------------------------------------------------------------------------
(* Manager.Stop *)

\* reserveStop finds a Stop in progress and waits for its result.
JoinStop(t) ==
    /\ stopPc[t] = "idle"
    /\ state = "stopping" /\ stopOp # None
    /\ StopGoto(t, "waiting")
    /\ UNCHANGED <<managerVars, runtimeVars, exitVars, mutationGate, coreVars, startVars,
                   stopCancels, stopProcess, retryCleanup, term, mutVars>>

\* reserveStop during a Start: it invalidates the Start's epoch and will cancel
\* it and wait for lifecycleMu.
StopStarting(t) ==
    /\ stopPc[t] = "idle"
    /\ operationEpoch < MaxEpoch
    /\ state = "starting"
    /\ operationEpoch' = operationEpoch + 1
    /\ state' = "stopping"
    /\ stopOp' = t
    /\ startCancel' = None
    /\ stopCancels' = [stopCancels EXCEPT ![t] = startCancel]
    /\ StopGoto(t, "cancel")
    /\ UNCHANGED <<nextProcessEpoch, process, lifecycleMu, runtimeVars, exitVars, mutationGate, coreVars,
                   startVars, stopProcess, retryCleanup, term, mutVars>>

\* reserveStop otherwise.  TryLock cannot fail here (OwnershipPublished), so the
\* source's defensive branch for that case is not an action.
StopSettled(t) ==
    /\ stopPc[t] = "idle"
    /\ operationEpoch < MaxEpoch
    /\ state \in {"stopped", "running"} \/ (state = "stopping" /\ stopOp = None)
    /\ lifecycleMu = None
    /\ lifecycleMu' = t
    /\ operationEpoch' = operationEpoch + 1
    /\ state' = "stopping"
    /\ stopOp' = t
    /\ retryCleanup' = [retryCleanup EXCEPT ![t] = state = "stopping"]
    /\ StopGoto(t, "read")
    /\ UNCHANGED <<nextProcessEpoch, startCancel, process, runtimeVars, exitVars, mutationGate, coreVars,
                   startVars, stopCancels, stopProcess, term, mutVars>>

CancelStart(t) ==
    /\ stopPc[t] = "cancel"
    /\ ctxDone' = [s \in Starters |-> ctxDone[s] \/ s = stopCancels[t]]
    /\ stopCancels' = [stopCancels EXCEPT ![t] = None]
    /\ StopGoto(t, "lock")
    /\ UNCHANGED <<managerVars, runtimeVars, exitVars, mutationGate, coreVars, startPc, startEpoch, previous,
                   previousProcess, reserved, request, stopProcess, retryCleanup, term, mutVars>>

LockLifecycle(t) ==
    /\ stopPc[t] = "lock"
    /\ lifecycleMu = None
    /\ lifecycleMu' = t
    /\ StopGoto(t, "read")
    /\ UNCHANGED <<state, operationEpoch, nextProcessEpoch, startCancel, stopOp, process, runtimeVars, exitVars,
                   mutationGate, coreVars, startVars, stopCancels, stopProcess, retryCleanup, term, mutVars>>

ReadProcess(t) ==
    /\ stopPc[t] = "read"
    /\ stopProcess' = [stopProcess EXCEPT ![t] = process]
    /\ StopGoto(t, IF process = NoProc THEN "act" ELSE "gate")
    /\ UNCHANGED <<managerVars, runtimeVars, exitVars, mutationGate, coreVars, startVars,
                   stopCancels, retryCleanup, term, mutVars>>

LockGate(t) ==
    /\ stopPc[t] = "gate"
    /\ GateFree(stopProcess[t])
    /\ mutationGate' = [mutationGate EXCEPT ![stopProcess[t]] = t]
    /\ StopGoto(t, "act")
    /\ UNCHANGED <<managerVars, runtimeVars, exitVars, coreVars, startVars,
                   stopCancels, stopProcess, retryCleanup, term, mutVars>>

\* retryProcessCleanup of a retained process that observed its leader's exit but
\* failed to clean the process group up: finalizeExitedProcess runs again.
RetriesFinalize(t) ==
    /\ retryCleanup[t] /\ stopProcess[t] # NoProc
    /\ ~finalized[stopProcess[t]]
    /\ leader[stopProcess[t]] = "observed" /\ cleanupErr[stopProcess[t]]

RetryFinalize(t) ==
    /\ stopPc[t] = "act"
    /\ RetriesFinalize(t)
    /\ \/ /\ finalized' = [finalized EXCEPT ![stopProcess[t]] = TRUE]
          /\ StopGoto(t, "closeDone")
       \/ /\ StopGoto(t, "judge")
          /\ UNCHANGED finalized
    /\ UNCHANGED <<managerVars, runtimeVars, os, leader, cleanupErr, done, monitor, mutationGate, coreVars,
                   startVars, stopCancels, stopProcess, retryCleanup, term, mutVars>>

StopCloseDone(t) ==
    /\ stopPc[t] = "closeDone"
    /\ done' = [done EXCEPT ![stopProcess[t]] = TRUE]
    /\ StopGoto(t, "judge")
    /\ UNCHANGED <<managerVars, runtimeVars, os, leader, cleanupErr, finalized, monitor, mutationGate,
                   coreVars, startVars, stopCancels, stopProcess, retryCleanup, term, mutVars>>

\* Every other Stop: nothing to do, an unobservable leader, or terminateProcess.
StopTerminates(t) ==
    /\ stopPc[t] = "act"
    /\ ~RetriesFinalize(t)
    /\ IF stopProcess[t] = NoProc
          \/ (retryCleanup[t] /\ (finalized[stopProcess[t]] \/ leader[stopProcess[t]] = "unobservable"))
       THEN StopGoto(t, "judge") /\ UNCHANGED term
       ELSE StopGoto(t, "term") /\ term' = "enter"
    /\ UNCHANGED <<managerVars, runtimeVars, exitVars, mutationGate, coreVars, startVars,
                   stopCancels, stopProcess, retryCleanup, mutVars>>

StopTerminated(t) ==
    /\ stopPc[t] = "term"
    /\ term \in {"ok", "failed"}
    /\ term' = "idle"
    /\ StopGoto(t, "judge")
    /\ UNCHANGED <<managerVars, runtimeVars, exitVars, mutationGate, coreVars, startVars,
                   stopCancels, stopProcess, retryCleanup, mutVars>>

\* A plausible bug: an exit that was observed counts as a clean-up.
JudgeByLeader(t) ==
    /\ stopPc[t] = "judge"
    /\ StopGoto(t, IF stopProcess[t] = NoProc THEN "publishStopped"
                   ELSE IF LeaderUnavailable(stopProcess[t]) THEN "publishStopped" ELSE "publishUnstopped")
    /\ UNCHANGED <<managerVars, runtimeVars, exitVars, mutationGate, coreVars, startVars,
                   stopCancels, stopProcess, retryCleanup, term, mutVars>>

\* Stop reads the outcome that decides its answer before it takes Manager.mu.
JudgeStop(t) ==
    /\ stopPc[t] = "judge"
    /\ StopGoto(t, IF stopProcess[t] = NoProc THEN "publishStopped"
                   ELSE IF finalized[stopProcess[t]] THEN "publishStopped" ELSE "publishUnstopped")
    /\ UNCHANGED <<managerVars, runtimeVars, exitVars, mutationGate, coreVars, startVars,
                   stopCancels, stopProcess, retryCleanup, term, mutVars>>

\* A plausible bug: the result is published without closing operation.done.
LeaveJoiners(t) == StopGoto(t, "release")

\* close(operation.done): the callers that joined this Stop return with it.
WakeJoiners(t) ==
    stopPc' = [u \in Stoppers |-> IF u = t THEN "release"
                                  ELSE IF stopPc[u] = "waiting" THEN "idle" ELSE stopPc[u]]

\* Stop publishes its result, wakes the callers that joined it and unlocks.
FinishStop(t) ==
    /\ \/ /\ stopPc[t] = "publishStopped"
          /\ process' = IF process = stopProcess[t] THEN NoProc ELSE process
          /\ ClearRuntime
          /\ state' = "stopped"
       \/ /\ stopPc[t] = "publishUnstopped"
          /\ state' = "stopping"
          /\ UNCHANGED <<process, runtimeVars>>
    /\ stopOp' = None
    /\ lifecycleMu' = None
    /\ WakeJoiners(t)
    /\ UNCHANGED <<operationEpoch, nextProcessEpoch, startCancel, exitVars, mutationGate, coreVars,
                   startVars, stopCancels, stopProcess, retryCleanup, term, mutVars>>

ReturnStop(t) ==
    /\ stopPc[t] = "release"
    /\ StopGoto(t, "idle")
    /\ mutationGate' = [p \in Procs |-> IF mutationGate[p] = t THEN None ELSE mutationGate[p]]
    /\ AdmitReaders(stopProcess[t])
    /\ stopProcess' = [stopProcess EXCEPT ![t] = NoProc]
    /\ retryCleanup' = [retryCleanup EXCEPT ![t] = FALSE]
    /\ UNCHANGED <<managerVars, runtimeVars, exitVars, coreVars, startVars, stopCancels, term, mutProcess, mutCall, handlerGate>>

-----------------------------------------------------------------------------
(* terminateProcess *)

\* The process that a caller of terminateProcess passes; 0 is nil.
Terminating(p) ==
    \/ \E s \in Starters : startPc[s] = "termPrevious" /\ previousProcess[s] = p
    \/ \E s \in Starters : startPc[s] \in {"termUnassigned", "termFailed"} /\ reserved[s] = p
    \/ \E t \in Stoppers : stopPc[t] = "term" /\ stopProcess[t] = p

TermMoves(p, from, to) ==
    /\ Terminating(p) /\ term = from
    /\ term' = to
    /\ UNCHANGED <<managerVars, runtimeVars, exitVars, mutationGate, coreVars, startVars, stopVars, mutVars>>

TermEnter(p) ==
    TermMoves(p, "enter", IF p = NoProc THEN "ok" ELSE IF finalized[p] THEN "ok" ELSE "interrupt")

\* signal and kill take finalizeMu; on a finalized process they report
\* ErrProcessDone, which counts as delivered.
Interrupt(p) ==
    /\ ~FinalizeHeld(p)
    /\ \/ TermMoves(p, "interrupt", "waitInterrupt")
       \/ ~finalized[p] /\ TermMoves(p, "interrupt", "kill")

Kill(p) ==
    /\ ~FinalizeHeld(p)
    /\ \/ TermMoves(p, "kill", "waitKill")
       \/ ~finalized[p] /\ TermMoves(p, "kill", "failed")

\* A plausible bug: the monitor's end is taken for the end of the process group.
EndsWithMonitor(p) ==
    /\ finalized[p] \/ done[p] \/ MonitorDone(p)
    /\ \E wait \in {"waitInterrupt", "waitKill"} : TermMoves(p, wait, "ok")

\* waitForProcessAttempt returns; the verdict is processTerminationResult.
AttemptEnds(p) ==
    /\ finalized[p] \/ done[p] \/ MonitorDone(p)
    /\ \E wait \in {"waitInterrupt", "waitKill"} :
           TermMoves(p, wait, IF finalized[p] THEN "ok" ELSE "failed")

\* A plausible bug: a kill is presumed to work.
KillPresumed(p) == TermMoves(p, "waitInterrupt", "kill") \/ TermMoves(p, "waitKill", "ok")

\* Its timer fires first.
AttemptTimesOut(p) ==
    \/ TermMoves(p, "waitInterrupt", "kill")
    \/ TermMoves(p, "waitKill", "failed")

-----------------------------------------------------------------------------
(* rw-core and monitorProcess *)

\* rw-core fetches /internal/get-config once, when it boots.
LoadConfig(p) ==
    /\ os[p] = "boot"
    /\ os' = [os EXCEPT ![p] = "up"]
    /\ core' = [core EXCEPT ![p] = pendingConfig]
    /\ UNCHANGED <<managerVars, runtimeVars, leader, cleanupErr, finalized, done, monitor, mutationGate,
                   diverged, startVars, stopVars, term, mutVars>>

\* rw-core exits: on its own, on a signal, or killed.
CoreExits(p) ==
    /\ os[p] \in {"boot", "up"}
    /\ os' = [os EXCEPT ![p] = "exited"]
    /\ UNCHANGED <<managerVars, runtimeVars, leader, cleanupErr, finalized, done, monitor, mutationGate,
                   coreVars, startVars, stopVars, term, mutVars>>

MonitorMoves(p, from, to) ==
    /\ monitor[p] = from
    /\ monitor' = [monitor EXCEPT ![p] = to]
    /\ UNCHANGED <<os, mutationGate, coreVars, startVars, stopVars, term, mutVars>>

\* waitForProcessLeader returns and markLeaderWait records its answer.
MarkLeaderWait(p) ==
    /\ os[p] = "exited"
    /\ leader' = [leader EXCEPT ![p] = "observed"]
    /\ MonitorMoves(p, "wait", "finalize")
    /\ UNCHANGED <<managerVars, runtimeVars, cleanupErr, finalized, done>>

\* waitid fails, whatever rw-core is doing: the process is never finalized by
\* its monitor.
ObservationFails(p) ==
    /\ leader' = [leader EXCEPT ![p] = "unobservable"]
    /\ MonitorMoves(p, "wait", "closeMonitor")
    /\ UNCHANGED <<managerVars, runtimeVars, cleanupErr, finalized, done>>

\* finalizeExitedProcess by the monitor, up to markFinalized.
FinalizeExited(p) ==
    /\ \/ /\ finalized' = [finalized EXCEPT ![p] = TRUE]
          /\ MonitorMoves(p, "finalize", "closeDone")
          /\ UNCHANGED cleanupErr
       \/ /\ cleanupErr' = [cleanupErr EXCEPT ![p] = TRUE]
          /\ MonitorMoves(p, "finalize", "closeMonitor")
          /\ UNCHANGED finalized
    /\ UNCHANGED <<managerVars, runtimeVars, leader, done>>

CloseDone(p) ==
    /\ MonitorMoves(p, "closeDone", "closeMonitor")
    /\ done' = [done EXCEPT ![p] = TRUE]
    /\ UNCHANGED <<managerVars, runtimeVars, leader, cleanupErr, finalized>>

CloseMonitor(p) ==
    /\ MonitorMoves(p, "closeMonitor", "observe")
    /\ UNCHANGED <<managerVars, runtimeVars, leader, cleanupErr, finalized, done>>

ReadOutcome(p) ==
    /\ MonitorMoves(p, "observe", IF finalized[p] THEN "publishFinalized" ELSE "publishUnclean")
    /\ UNCHANGED <<managerVars, runtimeVars, leader, cleanupErr, finalized, done>>

\* The monitor publishes an exit of the current process that no Start or Stop
\* in progress will deal with.
ExitIsNews(p) == process = p /\ (state = "running" \/ (state = "stopping" /\ stopOp = None))

\* The monitor's critical section on Manager.mu.
PublishExit(p) ==
    /\ \E from \in {"publishFinalized", "publishUnclean"} :
        /\ MonitorMoves(p, from, "gone")
        /\ IF ExitIsNews(p)
           THEN /\ ClearRuntime
                /\ process' = IF from = "publishFinalized" THEN NoProc ELSE process
                /\ state' = IF from = "publishFinalized" THEN "stopped" ELSE "stopping"
           ELSE UNCHANGED <<process, state, runtimeVars>>
    /\ UNCHANGED <<operationEpoch, nextProcessEpoch, startCancel, stopOp, lifecycleMu,
                   leader, cleanupErr, finalized, done>>

-----------------------------------------------------------------------------
(* BeginMutation and the calls made under its lease *)

Online(p) == state = "running" /\ process = p /\ runtimeEpoch = p

\* acquireMutation, for a user request, and BeginMutation's first look.  A user
\* request holds its service's gate from before the lease until after it.
BeginMutation(m) ==
    /\ mutPc[m] = "idle"
    /\ IF m \in UserMutators THEN handlerGate = None /\ handlerGate' = m ELSE UNCHANGED handlerGate
    /\ process # NoProc /\ Online(process)
    /\ mutProcess' = [mutProcess EXCEPT ![m] = process]
    /\ mutPc' = [mutPc EXCEPT ![m] = "gate"]
    /\ UNCHANGED <<managerVars, runtimeVars, exitVars, mutationGate, coreVars, startVars, stopVars, term, mutCall>>

\* mutationGate.RLock()
LockShared(m) ==
    /\ mutPc[m] = "gate"
    /\ mutationGate[mutProcess[m]] = None /\ ~WriterWaits(mutProcess[m])
    /\ mutPc' = [mutPc EXCEPT ![m] = "validate"]
    /\ UNCHANGED <<managerVars, runtimeVars, exitVars, mutationGate, coreVars, startVars, stopVars, term,
                   mutProcess, mutCall, handlerGate>>

\* Dropping the shared lock, and the local state with it.
Unlease(m) ==
    /\ mutPc' = [mutPc EXCEPT ![m] = "idle"]
    /\ mutProcess' = [mutProcess EXCEPT ![m] = NoProc]
    /\ handlerGate' = IF handlerGate = m THEN None ELSE handlerGate
    /\ UNCHANGED <<managerVars, runtimeVars, exitVars, mutationGate, coreVars, startVars, stopVars, term, mutCall>>

Validate(m) ==
    /\ mutPc[m] = "validate"
    /\ \/ /\ Online(mutProcess[m])
          /\ mutPc' = [mutPc EXCEPT ![m] = "leased"]
          /\ UNCHANGED <<managerVars, runtimeVars, exitVars, mutationGate, coreVars, startVars, stopVars, term,
                         mutProcess, mutCall, handlerGate>>
       \/ Unlease(m)   \* the lifecycle changed, or the context is done

Applied(users, call) == IF call.op = "add" THEN users \cup {call.user} ELSE users \ {call.user}

\* A HandlerService call on the leased process.  It succeeds; or the caller sees
\* an error although rw-core applied it.  An error without effect is a stutter.
CallCore(m, c) ==
    /\ m \in UserMutators /\ mutPc[m] = "leased"
    /\ os[mutProcess[m]] = "up"
    /\ core' = [core EXCEPT ![mutProcess[m]] = [base |-> @.base, users |-> Applied(@.users, c)]]
    /\ \/ /\ mutPc' = [mutPc EXCEPT ![m] = "called"]
          /\ mutCall' = [mutCall EXCEPT ![m] = c]
          /\ UNCHANGED diverged
       \/ /\ diverged' = [diverged EXCEPT ![mutProcess[m]] = TRUE]
          /\ UNCHANGED <<mutPc, mutCall>>
    /\ UNCHANGED <<managerVars, runtimeVars, exitVars, mutationGate, startVars, stopVars, term, mutProcess,
                   handlerGate>>

\* commitUserAdded lists the inbound if need be; commitUserRemoved drops it from
\* inboundHashes when its last user goes.
HashesAfter(c) ==
    [hashes EXCEPT !.users = Applied(@, c),
                   !.listed = c.op = "add" \/ (@ /\ Applied(hashes.users, c) # {})]

\* commitUserAdded and commitUserRemoved, guarded by mutationTokenCurrentLocked.
CommitCall(m) ==
    /\ mutPc[m] = "called"
    /\ IF process = mutProcess[m] /\ runtimeEpoch = mutProcess[m]
       THEN hashes' = HashesAfter(mutCall[m])
       ELSE UNCHANGED hashes
    /\ mutPc' = [mutPc EXCEPT ![m] = "leased"]
    /\ mutCall' = [mutCall EXCEPT ![m] = NoCall]
    /\ UNCHANGED <<managerVars, pendingConfig, runtimeEpoch, exitVars, mutationGate, coreVars, startVars,
                   stopVars, term, mutProcess, handlerGate>>

ReleaseMutation(m) == mutPc[m] = "leased" /\ Unlease(m)

-----------------------------------------------------------------------------
StartStep(s) ==
    \/ ReadPrevious(s) \/ LockPreviousGate(s) \/ ConsiderUnchanged(s) \/ ProbePrevious(s)
    \/ CompleteUnchanged(s) \/ ReserveProcessIdentity(s) \/ Prepare(s) \/ Terminated(s)
    \/ RunPreStart(s) \/ StagePendingConfig(s) \/ StartProcess(s) \/ AssignProcess(s)
    \/ RetainUncleanProcess(s) \/ AwaitReady(s) \/ StartFails(s) \/ ProbeVersion(s)
    \/ CommitRunningStart(s) \/ CompleteStart(s) \/ RestorePreviousStart(s) \/ ReturnStart(s)

StopStep(t) ==
    \/ CancelStart(t) \/ LockLifecycle(t) \/ ReadProcess(t) \/ LockGate(t) \/ RetryFinalize(t)
    \/ StopCloseDone(t) \/ StopTerminates(t) \/ StopTerminated(t)
    \/ JudgeStop(t) \/ FinishStop(t) \/ ReturnStop(t)

TermStep ==
    \/ \E p \in ProcIds : TermEnter(p)
    \/ \E p \in Procs : Interrupt(p) \/ Kill(p) \/ AttemptEnds(p) \/ AttemptTimesOut(p)

MonitorStep(p) ==
    \/ MarkLeaderWait(p) \/ FinalizeExited(p) \/ CloseDone(p) \/ CloseMonitor(p)
    \/ ReadOutcome(p) \/ PublishExit(p)

MutationStep(m) ==
    LockShared(m) \/ Validate(m) \/ CommitCall(m) \/ ReleaseMutation(m)

Next ==
    \/ \E s \in Starters : (\E r \in PanelRequests : BeginStart(s, r)) \/ CancelRequest(s) \/ StartStep(s)
    \/ \E t \in Stoppers : JoinStop(t) \/ StopStarting(t) \/ StopSettled(t) \/ StopStep(t)
    \/ TermStep
    \/ \E p \in Procs : LoadConfig(p) \/ CoreExits(p) \/ ObservationFails(p) \/ MonitorStep(p)
    \/ \E m \in Mutators : BeginMutation(m) \/ (\E c \in Calls : CallCore(m, c)) \/ MutationStep(m)

Spec == Init /\ [][Next]_vars

\* Goroutines are scheduled, timers fire, and a handler makes finitely many
\* calls under its lease.  Nothing is assumed of rw-core itself, of the callers
\* of Start, Stop and BeginMutation, or of their contexts.
Fairness ==
    /\ \A s \in Starters : WF_vars(StartStep(s))
    /\ \A t \in Stoppers : WF_vars(StopStep(t))
    /\ WF_vars(TermStep)
    /\ \A p \in Procs : WF_vars(MonitorStep(p))
    /\ \A m \in Mutators : WF_vars(MutationStep(m)) /\ SF_vars(ReleaseMutation(m))

FairSpec == Spec /\ Fairness

-----------------------------------------------------------------------------
(* Properties *)

TypeManager ==
    /\ state \in {"stopped", "starting", "running", "stopping"}
    /\ operationEpoch \in 0..MaxEpoch /\ nextProcessEpoch \in ProcIds
    /\ startCancel \in Starters \cup {None} /\ stopOp \in Stoppers \cup {None}
    /\ process \in ProcIds /\ lifecycleMu \in Callers \cup {None}
TypeRuntime ==
    pendingConfig \in Configs /\ runtimeEpoch \in ProcIds /\ hashes \in Hashes
TypeProcesses ==
    /\ os \in [Procs -> {"none", "boot", "up", "exited"}]
    /\ leader \in [Procs -> {"unseen", "observed", "unobservable"}]
    /\ cleanupErr \in [Procs -> BOOLEAN] /\ finalized \in [Procs -> BOOLEAN]
    /\ done \in [Procs -> BOOLEAN] /\ monitor \in [Procs -> Monitors]
    /\ mutationGate \in [Procs -> Callers \cup {None}]
    /\ core \in [Procs -> Configs] /\ diverged \in [Procs -> BOOLEAN]
TypeStart ==
    /\ startPc \in [Starters -> StartPcs] /\ startEpoch \in [Starters -> 0..MaxEpoch]
    /\ previous \in [Starters -> {"stopped", "running"}]
    /\ previousProcess \in [Starters -> ProcIds] /\ reserved \in [Starters -> ProcIds]
    /\ ctxDone \in [Starters -> BOOLEAN] /\ request \in [Starters -> Requests]
TypeStop ==
    /\ stopPc \in [Stoppers -> StopPcs] /\ stopCancels \in [Stoppers -> Starters \cup {None}]
    /\ stopProcess \in [Stoppers -> ProcIds] /\ retryCleanup \in [Stoppers -> BOOLEAN]
    /\ term \in {"idle", "enter", "interrupt", "waitInterrupt", "kill", "waitKill", "ok", "failed"}
TypeMutations ==
    /\ mutPc \in [Mutators -> MutPcs] /\ mutProcess \in [Mutators -> ProcIds]
    /\ mutCall \in [Mutators -> Calls \cup {NoCall}] /\ handlerGate \in UserMutators \cup {None}

\* Every variable holds a value of its Go type.
TypeOK ==
    /\ TypeManager /\ TypeRuntime /\ TypeProcesses /\ TypeStart /\ TypeStop /\ TypeMutations

\* Processes whose process group has not been verified gone.
Unfinalized == {p \in Procs : os[p] # "none" /\ ~finalized[p]}

\* Start never spawns rw-core while an earlier process group may survive: at
\* most one process is spawned and not finalized, whatever fails or is cancelled.
SingleCore == \A p, q \in Unfinalized : p = q

\* A process that may be alive always has an owner that can end it: it is
\* Manager.process, or the Start that spawned it still holds lifecycleMu.
NoOrphan ==
    \A p \in Unfinalized :
        \/ process = p
        \/ \E s \in Starters : lifecycleMu = s /\ reserved[s] = p /\ startPc[s] \in AfterSpawn

\* What the node promises of the processes it spawns: never two that may be
\* alive, and never one that nobody can end.
CoreOwned == SingleCore /\ NoOrphan

\* Manager's promise that state and lifecycleMu are published together: in a
\* settled state the mutex is free, so neither TryLock of beginStart and
\* reserveStop can fail; while starting, the Start that can be cancelled holds it.
OwnershipPublished ==
    /\ state \in {"stopped", "running"} \/ (state = "stopping" /\ stopOp = None) => lifecycleMu = None
    /\ state = "starting" => lifecycleMu \in Starters /\ startCancel = lifecycleMu

\* "stopped" is the truth: no process of this Manager survives, and nothing of
\* the old runtime (pending configuration, epoch, hashes) is left behind.
StoppedIsClean ==
    state = "stopped" =>
        /\ process = NoProc /\ Unfinalized = {}
        /\ pendingConfig = NoConfig /\ runtimeEpoch = NoProc /\ hashes = NoHashes

\* No exit is lost between readiness and publication: a running core has a
\* monitor that has not published yet, and the runtime belongs to that process.
RunningIsMonitored ==
    state = "running" =>
        /\ process # NoProc /\ runtimeEpoch = process /\ pendingConfig = NoConfig
        /\ monitor[process] \notin {"none", "gone"}

\* A mutation lease pins its process: while it is held nobody terminates that
\* process, and Manager still points to it unless it died on its own and was reaped.
LeasePinsProcess ==
    \A m \in Mutators : mutPc[m] \in {"leased", "called"} =>
        /\ ~Terminating(mutProcess[m])
        /\ process = mutProcess[m] \/ finalized[mutProcess[m]]

\* The recorded hashes describe the running core: base and users agree unless a
\* successful call is still to be committed or a call failed after taking effect.
HashesDescribeCore ==
    \A p \in Procs :
        (/\ state = "running" /\ process = p /\ ~diverged[p]
         /\ \A m \in Mutators : ~(mutPc[m] = "called" /\ mutProcess[m] = p))
        => core[p] = [base |-> hashes.base, users |-> hashes.users]

\* A Start answered "unchanged" leaves a core that runs exactly the requested
\* configuration, unless an earlier call took effect behind an error.
UnchangedIsUnchanged ==
    [][\A s \in Starters :
         (startPc[s] = "unchanged" /\ state' = "running")
         => diverged[process] \/ core[process] = request[s].config]_vars

\* The hash bookkeeping is worth trusting: what is recorded is what runs, and a
\* Start that therefore keeps the core keeps the right one.
HashesTrackCore == []HashesDescribeCore /\ UnchangedIsUnchanged

\* Once a Stop has reserved the lifecycle no Start publishes over it: the state
\* is "stopping" until that Stop ends.
StopOutranksStart == stopOp # None => state = "stopping"

\* Every Start returns, whatever rw-core does.
StartReturns == \A s \in Starters : startPc[s] # "idle" ~> startPc[s] = "idle"

\* Every Stop returns, the ones that joined another Stop included.
StopReturns == \A t \in Stoppers : stopPc[t] # "idle" ~> stopPc[t] = "idle"

\* The death of a running core is noticed: Manager stops reporting it running.
ExitNoticed ==
    \A p \in Procs : (state = "running" /\ process = p /\ os[p] = "exited")
                     ~> ~(state = "running" /\ process = p)

\* Nothing a caller or the core waits for is forgotten: every Start and every
\* Stop returns, and the exit of a running core is published.
ManagerProgresses == StartReturns /\ StopReturns /\ ExitNoticed

\* The Manager implements the supervisor it promises to be: what it publishes,
\* what it spawns and what it reaps are steps of CoreSupervisor.
Supervisor == INSTANCE CoreSupervisor
                  WITH status <- state, groups <- Unfinalized,
                       spawned <- {p \in Procs : os[p] # "none"}
ImplementsSupervisor == Supervisor!Spec

\* "stopping --> stopped: process group cleanup verified" (docs/architecture.md
\* section 7.1): with no Stop under way, the Manager rests in "stopping" only
\* while the retained process is unclean or its monitor has yet to publish.
StoppingIsUnclean ==
    state = "stopping" /\ stopOp = None =>
        process # NoProc /\ (~finalized[process] \/ monitor[process] # "gone")

-----------------------------------------------------------------------------
(* The inductive invariant behind the safety properties *)

Active(s)   == startPc[s] \notin {"idle", "release"}
Pending(t)  == stopPc[t] \in {"cancel", "lock"}
Holding(t)  == stopPc[t] \notin {"idle", "waiting", "cancel", "lock", "release"}
\* Start has read its previous process and has not yet detached it.
HasPrevious == {"gate", "locked", "probe", "unchanged", "reserve", "restore",
                "prepare", "termPrevious", "preStart", "stage"}
Unassigned  == {"assign", "termUnassigned", "retain"}
RuntimeClear == pendingConfig = NoConfig /\ runtimeEpoch = NoProc /\ hashes = NoHashes
RuntimeLive  == process # NoProc /\ runtimeEpoch = process /\ pendingConfig = NoConfig

\* Who holds lifecycleMu and who has reserved the stop operation.
MutexInv ==
    /\ \A s \in Starters : Active(s) <=> lifecycleMu = s
    /\ \A t \in Stoppers : Holding(t) <=> lifecycleMu = t
    /\ \A t \in Stoppers : (Holding(t) \/ Pending(t)) <=> stopOp = t

\* What the published state says about the operations in progress.
StateInv ==
    /\ stopOp # None => state = "stopping"
    /\ state = "starting" => lifecycleMu \in Starters

\* A Start in progress owns the lifecycle until a Stop takes it away.
StartStands(s) ==
    Active(s) => \/ Owns(s) /\ state = "starting" /\ startCancel = s
                 \/ startEpoch[s] < operationEpoch /\ stopOp # None
StandInv == \A s \in Starters : StartStands(s)

\* What the settled states promise.
SettledInv ==
    /\ state = "stopped" => process = NoProc /\ RuntimeClear /\ Unfinalized = {}
    /\ state = "running" => RuntimeLive /\ monitor[process] \notin {"none", "gone"}

\* The life of one process.
ProcessLife(p) ==
    /\ os[p] = "none" <=> monitor[p] = "none"
    /\ os[p] # "none" => p <= nextProcessEpoch
    /\ leader[p] = "unseen" <=> monitor[p] \in {"none", "wait"}
    /\ done[p] => finalized[p]
    /\ monitor[p] = "finalize" => leader[p] = "observed"
    /\ monitor[p] \in {"closeDone", "publishFinalized"} => finalized[p]
    /\ finalized[p] => leader[p] = "observed"
LifeInv == \A p \in Procs : ProcessLife(p)

\* Who owns a process that may be alive.
Owned(p) == process = p \/ \E s \in Starters : reserved[s] = p /\ startPc[s] \in Unassigned
OwnerInv ==
    /\ process # NoProc => os[process] # "none"
    /\ \A p \in Unfinalized : Owned(p)

\* What a Start knows at each of its program points.
StartKnows(s) ==
    /\ startPc[s] \in HasPrevious => process = previousProcess[s]
    /\ startPc[s] \in HasPrevious \cup {"begun"} =>
           IF previous[s] = "running" THEN RuntimeLive ELSE process = NoProc /\ RuntimeClear
    /\ startPc[s] \in {"prepare", "termPrevious", "preStart", "stage", "spawn"} =>
           reserved[s] \in Procs /\ reserved[s] = nextProcessEpoch /\ os[reserved[s]] = "none"
    /\ startPc[s] \in AfterSpawn => reserved[s] \in Procs /\ os[reserved[s]] # "none"
    /\ startPc[s] \in Unassigned \cup {"spawn", "failCleared"} => process = NoProc
    /\ startPc[s] \in {"await", "version", "commit", "termFailed"} => process = reserved[s]
    /\ startPc[s] \in {"preStart", "stage", "spawn", "failStopped", "failCleared", "failBare"} =>
           Unfinalized = {}
    /\ startPc[s] \in {"termUnassigned", "retain", "failBare"} => ~Owns(s)
StartInv == \A s \in Starters : StartKnows(s)

\* What a Stop knows after it has read the process.
StopKnows(t) ==
    /\ Holding(t) /\ stopPc[t] # "read" => process = stopProcess[t]
    /\ stopPc[t] \in {"closeDone", "publishStopped"} /\ stopProcess[t] # NoProc =>
           leader[stopProcess[t]] = "observed" /\ finalized[stopProcess[t]]
StopInv == \A t \in Stoppers : StopKnows(t)

\* What a verdict "ok" of terminateProcess means.
VerdictInv == term = "ok" => \A p \in Procs : Terminating(p) => finalized[p]

\* A mutation's token names a process.
LeaseInv == \A m \in Mutators : mutPc[m] # "idle" => mutProcess[m] # NoProc

\* The inductive invariant of the Manager: types, who holds lifecycleMu, what
\* each state and each place in Start, Stop and terminateProcess says about the
\* processes.  SingleCore, NoOrphan, OwnershipPublished, StoppedIsClean,
\* RunningIsMonitored and StopOutranksStart follow from it.
LifecycleInv ==
    /\ TypeOK /\ MutexInv /\ StateInv /\ StandInv /\ SettledInv /\ LifeInv
    /\ OwnerInv /\ StartInv /\ StopInv /\ VerdictInv /\ LeaseInv

-----------------------------------------------------------------------------
(* The inductive invariant behind LeasePinsProcess and HashesTrackCore *)

\* Start holds the gate of its previous process, if there is one.
HoldsPrevious == {"locked", "probe", "unchanged", "reserve", "prepare", "termPrevious",
                  "preStart", "stage"}
\* Stop holds the gate of the process it has read, if there is one.
HoldsStopped  == {"act", "term", "closeDone", "judge", "publishStopped", "publishUnstopped",
                  "release"}
\* Start has a process identity of its own.
HasIdentity   == {"prepare", "termPrevious", "preStart", "stage", "spawn"} \cup AfterSpawn

\* Who holds a process's gate exclusively, and that it then has no readers.
ExclusiveInv ==
    /\ \A p \in Procs : mutationGate[p] # None =>
        /\ Readers(p) = {}
        /\ \A s \in Starters : mutationGate[p] = s =>
               previousProcess[s] = p /\ startPc[s] \notin {"idle", "begun", "gate"}
        /\ \A t \in Stoppers : mutationGate[p] = t =>
               stopProcess[t] = p /\ stopPc[t] \in HoldsStopped
    /\ \A s \in Starters : startPc[s] \in HoldsPrevious /\ previousProcess[s] # NoProc =>
           mutationGate[previousProcess[s]] = s
    /\ \A t \in Stoppers : stopPc[t] \in HoldsStopped /\ stopProcess[t] # NoProc =>
           mutationGate[stopProcess[t]] = t

\* What a mutation's token says of its process: it was spawned by a Start that
\* has ended, and Manager has not let go of it while it may be alive.
Token(m) ==
    mutPc[m] # "idle" =>
        /\ os[mutProcess[m]] # "none"
        /\ process = mutProcess[m] \/ finalized[mutProcess[m]]
        /\ \A s \in Starters : startPc[s] \in HasIdentity => reserved[s] # mutProcess[m]
TokenInv == \A m \in Mutators : Token(m)

\* One user request at a time is between its lease and its commit.
HandlerInv ==
    /\ \A m \in UserMutators : mutPc[m] # "idle" => handlerGate = m
    /\ \A m \in Mutators : mutPc[m] = "called" => m \in UserMutators

\* The configuration a Start is bringing up.
Launch(s) ==
    /\ startPc[s] \in {"spawn", "assign", "await", "version", "commit"} =>
           pendingConfig = request[s].config
    /\ startPc[s] \in {"assign", "await"} /\ os[reserved[s]] = "up" =>
           core[reserved[s]] = request[s].config
    /\ startPc[s] \in {"version", "commit"} =>
           os[reserved[s]] # "boot" /\ core[reserved[s]] = request[s].config
    /\ startPc[s] \in {"probe", "unchanged"} =>
           previous[s] = "running" /\ previousProcess[s] # NoProc
    /\ startPc[s] = "unchanged" =>
           hashes.base = request[s].config.base /\ hashes.users = request[s].config.users
LaunchInv == \A s \in Starters : Launch(s)

\* The recorded runtime is Manager's process, which has loaded its configuration.
EpochInv == runtimeEpoch # NoProc => process = runtimeEpoch /\ os[runtimeEpoch] \in {"up", "exited"}

\* The successful calls on a process that are still to be committed, and what
\* they and the hashes together say of rw-core.
Calling(p) == {m \in Mutators : mutPc[m] = "called" /\ mutProcess[m] = p}
HashInv ==
    runtimeEpoch # NoProc /\ ~diverged[runtimeEpoch] =>
        /\ core[runtimeEpoch].base = hashes.base
        /\ Calling(runtimeEpoch) = {} => core[runtimeEpoch].users = hashes.users
        /\ \A m \in Calling(runtimeEpoch) :
               core[runtimeEpoch].users = Applied(hashes.users, mutCall[m])

\* The inductive invariant of the mutation leases, beside LifecycleInv: who
\* holds a mutationGate, what a token says, and what rw-core has been told.
MutationInv == ExclusiveInv /\ TokenInv /\ HandlerInv /\ LaunchInv /\ EpochInv /\ HashInv
=============================================================================
