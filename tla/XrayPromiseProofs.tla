-------------------------- MODULE XrayPromiseProofs --------------------------
(***************************************************************************)
(* What xray.Manager promises its callers, proved from the inductive       *)
(* invariant of XrayLifecycle: it implements CoreSupervisor, a mutation    *)
(* lease pins its process, and the recorded hashes describe rw-core.       *)
(***************************************************************************)
EXTENDS XrayLifecycleProofs

-----------------------------------------------------------------------------
(* The refinement of CoreSupervisor *)

\* A step that publishes nothing, spawns nothing and reaps nothing is invisible.
LEMMA Invisible ==
    ASSUME state' = state, finalized' = finalized,
           \A p \in Procs : os'[p] = "none" <=> os[p] = "none"
    PROVE  UNCHANGED Supervisor!vars
BY Zenon DEF Supervisor!vars, Unfinalized

\* A step that only publishes leaves the groups and the processes alone.
LEMMA Publishing ==
    ASSUME finalized' = finalized, os' = os
    PROVE  Unfinalized' = Unfinalized /\ {p \in Procs : os[p] # "none"}' = {p \in Procs : os[p] # "none"}
BY Zenon DEF Unfinalized

\* Finalizing the process that may be alive reaps the one group there is.
LEMMA Reaping ==
    ASSUME LifecycleInv, NEW p \in Unfinalized,
           state' = state, os' = os, finalized' = [finalized EXCEPT ![p] = TRUE]
    PROVE  Supervisor!Reap
<1>1. SingleCore BY InvSingleCore, Zenon
<1>2. Unfinalized = {p} BY <1>1, Zenon DEF SingleCore
<1>3. Unfinalized' = {}
  BY <1>2, Zenon DEF Unfinalized, LifecycleInv, TypeOK, TypeProcesses
<1> QED BY <1>2, <1>3, Zenon DEF Supervisor!Reap

\* With no process in Manager and none awaiting its assignment, none is alive.
LEMMA NothingAlive ==
    ASSUME LifecycleInv, process = NoProc \/ finalized[process],
           \A x \in Starters : startPc[x] \notin Unassigned
    PROVE  Unfinalized = {}
BY OwnedByManager, Zenon DEF LifecycleInv

\* The initial state is the supervisor's.
LEMMA SupervisorInit == Init => Supervisor!Init
BY DEF Init, Supervisor!Init, Unfinalized

\* The steps of Start that publish.
LEMMA StartRefines ==
    ASSUME LifecycleInv, NEW s \in Starters,
           \/ CompleteUnchanged(s) \/ StartProcess(s) \/ RetainUncleanProcess(s)
           \/ CommitRunningStart(s) \/ CompleteStart(s) \/ RestorePreviousStart(s)
    PROVE  Supervisor!Next \/ UNCHANGED Supervisor!vars
<1> USE DEF LifecycleInv, TypeOK
<1>1. Active(s)
  BY Zenon DEF Active, CompleteUnchanged, StartProcess, RetainUncleanProcess, CommitRunningStart,
         CompleteStart, RestorePreviousStart, Completing
<1>2. state \in {"starting", "stopping"} BY <1>1, Unsettled, Zenon
<1>3. Owns(s) => state = "starting"
  BY <1>1, NotOwner, Zenon DEF OwnsStarting
<1>4. \A x \in Starters : startPc[x] \in Unassigned => x = s
  BY <1>1, StartAlone, Zenon DEF Active, Unassigned
<1>5. CASE CompleteUnchanged(s)
  <2>1. UNCHANGED <<os, finalized>> BY <1>5, Zenon DEF CompleteUnchanged, exitVars
  <2>2. CASE state' = state BY <2>1, <2>2, Invisible, Zenon
  <2>3. CASE Owns(s) /\ process # NoProc /\ ~LeaderUnavailable(process) /\ state' = "running"
    <3>1. process \in Unfinalized
      BY <2>3, ProcDomain, Zenon DEF LeaderUnavailable, OwnerInv, Unfinalized, TypeManager
    <3>2. Supervisor!Online
      BY <1>3, <2>1, <2>3, <3>1, Publishing, Zenon DEF Supervisor!Online
    <3> QED BY <3>2, Zenon DEF Supervisor!Next
  <2> QED BY <1>5, <2>2, <2>3, Zenon DEF CompleteUnchanged
<1>6. CASE StartProcess(s)
  <2>1. /\ reserved[s] \in Procs /\ os[reserved[s]] = "none" /\ Unfinalized = {}
        /\ state' = state /\ finalized' = finalized
    BY <1>6, Zenon DEF StartProcess, StartInv, StartKnows, managerVars
  <2>2. CASE os' = os BY <2>1, <2>2, Invisible, Zenon
  <2>3. CASE os' = [os EXCEPT ![reserved[s]] = "boot"]
    <3>1. ~finalized[reserved[s]]
      BY <2>1, Zenon DEF LifeInv, ProcessLife
    <3>2. Unfinalized' = {reserved[s]}
      BY <2>1, <2>3, <3>1 DEF Unfinalized, TypeProcesses
    <3>3. {p \in Procs : os[p] # "none"}' = {p \in Procs : os[p] # "none"} \cup {reserved[s]}
      BY <2>1, <2>3, Zenon DEF TypeProcesses
    <3>4. Supervisor!Spawn(reserved[s])
      BY <1>2, <2>1, <3>2, <3>3, Zenon DEF Supervisor!Spawn
    <3> QED BY <2>1, <3>4, Zenon DEF Supervisor!Next, Supervisor!Spawn
  <2> QED BY <1>6, <2>2, <2>3, Zenon DEF StartProcess
<1>7. CASE RetainUncleanProcess(s)
  <2>1. UNCHANGED <<os, finalized>> /\ state' = "stopping"
    BY <1>7, Zenon DEF RetainUncleanProcess, exitVars
  <2>2. state = "stopping" \/ Supervisor!Stopping
    BY <2>1, Publishing, Zenon DEF Supervisor!Stopping
  <2> QED BY <2>1, <2>2, Invisible, Zenon DEF Supervisor!Next
<1>8. CASE CommitRunningStart(s)
  <2>1. UNCHANGED <<os, finalized>> BY <1>8, Zenon DEF CommitRunningStart, exitVars
  <2>2. CASE state' = state BY <2>1, <2>2, Invisible, Zenon
  <2>3. CASE OwnsStarting(s) /\ ~LeaderUnavailable(reserved[s]) /\ state' = "running"
    <3>1. reserved[s] \in Unfinalized
      BY <1>8, <2>3, Zenon
      DEF CommitRunningStart, LeaderUnavailable, StartInv, StartKnows, AfterSpawn, Unfinalized
    <3>2. Supervisor!Online
      BY <2>1, <2>3, <3>1, Publishing, Zenon DEF OwnsStarting, Supervisor!Online
    <3> QED BY <3>2, Zenon DEF Supervisor!Next
  <2> QED BY <1>8, <2>2, <2>3, Zenon DEF CommitRunningStart
<1>9. CASE CompleteStart(s)
  <2>1. UNCHANGED <<os, finalized>> BY <1>9, Zenon DEF CompleteStart, exitVars
  <2>2. CASE ~Owns(s) BY <1>9, <2>1, <2>2, Invisible, Zenon DEF CompleteStart
  <2>3. CASE Owns(s) /\ startPc[s] = "failStopping"
    <3>1. Supervisor!Stopping
      BY <1>3, <1>9, <2>1, <2>3, Publishing, Zenon DEF CompleteStart, Supervisor!Stopping
    <3> QED BY <3>1, Zenon DEF Supervisor!Next
  <2>4. CASE Owns(s) /\ startPc[s] # "failStopping"
    <3>1. Unfinalized = {}
      BY <1>9, <2>4, Zenon DEF CompleteStart, Completing, StartInv, StartKnows
    <3>2. Supervisor!Offline
      BY <1>3, <1>9, <2>1, <2>4, <3>1, Publishing, Zenon DEF CompleteStart, Supervisor!Offline
    <3> QED BY <3>2, Zenon DEF Supervisor!Next
  <2> QED BY <2>2, <2>3, <2>4, Zenon
<1>10. CASE RestorePreviousStart(s)
  <2>1. UNCHANGED <<os, finalized>> BY <1>10, Zenon DEF RestorePreviousStart, exitVars
  <2>2. CASE ~Owns(s) BY <1>10, <2>1, <2>2, Invisible, Zenon DEF RestorePreviousStart
  <2>3. CASE Owns(s) /\ previous[s] # "running"
    <3>1. process = NoProc /\ startPc[s] \notin Unassigned
      BY <1>10, <2>3, Zenon DEF RestorePreviousStart, StartInv, StartKnows, HasPrevious, Unassigned
    <3>2. Unfinalized = {} BY <1>4, <3>1, NothingAlive, Zenon
    <3>3. state' = "stopped" BY <1>10, <2>3, Zenon DEF RestorePreviousStart, TypeStart
    <3>4. Supervisor!Offline
      BY <1>3, <2>1, <2>3, <3>2, <3>3, Publishing, Zenon DEF Supervisor!Offline
    <3> QED BY <3>4, Zenon DEF Supervisor!Next
  <2>4. CASE Owns(s) /\ previous[s] = "running"
    <3>1. process # NoProc /\ process = previousProcess[s] /\ startPc[s] \notin Unassigned
      BY <1>10, <2>4, Zenon
      DEF RestorePreviousStart, StartInv, StartKnows, HasPrevious, Unassigned, RuntimeLive
    <3>2. process \in Procs /\ os[process] # "none"
      BY <3>1, ProcDomain, Zenon DEF TypeManager, OwnerInv
    <3>3. CASE done[process]
      <4>1. Unfinalized = {}
        BY <1>4, <3>1, <3>2, <3>3, NothingAlive, Zenon DEF LifeInv, ProcessLife
      <4>2. state' = "stopped" BY <1>10, <2>4, <3>1, <3>3, Zenon DEF RestorePreviousStart
      <4>3. Supervisor!Offline
        BY <1>3, <2>1, <2>4, <4>1, <4>2, Publishing, Zenon DEF Supervisor!Offline
      <4> QED BY <4>3, Zenon DEF Supervisor!Next
    <3>4. CASE ~done[process] /\ leader[process] # "unseen"
      <4>1. state' = "stopping" BY <1>10, <2>4, <3>1, <3>4, Zenon DEF RestorePreviousStart
      <4>2. Supervisor!Stopping
        BY <1>3, <2>1, <2>4, <4>1, Publishing, Zenon DEF Supervisor!Stopping
      <4> QED BY <4>2, Zenon DEF Supervisor!Next
    <3>5. CASE ~done[process] /\ leader[process] = "unseen"
      <4>1. process \in Unfinalized
        BY <3>2, <3>5, Zenon DEF LifeInv, ProcessLife, Unfinalized
      <4>2. state' = "running" BY <1>10, <2>4, <3>1, <3>5, Zenon DEF RestorePreviousStart
      <4>3. Supervisor!Online
        BY <1>3, <2>1, <2>4, <4>1, <4>2, Publishing, Zenon DEF Supervisor!Online
      <4> QED BY <4>3, Zenon DEF Supervisor!Next
    <3> QED BY <3>3, <3>4, <3>5, Zenon
  <2> QED BY <2>2, <2>3, <2>4, Zenon
<1> QED BY <1>5, <1>6, <1>7, <1>8, <1>9, <1>10, Zenon

\* The steps of Stop that publish or reap.
LEMMA StopRefines ==
    ASSUME LifecycleInv, NEW t \in Stoppers,
           StopStarting(t) \/ StopSettled(t) \/ RetryFinalize(t) \/ FinishStop(t)
    PROVE  Supervisor!Next \/ UNCHANGED Supervisor!vars
<1> USE DEF LifecycleInv, TypeOK
<1>1. CASE StopStarting(t) \/ StopSettled(t)
  <2>1. UNCHANGED <<os, finalized>> /\ state' = "stopping"
    BY <1>1, Zenon DEF StopStarting, StopSettled, exitVars
  <2>2. state = "stopping" \/ Supervisor!Stopping
    BY <2>1, Publishing, Zenon DEF Supervisor!Stopping
  <2> QED BY <2>1, <2>2, Invisible, Zenon DEF Supervisor!Next
<1>2. CASE RetryFinalize(t)
  <2>1. state' = state /\ os' = os BY <1>2, Zenon DEF RetryFinalize, managerVars
  <2>2. CASE finalized' = finalized BY <2>1, <2>2, Invisible, Zenon
  <2>3. CASE finalized' = [finalized EXCEPT ![stopProcess[t]] = TRUE]
    <3>1. process = stopProcess[t] /\ process # NoProc /\ ~finalized[process]
      BY <1>2, Zenon DEF RetryFinalize, RetriesFinalize, StopInv, StopKnows, Holding
    <3>2. process \in Unfinalized
      BY <3>1, ProcDomain, Zenon DEF TypeManager, OwnerInv, Unfinalized
    <3> QED BY <2>1, <2>3, <3>1, <3>2, Reaping, Zenon DEF Supervisor!Next
  <2> QED BY <1>2, <2>2, <2>3, Zenon DEF RetryFinalize
<1>3. CASE FinishStop(t)
  <2>1. UNCHANGED <<os, finalized>> BY <1>3, Zenon DEF FinishStop, exitVars
  <2>2. Holding(t) BY <1>3, Zenon DEF FinishStop, Holding
  <2>3. state = "stopping" BY <2>2, Unsettled, Zenon
  <2>4. CASE stopPc[t] = "publishUnstopped"
    BY <1>3, <2>1, <2>3, <2>4, Invisible, Zenon DEF FinishStop
  <2>5. CASE stopPc[t] = "publishStopped"
    <3>1. process = NoProc \/ finalized[process]
      BY <2>2, <2>5 DEF StopInv, StopKnows
    <3>2. \A x \in Starters : startPc[x] \notin Unassigned
      BY <2>2, StopAlone, Zenon DEF Active, Unassigned
    <3>3. Unfinalized = {} BY <3>1, <3>2, NothingAlive, Zenon
    <3>4. Supervisor!Offline
      BY <1>3, <2>1, <2>3, <2>5, <3>3, Publishing, Zenon DEF FinishStop, Supervisor!Offline
    <3> QED BY <3>4, Zenon DEF Supervisor!Next
  <2> QED BY <1>3, <2>4, <2>5, Zenon DEF FinishStop
<1> QED BY <1>1, <1>2, <1>3, Zenon

\* The steps of the monitor that publish or reap.
LEMMA MonitorRefines ==
    ASSUME LifecycleInv, NEW p \in Procs, FinalizeExited(p) \/ PublishExit(p)
    PROVE  Supervisor!Next \/ UNCHANGED Supervisor!vars
<1> USE DEF LifecycleInv, TypeOK
<1>1. CASE FinalizeExited(p)
  <2>1. state' = state /\ os' = os /\ monitor[p] = "finalize"
    BY <1>1, Zenon DEF FinalizeExited, MonitorMoves, managerVars
  <2>2. CASE finalized' = finalized BY <2>1, <2>2, Invisible, Zenon
  <2>3. CASE finalized' = [finalized EXCEPT ![p] = TRUE] /\ finalized[p]
    <3>1. finalized' = finalized BY <2>3, Zenon DEF TypeProcesses
    <3> QED BY <2>1, <3>1, Invisible, Zenon
  <2>4. CASE finalized' = [finalized EXCEPT ![p] = TRUE] /\ ~finalized[p]
    <3>1. p \in Unfinalized BY <2>1, <2>4, Zenon DEF LifeInv, ProcessLife, Unfinalized
    <3> QED BY <2>1, <2>4, <3>1, Reaping, Zenon DEF Supervisor!Next
  <2> QED BY <1>1, <2>2, <2>3, <2>4, Zenon DEF FinalizeExited
<1>2. CASE PublishExit(p)
  <2>1. UNCHANGED <<os, finalized>> BY <1>2, Zenon DEF PublishExit, MonitorMoves
  <2>2. CASE ~ExitIsNews(p) BY <1>2, <2>1, <2>2, Invisible, Zenon DEF PublishExit
  <2>3. CASE ExitIsNews(p) /\ monitor[p] = "publishUnclean"
    <3>1. state' = "stopping" BY <1>2, <2>3, Zenon DEF PublishExit, MonitorMoves
    <3>2. state = "stopping" \/ Supervisor!Stopping
      BY <2>1, <3>1, Publishing, Zenon DEF Supervisor!Stopping
    <3> QED BY <2>1, <3>1, <3>2, Invisible, Zenon DEF Supervisor!Next
  <2>4. CASE ExitIsNews(p) /\ monitor[p] = "publishFinalized"
    <3>1. state' = "stopped" BY <1>2, <2>4, Zenon DEF PublishExit, MonitorMoves
    <3>2. state # "stopped" /\ process = p /\ finalized[p]
      BY <2>4, Zenon DEF ExitIsNews, LifeInv, ProcessLife
    <3>3. \A x \in Starters : startPc[x] \notin Unassigned
      BY <2>4, Unsettled, Zenon DEF ExitIsNews, Active, Unassigned
    <3>4. Unfinalized = {} BY <3>2, <3>3, NothingAlive, Zenon
    <3>5. Supervisor!Offline
      BY <2>1, <3>1, <3>2, <3>4, Publishing, Zenon DEF Supervisor!Offline
    <3> QED BY <3>5, Zenon DEF Supervisor!Next
  <2> QED BY <1>2, <2>2, <2>3, <2>4, Zenon DEF PublishExit, MonitorMoves
<1> QED BY <1>1, <1>2, Zenon

\* Every step of the Manager is a step of the supervisor, or invisible to it.
LEMMA SupervisorNext ==
    ASSUME LifecycleInv, [Next]_vars
    PROVE  [Supervisor!Next]_Supervisor!vars
<1>1. UNCHANGED <<state, os, finalized>> => UNCHANGED Supervisor!vars
  BY Invisible, Zenon
<1>2. ASSUME NEW s \in Starters, NEW r \in PanelRequests, BeginStart(s, r)
      PROVE  Supervisor!Next
  <2>1. UNCHANGED <<os, finalized>> BY <1>2, Zenon DEF BeginStart, exitVars
  <2>2. Supervisor!Accept
    BY <1>2, <2>1, Publishing, Zenon DEF BeginStart, StartAdmitted, Supervisor!Accept
  <2> QED BY <2>2, Zenon DEF Supervisor!Next
<1>3. ASSUME NEW s \in Starters,
             CancelRequest(s) \/ ReadPrevious(s) \/ LockPreviousGate(s) \/ ConsiderUnchanged(s)
               \/ ProbePrevious(s) \/ ReserveProcessIdentity(s) \/ Prepare(s) \/ Terminated(s)
               \/ RunPreStart(s) \/ StagePendingConfig(s) \/ AssignProcess(s) \/ AwaitReady(s)
               \/ StartFails(s) \/ ProbeVersion(s) \/ ReturnStart(s)
      PROVE  UNCHANGED Supervisor!vars
  BY <1>1, <1>3, Zenon
  DEF CancelRequest, ReadPrevious, LockPreviousGate, ConsiderUnchanged, ProbePrevious,
      ReserveProcessIdentity, Prepare, Terminated, RunPreStart, StagePendingConfig, AssignProcess,
      AwaitReady, StartFails, ProbeVersion, ReturnStart, StartMoves, managerVars, exitVars
<1>4. ASSUME NEW t \in Stoppers,
             JoinStop(t) \/ CancelStart(t) \/ LockLifecycle(t) \/ ReadProcess(t) \/ LockGate(t)
               \/ StopCloseDone(t) \/ StopTerminates(t) \/ StopTerminated(t) \/ JudgeStop(t)
               \/ ReturnStop(t)
      PROVE  UNCHANGED Supervisor!vars
  BY <1>1, <1>4, Zenon
  DEF JoinStop, CancelStart, LockLifecycle, ReadProcess, LockGate, StopCloseDone, StopTerminates,
      StopTerminated, JudgeStop, ReturnStop, managerVars, exitVars
<1>5. ASSUME NEW p \in ProcIds, TermEnter(p) PROVE UNCHANGED Supervisor!vars
  BY <1>1, <1>5, Zenon DEF TermEnter, TermMoves, managerVars, exitVars
<1>6. ASSUME NEW p \in Procs,
             Interrupt(p) \/ Kill(p) \/ AttemptEnds(p) \/ AttemptTimesOut(p)
               \/ ObservationFails(p) \/ MarkLeaderWait(p) \/ CloseDone(p) \/ CloseMonitor(p)
               \/ ReadOutcome(p)
      PROVE  UNCHANGED Supervisor!vars
  BY <1>1, <1>6, Zenon
  DEF Interrupt, Kill, AttemptEnds, AttemptTimesOut, ObservationFails, MarkLeaderWait, CloseDone,
      CloseMonitor, ReadOutcome, TermMoves, MonitorMoves, managerVars, exitVars
<1>7. ASSUME NEW p \in Procs, LoadConfig(p) \/ CoreExits(p) PROVE UNCHANGED Supervisor!vars
  <2>1. state' = state /\ finalized' = finalized
    BY <1>7, Zenon DEF LoadConfig, CoreExits, managerVars
  <2>2. \A q \in Procs : os'[q] = "none" <=> os[q] = "none"
    BY <1>7, Zenon DEF LoadConfig, CoreExits, LifecycleInv, TypeOK, TypeProcesses
  <2> QED BY <2>1, <2>2, Invisible, Zenon
<1>8. ASSUME NEW m \in Mutators,
             BeginMutation(m) \/ LockShared(m) \/ Validate(m) \/ CommitCall(m)
               \/ ReleaseMutation(m) \/ (\E c \in Calls : CallCore(m, c))
      PROVE  UNCHANGED Supervisor!vars
  BY <1>1, <1>8, Zenon
  DEF BeginMutation, LockShared, Validate, CommitCall, ReleaseMutation, CallCore, Unlease,
      managerVars, exitVars
<1>9. CASE UNCHANGED vars
  BY <1>1, <1>9, Zenon DEF vars, managerVars, exitVars
<1> QED
  BY <1>2, <1>3, <1>4, <1>5, <1>6, <1>7, <1>8, <1>9, StartRefines, StopRefines, MonitorRefines, Zenon
  DEF Next, StartStep, StopStep, TermStep, MonitorStep, MutationStep

\* xray.Manager implements the supervisor it promises to be, for any number of
\* callers, processes and epochs: it publishes, spawns and reaps only as
\* CoreSupervisor does.
THEOREM ManagerImplementsSupervisor == Spec => ImplementsSupervisor
BY SupervisorInit, SupervisorNext, Invariant, PTL DEF Spec, ImplementsSupervisor, Supervisor!Spec

-----------------------------------------------------------------------------
(* Who holds a mutationGate *)

\* A Start that moves on without touching a gate keeps what it holds.
LEMMA StartKeepsGate ==
    ASSUME ExclusiveInv, NEW s \in Starters,
           \A x \in Starters : x # s => startPc'[x] = startPc[x],
           UNCHANGED <<mutationGate, mutPc, mutProcess, previousProcess, stopPc, stopProcess>>,
           startPc'[s] \in HoldsPrevious => startPc[s] \in HoldsPrevious,
           startPc'[s] \in {"idle", "begun", "gate"} => startPc[s] \in {"idle", "begun", "gate"}
    PROVE  ExclusiveInv'
<1>1. \A p \in Procs : Readers(p)' = Readers(p) BY Zenon DEF Readers
<1> QED BY <1>1 DEF ExclusiveInv

\* So does a Stop.
LEMMA StopKeepsGate ==
    ASSUME ExclusiveInv,
           UNCHANGED <<mutationGate, mutPc, mutProcess, previousProcess, startPc, stopProcess>>,
           \A t \in Stoppers : stopPc'[t] \in HoldsStopped <=> stopPc[t] \in HoldsStopped
    PROVE  ExclusiveInv'
<1>1. \A p \in Procs : Readers(p)' = Readers(p) BY Zenon DEF Readers
<1> QED BY <1>1, Zenon DEF ExclusiveInv

\* A request that acquires no gate leaves the writers' claims alone.
LEMMA ReadersKeepGate ==
    ASSUME ExclusiveInv,
           UNCHANGED <<mutationGate, previousProcess, startPc, stopPc, stopProcess>>,
           \A p \in Procs : mutationGate[p] # None => Readers(p)' \subseteq Readers(p)
    PROVE  ExclusiveInv'
BY Zenon DEF ExclusiveInv

\* Releasing a gate lets in the readers of that process and no others.
LEMMA Admitted ==
    ASSUME TypeMutations, NEW q, AdmitReaders(q), mutProcess' = mutProcess, NEW p \in Procs, p # q
    PROVE  Readers(p)' = Readers(p)
BY Zenon DEF AdmitReaders, Readers, TypeMutations

\* A gate is held by the Start or Stop that its place in the code says, over the
\* process that it has read, and then no request is inside it.
LEMMA ExclusiveNext ==
    ASSUME LifecycleInv, MutationInv, [Next]_vars
    PROVE  ExclusiveInv'
<1> USE DEF LifecycleInv, TypeOK, MutationInv
<1>1. UNCHANGED <<mutationGate, mutPc, mutProcess, startPc, previousProcess, stopPc, stopProcess>>
      => ExclusiveInv'
  BY DEF ExclusiveInv, Readers
<1>2. ASSUME NEW s \in Starters, NEW r \in PanelRequests, BeginStart(s, r) PROVE ExclusiveInv'
  BY <1>2, StartKeepsGate, Zenon
  DEF BeginStart, Goto, TypeStart, HoldsPrevious, stopVars, mutVars
<1>3. ASSUME NEW s \in Starters, ReadPrevious(s) PROVE ExclusiveInv'
  <2>1. \A x \in Starters : x # s => UNCHANGED <<startPc[x], previousProcess[x]>>
    BY <1>3, Zenon DEF ReadPrevious, Goto, TypeStart
  <2>2. startPc[s] = "begun" /\ previousProcess'[s] = process
        /\ (startPc'[s] \in HoldsPrevious => process = NoProc)
    BY <1>3, Zenon DEF ReadPrevious, Goto, TypeStart, HoldsPrevious
  <2>3. UNCHANGED <<mutationGate, mutPc, mutProcess, stopPc, stopProcess>>
    BY <1>3, Zenon DEF ReadPrevious, stopVars, mutVars
  <2>4. \A p \in Procs : Readers(p)' = Readers(p) BY <2>3, Zenon DEF Readers
  <2> QED BY <2>1, <2>2, <2>3, <2>4 DEF ExclusiveInv
<1>4. ASSUME NEW s \in Starters, LockPreviousGate(s) PROVE ExclusiveInv'
  <2>1. /\ \A x \in Starters : x # s => startPc'[x] = startPc[x]
        /\ startPc[s] = "gate" /\ startPc'[s] = "locked"
        /\ UNCHANGED <<mutPc, mutProcess, previousProcess, stopPc, stopProcess>>
    BY <1>4, Zenon DEF LockPreviousGate, Goto, TypeStart, stopVars, mutVars
  <2>2. \A p \in Procs : Readers(p)' = Readers(p) BY <2>1, Zenon DEF Readers
  <2>3. previousProcess[s] \in Procs \/ previousProcess[s] = NoProc
    BY ProcDomain, Zenon DEF TypeStart
  <2>4. \A p \in Procs : mutationGate'[p] = IF p = previousProcess[s] THEN s ELSE mutationGate[p]
    BY <1>4, Zenon DEF LockPreviousGate, TypeProcesses
  <2>5. Readers(previousProcess[s]) = {} /\ mutationGate[previousProcess[s]] = None
    BY <1>4, Zenon DEF LockPreviousGate, GateFree
  <2>6. s \notin Stoppers /\ None \notin Starters \cup Stoppers BY CallersAssumption, Zenon
  <2>7. \A p \in Procs : mutationGate'[p] # None =>
          /\ Readers(p)' = {}
          /\ \A x \in Starters : mutationGate'[p] = x =>
                 previousProcess'[x] = p /\ startPc'[x] \notin {"idle", "begun", "gate"}
          /\ \A t \in Stoppers : mutationGate'[p] = t =>
                 stopProcess'[t] = p /\ stopPc'[t] \in HoldsStopped
    BY <2>1, <2>2, <2>4, <2>5, <2>6 DEF ExclusiveInv
  <2>8. \A x \in Starters : startPc'[x] \in HoldsPrevious /\ previousProcess'[x] # NoProc =>
          mutationGate'[previousProcess'[x]] = x
    BY <2>1, <2>3, <2>4, <2>5, <2>6, ProcDomain DEF ExclusiveInv, TypeStart
  <2>9. \A t \in Stoppers : stopPc'[t] \in HoldsStopped /\ stopProcess'[t] # NoProc =>
          mutationGate'[stopProcess'[t]] = t
    BY <2>1, <2>3, <2>4, <2>5, <2>6, ProcDomain DEF ExclusiveInv, TypeStop
  <2> QED BY <2>7, <2>8, <2>9, Zenon DEF ExclusiveInv
<1>5. ASSUME NEW s \in Starters,
             \/ ConsiderUnchanged(s) \/ ProbePrevious(s) \/ CompleteUnchanged(s)
             \/ ReserveProcessIdentity(s) \/ Prepare(s) \/ RunPreStart(s) \/ StartProcess(s)
             \/ AssignProcess(s) \/ RetainUncleanProcess(s) \/ AwaitReady(s) \/ StartFails(s)
             \/ ProbeVersion(s) \/ CommitRunningStart(s) \/ Terminated(s)
      PROVE  ExclusiveInv'
  <2>1. /\ \A x \in Starters : x # s => startPc'[x] = startPc[x]
        /\ startPc'[s] \in HoldsPrevious => startPc[s] \in HoldsPrevious
        /\ startPc'[s] \notin {"idle", "begun", "gate"}
    <3> USE DEF Goto, TypeStart, HoldsPrevious
    <3>1. CASE ConsiderUnchanged(s) BY <3>1, Zenon DEF ConsiderUnchanged, StartMoves
    <3>2. CASE ProbePrevious(s) BY <3>2, Zenon DEF ProbePrevious, StartMoves
    <3>3. CASE CompleteUnchanged(s) BY <3>3, Zenon DEF CompleteUnchanged
    <3>4. CASE ReserveProcessIdentity(s) BY <3>4, Zenon DEF ReserveProcessIdentity
    <3>5. CASE Prepare(s) BY <3>5, Zenon DEF Prepare
    <3>6. CASE RunPreStart(s) BY <3>6, Zenon DEF RunPreStart, StartMoves
    <3>7. CASE StartProcess(s) BY <3>7, Zenon DEF StartProcess
    <3>8. CASE AssignProcess(s) BY <3>8, Zenon DEF AssignProcess
    <3>9. CASE RetainUncleanProcess(s) BY <3>9, Zenon DEF RetainUncleanProcess
    <3>10. CASE AwaitReady(s) \/ ProbeVersion(s)
      BY <3>10, Zenon DEF AwaitReady, ProbeVersion, StartMoves
    <3>11. CASE StartFails(s) BY <3>11, Zenon DEF StartFails
    <3>12. CASE CommitRunningStart(s) BY <3>12, Zenon DEF CommitRunningStart
    <3>13. CASE Terminated(s) BY <3>13, Zenon DEF Terminated
    <3> QED
      BY <1>5, <3>1, <3>2, <3>3, <3>4, <3>5, <3>6, <3>7, <3>8, <3>9, <3>10, <3>11, <3>12, <3>13, Zenon
  <2>2. UNCHANGED <<mutationGate, mutPc, mutProcess, previousProcess, stopPc, stopProcess>>
    BY <1>5, Zenon
    DEF ConsiderUnchanged, ProbePrevious, CompleteUnchanged, ReserveProcessIdentity, Prepare,
        RunPreStart, StartProcess, AssignProcess, RetainUncleanProcess, AwaitReady, StartFails,
        ProbeVersion, CommitRunningStart, Terminated, StartMoves, stopVars, mutVars
  <2> QED BY <2>1, <2>2, StartKeepsGate, Zenon
<1>6. ASSUME NEW s \in Starters, CompleteStart(s) \/ RestorePreviousStart(s) PROVE ExclusiveInv'
  <2>1. startPc' = [startPc EXCEPT ![s] = "release"]
        /\ UNCHANGED <<mutationGate, mutPc, mutProcess, previousProcess, stopPc, stopProcess>>
    BY <1>6, Zenon DEF CompleteStart, RestorePreviousStart, Goto, stopVars, mutVars
  <2> QED BY <2>1, StartKeepsGate, Zenon DEF TypeStart, HoldsPrevious
<1>7. ASSUME NEW s \in Starters, StagePendingConfig(s), ~OwnsStarting(s) PROVE ExclusiveInv'
  <2>1. startPc' = [startPc EXCEPT ![s] = "failBare"]
        /\ UNCHANGED <<mutationGate, mutPc, mutProcess, previousProcess, stopPc, stopProcess>>
    BY <1>7, Zenon DEF StagePendingConfig, Goto, stopVars
  <2> QED BY <2>1, StartKeepsGate, Zenon DEF TypeStart, HoldsPrevious
<1>8. ASSUME NEW s \in Starters, NEW pc, startPc' = [startPc EXCEPT ![s] = pc],
             startPc[s] \notin {"idle", "begun", "gate"},
             pc \notin HoldsPrevious,
             mutationGate' = [p \in Procs |-> IF mutationGate[p] = s THEN None ELSE mutationGate[p]],
             \/ /\ AdmitReaders(previousProcess[s])
                /\ previousProcess[s] = NoProc \/ mutationGate[previousProcess[s]] = s
             \/ mutPc' = mutPc,
             \A x \in Starters : x # s => previousProcess'[x] = previousProcess[x],
             UNCHANGED <<mutProcess, stopPc, stopProcess>>
      PROVE  ExclusiveInv'
  <2>1. \A x \in Starters : x # s => startPc'[x] = startPc[x] BY <1>8, Zenon DEF TypeStart
  <2>2. startPc'[s] = pc BY <1>8, Zenon DEF TypeStart
  <2>3. None \notin Starters \cup Stoppers /\ s \notin Stoppers BY CallersAssumption, Zenon
  <2>4. \A p \in Procs : p # previousProcess[s] \/ mutPc' = mutPc => Readers(p)' = Readers(p)
    BY <1>8, Admitted, Zenon DEF Readers
  <2>5. \A p \in Procs : mutationGate'[p] # None =>
          mutationGate'[p] = mutationGate[p] /\ mutationGate[p] # s /\ Readers(p)' = Readers(p)
    BY <1>8, <2>4, BoundsAssumption DEF Procs, NoProc
  <2>6. \A x \in Starters : startPc'[x] \in HoldsPrevious /\ previousProcess'[x] # NoProc =>
          mutationGate'[previousProcess'[x]] = x
    BY <1>8, <2>1, <2>2, <2>3, ProcDomain DEF ExclusiveInv, TypeStart
  <2>7. \A t \in Stoppers : stopPc'[t] \in HoldsStopped /\ stopProcess'[t] # NoProc =>
          mutationGate'[stopProcess'[t]] = t
    BY <1>8, <2>3, ProcDomain DEF ExclusiveInv, TypeStop
  <2>8. \A p \in Procs : mutationGate'[p] # None =>
          /\ Readers(p)' = {}
          /\ \A x \in Starters : mutationGate'[p] = x =>
                 previousProcess'[x] = p /\ startPc'[x] \notin {"idle", "begun", "gate"}
          /\ \A t \in Stoppers : mutationGate'[p] = t =>
                 stopProcess'[t] = p /\ stopPc'[t] \in HoldsStopped
    BY <1>8, <2>1, <2>5 DEF ExclusiveInv
  <2> QED BY <2>6, <2>7, <2>8, Zenon DEF ExclusiveInv
<1>9. ASSUME NEW s \in Starters, StagePendingConfig(s), OwnsStarting(s) PROVE ExclusiveInv'
  <2>1. /\ startPc[s] = "stage" /\ startPc' = [startPc EXCEPT ![s] = "spawn"]
        /\ mutationGate' = [p \in Procs |-> IF mutationGate[p] = s THEN None ELSE mutationGate[p]]
        /\ AdmitReaders(previousProcess[s])
        /\ UNCHANGED <<mutProcess, previousProcess, stopPc, stopProcess>>
    BY <1>9, Zenon DEF StagePendingConfig, Goto, stopVars
  <2>2. previousProcess[s] = NoProc \/ mutationGate[previousProcess[s]] = s
    BY <2>1, Zenon DEF ExclusiveInv, HoldsPrevious
  <2> QED BY <1>8, <2>1, <2>2, Zenon DEF HoldsPrevious
<1>10. ASSUME NEW s \in Starters, ReturnStart(s) PROVE ExclusiveInv'
  <2>1. /\ startPc[s] = "release" /\ startPc' = [startPc EXCEPT ![s] = "idle"]
        /\ mutationGate' = [p \in Procs |-> IF mutationGate[p] = s THEN None ELSE mutationGate[p]]
        /\ UNCHANGED <<mutProcess, stopPc, stopProcess>>
        /\ previousProcess' = [previousProcess EXCEPT ![s] = NoProc]
    BY <1>10, Zenon DEF ReturnStart, Goto, stopVars
  <2>2. \/ /\ AdmitReaders(previousProcess[s])
           /\ mutationGate[previousProcess[s]] = s
        \/ mutPc' = mutPc
    BY <1>10, CallersAssumption, Zenon DEF ReturnStart, ExclusiveInv
  <2>3. \A x \in Starters : x # s => previousProcess'[x] = previousProcess[x]
    BY <2>1, Zenon DEF TypeStart
  <2> QED BY <1>8, <2>1, <2>2, <2>3, Zenon DEF HoldsPrevious
<1>11. ASSUME NEW t \in Stoppers,
              \/ JoinStop(t) \/ StopStarting(t) \/ StopSettled(t) \/ CancelStart(t)
              \/ LockLifecycle(t) \/ RetryFinalize(t) \/ StopCloseDone(t) \/ StopTerminates(t)
              \/ StopTerminated(t) \/ JudgeStop(t) \/ FinishStop(t)
       PROVE  ExclusiveInv'
  <2>1. \A u \in Stoppers : stopPc'[u] \in HoldsStopped <=> stopPc[u] \in HoldsStopped
    <3> USE DEF StopGoto, TypeStop, HoldsStopped
    <3>1. CASE JoinStop(t) \/ StopStarting(t) \/ StopSettled(t)
      BY <3>1, Zenon DEF JoinStop, StopStarting, StopSettled
    <3>2. CASE CancelStart(t) \/ LockLifecycle(t) BY <3>2, Zenon DEF CancelStart, LockLifecycle
    <3>3. CASE RetryFinalize(t) \/ StopCloseDone(t) BY <3>3, Zenon DEF RetryFinalize, StopCloseDone
    <3>4. CASE StopTerminates(t) \/ StopTerminated(t) BY <3>4, Zenon DEF StopTerminates, StopTerminated
    <3>5. CASE JudgeStop(t) BY <3>5, Zenon DEF JudgeStop
    <3>6. CASE FinishStop(t) BY <3>6, Zenon DEF FinishStop, WakeJoiners
    <3> QED BY <1>11, <3>1, <3>2, <3>3, <3>4, <3>5, <3>6, Zenon
  <2>2. UNCHANGED <<mutationGate, mutPc, mutProcess, previousProcess, startPc, stopProcess>>
    BY <1>11, Zenon
    DEF JoinStop, StopStarting, StopSettled, CancelStart, LockLifecycle, RetryFinalize,
        StopCloseDone, StopTerminates, StopTerminated, JudgeStop, FinishStop, startVars, mutVars
  <2> QED BY <2>1, <2>2, StopKeepsGate, Zenon
<1>12. ASSUME NEW t \in Stoppers, ReadProcess(t) PROVE ExclusiveInv'
  <2>1. \A x \in Stoppers : x # t => UNCHANGED <<stopPc[x], stopProcess[x]>>
    BY <1>12, Zenon DEF ReadProcess, StopGoto, TypeStop
  <2>2. stopPc[t] = "read" /\ stopProcess'[t] = process
        /\ (stopPc'[t] \in HoldsStopped => process = NoProc)
    BY <1>12, Zenon DEF ReadProcess, StopGoto, TypeStop, HoldsStopped
  <2>3. UNCHANGED <<mutationGate, mutPc, mutProcess, startPc, previousProcess>>
    BY <1>12, Zenon DEF ReadProcess, startVars, mutVars
  <2>4. \A p \in Procs : Readers(p)' = Readers(p) BY <2>3, Zenon DEF Readers
  <2> QED BY <2>1, <2>2, <2>3, <2>4 DEF ExclusiveInv, HoldsStopped
<1>13. ASSUME NEW t \in Stoppers, LockGate(t) PROVE ExclusiveInv'
  <2>1. /\ \A x \in Stoppers : x # t => stopPc'[x] = stopPc[x]
        /\ stopPc[t] = "gate" /\ stopPc'[t] = "act"
        /\ UNCHANGED <<mutPc, mutProcess, previousProcess, startPc, stopProcess>>
    BY <1>13, Zenon DEF LockGate, StopGoto, TypeStop, startVars, mutVars
  <2>2. \A p \in Procs : Readers(p)' = Readers(p) BY <2>1, Zenon DEF Readers
  <2>3. stopProcess[t] \in Procs \/ stopProcess[t] = NoProc
    BY ProcDomain, Zenon DEF TypeStop
  <2>4. \A p \in Procs : mutationGate'[p] = IF p = stopProcess[t] THEN t ELSE mutationGate[p]
    BY <1>13, Zenon DEF LockGate, TypeProcesses
  <2>5. Readers(stopProcess[t]) = {} /\ mutationGate[stopProcess[t]] = None
    BY <1>13, Zenon DEF LockGate, GateFree
  <2>6. t \notin Starters /\ None \notin Starters \cup Stoppers BY CallersAssumption, Zenon
  <2>7. \A p \in Procs : mutationGate'[p] # None =>
          /\ Readers(p)' = {}
          /\ \A s \in Starters : mutationGate'[p] = s =>
                 previousProcess'[s] = p /\ startPc'[s] \notin {"idle", "begun", "gate"}
          /\ \A x \in Stoppers : mutationGate'[p] = x =>
                 stopProcess'[x] = p /\ stopPc'[x] \in HoldsStopped
    BY <2>1, <2>2, <2>4, <2>5, <2>6 DEF ExclusiveInv, HoldsStopped
  <2>8. \A s \in Starters : startPc'[s] \in HoldsPrevious /\ previousProcess'[s] # NoProc =>
          mutationGate'[previousProcess'[s]] = s
    BY <2>1, <2>3, <2>4, <2>5, <2>6, ProcDomain DEF ExclusiveInv, TypeStart
  <2>9. \A x \in Stoppers : stopPc'[x] \in HoldsStopped /\ stopProcess'[x] # NoProc =>
          mutationGate'[stopProcess'[x]] = x
    BY <2>1, <2>3, <2>4, <2>5, <2>6, ProcDomain DEF ExclusiveInv, TypeStop
  <2> QED BY <2>7, <2>8, <2>9, Zenon DEF ExclusiveInv
<1>14. ASSUME NEW t \in Stoppers, ReturnStop(t) PROVE ExclusiveInv'
  <2>1. /\ stopPc[t] = "release" /\ stopPc'[t] = "idle"
        /\ \A x \in Stoppers : x # t => UNCHANGED <<stopPc[x], stopProcess[x]>>
        /\ UNCHANGED <<mutProcess, startPc, previousProcess>>
    BY <1>14, Zenon DEF ReturnStop, StopGoto, TypeStop, startVars
  <2>2. \A p \in Procs : mutationGate'[p] = IF mutationGate[p] = t THEN None ELSE mutationGate[p]
    BY <1>14, Zenon DEF ReturnStop
  <2>3. None \notin Starters \cup Stoppers /\ t \notin Starters BY CallersAssumption, Zenon
  <2>4. stopProcess[t] = NoProc \/ mutationGate[stopProcess[t]] = t
    BY <2>1, Zenon DEF ExclusiveInv, HoldsStopped
  <2>5. \A p \in Procs : p # stopProcess[t] => Readers(p)' = Readers(p)
    BY <1>14, <2>1, Admitted, Zenon DEF ReturnStop
  <2>6. \A p \in Procs : mutationGate'[p] # None =>
          mutationGate'[p] = mutationGate[p] /\ mutationGate[p] # t /\ Readers(p)' = Readers(p)
    BY <2>2, <2>4, <2>5, BoundsAssumption DEF Procs, NoProc
  <2>7. \A s \in Starters : startPc'[s] \in HoldsPrevious /\ previousProcess'[s] # NoProc =>
          mutationGate'[previousProcess'[s]] = s
    BY <2>1, <2>2, <2>3, ProcDomain DEF ExclusiveInv, TypeStart
  <2>8. \A x \in Stoppers : stopPc'[x] \in HoldsStopped /\ stopProcess'[x] # NoProc =>
          mutationGate'[stopProcess'[x]] = x
    BY <2>1, <2>2, <2>3, ProcDomain DEF ExclusiveInv, TypeStop, HoldsStopped
  <2>9. \A p \in Procs : mutationGate'[p] # None =>
          /\ Readers(p)' = {}
          /\ \A s \in Starters : mutationGate'[p] = s =>
                 previousProcess'[s] = p /\ startPc'[s] \notin {"idle", "begun", "gate"}
          /\ \A x \in Stoppers : mutationGate'[p] = x =>
                 stopProcess'[x] = p /\ stopPc'[x] \in HoldsStopped
    BY <2>1, <2>6 DEF ExclusiveInv
  <2> QED BY <2>7, <2>8, <2>9, Zenon DEF ExclusiveInv
<1>15. ASSUME NEW s \in Starters, CancelRequest(s) PROVE ExclusiveInv'
  BY <1>1, <1>15, Zenon DEF CancelRequest, stopVars, mutVars
<1>16. ASSUME NEW p \in ProcIds, TermEnter(p) PROVE ExclusiveInv'
  BY <1>1, <1>16, Zenon DEF TermEnter, TermMoves, startVars, stopVars, mutVars
<1>17. ASSUME NEW p \in Procs,
              Interrupt(p) \/ Kill(p) \/ AttemptEnds(p) \/ AttemptTimesOut(p) \/ LoadConfig(p)
                \/ CoreExits(p) \/ ObservationFails(p) \/ MonitorStep(p)
       PROVE  ExclusiveInv'
  BY <1>1, <1>17, Zenon
  DEF Interrupt, Kill, AttemptEnds, AttemptTimesOut, LoadConfig, CoreExits, ObservationFails,
      MonitorStep, MarkLeaderWait, FinalizeExited, CloseDone, CloseMonitor, ReadOutcome, PublishExit,
      TermMoves, MonitorMoves, startVars, stopVars, mutVars
<1>18. ASSUME NEW m \in Mutators,
              BeginMutation(m) \/ LockShared(m) \/ Validate(m) \/ CommitCall(m)
                \/ ReleaseMutation(m) \/ (\E c \in Calls : CallCore(m, c))
       PROVE  ExclusiveInv'
  <2>1. UNCHANGED <<mutationGate, previousProcess, startPc, stopPc, stopProcess>>
    BY <1>18, Zenon
    DEF BeginMutation, LockShared, Validate, CommitCall, ReleaseMutation, CallCore, Unlease,
        startVars, stopVars
  <2>2. \A p \in Procs : mutationGate[p] # None => Readers(p)' \subseteq Readers(p)
    <3> USE DEF Readers, TypeMutations
    <3>1. CASE BeginMutation(m) BY <3>1, Zenon DEF BeginMutation
    <3>2. CASE LockShared(m) BY <3>2, Zenon DEF LockShared
    <3>3. CASE Validate(m) \/ ReleaseMutation(m)
      BY <3>3, Zenon DEF Validate, ReleaseMutation, Unlease
    <3>4. CASE CommitCall(m) BY <3>4, Zenon DEF CommitCall
    <3>5. CASE \E c \in Calls : CallCore(m, c) BY <3>5, Zenon DEF CallCore
    <3> QED BY <1>18, <3>1, <3>2, <3>3, <3>4, <3>5, Zenon
  <2> QED BY <2>1, <2>2, ReadersKeepGate, Zenon
<1>19. CASE UNCHANGED vars
  BY <1>1, <1>19, Zenon DEF vars, startVars, stopVars, mutVars
<1> QED
  BY <1>2, <1>3, <1>4, <1>5, <1>6, <1>7, <1>9, <1>10, <1>11, <1>12, <1>13, <1>14, <1>15, <1>16,
     <1>17, <1>18, <1>19, Zenon
  DEF Next, StartStep, StopStep, TermStep, MutationStep

-----------------------------------------------------------------------------
(* What a mutation's token says *)

\* A token stays good as long as no process is forgotten before it is finalized
\* and no Start takes an identity that was used before.
LEMMA TokenKept ==
    ASSUME TokenInv, LeaseInv, TypeMutations,
           \A m \in Mutators : mutPc'[m] # "idle" => mutPc[m] # "idle" /\ mutProcess'[m] = mutProcess[m],
           \A p \in Procs : /\ os[p] # "none" => os'[p] # "none"
                            /\ finalized[p] => finalized'[p],
           process' = process \/ process = NoProc \/ finalized'[process],
           \A s \in Starters : startPc'[s] \in HasIdentity =>
               startPc[s] \in HasIdentity /\ reserved'[s] = reserved[s]
    PROVE  TokenInv'
<1> SUFFICES ASSUME NEW m \in Mutators, mutPc'[m] # "idle"
             PROVE  /\ os'[mutProcess[m]] # "none"
                    /\ process' = mutProcess[m] \/ finalized'[mutProcess[m]]
                    /\ \A s \in Starters : startPc'[s] \in HasIdentity => reserved'[s] # mutProcess[m]
  BY Zenon DEF TokenInv, Token
<1>1. mutPc[m] # "idle" /\ mutProcess[m] \in Procs
  BY ProcDomain, Zenon DEF LeaseInv, TypeMutations
<1> QED BY <1>1 DEF TokenInv, Token, LeaseInv

\* A step that moves no request and no process keeps every token.
LEMMA TokenFrame ==
    ASSUME TokenInv, LeaseInv, TypeMutations,
           UNCHANGED <<mutPc, mutProcess, os, finalized, process>>,
           \A s \in Starters : startPc'[s] \in HasIdentity =>
               startPc[s] \in HasIdentity /\ reserved'[s] = reserved[s]
    PROVE  TokenInv'
BY TokenKept, Zenon

\* What a Start does next keeps its identity.
LEMMA IdentityKept ==
    ASSUME LifecycleInv, NEW s \in Starters,
           \/ CancelRequest(s) \/ ReadPrevious(s) \/ LockPreviousGate(s) \/ ConsiderUnchanged(s)
           \/ ProbePrevious(s) \/ CompleteUnchanged(s) \/ Prepare(s) \/ Terminated(s)
           \/ RunPreStart(s) \/ StagePendingConfig(s) \/ StartProcess(s) \/ AssignProcess(s)
           \/ RetainUncleanProcess(s) \/ AwaitReady(s) \/ StartFails(s) \/ ProbeVersion(s)
           \/ CommitRunningStart(s) \/ CompleteStart(s) \/ RestorePreviousStart(s) \/ ReturnStart(s)
    PROVE  \A x \in Starters : startPc'[x] \in HasIdentity =>
               startPc[x] \in HasIdentity /\ reserved'[x] = reserved[x]
<1> USE DEF LifecycleInv, TypeOK, TypeStart, HasIdentity, AfterSpawn, Goto
<1>1. CASE CancelRequest(s) BY <1>1, Zenon DEF CancelRequest
<1>2. CASE ReadPrevious(s) \/ LockPreviousGate(s)
  BY <1>2, Zenon DEF ReadPrevious, LockPreviousGate
<1>3. CASE ConsiderUnchanged(s) \/ ProbePrevious(s)
  BY <1>3, Zenon DEF ConsiderUnchanged, ProbePrevious, StartMoves
<1>4. CASE CompleteUnchanged(s) BY <1>4, Zenon DEF CompleteUnchanged
<1>5. CASE Prepare(s) \/ Terminated(s) BY <1>5, Zenon DEF Prepare, Terminated
<1>6. CASE RunPreStart(s) BY <1>6, Zenon DEF RunPreStart, StartMoves
<1>7. CASE StagePendingConfig(s) BY <1>7, Zenon DEF StagePendingConfig
<1>8. CASE StartProcess(s) BY <1>8, Zenon DEF StartProcess
<1>9. CASE AssignProcess(s) \/ RetainUncleanProcess(s)
  BY <1>9, Zenon DEF AssignProcess, RetainUncleanProcess
<1>10. CASE AwaitReady(s) \/ ProbeVersion(s) BY <1>10, Zenon DEF AwaitReady, ProbeVersion, StartMoves
<1>11. CASE StartFails(s) \/ CommitRunningStart(s) BY <1>11, Zenon DEF StartFails, CommitRunningStart
<1>12. CASE CompleteStart(s) BY <1>12, CompleteFrame, Zenon
<1>13. CASE RestorePreviousStart(s)
  <2>1. /\ startPc'[s] = "release" /\ reserved' = reserved
        /\ \A x \in Starters : x # s => startPc'[x] = startPc[x]
    BY <1>13, RestoreFrame DEF TypeStart
  <2> QED BY <2>1, Zenon DEF HasIdentity, AfterSpawn
<1>14. CASE ReturnStart(s) BY <1>14, ReturnFrame, Zenon
<1> QED
  BY <1>1, <1>2, <1>3, <1>4, <1>5, <1>6, <1>7, <1>8, <1>9, <1>10, <1>11, <1>12, <1>13, <1>14, Zenon

\* A token names a process that a completed Start spawned and that Manager keeps
\* while it may be alive.
LEMMA TokenNext ==
    ASSUME LifecycleInv, MutationInv, [Next]_vars
    PROVE  TokenInv'
<1> USE DEF LifecycleInv, TypeOK, MutationInv
<1>1. ASSUME NEW s \in Starters, NEW r \in PanelRequests, BeginStart(s, r) PROVE TokenInv'
  <2>1. UNCHANGED <<mutPc, mutProcess, os, finalized, process, reserved>>
    BY <1>1, Zenon DEF BeginStart, exitVars, mutVars
  <2>2. \A x \in Starters : startPc'[x] \in HasIdentity => startPc[x] \in HasIdentity
    BY <1>1, Zenon DEF BeginStart, Goto, TypeStart, HasIdentity, AfterSpawn
  <2> QED BY <2>1, <2>2, TokenFrame, Zenon
<1>2. ASSUME NEW s \in Starters,
             \/ CancelRequest(s) \/ ReadPrevious(s) \/ LockPreviousGate(s) \/ ConsiderUnchanged(s)
             \/ ProbePrevious(s) \/ CompleteUnchanged(s) \/ Prepare(s) \/ Terminated(s)
             \/ RunPreStart(s) \/ AwaitReady(s) \/ StartFails(s) \/ ProbeVersion(s)
             \/ CommitRunningStart(s)
      PROVE  TokenInv'
  <2>1. UNCHANGED <<mutPc, mutProcess, os, finalized, process>>
    BY <1>2, Zenon
    DEF CancelRequest, ReadPrevious, LockPreviousGate, ConsiderUnchanged, ProbePrevious,
        CompleteUnchanged, Prepare, Terminated, RunPreStart, AwaitReady, StartFails, ProbeVersion,
        CommitRunningStart, StartMoves, managerVars, exitVars, mutVars
  <2> QED BY <1>2, <2>1, TokenFrame, IdentityKept, Zenon
<1>3. ASSUME NEW s \in Starters, ReserveProcessIdentity(s) PROVE TokenInv'
  <2>1. UNCHANGED <<mutPc, mutProcess, os, finalized, process>>
        /\ \A x \in Starters : x # s => startPc'[x] = startPc[x] /\ reserved'[x] = reserved[x]
    BY <1>3, Zenon DEF ReserveProcessIdentity, Goto, TypeStart, exitVars, mutVars
  <2>2. CASE startPc'[s] = "restore"
    BY <2>1, <2>2, TokenFrame, Zenon DEF HasIdentity, AfterSpawn
  <2>3. CASE reserved'[s] = nextProcessEpoch + 1
    <3>1. ASSUME NEW m \in Mutators, mutPc[m] # "idle" PROVE mutProcess[m] # reserved'[s]
      <4>1. mutProcess[m] \in Procs BY <3>1, ProcDomain, Zenon DEF LeaseInv, TypeMutations
      <4>2. mutProcess[m] <= nextProcessEpoch
        BY <3>1, <4>1, Zenon DEF TokenInv, Token, LifeInv, ProcessLife
      <4> QED BY <2>3, <4>1, <4>2, BoundsAssumption DEF TypeManager, Procs, ProcIds
    <3> QED BY <2>1, <3>1, Zenon DEF TokenInv, Token
  <2> QED BY <1>3, <2>2, <2>3, Zenon DEF ReserveProcessIdentity, Goto, TypeStart
<1>4. ASSUME NEW s \in Starters, StagePendingConfig(s) PROVE TokenInv'
  <2>1. os' = os /\ finalized' = finalized /\ mutProcess' = mutProcess
    BY <1>4, Zenon DEF StagePendingConfig, exitVars
  <2>2. \A m \in Mutators : mutPc'[m] # "idle" => mutPc[m] # "idle"
    BY <1>4, Zenon DEF StagePendingConfig, AdmitReaders
  <2>3. process = NoProc \/ finalized[process]
    BY <1>4, ProcDomain, Zenon DEF StagePendingConfig, StartInv, StartKnows, TypeManager, OwnerInv, Unfinalized
  <2> QED BY <1>4, <2>1, <2>2, <2>3, TokenKept, IdentityKept, Zenon
<1>5. ASSUME NEW s \in Starters, StartProcess(s) PROVE TokenInv'
  <2>1. UNCHANGED <<finalized, process, mutPc, mutProcess>>
    BY <1>5, Zenon DEF StartProcess, managerVars, mutVars
  <2>2. \A p \in Procs : os[p] # "none" => os'[p] # "none"
    BY <1>5, Zenon DEF StartProcess, TypeProcesses
  <2> QED BY <1>5, <2>1, <2>2, TokenKept, IdentityKept, Zenon
<1>6. ASSUME NEW s \in Starters, AssignProcess(s) \/ RetainUncleanProcess(s) PROVE TokenInv'
  <2>1. UNCHANGED <<finalized, os, mutPc, mutProcess>>
    BY <1>6, Zenon DEF AssignProcess, RetainUncleanProcess, exitVars, mutVars
  <2>2. process = NoProc
    BY <1>6, Zenon DEF AssignProcess, RetainUncleanProcess, StartInv, StartKnows, Unassigned
  <2> QED BY <1>6, <2>1, <2>2, TokenKept, IdentityKept, Zenon
<1>7. ASSUME NEW s \in Starters, CompleteStart(s) PROVE TokenInv'
  <2>1. UNCHANGED <<finalized, os, mutPc, mutProcess>>
    BY <1>7, Zenon DEF CompleteStart, exitVars, mutVars
  <2>2. process' = process \/ process = NoProc \/ finalized[process]
    BY <1>7, ProcDomain, Zenon
    DEF CompleteStart, StartInv, StartKnows, TypeManager, OwnerInv, Unfinalized
  <2> QED BY <1>7, <2>1, <2>2, TokenKept, IdentityKept, Zenon
<1>8. ASSUME NEW s \in Starters, RestorePreviousStart(s) PROVE TokenInv'
  <2>1. UNCHANGED <<finalized, os, mutPc, mutProcess>>
    BY <1>8, Zenon DEF RestorePreviousStart, exitVars, mutVars
  <2>2. process' = process \/ process = NoProc \/ finalized[process]
    BY <1>8, ProcDomain, Zenon DEF RestorePreviousStart, TypeManager, LifeInv, ProcessLife
  <2> QED BY <1>8, <2>1, <2>2, TokenKept, IdentityKept, Zenon
<1>9. ASSUME NEW s \in Starters, ReturnStart(s) PROVE TokenInv'
  <2>1. UNCHANGED <<finalized, os, process, mutProcess>>
    BY <1>9, Zenon DEF ReturnStart, managerVars, exitVars
  <2>2. \A m \in Mutators : mutPc'[m] # "idle" => mutPc[m] # "idle"
    BY <1>9, Zenon DEF ReturnStart, AdmitReaders
  <2> QED BY <1>9, <2>1, <2>2, TokenKept, IdentityKept, Zenon
<1>10. ASSUME NEW t \in Stoppers,
              \/ JoinStop(t) \/ StopStarting(t) \/ StopSettled(t) \/ CancelStart(t)
              \/ LockLifecycle(t) \/ ReadProcess(t) \/ LockGate(t) \/ StopCloseDone(t)
              \/ StopTerminates(t) \/ StopTerminated(t) \/ JudgeStop(t)
       PROVE  TokenInv'
  <2>1. UNCHANGED <<mutPc, mutProcess, os, finalized, process, startPc, reserved>>
    BY <1>10, Zenon
    DEF JoinStop, StopStarting, StopSettled, CancelStart, LockLifecycle, ReadProcess, LockGate,
        StopCloseDone, StopTerminates, StopTerminated, JudgeStop, managerVars, exitVars, startVars,
        mutVars
  <2> QED BY <2>1, TokenFrame, Zenon
<1>11. ASSUME NEW t \in Stoppers, RetryFinalize(t) \/ FinishStop(t) PROVE TokenInv'
  <2>1. UNCHANGED <<os, mutPc, mutProcess, startPc, reserved>>
    BY <1>11, Zenon DEF RetryFinalize, FinishStop, exitVars, startVars, mutVars
  <2>2. \A p \in Procs : finalized[p] => finalized'[p]
    BY <1>11, Zenon DEF RetryFinalize, FinishStop, exitVars, TypeProcesses
  <2>3. process' = process \/ process = NoProc \/ finalized'[process]
    BY <1>11 DEF RetryFinalize, FinishStop, StopInv, StopKnows, managerVars, exitVars
  <2> QED BY <2>1, <2>2, <2>3, TokenKept, Zenon
<1>12. ASSUME NEW t \in Stoppers, ReturnStop(t) PROVE TokenInv'
  <2>1. UNCHANGED <<finalized, os, process, mutProcess, startPc, reserved>>
    BY <1>12, Zenon DEF ReturnStop, managerVars, exitVars, startVars
  <2>2. \A m \in Mutators : mutPc'[m] # "idle" => mutPc[m] # "idle"
    BY <1>12, Zenon DEF ReturnStop, AdmitReaders
  <2> QED BY <2>1, <2>2, TokenKept, Zenon
<1>13. ASSUME NEW p \in ProcIds, TermEnter(p) PROVE TokenInv'
  BY <1>13, TokenFrame, Zenon DEF TermEnter, TermMoves, managerVars, exitVars, startVars, mutVars
<1>14. ASSUME NEW p \in Procs,
              Interrupt(p) \/ Kill(p) \/ AttemptEnds(p) \/ AttemptTimesOut(p) \/ ObservationFails(p)
                \/ MarkLeaderWait(p) \/ CloseDone(p) \/ CloseMonitor(p) \/ ReadOutcome(p)
       PROVE  TokenInv'
  <2>1. UNCHANGED <<mutPc, mutProcess, os, finalized, process, startPc, reserved>>
    BY <1>14, Zenon
    DEF Interrupt, Kill, AttemptEnds, AttemptTimesOut, ObservationFails, MarkLeaderWait, CloseDone,
        CloseMonitor, ReadOutcome, TermMoves, MonitorMoves, managerVars, exitVars, startVars, mutVars
  <2> QED BY <2>1, TokenFrame, Zenon
<1>15. ASSUME NEW p \in Procs, LoadConfig(p) \/ CoreExits(p) PROVE TokenInv'
  <2>1. UNCHANGED <<mutPc, mutProcess, finalized, process, startPc, reserved>>
    BY <1>15, Zenon DEF LoadConfig, CoreExits, managerVars, startVars, mutVars
  <2>2. \A q \in Procs : os[q] # "none" => os'[q] # "none"
    BY <1>15, Zenon DEF LoadConfig, CoreExits, TypeProcesses
  <2> QED BY <2>1, <2>2, TokenKept, Zenon
<1>16. ASSUME NEW p \in Procs, FinalizeExited(p) \/ PublishExit(p) PROVE TokenInv'
  <2>1. UNCHANGED <<os, mutPc, mutProcess, startPc, reserved>>
    BY <1>16, Zenon DEF FinalizeExited, PublishExit, MonitorMoves, startVars, mutVars
  <2>2. \A q \in Procs : finalized[q] => finalized'[q]
    BY <1>16, Zenon DEF FinalizeExited, PublishExit, TypeProcesses
  <2>3. process' = process \/ process = NoProc \/ finalized'[process]
    BY <1>16, Zenon
    DEF FinalizeExited, PublishExit, MonitorMoves, ExitIsNews, LifeInv, ProcessLife, managerVars
  <2> QED BY <2>1, <2>2, <2>3, TokenKept, Zenon
<1>17. ASSUME NEW m \in Mutators, BeginMutation(m) PROVE TokenInv'
  <2>1. /\ \A x \in Mutators : x # m => mutPc'[x] = mutPc[x] /\ mutProcess'[x] = mutProcess[x]
        /\ mutProcess'[m] = process /\ process # NoProc /\ state = "running"
        /\ UNCHANGED <<os, process, finalized, startPc, reserved>>
    BY <1>17, Zenon DEF BeginMutation, Online, TypeMutations, managerVars, exitVars, startVars
  <2>2. \A s \in Starters : startPc[s] \notin HasIdentity
    BY <2>1, Unsettled, Zenon DEF Active, HasIdentity, AfterSpawn
  <2> QED BY <2>1, <2>2, Zenon DEF TokenInv, Token, OwnerInv
<1>18. ASSUME NEW m \in Mutators,
              LockShared(m) \/ Validate(m) \/ CommitCall(m) \/ ReleaseMutation(m)
                \/ (\E c \in Calls : CallCore(m, c))
       PROVE  TokenInv'
  <2>1. UNCHANGED <<os, process, finalized, startPc, reserved>>
    BY <1>18, Zenon
    DEF LockShared, Validate, CommitCall, ReleaseMutation, CallCore, Unlease, managerVars, exitVars,
        startVars
  <2>2. \A x \in Mutators : mutPc'[x] # "idle" => mutPc[x] # "idle" /\ mutProcess'[x] = mutProcess[x]
    <3> USE DEF TypeMutations
    <3>1. CASE LockShared(m) BY <3>1, Zenon DEF LockShared
    <3>2. CASE Validate(m) \/ ReleaseMutation(m) BY <3>2, Zenon DEF Validate, ReleaseMutation, Unlease
    <3>3. CASE CommitCall(m) BY <3>3, Zenon DEF CommitCall
    <3>4. CASE \E c \in Calls : CallCore(m, c) BY <3>4, Zenon DEF CallCore
    <3> QED BY <1>18, <3>1, <3>2, <3>3, <3>4, Zenon
  <2> QED BY <2>1, <2>2, TokenKept, Zenon
<1>19. CASE UNCHANGED vars
  BY <1>19, TokenFrame, Zenon DEF vars, managerVars, exitVars, startVars, mutVars
<1> QED
  BY <1>1, <1>2, <1>3, <1>4, <1>5, <1>6, <1>7, <1>8, <1>9, <1>10, <1>11, <1>12, <1>13, <1>14,
     <1>15, <1>16, <1>17, <1>18, <1>19, Zenon
  DEF Next, StartStep, StopStep, TermStep, MonitorStep, MutationStep

\* Two user requests never hold a lease at once, and only they call rw-core.
LEMMA HandlerNext ==
    ASSUME LifecycleInv, MutationInv, [Next]_vars
    PROVE  HandlerInv'
<1> USE DEF LifecycleInv, TypeOK, MutationInv
<1>1. ASSUME handlerGate' = handlerGate,
             \A m \in Mutators : /\ mutPc'[m] # "idle" => mutPc[m] # "idle"
                                 /\ mutPc'[m] = "called" => mutPc[m] = "called"
      PROVE  HandlerInv'
  BY <1>1, CallersAssumption, Zenon DEF HandlerInv
<1>2. ASSUME NEW s \in Starters,
             (\E r \in PanelRequests : BeginStart(s, r)) \/ CancelRequest(s) \/ StartStep(s)
      PROVE  HandlerInv'
  <2>1. CASE StagePendingConfig(s) \/ ReturnStart(s)
    BY <1>1, <2>1, Zenon DEF StagePendingConfig, ReturnStart, AdmitReaders
  <2>2. CASE ~(StagePendingConfig(s) \/ ReturnStart(s))
    <3>1. UNCHANGED mutVars
      BY <1>2, <2>2, Zenon
      DEF BeginStart, StartStep, CancelRequest, ReadPrevious, LockPreviousGate, ConsiderUnchanged,
          ProbePrevious, CompleteUnchanged, ReserveProcessIdentity, Prepare, Terminated, RunPreStart,
          StartProcess, AssignProcess, RetainUncleanProcess, AwaitReady, StartFails, ProbeVersion,
          CommitRunningStart, CompleteStart, RestorePreviousStart, StartMoves
    <3> QED BY <1>1, <3>1, Zenon DEF mutVars
  <2> QED BY <2>1, <2>2, Zenon
<1>3. ASSUME NEW t \in Stoppers, JoinStop(t) \/ StopStarting(t) \/ StopSettled(t) \/ StopStep(t)
      PROVE  HandlerInv'
  <2>1. CASE ReturnStop(t)
    BY <1>1, <2>1, Zenon DEF ReturnStop, AdmitReaders
  <2>2. CASE ~ReturnStop(t)
    <3>1. UNCHANGED mutVars
      BY <1>3, <2>2, Zenon
      DEF StopStep, JoinStop, StopStarting, StopSettled, CancelStart, LockLifecycle, ReadProcess,
          LockGate, RetryFinalize, StopCloseDone, StopTerminates, StopTerminated, JudgeStop, FinishStop
    <3> QED BY <1>1, <3>1, Zenon DEF mutVars
  <2> QED BY <2>1, <2>2, Zenon
<1>4. ASSUME TermStep \/ (\E p \in Procs : LoadConfig(p) \/ CoreExits(p) \/ ObservationFails(p) \/ MonitorStep(p))
      PROVE  HandlerInv'
  <2>1. UNCHANGED mutVars
    BY <1>4, Zenon
    DEF TermStep, TermEnter, Interrupt, Kill, AttemptEnds, AttemptTimesOut, LoadConfig, CoreExits,
        ObservationFails, MonitorStep, MarkLeaderWait, FinalizeExited, CloseDone, CloseMonitor,
        ReadOutcome, PublishExit, TermMoves, MonitorMoves
  <2> QED BY <1>1, <2>1, Zenon DEF mutVars
<1>5. ASSUME NEW m \in Mutators, BeginMutation(m) PROVE HandlerInv'
  BY <1>5, CallersAssumption, Zenon DEF BeginMutation, HandlerInv, TypeMutations
<1>6. ASSUME NEW m \in Mutators, LockShared(m) PROVE HandlerInv'
  BY <1>1, <1>6, Zenon DEF LockShared, TypeMutations
<1>7. ASSUME NEW m \in Mutators, Validate(m) \/ ReleaseMutation(m) PROVE HandlerInv'
  BY <1>7, CallersAssumption, Zenon DEF Validate, ReleaseMutation, Unlease, HandlerInv, TypeMutations
<1>8. ASSUME NEW m \in Mutators, CommitCall(m) PROVE HandlerInv'
  BY <1>1, <1>8, Zenon DEF CommitCall, TypeMutations
<1>9. ASSUME NEW m \in Mutators, NEW c \in Calls, CallCore(m, c) PROVE HandlerInv'
  BY <1>9, CallersAssumption, Zenon DEF CallCore, HandlerInv, TypeMutations
<1>10. CASE UNCHANGED vars
  BY <1>1, <1>10, Zenon DEF vars, mutVars
<1> QED
  BY <1>2, <1>3, <1>4, <1>5, <1>6, <1>7, <1>8, <1>9, <1>10, Zenon DEF Next, MutationStep

\* What the gates and the tokens say together: nobody terminates a leased process.
LEMMA LeaseFollows ==
    ASSUME LifecycleInv, ExclusiveInv, TokenInv
    PROVE  LeasePinsProcess
<1> SUFFICES ASSUME NEW m \in Mutators, mutPc[m] \in {"leased", "called"}
             PROVE  /\ ~Terminating(mutProcess[m])
                    /\ process = mutProcess[m] \/ finalized[mutProcess[m]]
  BY Zenon DEF LeasePinsProcess
<1> USE DEF LifecycleInv, TypeOK
<1>1. mutProcess[m] # NoProc /\ mutProcess[m] \in Procs
  BY ProcDomain, Zenon DEF LeaseInv, TypeMutations
<1>2. mutationGate[mutProcess[m]] = None
  BY <1>1, Zenon DEF ExclusiveInv, Readers
<1>3. None \notin Starters \cup Stoppers BY CallersAssumption, Zenon
<1>4. \A s \in Starters : startPc[s] = "termPrevious" => previousProcess[s] # mutProcess[m]
  BY <1>1, <1>2, <1>3 DEF ExclusiveInv, HoldsPrevious
<1>5. \A s \in Starters : startPc[s] \in {"termUnassigned", "termFailed"} => reserved[s] # mutProcess[m]
  BY Zenon DEF TokenInv, Token, HasIdentity, AfterSpawn
<1>6. \A t \in Stoppers : stopPc[t] = "term" => stopProcess[t] # mutProcess[m]
  BY <1>1, <1>2, <1>3 DEF ExclusiveInv, HoldsStopped
<1> QED BY <1>4, <1>5, <1>6, Zenon DEF Terminating, TokenInv, Token

-----------------------------------------------------------------------------
(* What rw-core has been told, and what the hashes record *)

\* While a Start is in progress the others claim nothing.
LEMMA LaunchAlone ==
    ASSUME MutexInv, NEW s \in Starters, Active(s), Launch(s)',
           \A x \in Starters : x # s => startPc'[x] = startPc[x]
    PROVE  LaunchInv'
<1>1. \A x \in Starters : x # s => startPc'[x] \in {"idle", "release"}
  BY StartAlone, Zenon DEF Active
<1> QED BY <1>1, Zenon DEF LaunchInv, Launch

\* With no Start in progress nothing is claimed.
LEMMA NoLaunch ==
    ASSUME \A x \in Starters : startPc'[x] \in {"idle", "release", "begun"}
    PROVE  LaunchInv'
BY Zenon DEF LaunchInv, Launch

\* What a Start has staged is what the process it spawned has loaded, and what
\* it compared with the hashes stays so while it holds the gate.
LEMMA LaunchNext ==
    ASSUME LifecycleInv, MutationInv, [Next]_vars
    PROVE  LaunchInv'
<1> USE DEF LifecycleInv, TypeOK, MutationInv
<1>1. UNCHANGED <<startPc, pendingConfig, request, os, reserved, core, previous, previousProcess, hashes>>
      => LaunchInv'
  BY Zenon DEF LaunchInv, Launch
<1>2. ASSUME NEW s \in Starters, NEW r \in PanelRequests, BeginStart(s, r) PROVE LaunchInv'
  <2>1. \A x \in Starters : x # s => startPc[x] \in {"idle", "release"}
    BY <1>2, CallersAssumption, Zenon DEF BeginStart, MutexInv, Active
  <2> QED BY <1>2, <2>1, NoLaunch, Zenon DEF BeginStart, Goto, TypeStart
<1>3. ASSUME NEW s \in Starters, Active(s),
             \A x \in Starters : x # s => startPc'[x] = startPc[x],
             startPc'[s] \notin {"spawn", "assign", "await", "version", "commit", "probe", "unchanged"}
      PROVE  LaunchInv'
  <2>1. Launch(s)' BY <1>3, Zenon DEF Launch
  <2> QED BY <1>3, <2>1, LaunchAlone, Zenon
<1>4. ASSUME NEW s \in Starters,
             \/ ReadPrevious(s) \/ LockPreviousGate(s) \/ CompleteUnchanged(s)
             \/ ReserveProcessIdentity(s) \/ Prepare(s) \/ Terminated(s)
      PROVE  LaunchInv'
  <2> USE <1>3 DEF Goto, TypeStart, Active
  <2>1. CASE ReadPrevious(s) \/ LockPreviousGate(s) BY <2>1, Zenon DEF ReadPrevious, LockPreviousGate
  <2>2. CASE CompleteUnchanged(s) BY <2>2, Zenon DEF CompleteUnchanged
  <2>3. CASE ReserveProcessIdentity(s) BY <2>3, Zenon DEF ReserveProcessIdentity
  <2>4. CASE Prepare(s) BY <2>4, Zenon DEF Prepare
  <2>5. CASE Terminated(s) BY <2>5, Zenon DEF Terminated
  <2> QED BY <1>4, <2>1, <2>2, <2>3, <2>4, <2>5, Zenon
<1>5. ASSUME NEW s \in Starters,
             \/ RunPreStart(s) \/ RetainUncleanProcess(s) \/ StartFails(s) \/ CommitRunningStart(s)
      PROVE  LaunchInv'
  <2> USE <1>3 DEF Goto, TypeStart, Active
  <2>1. CASE RunPreStart(s) BY <2>1, Zenon DEF RunPreStart, StartMoves
  <2>2. CASE RetainUncleanProcess(s) BY <2>2, Zenon DEF RetainUncleanProcess
  <2>3. CASE StartFails(s) BY <2>3, Zenon DEF StartFails
  <2>4. CASE CommitRunningStart(s) BY <2>4, Zenon DEF CommitRunningStart
  <2> QED BY <1>5, <2>1, <2>2, <2>3, <2>4, Zenon
<1>6. ASSUME NEW s \in Starters, CompleteStart(s) \/ RestorePreviousStart(s) PROVE LaunchInv'
  <2>1. Active(s) BY <1>6, Zenon DEF CompleteStart, RestorePreviousStart, Completing, Active
  <2>2. startPc' = [startPc EXCEPT ![s] = "release"] BY <1>6, CompleteFrame, RestoreFrame, Zenon
  <2> QED BY <1>3, <2>1, <2>2, Zenon DEF TypeStart
<1>7. ASSUME NEW s \in Starters, ReturnStart(s) PROVE LaunchInv'
  <2>1. startPc'[s] = "idle" /\ \A x \in Starters : x # s => startPc'[x] = startPc[x]
    BY <1>7, ReturnFrame, Zenon DEF TypeStart
  <2>2. \A x \in Starters : x # s => UNCHANGED <<request[x], reserved[x], previous[x], previousProcess[x]>>
    BY <1>7, Zenon DEF ReturnStart, TypeStart
  <2>3. UNCHANGED <<pendingConfig, os, core, hashes>>
    BY <1>7, Zenon DEF ReturnStart, runtimeVars, exitVars, coreVars
  <2> QED BY <2>1, <2>2, <2>3 DEF LaunchInv, Launch
<1>8. ASSUME NEW s \in Starters, ConsiderUnchanged(s) PROVE LaunchInv'
  <2>1. Active(s) /\ \A x \in Starters : x # s => startPc'[x] = startPc[x]
    BY <1>8, Zenon DEF ConsiderUnchanged, StartMoves, Goto, TypeStart, Active
  <2>2. CASE startPc'[s] = "probe"
    <3>1. Launch(s)' BY <1>8, <2>2, Zenon DEF ConsiderUnchanged, StartMoves, Goto, TypeStart, Launch
    <3> QED BY <2>1, <3>1, LaunchAlone, Zenon
  <2>3. CASE startPc'[s] \in {"restore", "reserve"} BY <1>3, <2>1, <2>3, Zenon
  <2> QED BY <1>8, <2>2, <2>3, Zenon DEF ConsiderUnchanged, StartMoves, Goto, TypeStart
<1>9. ASSUME NEW s \in Starters, ProbePrevious(s) PROVE LaunchInv'
  <2>1. Active(s) /\ \A x \in Starters : x # s => startPc'[x] = startPc[x]
    BY <1>9, Zenon DEF ProbePrevious, StartMoves, Goto, TypeStart, Active
  <2>2. CASE startPc'[s] = "unchanged"
    <3>1. startPc[s] = "probe" /\ ~NeedRestart(request[s].config)
          /\ UNCHANGED <<request, hashes, previous, previousProcess>>
      BY <1>9, <2>2, Zenon DEF ProbePrevious, StartMoves, Goto, TypeStart, runtimeVars
    <3>2. Launch(s)' BY <2>2, <3>1, Zenon DEF LaunchInv, Launch, NeedRestart
    <3> QED BY <2>1, <3>2, LaunchAlone, Zenon
  <2>3. CASE startPc'[s] \in {"restore", "reserve"} BY <1>3, <2>1, <2>3, Zenon
  <2> QED BY <1>9, <2>2, <2>3, Zenon DEF ProbePrevious, StartMoves, Goto, TypeStart
<1>10. ASSUME NEW s \in Starters, StagePendingConfig(s) PROVE LaunchInv'
  <2>1. Active(s) /\ \A x \in Starters : x # s => startPc'[x] = startPc[x]
    BY <1>10, Zenon DEF StagePendingConfig, Goto, TypeStart, Active
  <2>2. CASE OwnsStarting(s)
    <3>1. startPc'[s] = "spawn" /\ pendingConfig' = request[s].config /\ request' = request
      BY <1>10, <2>2, Zenon DEF StagePendingConfig, Goto, TypeStart
    <3>2. Launch(s)' BY <3>1, Zenon DEF Launch
    <3> QED BY <2>1, <3>2, LaunchAlone, Zenon
  <2>3. CASE ~OwnsStarting(s)
    BY <1>3, <1>10, <2>1, <2>3, Zenon DEF StagePendingConfig, Goto, TypeStart
  <2> QED BY <2>2, <2>3, Zenon
<1>11. ASSUME NEW s \in Starters, StartProcess(s) PROVE LaunchInv'
  <2>1. /\ Active(s) /\ \A x \in Starters : x # s => startPc'[x] = startPc[x]
        /\ UNCHANGED <<pendingConfig, request, reserved>> /\ reserved[s] \in Procs
    BY <1>11, Zenon DEF StartProcess, Goto, TypeStart, Active, runtimeVars, StartInv, StartKnows
  <2>2. CASE startPc'[s] = "assign" /\ os' = [os EXCEPT ![reserved[s]] = "boot"]
    <3>1. Launch(s)' BY <1>11, <2>1, <2>2, Zenon DEF StartProcess, LaunchInv, Launch, TypeProcesses
    <3> QED BY <2>1, <3>1, LaunchAlone, Zenon
  <2>3. CASE startPc'[s] = "failCleared" BY <1>3, <2>1, <2>3, Zenon
  <2> QED BY <1>11, <2>2, <2>3, Zenon DEF StartProcess, Goto, TypeStart
<1>12. ASSUME NEW s \in Starters, AssignProcess(s) PROVE LaunchInv'
  <2>1. /\ startPc[s] = "assign" /\ startPc'[s] \in {"await", "termUnassigned"}
        /\ \A x \in Starters : x # s => startPc'[x] = startPc[x]
        /\ UNCHANGED <<pendingConfig, request, reserved, os, core>>
    BY <1>12, Zenon DEF AssignProcess, Goto, TypeStart, runtimeVars, exitVars, coreVars
  <2>2. Launch(s)' BY <2>1, Zenon DEF LaunchInv, Launch
  <2> QED BY <2>1, <2>2, LaunchAlone, Zenon DEF Active
<1>13. ASSUME NEW s \in Starters, AwaitReady(s) \/ ProbeVersion(s) PROVE LaunchInv'
  <2>1. /\ \/ startPc[s] = "await" /\ os[reserved[s]] = "up" /\ startPc'[s] = "version"
           \/ startPc[s] = "version" /\ startPc'[s] = "commit"
        /\ \A x \in Starters : x # s => startPc'[x] = startPc[x]
        /\ UNCHANGED <<pendingConfig, request, reserved, os, core>>
    BY <1>13, Zenon
    DEF AwaitReady, ProbeVersion, StartMoves, Goto, TypeStart, runtimeVars, exitVars, coreVars
  <2>2. Launch(s)' BY <2>1, Zenon DEF LaunchInv, Launch
  <2> QED BY <2>1, <2>2, LaunchAlone, Zenon DEF Active
<1>14. ASSUME NEW t \in Stoppers, FinishStop(t) PROVE LaunchInv'
  <2>1. \A x \in Starters : startPc[x] \in {"idle", "release"}
    BY <1>14, StopAlone, Zenon DEF FinishStop, Holding, Active
  <2> QED BY <1>14, <2>1, NoLaunch, Zenon DEF FinishStop, startVars
<1>15. ASSUME NEW p \in Procs, PublishExit(p) PROVE LaunchInv'
  <2>1. CASE ExitIsNews(p)
    <3>1. \A x \in Starters : startPc[x] \in {"idle", "release"}
      BY <2>1, Unsettled, Zenon DEF ExitIsNews, Active
    <3> QED BY <1>15, <3>1, NoLaunch, Zenon DEF PublishExit, MonitorMoves, startVars
  <2>2. CASE ~ExitIsNews(p)
    BY <1>1, <1>15, <2>2, Zenon DEF PublishExit, MonitorMoves, runtimeVars, coreVars, startVars
  <2> QED BY <2>1, <2>2, Zenon
<1>16. ASSUME NEW p \in Procs, LoadConfig(p) PROVE LaunchInv'
  <2>1. UNCHANGED <<startPc, pendingConfig, request, reserved, previous, previousProcess, hashes>>
    BY <1>16, Zenon DEF LoadConfig, runtimeVars, startVars
  <2>2. os[p] = "boot" /\ os' = [os EXCEPT ![p] = "up"] /\ core' = [core EXCEPT ![p] = pendingConfig]
    BY <1>16, Zenon DEF LoadConfig
  <2>3. \A s \in Starters : startPc[s] \in AfterSpawn => reserved[s] \in Procs
    BY Zenon DEF StartInv, StartKnows
  <2> QED BY <2>1, <2>2, <2>3, Zenon DEF LaunchInv, Launch, AfterSpawn, TypeProcesses
<1>17. ASSUME NEW p \in Procs, CoreExits(p) PROVE LaunchInv'
  <2>1. UNCHANGED <<startPc, pendingConfig, request, reserved, core, previous, previousProcess, hashes>>
    BY <1>17, Zenon DEF CoreExits, runtimeVars, coreVars, startVars
  <2>2. os' = [os EXCEPT ![p] = "exited"] BY <1>17, Zenon DEF CoreExits
  <2>3. \A s \in Starters : startPc[s] \in AfterSpawn => reserved[s] \in Procs
    BY Zenon DEF StartInv, StartKnows
  <2> QED BY <2>1, <2>2, <2>3, Zenon DEF LaunchInv, Launch, AfterSpawn, TypeProcesses
<1>18. ASSUME NEW m \in Mutators, NEW c \in Calls, CallCore(m, c) PROVE LaunchInv'
  <2>1. UNCHANGED <<startPc, pendingConfig, request, os, reserved, previous, previousProcess, hashes>>
    BY <1>18, Zenon DEF CallCore, runtimeVars, exitVars, startVars
  <2>2. \A p \in Procs : p # mutProcess[m] => core'[p] = core[p]
    BY <1>18, Zenon DEF CallCore, TypeProcesses
  <2>3. \A s \in Starters : startPc[s] \in AfterSpawn => reserved[s] \in Procs /\ reserved[s] # mutProcess[m]
    BY <1>18, Zenon DEF CallCore, StartInv, StartKnows, TokenInv, Token, HasIdentity
  <2> QED BY <2>1, <2>2, <2>3, Zenon DEF LaunchInv, Launch, AfterSpawn
<1>19. ASSUME NEW m \in Mutators, CommitCall(m) PROVE LaunchInv'
  <2>1. UNCHANGED <<startPc, pendingConfig, request, os, reserved, core, previous, previousProcess>>
    BY <1>19, Zenon DEF CommitCall, exitVars, coreVars, startVars
  <2>2. CASE hashes' = hashes BY <1>1, <2>1, <2>2, Zenon
  <2>3. CASE process = mutProcess[m]
    <3>1. \A s \in Starters : startPc[s] # "unchanged"
      <4> SUFFICES ASSUME NEW s \in Starters, startPc[s] = "unchanged" PROVE FALSE
        OBVIOUS
      <4>1. process = previousProcess[s] /\ previousProcess[s] # NoProc
        BY Zenon DEF StartInv, StartKnows, HasPrevious, LaunchInv, Launch
      <4>2. mutationGate[process] = s /\ process \in Procs
        BY <4>1, ProcDomain, Zenon DEF ExclusiveInv, HoldsPrevious, TypeManager
      <4>3. m \in Readers(process) BY <1>19, <2>3, Zenon DEF CommitCall, Readers
      <4> QED BY <4>2, <4>3, CallersAssumption, Zenon DEF ExclusiveInv
    <3> QED BY <2>1, <3>1, Zenon DEF LaunchInv, Launch
  <2> QED BY <1>19, <2>2, <2>3, Zenon DEF CommitCall
<1>20. ASSUME NEW s \in Starters, CancelRequest(s) PROVE LaunchInv'
  BY <1>1, <1>20, Zenon DEF CancelRequest, runtimeVars, exitVars, coreVars
<1>21. ASSUME NEW t \in Stoppers,
              \/ JoinStop(t) \/ StopStarting(t) \/ StopSettled(t) \/ CancelStart(t)
              \/ LockLifecycle(t) \/ ReadProcess(t) \/ LockGate(t) \/ RetryFinalize(t)
              \/ StopCloseDone(t) \/ StopTerminates(t) \/ StopTerminated(t) \/ JudgeStop(t)
              \/ ReturnStop(t)
       PROVE  LaunchInv'
  BY <1>1, <1>21, Zenon
  DEF JoinStop, StopStarting, StopSettled, CancelStart, LockLifecycle, ReadProcess, LockGate,
      RetryFinalize, StopCloseDone, StopTerminates, StopTerminated, JudgeStop, ReturnStop,
      runtimeVars, exitVars, coreVars, startVars
<1>22. ASSUME NEW p \in ProcIds, TermEnter(p) PROVE LaunchInv'
  BY <1>1, <1>22, Zenon DEF TermEnter, TermMoves, runtimeVars, exitVars, coreVars, startVars
<1>23. ASSUME NEW p \in Procs,
              Interrupt(p) \/ Kill(p) \/ AttemptEnds(p) \/ AttemptTimesOut(p) \/ ObservationFails(p)
                \/ MarkLeaderWait(p) \/ FinalizeExited(p) \/ CloseDone(p) \/ CloseMonitor(p)
                \/ ReadOutcome(p)
       PROVE  LaunchInv'
  BY <1>1, <1>23, Zenon
  DEF Interrupt, Kill, AttemptEnds, AttemptTimesOut, ObservationFails, MarkLeaderWait,
      FinalizeExited, CloseDone, CloseMonitor, ReadOutcome, TermMoves, MonitorMoves, runtimeVars,
      exitVars, coreVars, startVars
<1>24. ASSUME NEW m \in Mutators,
              BeginMutation(m) \/ LockShared(m) \/ Validate(m) \/ ReleaseMutation(m)
       PROVE  LaunchInv'
  BY <1>1, <1>24, Zenon
  DEF BeginMutation, LockShared, Validate, ReleaseMutation, Unlease, runtimeVars, exitVars, coreVars,
      startVars
<1>25. CASE UNCHANGED vars
  BY <1>1, <1>25, Zenon DEF vars, runtimeVars, exitVars, coreVars, startVars
<1> QED
  BY <1>2, <1>4, <1>5, <1>6, <1>7, <1>8, <1>9, <1>10, <1>11, <1>12, <1>13, <1>14, <1>15, <1>16,
     <1>17, <1>18, <1>19, <1>20, <1>21, <1>22, <1>23, <1>24, <1>25, Zenon
  DEF Next, StartStep, StopStep, TermStep, MonitorStep, MutationStep

\* The recorded runtime epoch names Manager's process, past its boot.
LEMMA EpochNext ==
    ASSUME LifecycleInv, MutationInv, [Next]_vars
    PROVE  EpochInv'
<1> USE DEF LifecycleInv, TypeOK, MutationInv
<1>1. UNCHANGED <<runtimeEpoch, process, os>> => EpochInv'
  BY Zenon DEF EpochInv
<1>2. ASSUME runtimeEpoch' = NoProc \/ UNCHANGED <<runtimeEpoch, process>>, os' = os PROVE EpochInv'
  BY <1>2, Zenon DEF EpochInv
<1>3. ASSUME NEW s \in Starters,
             StagePendingConfig(s) \/ CompleteStart(s) \/ RestorePreviousStart(s)
      PROVE  EpochInv'
  <2>1. os' = os
    BY <1>3, Zenon DEF StagePendingConfig, CompleteStart, RestorePreviousStart, exitVars
  <2>2. CASE StagePendingConfig(s)
    BY <1>2, <2>1, <2>2, Zenon DEF StagePendingConfig, runtimeVars
  <2>3. CASE CompleteStart(s)
    BY <1>2, <2>1, <2>3, Zenon DEF CompleteStart, ClearRuntime, runtimeVars
  <2>4. CASE RestorePreviousStart(s)
    BY <1>2, <2>1, <2>4, Zenon DEF RestorePreviousStart, ClearRuntime, runtimeVars
  <2> QED BY <1>3, <2>2, <2>3, <2>4, Zenon
<1>4. ASSUME NEW s \in Starters, AssignProcess(s) \/ RetainUncleanProcess(s) PROVE EpochInv'
  <2>1. process = NoProc
    BY <1>4, Zenon DEF AssignProcess, RetainUncleanProcess, StartInv, StartKnows, Unassigned
  <2>2. runtimeEpoch' = runtimeEpoch
    BY <1>4, Zenon DEF AssignProcess, RetainUncleanProcess, runtimeVars
  <2> QED BY <2>1, <2>2, Zenon DEF EpochInv
<1>5. ASSUME NEW s \in Starters, CommitRunningStart(s) PROVE EpochInv'
  <2>1. process' = process /\ os' = os BY <1>5, Zenon DEF CommitRunningStart, exitVars
  <2>2. CASE runtimeEpoch' = runtimeEpoch BY <1>1, <2>1, <2>2, Zenon
  <2>3. CASE runtimeEpoch' = reserved[s] /\ process = reserved[s]
    <3>1. os[reserved[s]] \notin {"none", "boot"} /\ reserved[s] \in Procs
      BY <1>5, Zenon DEF CommitRunningStart, LaunchInv, Launch, StartInv, StartKnows, AfterSpawn
    <3> QED BY <2>1, <2>3, <3>1, Zenon DEF EpochInv, TypeProcesses
  <2> QED BY <1>5, <2>2, <2>3, Zenon DEF CommitRunningStart, runtimeVars
<1>6. ASSUME NEW s \in Starters, StartProcess(s) PROVE EpochInv'
  <2>1. UNCHANGED <<runtimeEpoch, process>> /\ os[reserved[s]] = "none"
    BY <1>6, Zenon DEF StartProcess, managerVars, runtimeVars, StartInv, StartKnows
  <2>2. runtimeEpoch # NoProc => runtimeEpoch \in Procs BY ProcDomain, Zenon DEF TypeRuntime
  <2>3. os' = os \/ os' = [os EXCEPT ![reserved[s]] = "boot"] BY <1>6, Zenon DEF StartProcess
  <2> QED BY <2>1, <2>2, <2>3, Zenon DEF EpochInv, TypeProcesses
<1>7. ASSUME NEW t \in Stoppers, FinishStop(t) PROVE EpochInv'
  BY <1>2, <1>7, Zenon DEF FinishStop, ClearRuntime, runtimeVars, exitVars
<1>8. ASSUME NEW p \in Procs, PublishExit(p) PROVE EpochInv'
  BY <1>2, <1>8, Zenon DEF PublishExit, MonitorMoves, ClearRuntime, runtimeVars
<1>9. ASSUME NEW p \in Procs, LoadConfig(p) \/ CoreExits(p) PROVE EpochInv'
  <2>1. UNCHANGED <<runtimeEpoch, process>>
        /\ (os' = [os EXCEPT ![p] = "up"] \/ os' = [os EXCEPT ![p] = "exited"])
    BY <1>9, Zenon DEF LoadConfig, CoreExits, managerVars, runtimeVars
  <2>2. runtimeEpoch # NoProc => runtimeEpoch \in Procs BY ProcDomain, Zenon DEF TypeRuntime
  <2> QED BY <2>1, <2>2, Zenon DEF EpochInv, TypeProcesses
<1>10. ASSUME NEW s \in Starters,
              \/ (\E r \in PanelRequests : BeginStart(s, r)) \/ CancelRequest(s) \/ ReadPrevious(s)
              \/ LockPreviousGate(s) \/ ConsiderUnchanged(s) \/ ProbePrevious(s)
              \/ CompleteUnchanged(s) \/ ReserveProcessIdentity(s) \/ Prepare(s) \/ Terminated(s)
              \/ RunPreStart(s) \/ AwaitReady(s) \/ StartFails(s) \/ ProbeVersion(s) \/ ReturnStart(s)
       PROVE  EpochInv'
  BY <1>1, <1>10, Zenon
  DEF BeginStart, CancelRequest, ReadPrevious, LockPreviousGate, ConsiderUnchanged, ProbePrevious,
      CompleteUnchanged, ReserveProcessIdentity, Prepare, Terminated, RunPreStart, AwaitReady,
      StartFails, ProbeVersion, ReturnStart, StartMoves, managerVars, runtimeVars, exitVars
<1>11. ASSUME NEW t \in Stoppers,
              \/ JoinStop(t) \/ StopStarting(t) \/ StopSettled(t) \/ CancelStart(t)
              \/ LockLifecycle(t) \/ ReadProcess(t) \/ LockGate(t) \/ RetryFinalize(t)
              \/ StopCloseDone(t) \/ StopTerminates(t) \/ StopTerminated(t) \/ JudgeStop(t)
              \/ ReturnStop(t)
       PROVE  EpochInv'
  BY <1>1, <1>11, Zenon
  DEF JoinStop, StopStarting, StopSettled, CancelStart, LockLifecycle, ReadProcess, LockGate,
      RetryFinalize, StopCloseDone, StopTerminates, StopTerminated, JudgeStop, ReturnStop,
      managerVars, runtimeVars, exitVars
<1>12. ASSUME NEW p \in ProcIds, TermEnter(p) PROVE EpochInv'
  BY <1>1, <1>12, Zenon DEF TermEnter, TermMoves, managerVars, runtimeVars, exitVars
<1>13. ASSUME NEW p \in Procs,
              Interrupt(p) \/ Kill(p) \/ AttemptEnds(p) \/ AttemptTimesOut(p) \/ ObservationFails(p)
                \/ MarkLeaderWait(p) \/ FinalizeExited(p) \/ CloseDone(p) \/ CloseMonitor(p)
                \/ ReadOutcome(p)
       PROVE  EpochInv'
  BY <1>1, <1>13, Zenon
  DEF Interrupt, Kill, AttemptEnds, AttemptTimesOut, ObservationFails, MarkLeaderWait,
      FinalizeExited, CloseDone, CloseMonitor, ReadOutcome, TermMoves, MonitorMoves, managerVars,
      runtimeVars, exitVars
<1>14. ASSUME NEW m \in Mutators,
              BeginMutation(m) \/ LockShared(m) \/ Validate(m) \/ CommitCall(m)
                \/ ReleaseMutation(m) \/ (\E c \in Calls : CallCore(m, c))
       PROVE  EpochInv'
  BY <1>1, <1>14, Zenon
  DEF BeginMutation, LockShared, Validate, CommitCall, ReleaseMutation, CallCore, Unlease,
      managerVars, runtimeVars, exitVars
<1>15. CASE UNCHANGED vars
  BY <1>1, <1>15, Zenon DEF vars, managerVars, runtimeVars, exitVars
<1> QED
  BY <1>3, <1>4, <1>5, <1>6, <1>7, <1>8, <1>9, <1>10, <1>11, <1>12, <1>13, <1>14, <1>15, Zenon
  DEF Next, StartStep, StopStep, TermStep, MonitorStep, MutationStep

\* The hashes and the call still to be committed together say what runs.
LEMMA HashNext ==
    ASSUME LifecycleInv, MutationInv, [Next]_vars
    PROVE  HashInv'
<1> USE DEF LifecycleInv, TypeOK, MutationInv
<1>1. ASSUME UNCHANGED <<runtimeEpoch, hashes, core, diverged, mutCall>>,
             \A p : Calling(p)' = Calling(p)
      PROVE  HashInv'
  BY <1>1, Zenon DEF HashInv
<1>2. ASSUME \/ runtimeEpoch' = NoProc
             \/ UNCHANGED runtimeVars /\ \A p : Calling(p)' = Calling(p),
             UNCHANGED <<coreVars, mutCall>>
      PROVE  HashInv'
  BY <1>2, <1>1, Zenon DEF HashInv, runtimeVars, coreVars
<1>3. UNCHANGED <<mutPc, mutProcess>> => \A p : Calling(p)' = Calling(p)
  BY Zenon DEF Calling
<1>4. ASSUME NEW s \in Starters, StagePendingConfig(s) PROVE HashInv'
  BY <1>2, <1>3, <1>4, Zenon DEF StagePendingConfig
<1>5. ASSUME NEW s \in Starters, CompleteStart(s) \/ RestorePreviousStart(s) PROVE HashInv'
  <2>1. runtimeEpoch' = NoProc \/ UNCHANGED runtimeVars
    BY <1>5, Zenon DEF CompleteStart, RestorePreviousStart, ClearRuntime
  <2>2. UNCHANGED <<coreVars, mutPc, mutProcess, mutCall>>
    BY <1>5, Zenon DEF CompleteStart, RestorePreviousStart, mutVars
  <2> QED BY <1>2, <1>3, <2>1, <2>2, Zenon
<1>6. ASSUME NEW s \in Starters, ReturnStart(s) PROVE HashInv'
  <2>1. \A p : Calling(p)' = Calling(p)
    BY <1>6, Zenon DEF ReturnStart, AdmitReaders, Calling, TypeMutations
  <2> QED BY <1>2, <1>6, <2>1, Zenon DEF ReturnStart
<1>7. ASSUME NEW s \in Starters, CommitRunningStart(s) PROVE HashInv'
  <2>1. UNCHANGED <<coreVars, mutPc, mutProcess, mutCall, reserved>>
    BY <1>7, Zenon DEF CommitRunningStart, mutVars
  <2>2. CASE UNCHANGED runtimeVars BY <1>2, <1>3, <2>1, <2>2, Zenon
  <2>3. CASE /\ runtimeEpoch' = reserved[s]
             /\ hashes' = [base |-> request[s].config.base, listed |-> TRUE, users |-> request[s].config.users]
    <3>1. core[reserved[s]] = request[s].config
      BY <1>7, Zenon DEF CommitRunningStart, LaunchInv, Launch
    <3>2. Calling(reserved[s]) = {}
      BY <1>7, Zenon DEF CommitRunningStart, Calling, TokenInv, Token, HasIdentity, AfterSpawn
    <3>3. Calling(reserved[s])' = {} BY <2>1, <3>2, Zenon DEF Calling
    <3> QED BY <2>1, <2>3, <3>1, <3>3, Zenon DEF HashInv, coreVars
  <2> QED BY <1>7, <2>2, <2>3, Zenon DEF CommitRunningStart
<1>8. ASSUME NEW t \in Stoppers, FinishStop(t) PROVE HashInv'
  BY <1>2, <1>3, <1>8, Zenon DEF FinishStop, ClearRuntime, mutVars
<1>9. ASSUME NEW t \in Stoppers, ReturnStop(t) PROVE HashInv'
  <2>1. \A p : Calling(p)' = Calling(p)
    BY <1>9, Zenon DEF ReturnStop, AdmitReaders, Calling, TypeMutations
  <2> QED BY <1>2, <1>9, <2>1, Zenon DEF ReturnStop
<1>10. ASSUME NEW p \in Procs, PublishExit(p) PROVE HashInv'
  BY <1>2, <1>3, <1>10, Zenon DEF PublishExit, MonitorMoves, ClearRuntime, mutVars
<1>11. ASSUME NEW p \in Procs, LoadConfig(p) PROVE HashInv'
  <2>1. UNCHANGED <<runtimeEpoch, hashes, diverged, mutPc, mutProcess, mutCall>>
    BY <1>11, Zenon DEF LoadConfig, runtimeVars, mutVars
  <2>2. runtimeEpoch # NoProc => core'[runtimeEpoch] = core[runtimeEpoch]
    BY <1>11, ProcDomain, Zenon DEF LoadConfig, EpochInv, TypeRuntime, TypeProcesses
  <2>3. Calling(runtimeEpoch)' = Calling(runtimeEpoch) BY <2>1, Zenon DEF Calling
  <2> QED BY <2>1, <2>2, <2>3, Zenon DEF HashInv
<1>12. ASSUME NEW m \in Mutators, BeginMutation(m) \/ LockShared(m) \/ Validate(m) \/ ReleaseMutation(m)
       PROVE  HashInv'
  <2>1. UNCHANGED <<runtimeVars, coreVars, mutCall>>
    BY <1>12, Zenon DEF BeginMutation, LockShared, Validate, ReleaseMutation, Unlease
  <2>2. \A p : Calling(p)' = Calling(p)
    <3> USE DEF Calling, TypeMutations
    <3>1. CASE BeginMutation(m) BY <3>1, Zenon DEF BeginMutation
    <3>2. CASE LockShared(m) BY <3>2, Zenon DEF LockShared
    <3>3. CASE Validate(m) \/ ReleaseMutation(m) BY <3>3, Zenon DEF Validate, ReleaseMutation, Unlease
    <3> QED BY <1>12, <3>1, <3>2, <3>3, Zenon
  <2> QED BY <1>2, <2>1, <2>2, Zenon
<1>13. ASSUME NEW m \in Mutators, NEW c \in Calls, CallCore(m, c) PROVE HashInv'
  <2>1. UNCHANGED <<runtimeEpoch, hashes, mutProcess>> /\ mutPc[m] = "leased" /\ m \in UserMutators
    BY <1>13, Zenon DEF CallCore, runtimeVars
  <2>2. \A x \in Mutators : mutPc[x] # "called"
    BY <2>1, Zenon DEF HandlerInv
  <2>3. mutProcess[m] \in Procs BY <2>1, ProcDomain, Zenon DEF LeaseInv, TypeMutations
  <2>4. CASE diverged' = [diverged EXCEPT ![mutProcess[m]] = TRUE] /\ UNCHANGED <<mutPc, mutCall>>
    <3>1. CASE runtimeEpoch = mutProcess[m]
      BY <2>1, <2>3, <2>4, <3>1, Zenon DEF HashInv, TypeProcesses
    <3>2. CASE runtimeEpoch # mutProcess[m]
      <4>1. runtimeEpoch # NoProc => UNCHANGED <<core[runtimeEpoch], diverged[runtimeEpoch]>>
        BY <1>13, <2>1, <2>3, <2>4, <3>2, ProcDomain, Zenon DEF CallCore, TypeProcesses, TypeRuntime
      <4>2. Calling(runtimeEpoch)' = Calling(runtimeEpoch) BY <2>1, <2>4, Zenon DEF Calling
      <4> QED BY <2>1, <2>4, <4>1, <4>2, Zenon DEF HashInv
    <3> QED BY <3>1, <3>2, Zenon
  <2>5. CASE mutPc' = [mutPc EXCEPT ![m] = "called"] /\ mutCall' = [mutCall EXCEPT ![m] = c]
             /\ UNCHANGED diverged
    <3>1. CASE runtimeEpoch = mutProcess[m]
      <4>1. Calling(runtimeEpoch) = {} BY <2>2, Zenon DEF Calling
      <4>2. Calling(runtimeEpoch)' = {m}
        BY <2>1, <2>2, <2>5, <3>1, Zenon DEF Calling, TypeMutations
      <4>3. /\ core'[runtimeEpoch].base = core[runtimeEpoch].base
            /\ core'[runtimeEpoch].users = Applied(core[runtimeEpoch].users, c)
        BY <1>13, <2>3, <3>1, Zenon DEF CallCore, TypeProcesses
      <4>4. mutCall'[m] = c BY <2>5, Zenon DEF TypeMutations
      <4> QED BY <2>1, <2>5, <4>1, <4>2, <4>3, <4>4, Zenon DEF HashInv
    <3>2. CASE runtimeEpoch # mutProcess[m]
      <4>1. runtimeEpoch # NoProc => core'[runtimeEpoch] = core[runtimeEpoch]
        BY <1>13, <2>3, <3>2, ProcDomain, Zenon DEF CallCore, TypeProcesses, TypeRuntime
      <4>2. Calling(runtimeEpoch) = {} BY <2>2, Zenon DEF Calling
      <4>3. Calling(runtimeEpoch)' = {}
        BY <2>1, <2>2, <2>5, <3>2, Zenon DEF Calling, TypeMutations
      <4> QED BY <2>1, <2>5, <4>1, <4>2, <4>3, Zenon DEF HashInv
    <3> QED BY <3>1, <3>2, Zenon
  <2> QED BY <1>13, <2>4, <2>5, Zenon DEF CallCore
<1>14. ASSUME NEW m \in Mutators, CommitCall(m) PROVE HashInv'
  <2>1. /\ UNCHANGED <<runtimeEpoch, core, diverged, mutProcess>> /\ mutPc[m] = "called"
        /\ mutPc' = [mutPc EXCEPT ![m] = "leased"]
    BY <1>14, Zenon DEF CommitCall, coreVars
  <2>2. \A x \in Mutators : mutPc[x] = "called" => x = m
    BY <2>1, Zenon DEF HandlerInv
  <2>3. \A p : Calling(p)' = {}
    BY <2>1, <2>2, Zenon DEF Calling, TypeMutations
  <2>4. CASE runtimeEpoch = mutProcess[m]
    <3>1. m \in Calling(runtimeEpoch) BY <2>1, <2>4, Zenon DEF Calling
    <3>2. runtimeEpoch # NoProc => hashes' = HashesAfter(mutCall[m])
      BY <1>14, <2>4, Zenon DEF CommitCall, EpochInv
    <3>3. runtimeEpoch # NoProc =>
            hashes'.base = hashes.base /\ hashes'.users = Applied(hashes.users, mutCall[m])
      BY <3>2, Zenon DEF HashesAfter, TypeRuntime, Hashes
    <3> QED BY <2>1, <2>3, <3>1, <3>3, Zenon DEF HashInv
  <2>5. CASE runtimeEpoch # mutProcess[m]
    <3>1. hashes' = hashes BY <1>14, <2>5, Zenon DEF CommitCall
    <3>2. Calling(runtimeEpoch) = {} BY <2>2, <2>5, Zenon DEF Calling
    <3> QED BY <2>1, <2>3, <3>1, <3>2, Zenon DEF HashInv
  <2> QED BY <2>4, <2>5, Zenon
<1>15. ASSUME NEW s \in Starters,
              \/ (\E r \in PanelRequests : BeginStart(s, r)) \/ CancelRequest(s) \/ ReadPrevious(s)
              \/ LockPreviousGate(s) \/ ConsiderUnchanged(s) \/ ProbePrevious(s)
              \/ CompleteUnchanged(s) \/ ReserveProcessIdentity(s) \/ Prepare(s) \/ Terminated(s)
              \/ RunPreStart(s) \/ StartProcess(s) \/ AssignProcess(s) \/ RetainUncleanProcess(s)
              \/ AwaitReady(s) \/ StartFails(s) \/ ProbeVersion(s)
       PROVE  HashInv'
  <2>1. UNCHANGED <<runtimeVars, coreVars, mutVars>>
    BY <1>15, Zenon
    DEF BeginStart, CancelRequest, ReadPrevious, LockPreviousGate, ConsiderUnchanged, ProbePrevious,
        CompleteUnchanged, ReserveProcessIdentity, Prepare, Terminated, RunPreStart, StartProcess,
        AssignProcess, RetainUncleanProcess, AwaitReady, StartFails, ProbeVersion, StartMoves
  <2> QED BY <1>2, <1>3, <2>1, Zenon DEF mutVars
<1>16. ASSUME NEW t \in Stoppers,
              \/ JoinStop(t) \/ StopStarting(t) \/ StopSettled(t) \/ CancelStart(t)
              \/ LockLifecycle(t) \/ ReadProcess(t) \/ LockGate(t) \/ RetryFinalize(t)
              \/ StopCloseDone(t) \/ StopTerminates(t) \/ StopTerminated(t) \/ JudgeStop(t)
       PROVE  HashInv'
  <2>1. UNCHANGED <<runtimeVars, coreVars, mutVars>>
    BY <1>16, Zenon
    DEF JoinStop, StopStarting, StopSettled, CancelStart, LockLifecycle, ReadProcess, LockGate,
        RetryFinalize, StopCloseDone, StopTerminates, StopTerminated, JudgeStop
  <2> QED BY <1>2, <1>3, <2>1, Zenon DEF mutVars
<1>17. ASSUME \/ TermStep
              \/ \E p \in Procs : CoreExits(p) \/ ObservationFails(p) \/ MarkLeaderWait(p)
                     \/ FinalizeExited(p) \/ CloseDone(p) \/ CloseMonitor(p) \/ ReadOutcome(p)
       PROVE  HashInv'
  <2>1. UNCHANGED <<runtimeVars, coreVars, mutVars>>
    BY <1>17, Zenon
    DEF TermStep, TermEnter, Interrupt, Kill, AttemptEnds, AttemptTimesOut, CoreExits,
        ObservationFails, MarkLeaderWait, FinalizeExited, CloseDone, CloseMonitor, ReadOutcome,
        TermMoves, MonitorMoves
  <2> QED BY <1>2, <1>3, <2>1, Zenon DEF mutVars
<1>18. CASE UNCHANGED vars
  BY <1>2, <1>3, <1>18, Zenon DEF vars, mutVars
<1> QED
  BY <1>4, <1>5, <1>6, <1>7, <1>8, <1>9, <1>10, <1>11, <1>12, <1>13, <1>14, <1>15, <1>16, <1>17,
     <1>18, Zenon
  DEF Next, StartStep, StopStep, MonitorStep, MutationStep
\* The invariant of the mutations holds initially.
LEMMA MutationInit == Init => MutationInv
<1> SUFFICES ASSUME Init PROVE MutationInv
  OBVIOUS
<1>1. ExclusiveInv
  BY Zenon DEF Init, ExclusiveInv, HoldsPrevious, HoldsStopped
<1>2. TokenInv /\ HandlerInv
  BY CallersAssumption, Zenon DEF Init, TokenInv, Token, HandlerInv
<1>3. LaunchInv BY Zenon DEF Init, LaunchInv, Launch
<1>4. EpochInv /\ HashInv BY Zenon DEF Init, EpochInv, HashInv
<1> QED BY <1>1, <1>2, <1>3, <1>4, Zenon DEF MutationInv

\* The gates, the tokens and the hashes are as the code's comments say, in every
\* reachable state.
THEOREM MutationInvariant == Spec => [](LifecycleInv /\ MutationInv)
<1>1. LifecycleInv /\ MutationInv /\ [Next]_vars => MutationInv'
  BY ExclusiveNext, TokenNext, HandlerNext, LaunchNext, EpochNext, HashNext, Zenon DEF MutationInv
<1> QED BY <1>1, MutationInit, InvInit, InvNext, PTL DEF Spec

\* A mutation lease pins its process: nobody terminates it, and Manager keeps it
\* until it is finalized, for any number of callers.
THEOREM LeaseIsPinned == Spec => []LeasePinsProcess
<1>1. LifecycleInv /\ MutationInv => LeasePinsProcess
  BY LeaseFollows, Zenon DEF MutationInv
<1> QED BY <1>1, MutationInvariant, PTL

\* With the gate held by a Start, no call on the process is half recorded.
LEMMA KeptCore ==
    ASSUME LifecycleInv, MutationInv, NEW s \in Starters, startPc[s] = "unchanged"
    PROVE  diverged[process] \/ core[process] = request[s].config
<1> USE DEF LifecycleInv, TypeOK, MutationInv
<1>1. previous[s] = "running" /\ previousProcess[s] # NoProc
      /\ hashes.base = request[s].config.base /\ hashes.users = request[s].config.users
  BY Zenon DEF LaunchInv, Launch
<1>2. process = previousProcess[s] /\ runtimeEpoch = process /\ process # NoProc
  BY <1>1, Zenon DEF StartInv, StartKnows, HasPrevious, RuntimeLive
<1>3. process \in Procs BY <1>2, ProcDomain, Zenon DEF TypeManager
<1>4. Calling(process) = {}
  BY <1>1, <1>2, <1>3, CallersAssumption DEF ExclusiveInv, HoldsPrevious, Readers, Calling
<1>5. CASE ~diverged[process]
  <2>1. core[process].base = request[s].config.base /\ core[process].users = request[s].config.users
    BY <1>1, <1>2, <1>4, <1>5, Zenon DEF HashInv
  <2>2. core[process] \in Configs /\ request[s].config \in Configs
    BY <1>3, Zenon DEF TypeProcesses, TypeStart, Requests
  <2> QED BY <2>1, <2>2 DEF Configs
<1> QED BY <1>5, Zenon

\* The recorded hashes describe the running core, and a Start that keeps the core
\* because of them keeps one that runs what it was asked for.
THEOREM HashesAreTrue == Spec => HashesTrackCore
<1>1. LifecycleInv /\ MutationInv => HashesDescribeCore
  <2> SUFFICES ASSUME LifecycleInv, MutationInv, NEW p \in Procs,
                      state = "running", process = p, ~diverged[p],
                      \A m \in Mutators : ~(mutPc[m] = "called" /\ mutProcess[m] = p)
               PROVE  core[p] = [base |-> hashes.base, users |-> hashes.users]
    BY Zenon DEF HashesDescribeCore
  <2>1. runtimeEpoch = p /\ p # NoProc BY Zenon DEF LifecycleInv, SettledInv, RuntimeLive
  <2>2. Calling(p) = {} BY Zenon DEF Calling
  <2>3. core[p].base = hashes.base /\ core[p].users = hashes.users
    BY <2>1, <2>2, Zenon DEF MutationInv, HashInv
  <2>4. core[p] \in Configs BY Zenon DEF LifecycleInv, TypeOK, TypeProcesses
  <2> QED BY <2>3, <2>4, Zenon DEF Configs
<1>2. LifecycleInv /\ MutationInv /\ [Next]_vars =>
        [\A s \in Starters : (startPc[s] = "unchanged" /\ state' = "running")
                             => diverged[process] \/ core[process] = request[s].config]_vars
  BY KeptCore, Zenon
<1> QED BY <1>1, <1>2, MutationInvariant, PTL DEF Spec, HashesTrackCore, UnchangedIsUnchanged
=============================================================================
