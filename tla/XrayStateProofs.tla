-------------------------- MODULE XrayStateProofs ---------------------------
(***************************************************************************)
(* Type correctness of XrayLifecycle, one group of variables at a time,    *)
(* and the parts of its inductive invariant about the shared state: who    *)
(* holds lifecycleMu, what the published states promise, and the order of  *)
(* a process's life. Each lemma has one step for the actions that leave    *)
(* its variables alone and one for every other action.                     *)
(***************************************************************************)
EXTENDS XrayLifecycle, TLAPS

(* Types *)

\* The empty values, and what a commit makes of a configuration, are well typed.
LEMMA NoValues ==
    /\ NoConfig \in Configs /\ NoHashes \in Hashes /\ NoRequest \in Requests
    /\ \A r \in Requests : r.config \in Configs
    /\ \A c \in Configs : [base |-> c.base, listed |-> TRUE, users |-> c.users] \in Hashes
    /\ PanelRequests \subseteq Requests
BY Zenon DEF NoConfig, Configs, NoHashes, Hashes, NoRequest, Requests, PanelRequests

\* Manager's fields keep their types.
LEMMA TypeManagerNext ==
    ASSUME TypeManager, TypeRuntime, TypeProcesses, TypeStart, TypeStop, TypeMutations, [Next]_vars
    PROVE  TypeManager'
<1>1. UNCHANGED <<state, operationEpoch, nextProcessEpoch, startCancel, stopOp, process, lifecycleMu>> => TypeManager'
  BY Zenon DEF TypeManager
<1>2. ASSUME NEW s \in Starters, NEW r \in PanelRequests, BeginStart(s, r) PROVE TypeManager'
  BY <1>2, BoundsAssumption
  DEF BeginStart, StartAdmitted, Goto, TypeManager, TypeProcesses, TypeStart, TypeStop, Procs,
      ProcIds, NoProc, Callers, runtimeVars, exitVars, coreVars, stopVars, mutVars
<1>3. ASSUME NEW s \in Starters, CompleteUnchanged(s) PROVE TypeManager'
  BY <1>3, BoundsAssumption, Zenon
  DEF CompleteUnchanged, Goto, TypeManager, TypeProcesses, TypeStart, TypeStop, Procs, ProcIds,
      NoProc, Callers, runtimeVars, exitVars, coreVars, stopVars, mutVars
<1>4. ASSUME NEW s \in Starters, ReserveProcessIdentity(s) PROVE TypeManager'
  BY <1>4, BoundsAssumption
  DEF ReserveProcessIdentity, Goto, TypeManager, TypeProcesses, TypeStart, TypeStop, Procs, ProcIds,
      NoProc, Callers, runtimeVars, exitVars, coreVars, stopVars, mutVars
<1>5. ASSUME NEW s \in Starters, StagePendingConfig(s) PROVE TypeManager'
  BY <1>5, BoundsAssumption
  DEF StagePendingConfig, Goto, AdmitReaders, TypeManager, TypeProcesses, TypeStart, TypeStop,
      Procs, ProcIds, NoProc, Callers, runtimeVars, exitVars, coreVars, stopVars
<1>6. ASSUME NEW s \in Starters, AssignProcess(s) PROVE TypeManager'
  BY <1>6, BoundsAssumption
  DEF AssignProcess, Goto, TypeManager, TypeProcesses, TypeStart, TypeStop, Procs, ProcIds, NoProc,
      Callers, runtimeVars, exitVars, coreVars, stopVars, mutVars
<1>7. ASSUME NEW s \in Starters, RetainUncleanProcess(s) PROVE TypeManager'
  BY <1>7, BoundsAssumption, Zenon
  DEF RetainUncleanProcess, Goto, TypeManager, TypeProcesses, TypeStart, TypeStop, Procs, ProcIds,
      NoProc, Callers, runtimeVars, exitVars, coreVars, stopVars, mutVars
<1>8. ASSUME NEW s \in Starters, CommitRunningStart(s) PROVE TypeManager'
  BY <1>8, BoundsAssumption, Zenon
  DEF CommitRunningStart, Goto, TypeManager, TypeProcesses, TypeStart, TypeStop, Procs, ProcIds,
      NoProc, Callers, runtimeVars, exitVars, coreVars, stopVars, mutVars
<1>9. ASSUME NEW s \in Starters, CompleteStart(s) PROVE TypeManager'
  BY <1>9, BoundsAssumption
  DEF CompleteStart, Goto, ClearRuntime, TypeManager, TypeProcesses, TypeStart, TypeStop, Procs,
      ProcIds, NoProc, Callers, runtimeVars, exitVars, coreVars, stopVars, mutVars
<1>10. ASSUME NEW s \in Starters, RestorePreviousStart(s) PROVE TypeManager'
  BY <1>10, BoundsAssumption
  DEF RestorePreviousStart, Goto, ClearRuntime, TypeManager, TypeProcesses, TypeStart, TypeStop,
      Procs, ProcIds, NoProc, Callers, runtimeVars, exitVars, coreVars, stopVars, mutVars
<1>11. ASSUME NEW t \in Stoppers, StopStarting(t) PROVE TypeManager'
  BY <1>11, BoundsAssumption
  DEF StopStarting, StopGoto, TypeManager, TypeProcesses, TypeStart, TypeStop, Procs, ProcIds,
      NoProc, Callers, runtimeVars, exitVars, coreVars, startVars, mutVars
<1>12. ASSUME NEW t \in Stoppers, StopSettled(t) PROVE TypeManager'
  BY <1>12, BoundsAssumption
  DEF StopSettled, StopGoto, TypeManager, TypeProcesses, TypeStart, TypeStop, Procs, ProcIds,
      NoProc, Callers, runtimeVars, exitVars, coreVars, startVars, mutVars
<1>13. ASSUME NEW t \in Stoppers, LockLifecycle(t) PROVE TypeManager'
  BY <1>13, BoundsAssumption, Zenon
  DEF LockLifecycle, StopGoto, TypeManager, TypeProcesses, TypeStart, TypeStop, Procs, ProcIds,
      NoProc, Callers, runtimeVars, exitVars, coreVars, startVars, mutVars
<1>14. ASSUME NEW t \in Stoppers, FinishStop(t) PROVE TypeManager'
  BY <1>14, BoundsAssumption
  DEF FinishStop, WakeJoiners, ClearRuntime, TypeManager, TypeProcesses, TypeStart, TypeStop, Procs,
      ProcIds, NoProc, Callers, runtimeVars, exitVars, coreVars, startVars, mutVars
<1>15. ASSUME NEW p \in Procs, PublishExit(p) PROVE TypeManager'
  BY <1>15, BoundsAssumption
  DEF PublishExit, ExitIsNews, MonitorMoves, ClearRuntime, TypeManager, TypeProcesses, TypeStart,
      TypeStop, Procs, ProcIds, NoProc, Callers, runtimeVars, coreVars, startVars, stopVars, mutVars
<1>16. ASSUME NEW s \in Starters,
           CancelRequest(s) \/ ReadPrevious(s) \/ LockPreviousGate(s) \/ ConsiderUnchanged(s)
             \/ ProbePrevious(s) \/ Prepare(s) \/ Terminated(s) \/ RunPreStart(s)
             \/ StartProcess(s) \/ AwaitReady(s) \/ StartFails(s) \/ ProbeVersion(s)
             \/ ReturnStart(s)
     PROVE  TypeManager'
  BY <1>1, <1>16, Zenon
  DEF CancelRequest, ReadPrevious, LockPreviousGate, ConsiderUnchanged, ProbePrevious, Prepare,
      Terminated, RunPreStart, StartProcess, AwaitReady, StartFails, ProbeVersion, ReturnStart,
      Goto, StartMoves, AdmitReaders, managerVars, runtimeVars, exitVars, coreVars, startVars,
      stopVars, mutVars
<1>17. ASSUME NEW t \in Stoppers,
           JoinStop(t) \/ CancelStart(t) \/ ReadProcess(t) \/ LockGate(t)
             \/ RetryFinalize(t) \/ StopCloseDone(t) \/ StopTerminates(t) \/ StopTerminated(t)
             \/ JudgeStop(t) \/ ReturnStop(t)
     PROVE  TypeManager'
  BY <1>1, <1>17, Zenon
  DEF JoinStop, CancelStart, ReadProcess, LockGate, RetryFinalize, StopCloseDone, StopTerminates,
      StopTerminated, JudgeStop, ReturnStop, StopGoto, AdmitReaders, managerVars, runtimeVars,
      exitVars, coreVars, startVars, stopVars, mutVars
<1>18. ASSUME NEW p \in ProcIds,
           TermEnter(p)
     PROVE  TypeManager'
  BY <1>1, <1>18, Zenon
  DEF TermEnter, TermMoves, managerVars, runtimeVars, exitVars, coreVars, startVars, stopVars,
      mutVars
<1>19. ASSUME NEW p \in Procs,
           Interrupt(p) \/ Kill(p) \/ AttemptEnds(p) \/ AttemptTimesOut(p)
             \/ LoadConfig(p) \/ CoreExits(p) \/ ObservationFails(p) \/ MarkLeaderWait(p)
             \/ FinalizeExited(p) \/ CloseDone(p) \/ CloseMonitor(p) \/ ReadOutcome(p)
     PROVE  TypeManager'
  BY <1>1, <1>19, Zenon
  DEF Interrupt, Kill, AttemptEnds, AttemptTimesOut, LoadConfig, CoreExits, ObservationFails,
      MarkLeaderWait, FinalizeExited, CloseDone, CloseMonitor, ReadOutcome, TermMoves, MonitorMoves,
      managerVars, runtimeVars, exitVars, coreVars, startVars, stopVars, mutVars
<1>20. ASSUME NEW m \in Mutators,
           BeginMutation(m) \/ LockShared(m) \/ Validate(m) \/ CommitCall(m)
             \/ ReleaseMutation(m)
     PROVE  TypeManager'
  BY <1>1, <1>20, Zenon
  DEF BeginMutation, LockShared, Validate, CommitCall, ReleaseMutation, Unlease, HashesAfter,
      Applied, managerVars, runtimeVars, exitVars, coreVars, startVars, stopVars, mutVars
<1>21. ASSUME NEW m \in Mutators, NEW c \in Calls,
           CallCore(m, c)
     PROVE  TypeManager'
  BY <1>1, <1>21, Zenon
  DEF CallCore, Applied, managerVars, runtimeVars, exitVars, coreVars, startVars, stopVars, mutVars
<1>22. CASE UNCHANGED vars
  BY <1>1, <1>22, Zenon DEF vars, managerVars, runtimeVars, exitVars, coreVars, startVars, stopVars, mutVars
<1> QED
  BY <1>1, <1>2, <1>3, <1>4, <1>5, <1>6, <1>7, <1>8, <1>9, <1>10, <1>11, <1>12, <1>13, <1>14, <1>15, <1>16, <1>17, <1>18, <1>19, <1>20, <1>21, <1>22, Zenon
  DEF Next, StartStep, StopStep, TermStep, MonitorStep, MutationStep

\* The runtime state keeps its type: what clearRuntime, a commit or a user
\* operation stores is a configuration or a hash state.
LEMMA TypeRuntimeNext ==
    ASSUME TypeManager, TypeRuntime, TypeProcesses, TypeStart, TypeStop, TypeMutations, [Next]_vars
    PROVE  TypeRuntime'
<1>1. UNCHANGED <<pendingConfig, runtimeEpoch, hashes>> => TypeRuntime'
  BY Zenon DEF TypeRuntime
<1>2. ASSUME NEW s \in Starters, StagePendingConfig(s) PROVE TypeRuntime'
  BY <1>2, NoValues, BoundsAssumption
  DEF StagePendingConfig, Goto, AdmitReaders, TypeRuntime, TypeStart, ProcIds, NoProc, Requests,
      runtimeVars, exitVars, coreVars, stopVars
<1>3. ASSUME NEW s \in Starters, CommitRunningStart(s) PROVE TypeRuntime'
  BY <1>3, NoValues, BoundsAssumption
  DEF CommitRunningStart, Goto, TypeRuntime, TypeStart, ProcIds, NoProc, Requests, runtimeVars,
      exitVars, coreVars, stopVars, mutVars
<1>4. ASSUME NEW s \in Starters, CompleteStart(s) PROVE TypeRuntime'
  BY <1>4, NoValues, BoundsAssumption
  DEF CompleteStart, Goto, ClearRuntime, TypeRuntime, TypeStart, ProcIds, NoProc, Requests,
      runtimeVars, exitVars, coreVars, stopVars, mutVars
<1>5. ASSUME NEW s \in Starters, RestorePreviousStart(s) PROVE TypeRuntime'
  BY <1>5, NoValues, BoundsAssumption
  DEF RestorePreviousStart, Goto, ClearRuntime, TypeRuntime, TypeStart, ProcIds, NoProc, Requests,
      runtimeVars, exitVars, coreVars, stopVars, mutVars
<1>6. ASSUME NEW t \in Stoppers, FinishStop(t) PROVE TypeRuntime'
  BY <1>6, NoValues, BoundsAssumption
  DEF FinishStop, WakeJoiners, ClearRuntime, TypeRuntime, TypeStart, ProcIds, NoProc, Requests,
      runtimeVars, exitVars, coreVars, startVars, mutVars
<1>7. ASSUME NEW p \in Procs, PublishExit(p) PROVE TypeRuntime'
  BY <1>7, NoValues, BoundsAssumption
  DEF PublishExit, ExitIsNews, MonitorMoves, ClearRuntime, TypeRuntime, TypeStart, ProcIds, NoProc,
      Requests, runtimeVars, coreVars, startVars, stopVars, mutVars
<1>8. ASSUME NEW m \in Mutators, CommitCall(m) PROVE TypeRuntime'
  <2>1. CASE hashes' = hashes
    BY <1>8, <2>1, Zenon DEF CommitCall, HashesAfter, TypeRuntime
  <2>2. CASE hashes' # hashes
    <3>1. Applied(hashes.users, mutCall[m]) \subseteq Users
      <4>1. mutCall[m] \in Calls \cup {NoCall} BY Zenon DEF TypeMutations
      <4>2. hashes.users \subseteq Users BY Zenon DEF TypeRuntime, Hashes
      <4> QED BY <4>1, <4>2 DEF Applied, Calls, NoCall
    <3>2. hashes' = [hashes EXCEPT !.users = Applied(hashes.users, mutCall[m]),
                                   !.listed = mutCall[m].op = "add" \/ (@ /\ Applied(hashes.users, mutCall[m]) # {})]
      BY <1>8, <2>2, Zenon DEF CommitCall, HashesAfter
    <3> QED BY <1>8, <3>1, <3>2, Zenon DEF CommitCall, HashesAfter, TypeRuntime, Hashes
  <2> QED BY <2>1, <2>2, Zenon
<1>9. ASSUME NEW s \in Starters, NEW r \in PanelRequests,
           BeginStart(s, r)
     PROVE  TypeRuntime'
  BY <1>1, <1>9, Zenon
  DEF BeginStart, StartAdmitted, Goto, managerVars, runtimeVars, exitVars, coreVars, startVars,
      stopVars, mutVars
<1>10. ASSUME NEW s \in Starters,
           CancelRequest(s) \/ ReadPrevious(s) \/ LockPreviousGate(s) \/ ConsiderUnchanged(s)
             \/ ProbePrevious(s) \/ CompleteUnchanged(s) \/ ReserveProcessIdentity(s) \/ Prepare(s)
             \/ Terminated(s) \/ RunPreStart(s) \/ StartProcess(s) \/ AssignProcess(s)
             \/ RetainUncleanProcess(s) \/ AwaitReady(s) \/ StartFails(s) \/ ProbeVersion(s)
             \/ ReturnStart(s)
     PROVE  TypeRuntime'
  BY <1>1, <1>10, Zenon
  DEF CancelRequest, ReadPrevious, LockPreviousGate, ConsiderUnchanged, ProbePrevious,
      CompleteUnchanged, ReserveProcessIdentity, Prepare, Terminated, RunPreStart, StartProcess,
      AssignProcess, RetainUncleanProcess, AwaitReady, StartFails, ProbeVersion, ReturnStart, Goto,
      StartMoves, AdmitReaders, managerVars, runtimeVars, exitVars, coreVars, startVars, stopVars,
      mutVars
<1>11. ASSUME NEW t \in Stoppers,
           JoinStop(t) \/ StopStarting(t) \/ StopSettled(t) \/ CancelStart(t)
             \/ LockLifecycle(t) \/ ReadProcess(t) \/ LockGate(t) \/ RetryFinalize(t)
             \/ StopCloseDone(t) \/ StopTerminates(t) \/ StopTerminated(t) \/ JudgeStop(t)
             \/ ReturnStop(t)
     PROVE  TypeRuntime'
  BY <1>1, <1>11, Zenon
  DEF JoinStop, StopStarting, StopSettled, CancelStart, LockLifecycle, ReadProcess, LockGate,
      RetryFinalize, StopCloseDone, StopTerminates, StopTerminated, JudgeStop, ReturnStop, StopGoto,
      AdmitReaders, managerVars, runtimeVars, exitVars, coreVars, startVars, stopVars, mutVars
<1>12. ASSUME NEW p \in ProcIds,
           TermEnter(p)
     PROVE  TypeRuntime'
  BY <1>1, <1>12, Zenon
  DEF TermEnter, TermMoves, managerVars, runtimeVars, exitVars, coreVars, startVars, stopVars,
      mutVars
<1>13. ASSUME NEW p \in Procs,
           Interrupt(p) \/ Kill(p) \/ AttemptEnds(p) \/ AttemptTimesOut(p)
             \/ LoadConfig(p) \/ CoreExits(p) \/ ObservationFails(p) \/ MarkLeaderWait(p)
             \/ FinalizeExited(p) \/ CloseDone(p) \/ CloseMonitor(p) \/ ReadOutcome(p)
     PROVE  TypeRuntime'
  BY <1>1, <1>13, Zenon
  DEF Interrupt, Kill, AttemptEnds, AttemptTimesOut, LoadConfig, CoreExits, ObservationFails,
      MarkLeaderWait, FinalizeExited, CloseDone, CloseMonitor, ReadOutcome, TermMoves, MonitorMoves,
      managerVars, runtimeVars, exitVars, coreVars, startVars, stopVars, mutVars
<1>14. ASSUME NEW m \in Mutators,
           BeginMutation(m) \/ LockShared(m) \/ Validate(m) \/ ReleaseMutation(m)
     PROVE  TypeRuntime'
  BY <1>1, <1>14, Zenon
  DEF BeginMutation, LockShared, Validate, ReleaseMutation, Unlease, managerVars, runtimeVars,
      exitVars, coreVars, startVars, stopVars, mutVars
<1>15. ASSUME NEW m \in Mutators, NEW c \in Calls,
           CallCore(m, c)
     PROVE  TypeRuntime'
  BY <1>1, <1>15, Zenon
  DEF CallCore, Applied, managerVars, runtimeVars, exitVars, coreVars, startVars, stopVars, mutVars
<1>16. CASE UNCHANGED vars
  BY <1>1, <1>16, Zenon DEF vars, managerVars, runtimeVars, exitVars, coreVars, startVars, stopVars, mutVars
<1> QED
  BY <1>1, <1>2, <1>3, <1>4, <1>5, <1>6, <1>7, <1>8, <1>9, <1>10, <1>11, <1>12, <1>13, <1>14, <1>15, <1>16, Zenon
  DEF Next, StartStep, StopStep, TermStep, MonitorStep, MutationStep

\* The processes' exit state, gates and users keep their types.
LEMMA TypeProcessesNext ==
    ASSUME TypeManager, TypeRuntime, TypeProcesses, TypeStart, TypeStop, TypeMutations, [Next]_vars
    PROVE  TypeProcesses'
<1>1. UNCHANGED <<os, leader, cleanupErr, finalized, done, monitor, mutationGate, core, diverged>> => TypeProcesses'
  BY Zenon DEF TypeProcesses
<1>2. ASSUME NEW s \in Starters, LockPreviousGate(s) PROVE TypeProcesses'
  BY <1>2, BoundsAssumption, Zenon
  DEF LockPreviousGate, Goto, TypeProcesses, TypeStart, TypeStop, TypeMutations, TypeRuntime, Procs,
      ProcIds, Callers, Monitors, managerVars, runtimeVars, exitVars, coreVars, stopVars, mutVars
<1>3. ASSUME NEW s \in Starters, StagePendingConfig(s) PROVE TypeProcesses'
  BY <1>3, BoundsAssumption
  DEF StagePendingConfig, Goto, AdmitReaders, TypeProcesses, TypeStart, TypeStop, TypeMutations,
      TypeRuntime, Procs, ProcIds, Callers, Monitors, runtimeVars, exitVars, coreVars, stopVars
<1>4. ASSUME NEW s \in Starters, StartProcess(s) PROVE TypeProcesses'
  <2>1. UNCHANGED <<leader, cleanupErr, finalized, done, mutationGate, core, diverged>>
    BY <1>4, Zenon DEF StartProcess, coreVars
  <2>2. os' \in [Procs -> {"none", "boot", "up", "exited"}] /\ monitor' \in [Procs -> Monitors]
    BY <1>4, Zenon DEF StartProcess, TypeProcesses, Monitors
  <2> QED BY <2>1, <2>2, Zenon DEF TypeProcesses
<1>5. ASSUME NEW s \in Starters, ReturnStart(s) PROVE TypeProcesses'
  BY <1>5, BoundsAssumption, Zenon
  DEF ReturnStart, Goto, AdmitReaders, TypeProcesses, TypeStart, TypeStop, TypeMutations,
      TypeRuntime, Procs, ProcIds, Callers, Monitors, managerVars, runtimeVars, exitVars, coreVars,
      stopVars
<1>6. ASSUME NEW t \in Stoppers, LockGate(t) PROVE TypeProcesses'
  BY <1>6, BoundsAssumption, Zenon
  DEF LockGate, StopGoto, TypeProcesses, TypeStart, TypeStop, TypeMutations, TypeRuntime, Procs,
      ProcIds, Callers, Monitors, managerVars, runtimeVars, exitVars, coreVars, startVars, mutVars
<1>7. ASSUME NEW t \in Stoppers, RetryFinalize(t) PROVE TypeProcesses'
  BY <1>7, BoundsAssumption, ZenonT(60)
  DEF RetryFinalize, StopGoto, TypeProcesses, TypeStart, TypeStop, TypeMutations, TypeRuntime,
      Procs, ProcIds, Callers, Monitors, managerVars, runtimeVars, coreVars, startVars, mutVars
<1>8. ASSUME NEW t \in Stoppers, StopCloseDone(t) PROVE TypeProcesses'
  BY <1>8, BoundsAssumption, Zenon
  DEF StopCloseDone, StopGoto, TypeProcesses, TypeStart, TypeStop, TypeMutations, TypeRuntime,
      Procs, ProcIds, Callers, Monitors, managerVars, runtimeVars, coreVars, startVars, mutVars
<1>9. ASSUME NEW t \in Stoppers, ReturnStop(t) PROVE TypeProcesses'
  BY <1>9, BoundsAssumption, Zenon
  DEF ReturnStop, StopGoto, AdmitReaders, TypeProcesses, TypeStart, TypeStop, TypeMutations,
      TypeRuntime, Procs, ProcIds, Callers, Monitors, managerVars, runtimeVars, exitVars, coreVars,
      startVars
<1>10. ASSUME NEW p \in Procs, LoadConfig(p) PROVE TypeProcesses'
  BY <1>10, BoundsAssumption, Zenon
  DEF LoadConfig, TypeProcesses, TypeStart, TypeStop, TypeMutations, TypeRuntime, Procs, ProcIds,
      Callers, Monitors, managerVars, runtimeVars, startVars, stopVars, mutVars
<1>11. ASSUME NEW p \in Procs, CoreExits(p) PROVE TypeProcesses'
  BY <1>11, BoundsAssumption, Zenon
  DEF CoreExits, TypeProcesses, TypeStart, TypeStop, TypeMutations, TypeRuntime, Procs, ProcIds,
      Callers, Monitors, managerVars, runtimeVars, coreVars, startVars, stopVars, mutVars
<1>12. ASSUME NEW p \in Procs, ObservationFails(p) PROVE TypeProcesses'
  BY <1>12, BoundsAssumption, Zenon
  DEF ObservationFails, MonitorMoves, TypeProcesses, TypeStart, TypeStop, TypeMutations,
      TypeRuntime, Procs, ProcIds, Callers, Monitors, managerVars, runtimeVars, coreVars, startVars,
      stopVars, mutVars
<1>13. ASSUME NEW p \in Procs, MarkLeaderWait(p) PROVE TypeProcesses'
  BY <1>13, BoundsAssumption, Zenon
  DEF MarkLeaderWait, MonitorMoves, TypeProcesses, TypeStart, TypeStop, TypeMutations, TypeRuntime,
      Procs, ProcIds, Callers, Monitors, managerVars, runtimeVars, coreVars, startVars, stopVars,
      mutVars
<1>14. ASSUME NEW p \in Procs, FinalizeExited(p) PROVE TypeProcesses'
  BY <1>14, BoundsAssumption, ZenonT(60)
  DEF FinalizeExited, MonitorMoves, TypeProcesses, TypeStart, TypeStop, TypeMutations, TypeRuntime,
      Procs, ProcIds, Callers, Monitors, managerVars, runtimeVars, coreVars, startVars, stopVars,
      mutVars
<1>15. ASSUME NEW p \in Procs, CloseDone(p) PROVE TypeProcesses'
  BY <1>15, BoundsAssumption, Zenon
  DEF CloseDone, MonitorMoves, TypeProcesses, TypeStart, TypeStop, TypeMutations, TypeRuntime,
      Procs, ProcIds, Callers, Monitors, managerVars, runtimeVars, coreVars, startVars, stopVars,
      mutVars
<1>16. ASSUME NEW p \in Procs, CloseMonitor(p) PROVE TypeProcesses'
  BY <1>16, BoundsAssumption, Zenon
  DEF CloseMonitor, MonitorMoves, TypeProcesses, TypeStart, TypeStop, TypeMutations, TypeRuntime,
      Procs, ProcIds, Callers, Monitors, managerVars, runtimeVars, coreVars, startVars, stopVars,
      mutVars
<1>17. ASSUME NEW p \in Procs, ReadOutcome(p) PROVE TypeProcesses'
  BY <1>17, BoundsAssumption, Zenon
  DEF ReadOutcome, MonitorMoves, TypeProcesses, TypeStart, TypeStop, TypeMutations, TypeRuntime,
      Procs, ProcIds, Callers, Monitors, managerVars, runtimeVars, coreVars, startVars, stopVars,
      mutVars
<1>18. ASSUME NEW p \in Procs, PublishExit(p) PROVE TypeProcesses'
  BY <1>18, BoundsAssumption, Zenon
  DEF PublishExit, ExitIsNews, MonitorMoves, ClearRuntime, TypeProcesses, TypeStart, TypeStop,
      TypeMutations, TypeRuntime, Procs, ProcIds, Callers, Monitors, runtimeVars, coreVars,
      startVars, stopVars, mutVars
<1>19. ASSUME NEW m \in Mutators, NEW c \in Calls, CallCore(m, c) PROVE TypeProcesses'
  <2>1. UNCHANGED <<os, leader, cleanupErr, finalized, done, monitor, mutationGate>>
    BY <1>19, Zenon DEF CallCore, exitVars
  <2>2. diverged' \in [Procs -> BOOLEAN] BY <1>19, Zenon DEF CallCore, TypeProcesses
  <2>3. core' \in [Procs -> Configs]
    <3>1. \A x \in Configs : [base |-> x.base, users |-> Applied(x.users, c)] \in Configs
      BY Zenon DEF Configs, Applied, Calls
    <3> QED BY <1>19, <3>1, Zenon DEF CallCore, TypeProcesses
  <2> QED BY <2>1, <2>2, <2>3, Zenon DEF TypeProcesses
<1>20. ASSUME NEW s \in Starters, NEW r \in PanelRequests,
           BeginStart(s, r)
     PROVE  TypeProcesses'
  BY <1>1, <1>20, Zenon
  DEF BeginStart, StartAdmitted, Goto, managerVars, runtimeVars, exitVars, coreVars, startVars,
      stopVars, mutVars
<1>21. ASSUME NEW s \in Starters,
           CancelRequest(s) \/ ReadPrevious(s) \/ ConsiderUnchanged(s) \/ ProbePrevious(s)
             \/ CompleteUnchanged(s) \/ ReserveProcessIdentity(s) \/ Prepare(s) \/ Terminated(s)
             \/ RunPreStart(s) \/ AssignProcess(s) \/ RetainUncleanProcess(s) \/ AwaitReady(s)
             \/ StartFails(s) \/ ProbeVersion(s) \/ CommitRunningStart(s) \/ CompleteStart(s)
             \/ RestorePreviousStart(s)
     PROVE  TypeProcesses'
  BY <1>1, <1>21, ZenonT(60)
  DEF CancelRequest, ReadPrevious, ConsiderUnchanged, ProbePrevious, CompleteUnchanged,
      ReserveProcessIdentity, Prepare, Terminated, RunPreStart, AssignProcess, RetainUncleanProcess,
      AwaitReady, StartFails, ProbeVersion, CommitRunningStart, CompleteStart, RestorePreviousStart,
      Goto, StartMoves, ClearRuntime, managerVars, runtimeVars, exitVars, coreVars, startVars,
      stopVars, mutVars
<1>22. ASSUME NEW t \in Stoppers,
           JoinStop(t) \/ StopStarting(t) \/ StopSettled(t) \/ CancelStart(t)
             \/ LockLifecycle(t) \/ ReadProcess(t) \/ StopTerminates(t) \/ StopTerminated(t)
             \/ JudgeStop(t) \/ FinishStop(t)
     PROVE  TypeProcesses'
  BY <1>1, <1>22, Zenon
  DEF JoinStop, StopStarting, StopSettled, CancelStart, LockLifecycle, ReadProcess, StopTerminates,
      StopTerminated, JudgeStop, FinishStop, StopGoto, WakeJoiners, ClearRuntime, managerVars,
      runtimeVars, exitVars, coreVars, startVars, stopVars, mutVars
<1>23. ASSUME NEW p \in ProcIds,
           TermEnter(p)
     PROVE  TypeProcesses'
  BY <1>1, <1>23, Zenon
  DEF TermEnter, TermMoves, managerVars, runtimeVars, exitVars, coreVars, startVars, stopVars,
      mutVars
<1>24. ASSUME NEW p \in Procs,
           Interrupt(p) \/ Kill(p) \/ AttemptEnds(p) \/ AttemptTimesOut(p)
     PROVE  TypeProcesses'
  BY <1>1, <1>24, Zenon
  DEF Interrupt, Kill, AttemptEnds, AttemptTimesOut, TermMoves, managerVars, runtimeVars, exitVars,
      coreVars, startVars, stopVars, mutVars
<1>25. ASSUME NEW m \in Mutators,
           BeginMutation(m) \/ LockShared(m) \/ Validate(m) \/ CommitCall(m)
             \/ ReleaseMutation(m)
     PROVE  TypeProcesses'
  BY <1>1, <1>25, Zenon
  DEF BeginMutation, LockShared, Validate, CommitCall, ReleaseMutation, Unlease, HashesAfter,
      Applied, managerVars, runtimeVars, exitVars, coreVars, startVars, stopVars, mutVars
<1>26. CASE UNCHANGED vars
  BY <1>1, <1>26, Zenon DEF vars, managerVars, runtimeVars, exitVars, coreVars, startVars, stopVars, mutVars
<1> QED
  BY <1>1, <1>2, <1>3, <1>4, <1>5, <1>6, <1>7, <1>8, <1>9, <1>10, <1>11, <1>12, <1>13, <1>14, <1>15, <1>16, <1>17, <1>18, <1>19, <1>20, <1>21, <1>22, <1>23, <1>24, <1>25, <1>26, Zenon
  DEF Next, StartStep, StopStep, TermStep, MonitorStep, MutationStep

\* A Start's program counter and locals keep their types.
LEMMA TypeStartNext ==
    ASSUME TypeManager, TypeRuntime, TypeProcesses, TypeStart, TypeStop, TypeMutations, [Next]_vars
    PROVE  TypeStart'
<1>1. UNCHANGED <<startPc, startEpoch, previous, previousProcess, reserved, ctxDone, request>> => TypeStart'
  BY Zenon DEF TypeStart
<1>2. ASSUME NEW s \in Starters, NEW r \in PanelRequests, BeginStart(s, r) PROVE TypeStart'
  BY <1>2, NoValues, BoundsAssumption
  DEF BeginStart, StartAdmitted, Goto, TypeStart, TypeManager, ProcIds, NoProc, PanelRequests,
      StartPcs, BeforeSpawn, AfterSpawn, Completing, runtimeVars, exitVars, coreVars, stopVars,
      mutVars
<1>3. ASSUME NEW s \in Starters, CancelRequest(s) PROVE TypeStart'
  BY <1>3, NoValues, BoundsAssumption, Zenon
  DEF CancelRequest, TypeStart, TypeManager, ProcIds, NoProc, PanelRequests, StartPcs, BeforeSpawn,
      AfterSpawn, Completing, managerVars, runtimeVars, exitVars, coreVars, stopVars, mutVars
<1>4. ASSUME NEW s \in Starters, ReadPrevious(s) PROVE TypeStart'
  BY <1>4, NoValues, BoundsAssumption, Zenon
  DEF ReadPrevious, Goto, TypeStart, TypeManager, ProcIds, NoProc, PanelRequests, StartPcs,
      BeforeSpawn, AfterSpawn, Completing, managerVars, runtimeVars, exitVars, coreVars, stopVars,
      mutVars
<1>5. ASSUME NEW s \in Starters, LockPreviousGate(s) PROVE TypeStart'
  BY <1>5, NoValues, BoundsAssumption, Zenon
  DEF LockPreviousGate, Goto, TypeStart, TypeManager, ProcIds, NoProc, PanelRequests, StartPcs,
      BeforeSpawn, AfterSpawn, Completing, managerVars, runtimeVars, exitVars, coreVars, stopVars,
      mutVars
<1>6. ASSUME NEW s \in Starters, ConsiderUnchanged(s) PROVE TypeStart'
  BY <1>6, NoValues, BoundsAssumption, Zenon
  DEF ConsiderUnchanged, StartMoves, Goto, TypeStart, TypeManager, ProcIds, NoProc, PanelRequests,
      StartPcs, BeforeSpawn, AfterSpawn, Completing, managerVars, runtimeVars, exitVars, coreVars,
      stopVars, mutVars
<1>7. ASSUME NEW s \in Starters, ProbePrevious(s) PROVE TypeStart'
  BY <1>7, NoValues, BoundsAssumption, Zenon
  DEF ProbePrevious, StartMoves, Goto, TypeStart, TypeManager, ProcIds, NoProc, PanelRequests,
      StartPcs, BeforeSpawn, AfterSpawn, Completing, managerVars, runtimeVars, exitVars, coreVars,
      stopVars, mutVars
<1>8. ASSUME NEW s \in Starters, CompleteUnchanged(s) PROVE TypeStart'
  BY <1>8, NoValues, BoundsAssumption, Zenon
  DEF CompleteUnchanged, Goto, TypeStart, TypeManager, ProcIds, NoProc, PanelRequests, StartPcs,
      BeforeSpawn, AfterSpawn, Completing, runtimeVars, exitVars, coreVars, stopVars, mutVars
<1>9. ASSUME NEW s \in Starters, ReserveProcessIdentity(s) PROVE TypeStart'
  BY <1>9, NoValues, BoundsAssumption
  DEF ReserveProcessIdentity, Goto, TypeStart, TypeManager, ProcIds, NoProc, PanelRequests,
      StartPcs, BeforeSpawn, AfterSpawn, Completing, runtimeVars, exitVars, coreVars, stopVars,
      mutVars
<1>10. ASSUME NEW s \in Starters, Prepare(s) PROVE TypeStart'
  BY <1>10, NoValues, BoundsAssumption, Zenon
  DEF Prepare, Goto, TypeStart, TypeManager, ProcIds, NoProc, PanelRequests, StartPcs, BeforeSpawn,
      AfterSpawn, Completing, managerVars, runtimeVars, exitVars, coreVars, stopVars, mutVars
<1>11. ASSUME NEW s \in Starters, Terminated(s) PROVE TypeStart'
  BY <1>11, NoValues, BoundsAssumption, Zenon
  DEF Terminated, Goto, TypeStart, TypeManager, ProcIds, NoProc, PanelRequests, StartPcs,
      BeforeSpawn, AfterSpawn, Completing, managerVars, runtimeVars, exitVars, coreVars, stopVars,
      mutVars
<1>12. ASSUME NEW s \in Starters, RunPreStart(s) PROVE TypeStart'
  BY <1>12, NoValues, BoundsAssumption, Zenon
  DEF RunPreStart, StartMoves, Goto, TypeStart, TypeManager, ProcIds, NoProc, PanelRequests,
      StartPcs, BeforeSpawn, AfterSpawn, Completing, managerVars, runtimeVars, exitVars, coreVars,
      stopVars, mutVars
<1>13. ASSUME NEW s \in Starters, StagePendingConfig(s) PROVE TypeStart'
  BY <1>13, NoValues, BoundsAssumption, Zenon
  DEF StagePendingConfig, Goto, AdmitReaders, TypeStart, TypeManager, ProcIds, NoProc,
      PanelRequests, StartPcs, BeforeSpawn, AfterSpawn, Completing, runtimeVars, exitVars, coreVars,
      stopVars
<1>14. ASSUME NEW s \in Starters, StartProcess(s) PROVE TypeStart'
  BY <1>14, NoValues, BoundsAssumption, Zenon
  DEF StartProcess, Goto, TypeStart, TypeManager, ProcIds, NoProc, PanelRequests, StartPcs,
      BeforeSpawn, AfterSpawn, Completing, managerVars, runtimeVars, coreVars, stopVars, mutVars
<1>15. ASSUME NEW s \in Starters, AssignProcess(s) PROVE TypeStart'
  BY <1>15, NoValues, BoundsAssumption, Zenon
  DEF AssignProcess, Goto, TypeStart, TypeManager, ProcIds, NoProc, PanelRequests, StartPcs,
      BeforeSpawn, AfterSpawn, Completing, runtimeVars, exitVars, coreVars, stopVars, mutVars
<1>16. ASSUME NEW s \in Starters, RetainUncleanProcess(s) PROVE TypeStart'
  BY <1>16, NoValues, BoundsAssumption, Zenon
  DEF RetainUncleanProcess, Goto, TypeStart, TypeManager, ProcIds, NoProc, PanelRequests, StartPcs,
      BeforeSpawn, AfterSpawn, Completing, runtimeVars, exitVars, coreVars, stopVars, mutVars
<1>17. ASSUME NEW s \in Starters, AwaitReady(s) PROVE TypeStart'
  BY <1>17, NoValues, BoundsAssumption, Zenon
  DEF AwaitReady, StartMoves, Goto, TypeStart, TypeManager, ProcIds, NoProc, PanelRequests,
      StartPcs, BeforeSpawn, AfterSpawn, Completing, managerVars, runtimeVars, exitVars, coreVars,
      stopVars, mutVars
<1>18. ASSUME NEW s \in Starters, StartFails(s) PROVE TypeStart'
  BY <1>18, NoValues, BoundsAssumption, Zenon
  DEF StartFails, Goto, TypeStart, TypeManager, ProcIds, NoProc, PanelRequests, StartPcs,
      BeforeSpawn, AfterSpawn, Completing, managerVars, runtimeVars, exitVars, coreVars, stopVars,
      mutVars
<1>19. ASSUME NEW s \in Starters, ProbeVersion(s) PROVE TypeStart'
  BY <1>19, NoValues, BoundsAssumption, Zenon
  DEF ProbeVersion, StartMoves, Goto, TypeStart, TypeManager, ProcIds, NoProc, PanelRequests,
      StartPcs, BeforeSpawn, AfterSpawn, Completing, managerVars, runtimeVars, exitVars, coreVars,
      stopVars, mutVars
<1>20. ASSUME NEW s \in Starters, CommitRunningStart(s) PROVE TypeStart'
  BY <1>20, NoValues, BoundsAssumption, Zenon
  DEF CommitRunningStart, Goto, TypeStart, TypeManager, ProcIds, NoProc, PanelRequests, StartPcs,
      BeforeSpawn, AfterSpawn, Completing, runtimeVars, exitVars, coreVars, stopVars, mutVars
<1>21. ASSUME NEW s \in Starters, CompleteStart(s) PROVE TypeStart'
  BY <1>21, NoValues, BoundsAssumption, Zenon
  DEF CompleteStart, Goto, ClearRuntime, TypeStart, TypeManager, ProcIds, NoProc, PanelRequests,
      StartPcs, BeforeSpawn, AfterSpawn, Completing, runtimeVars, exitVars, coreVars, stopVars,
      mutVars
<1>22. ASSUME NEW s \in Starters, RestorePreviousStart(s) PROVE TypeStart'
  BY <1>22, NoValues, BoundsAssumption, Zenon
  DEF RestorePreviousStart, Goto, ClearRuntime, TypeStart, TypeManager, ProcIds, NoProc,
      PanelRequests, StartPcs, BeforeSpawn, AfterSpawn, Completing, runtimeVars, exitVars, coreVars,
      stopVars, mutVars
<1>23. ASSUME NEW s \in Starters, ReturnStart(s) PROVE TypeStart'
  BY <1>23, NoValues, BoundsAssumption
  DEF ReturnStart, Goto, AdmitReaders, TypeStart, TypeManager, ProcIds, NoProc, PanelRequests,
      StartPcs, BeforeSpawn, AfterSpawn, Completing, managerVars, runtimeVars, exitVars, coreVars,
      stopVars
<1>24. ASSUME NEW t \in Stoppers, CancelStart(t) PROVE TypeStart'
  BY <1>24, NoValues, BoundsAssumption, Zenon
  DEF CancelStart, StopGoto, TypeStart, TypeManager, ProcIds, NoProc, PanelRequests, StartPcs,
      BeforeSpawn, AfterSpawn, Completing, managerVars, runtimeVars, exitVars, coreVars, mutVars
<1>25. ASSUME NEW t \in Stoppers,
           JoinStop(t) \/ StopStarting(t) \/ StopSettled(t) \/ LockLifecycle(t)
             \/ ReadProcess(t) \/ LockGate(t) \/ RetryFinalize(t) \/ StopCloseDone(t)
             \/ StopTerminates(t) \/ StopTerminated(t) \/ JudgeStop(t) \/ FinishStop(t)
             \/ ReturnStop(t)
     PROVE  TypeStart'
  BY <1>1, <1>25, Zenon
  DEF JoinStop, StopStarting, StopSettled, LockLifecycle, ReadProcess, LockGate, RetryFinalize,
      StopCloseDone, StopTerminates, StopTerminated, JudgeStop, FinishStop, ReturnStop, StopGoto,
      WakeJoiners, ClearRuntime, AdmitReaders, managerVars, runtimeVars, exitVars, coreVars,
      startVars, stopVars, mutVars
<1>26. ASSUME NEW p \in ProcIds,
           TermEnter(p)
     PROVE  TypeStart'
  BY <1>1, <1>26, Zenon
  DEF TermEnter, TermMoves, managerVars, runtimeVars, exitVars, coreVars, startVars, stopVars,
      mutVars
<1>27. ASSUME NEW p \in Procs,
           Interrupt(p) \/ Kill(p) \/ AttemptEnds(p) \/ AttemptTimesOut(p)
             \/ LoadConfig(p) \/ CoreExits(p) \/ ObservationFails(p) \/ MarkLeaderWait(p)
             \/ FinalizeExited(p) \/ CloseDone(p) \/ CloseMonitor(p) \/ ReadOutcome(p)
             \/ PublishExit(p)
     PROVE  TypeStart'
  BY <1>1, <1>27, Zenon
  DEF Interrupt, Kill, AttemptEnds, AttemptTimesOut, LoadConfig, CoreExits, ObservationFails,
      MarkLeaderWait, FinalizeExited, CloseDone, CloseMonitor, ReadOutcome, PublishExit, TermMoves,
      MonitorMoves, ExitIsNews, ClearRuntime, managerVars, runtimeVars, exitVars, coreVars,
      startVars, stopVars, mutVars
<1>28. ASSUME NEW m \in Mutators,
           BeginMutation(m) \/ LockShared(m) \/ Validate(m) \/ CommitCall(m)
             \/ ReleaseMutation(m)
     PROVE  TypeStart'
  BY <1>1, <1>28, Zenon
  DEF BeginMutation, LockShared, Validate, CommitCall, ReleaseMutation, Unlease, HashesAfter,
      Applied, managerVars, runtimeVars, exitVars, coreVars, startVars, stopVars, mutVars
<1>29. ASSUME NEW m \in Mutators, NEW c \in Calls,
           CallCore(m, c)
     PROVE  TypeStart'
  BY <1>1, <1>29, Zenon
  DEF CallCore, Applied, managerVars, runtimeVars, exitVars, coreVars, startVars, stopVars, mutVars
<1>30. CASE UNCHANGED vars
  BY <1>1, <1>30, Zenon DEF vars, managerVars, runtimeVars, exitVars, coreVars, startVars, stopVars, mutVars
<1> QED
  BY <1>1, <1>2, <1>3, <1>4, <1>5, <1>6, <1>7, <1>8, <1>9, <1>10, <1>11, <1>12, <1>13, <1>14, <1>15, <1>16, <1>17, <1>18, <1>19, <1>20, <1>21, <1>22, <1>23, <1>24, <1>25, <1>26, <1>27, <1>28, <1>29, <1>30, Zenon
  DEF Next, StartStep, StopStep, TermStep, MonitorStep, MutationStep

\* A Stop's program counter and locals, and the termination's, keep their types.
LEMMA TypeStopNext ==
    ASSUME TypeManager, TypeRuntime, TypeProcesses, TypeStart, TypeStop, TypeMutations, [Next]_vars
    PROVE  TypeStop'
<1>1. UNCHANGED <<stopPc, stopCancels, stopProcess, retryCleanup, term>> => TypeStop'
  BY Zenon DEF TypeStop
<1>2. ASSUME NEW s \in Starters, Prepare(s) PROVE TypeStop'
  BY <1>2, BoundsAssumption, Zenon
  DEF Prepare, Goto, TypeStop, TypeManager, StopPcs, ProcIds, NoProc, managerVars, runtimeVars,
      exitVars, coreVars, stopVars, mutVars
<1>3. ASSUME NEW s \in Starters, Terminated(s) PROVE TypeStop'
  BY <1>3, BoundsAssumption, Zenon
  DEF Terminated, Goto, TypeStop, TypeManager, StopPcs, ProcIds, NoProc, managerVars, runtimeVars,
      exitVars, coreVars, stopVars, mutVars
<1>4. ASSUME NEW s \in Starters, AssignProcess(s) PROVE TypeStop'
  BY <1>4, BoundsAssumption, Zenon
  DEF AssignProcess, Goto, TypeStop, TypeManager, StopPcs, ProcIds, NoProc, runtimeVars, exitVars,
      coreVars, stopVars, mutVars
<1>5. ASSUME NEW s \in Starters, StartFails(s) PROVE TypeStop'
  BY <1>5, BoundsAssumption, Zenon
  DEF StartFails, Goto, TypeStop, TypeManager, StopPcs, ProcIds, NoProc, managerVars, runtimeVars,
      exitVars, coreVars, stopVars, mutVars
<1>6. ASSUME NEW s \in Starters, CommitRunningStart(s) PROVE TypeStop'
  BY <1>6, BoundsAssumption, Zenon
  DEF CommitRunningStart, Goto, TypeStop, TypeManager, StopPcs, ProcIds, NoProc, runtimeVars,
      exitVars, coreVars, stopVars, mutVars
<1>7. ASSUME NEW t \in Stoppers, JoinStop(t) PROVE TypeStop'
  BY <1>7, BoundsAssumption, Zenon
  DEF JoinStop, StopGoto, TypeStop, TypeManager, StopPcs, ProcIds, NoProc, managerVars, runtimeVars,
      exitVars, coreVars, startVars, mutVars
<1>8. ASSUME NEW t \in Stoppers, StopStarting(t) PROVE TypeStop'
  BY <1>8, BoundsAssumption, Zenon
  DEF StopStarting, StopGoto, TypeStop, TypeManager, StopPcs, ProcIds, NoProc, runtimeVars,
      exitVars, coreVars, startVars, mutVars
<1>9. ASSUME NEW t \in Stoppers, StopSettled(t) PROVE TypeStop'
  BY <1>9, BoundsAssumption, Zenon
  DEF StopSettled, StopGoto, TypeStop, TypeManager, StopPcs, ProcIds, NoProc, runtimeVars, exitVars,
      coreVars, startVars, mutVars
<1>10. ASSUME NEW t \in Stoppers, CancelStart(t) PROVE TypeStop'
  BY <1>10, BoundsAssumption, Zenon
  DEF CancelStart, StopGoto, TypeStop, TypeManager, StopPcs, ProcIds, NoProc, managerVars,
      runtimeVars, exitVars, coreVars, mutVars
<1>11. ASSUME NEW t \in Stoppers, LockLifecycle(t) PROVE TypeStop'
  BY <1>11, BoundsAssumption, Zenon
  DEF LockLifecycle, StopGoto, TypeStop, TypeManager, StopPcs, ProcIds, NoProc, runtimeVars,
      exitVars, coreVars, startVars, mutVars
<1>12. ASSUME NEW t \in Stoppers, ReadProcess(t) PROVE TypeStop'
  BY <1>12, BoundsAssumption, Zenon
  DEF ReadProcess, StopGoto, TypeStop, TypeManager, StopPcs, ProcIds, NoProc, managerVars,
      runtimeVars, exitVars, coreVars, startVars, mutVars
<1>13. ASSUME NEW t \in Stoppers, LockGate(t) PROVE TypeStop'
  BY <1>13, BoundsAssumption, Zenon
  DEF LockGate, StopGoto, TypeStop, TypeManager, StopPcs, ProcIds, NoProc, managerVars, runtimeVars,
      exitVars, coreVars, startVars, mutVars
<1>14. ASSUME NEW t \in Stoppers, RetryFinalize(t) PROVE TypeStop'
  BY <1>14, BoundsAssumption, Zenon
  DEF RetryFinalize, StopGoto, TypeStop, TypeManager, StopPcs, ProcIds, NoProc, managerVars,
      runtimeVars, coreVars, startVars, mutVars
<1>15. ASSUME NEW t \in Stoppers, StopCloseDone(t) PROVE TypeStop'
  BY <1>15, BoundsAssumption, Zenon
  DEF StopCloseDone, StopGoto, TypeStop, TypeManager, StopPcs, ProcIds, NoProc, managerVars,
      runtimeVars, coreVars, startVars, mutVars
<1>16. ASSUME NEW t \in Stoppers, StopTerminates(t) PROVE TypeStop'
  BY <1>16, BoundsAssumption, Zenon
  DEF StopTerminates, StopGoto, TypeStop, TypeManager, StopPcs, ProcIds, NoProc, managerVars,
      runtimeVars, exitVars, coreVars, startVars, mutVars
<1>17. ASSUME NEW t \in Stoppers, StopTerminated(t) PROVE TypeStop'
  BY <1>17, BoundsAssumption, Zenon
  DEF StopTerminated, StopGoto, TypeStop, TypeManager, StopPcs, ProcIds, NoProc, managerVars,
      runtimeVars, exitVars, coreVars, startVars, mutVars
<1>18. ASSUME NEW t \in Stoppers, JudgeStop(t) PROVE TypeStop'
  BY <1>18, BoundsAssumption, Zenon
  DEF JudgeStop, StopGoto, TypeStop, TypeManager, StopPcs, ProcIds, NoProc, managerVars,
      runtimeVars, exitVars, coreVars, startVars, mutVars
<1>19. ASSUME NEW t \in Stoppers, FinishStop(t) PROVE TypeStop'
  BY <1>19, BoundsAssumption, Zenon
  DEF FinishStop, WakeJoiners, ClearRuntime, TypeStop, TypeManager, StopPcs, ProcIds, NoProc,
      runtimeVars, exitVars, coreVars, startVars, mutVars
<1>20. ASSUME NEW t \in Stoppers, ReturnStop(t) PROVE TypeStop'
  BY <1>20, BoundsAssumption
  DEF ReturnStop, StopGoto, AdmitReaders, TypeStop, TypeManager, StopPcs, ProcIds, NoProc,
      managerVars, runtimeVars, exitVars, coreVars, startVars
<1>21. ASSUME NEW p \in ProcIds, TermEnter(p) PROVE TypeStop'
  BY <1>21, BoundsAssumption, Zenon
  DEF TermEnter, TermMoves, TypeStop, TypeManager, StopPcs, ProcIds, NoProc, managerVars,
      runtimeVars, exitVars, coreVars, startVars, stopVars, mutVars
<1>22. ASSUME NEW p \in Procs, Interrupt(p) PROVE TypeStop'
  BY <1>22, BoundsAssumption, Zenon
  DEF Interrupt, TermMoves, TypeStop, TypeManager, StopPcs, ProcIds, NoProc, managerVars,
      runtimeVars, exitVars, coreVars, startVars, stopVars, mutVars
<1>23. ASSUME NEW p \in Procs, Kill(p) PROVE TypeStop'
  BY <1>23, BoundsAssumption, Zenon
  DEF Kill, TermMoves, TypeStop, TypeManager, StopPcs, ProcIds, NoProc, managerVars, runtimeVars,
      exitVars, coreVars, startVars, stopVars, mutVars
<1>24. ASSUME NEW p \in Procs, AttemptEnds(p) PROVE TypeStop'
  BY <1>24, BoundsAssumption, Zenon
  DEF AttemptEnds, TermMoves, TypeStop, TypeManager, StopPcs, ProcIds, NoProc, managerVars,
      runtimeVars, exitVars, coreVars, startVars, stopVars, mutVars
<1>25. ASSUME NEW p \in Procs, AttemptTimesOut(p) PROVE TypeStop'
  BY <1>25, BoundsAssumption, Zenon
  DEF AttemptTimesOut, TermMoves, TypeStop, TypeManager, StopPcs, ProcIds, NoProc, managerVars,
      runtimeVars, exitVars, coreVars, startVars, stopVars, mutVars
<1>26. ASSUME NEW s \in Starters, NEW r \in PanelRequests,
           BeginStart(s, r)
     PROVE  TypeStop'
  BY <1>1, <1>26, Zenon
  DEF BeginStart, StartAdmitted, Goto, managerVars, runtimeVars, exitVars, coreVars, startVars,
      stopVars, mutVars
<1>27. ASSUME NEW s \in Starters,
           CancelRequest(s) \/ ReadPrevious(s) \/ LockPreviousGate(s) \/ ConsiderUnchanged(s)
             \/ ProbePrevious(s) \/ CompleteUnchanged(s) \/ ReserveProcessIdentity(s) \/ RunPreStart(s)
             \/ StagePendingConfig(s) \/ StartProcess(s) \/ RetainUncleanProcess(s) \/ AwaitReady(s)
             \/ ProbeVersion(s) \/ CompleteStart(s) \/ RestorePreviousStart(s) \/ ReturnStart(s)
     PROVE  TypeStop'
  BY <1>1, <1>27, Zenon
  DEF CancelRequest, ReadPrevious, LockPreviousGate, ConsiderUnchanged, ProbePrevious,
      CompleteUnchanged, ReserveProcessIdentity, RunPreStart, StagePendingConfig, StartProcess,
      RetainUncleanProcess, AwaitReady, ProbeVersion, CompleteStart, RestorePreviousStart,
      ReturnStart, Goto, StartMoves, AdmitReaders, ClearRuntime, managerVars, runtimeVars, exitVars,
      coreVars, startVars, stopVars, mutVars
<1>28. ASSUME NEW p \in Procs,
           LoadConfig(p) \/ CoreExits(p) \/ ObservationFails(p) \/ MarkLeaderWait(p)
             \/ FinalizeExited(p) \/ CloseDone(p) \/ CloseMonitor(p) \/ ReadOutcome(p)
             \/ PublishExit(p)
     PROVE  TypeStop'
  BY <1>1, <1>28, Zenon
  DEF LoadConfig, CoreExits, ObservationFails, MarkLeaderWait, FinalizeExited, CloseDone,
      CloseMonitor, ReadOutcome, PublishExit, MonitorMoves, ExitIsNews, ClearRuntime, managerVars,
      runtimeVars, exitVars, coreVars, startVars, stopVars, mutVars
<1>29. ASSUME NEW m \in Mutators,
           BeginMutation(m) \/ LockShared(m) \/ Validate(m) \/ CommitCall(m)
             \/ ReleaseMutation(m)
     PROVE  TypeStop'
  BY <1>1, <1>29, Zenon
  DEF BeginMutation, LockShared, Validate, CommitCall, ReleaseMutation, Unlease, HashesAfter,
      Applied, managerVars, runtimeVars, exitVars, coreVars, startVars, stopVars, mutVars
<1>30. ASSUME NEW m \in Mutators, NEW c \in Calls,
           CallCore(m, c)
     PROVE  TypeStop'
  BY <1>1, <1>30, Zenon
  DEF CallCore, Applied, managerVars, runtimeVars, exitVars, coreVars, startVars, stopVars, mutVars
<1>31. CASE UNCHANGED vars
  BY <1>1, <1>31, Zenon DEF vars, managerVars, runtimeVars, exitVars, coreVars, startVars, stopVars, mutVars
<1> QED
  BY <1>1, <1>2, <1>3, <1>4, <1>5, <1>6, <1>7, <1>8, <1>9, <1>10, <1>11, <1>12, <1>13, <1>14, <1>15, <1>16, <1>17, <1>18, <1>19, <1>20, <1>21, <1>22, <1>23, <1>24, <1>25, <1>26, <1>27, <1>28, <1>29, <1>30, <1>31, Zenon
  DEF Next, StartStep, StopStep, TermStep, MonitorStep, MutationStep

\* A mutation's program counter, token and call keep their types.
LEMMA TypeMutationsNext ==
    ASSUME TypeManager, TypeRuntime, TypeProcesses, TypeStart, TypeStop, TypeMutations, [Next]_vars
    PROVE  TypeMutations'
<1>1. UNCHANGED <<mutPc, mutProcess, mutCall, handlerGate>> => TypeMutations'
  BY Zenon DEF TypeMutations
<1>2. ASSUME NEW s \in Starters, StagePendingConfig(s) PROVE TypeMutations'
  BY <1>2, BoundsAssumption, Zenon
  DEF StagePendingConfig, Goto, AdmitReaders, TypeMutations, TypeManager, TypeStart, MutPcs,
      ProcIds, NoProc, runtimeVars, exitVars, coreVars, stopVars
<1>3. ASSUME NEW s \in Starters, ReturnStart(s) PROVE TypeMutations'
  BY <1>3, BoundsAssumption
  DEF ReturnStart, Goto, AdmitReaders, TypeMutations, TypeManager, TypeStart, MutPcs, ProcIds,
      NoProc, managerVars, runtimeVars, exitVars, coreVars, stopVars
<1>4. ASSUME NEW t \in Stoppers, ReturnStop(t) PROVE TypeMutations'
  BY <1>4, BoundsAssumption, Zenon
  DEF ReturnStop, StopGoto, AdmitReaders, TypeMutations, TypeManager, TypeStart, MutPcs, ProcIds,
      NoProc, managerVars, runtimeVars, exitVars, coreVars, startVars
<1>5. ASSUME NEW m \in Mutators, BeginMutation(m) PROVE TypeMutations'
  BY <1>5, BoundsAssumption, Zenon
  DEF BeginMutation, TypeMutations, TypeManager, TypeStart, MutPcs, ProcIds, NoProc, managerVars,
      runtimeVars, exitVars, coreVars, startVars, stopVars
<1>6. ASSUME NEW m \in Mutators, LockShared(m) PROVE TypeMutations'
  BY <1>6, BoundsAssumption, Zenon
  DEF LockShared, TypeMutations, TypeManager, TypeStart, MutPcs, ProcIds, NoProc, managerVars,
      runtimeVars, exitVars, coreVars, startVars, stopVars
<1>7. ASSUME NEW m \in Mutators, Validate(m) PROVE TypeMutations'
  BY <1>7, BoundsAssumption
  DEF Validate, Unlease, TypeMutations, TypeManager, TypeStart, MutPcs, ProcIds, NoProc,
      managerVars, runtimeVars, exitVars, coreVars, startVars, stopVars
<1>8. ASSUME NEW m \in Mutators, NEW c \in Calls, CallCore(m, c) PROVE TypeMutations'
  BY <1>8, BoundsAssumption
  DEF CallCore, Applied, TypeMutations, TypeManager, TypeStart, MutPcs, ProcIds, NoProc,
      managerVars, runtimeVars, exitVars, startVars, stopVars
<1>9. ASSUME NEW m \in Mutators, CommitCall(m) PROVE TypeMutations'
  BY <1>9, BoundsAssumption, Zenon
  DEF CommitCall, HashesAfter, Applied, TypeMutations, TypeManager, TypeStart, MutPcs, ProcIds,
      NoProc, managerVars, exitVars, coreVars, startVars, stopVars
<1>10. ASSUME NEW m \in Mutators, ReleaseMutation(m) PROVE TypeMutations'
  BY <1>10, BoundsAssumption
  DEF ReleaseMutation, Unlease, TypeMutations, TypeManager, TypeStart, MutPcs, ProcIds, NoProc,
      managerVars, runtimeVars, exitVars, coreVars, startVars, stopVars
<1>11. ASSUME NEW s \in Starters, NEW r \in PanelRequests,
           BeginStart(s, r)
     PROVE  TypeMutations'
  BY <1>1, <1>11, Zenon
  DEF BeginStart, StartAdmitted, Goto, managerVars, runtimeVars, exitVars, coreVars, startVars,
      stopVars, mutVars
<1>12. ASSUME NEW s \in Starters,
           CancelRequest(s) \/ ReadPrevious(s) \/ LockPreviousGate(s) \/ ConsiderUnchanged(s)
             \/ ProbePrevious(s) \/ CompleteUnchanged(s) \/ ReserveProcessIdentity(s) \/ Prepare(s)
             \/ Terminated(s) \/ RunPreStart(s) \/ StartProcess(s) \/ AssignProcess(s)
             \/ RetainUncleanProcess(s) \/ AwaitReady(s) \/ StartFails(s) \/ ProbeVersion(s)
             \/ CommitRunningStart(s) \/ CompleteStart(s) \/ RestorePreviousStart(s)
     PROVE  TypeMutations'
  BY <1>1, <1>12, Zenon
  DEF CancelRequest, ReadPrevious, LockPreviousGate, ConsiderUnchanged, ProbePrevious,
      CompleteUnchanged, ReserveProcessIdentity, Prepare, Terminated, RunPreStart, StartProcess,
      AssignProcess, RetainUncleanProcess, AwaitReady, StartFails, ProbeVersion, CommitRunningStart,
      CompleteStart, RestorePreviousStart, Goto, StartMoves, ClearRuntime, managerVars, runtimeVars,
      exitVars, coreVars, startVars, stopVars, mutVars
<1>13. ASSUME NEW t \in Stoppers,
           JoinStop(t) \/ StopStarting(t) \/ StopSettled(t) \/ CancelStart(t)
             \/ LockLifecycle(t) \/ ReadProcess(t) \/ LockGate(t) \/ RetryFinalize(t)
             \/ StopCloseDone(t) \/ StopTerminates(t) \/ StopTerminated(t) \/ JudgeStop(t)
             \/ FinishStop(t)
     PROVE  TypeMutations'
  BY <1>1, <1>13, Zenon
  DEF JoinStop, StopStarting, StopSettled, CancelStart, LockLifecycle, ReadProcess, LockGate,
      RetryFinalize, StopCloseDone, StopTerminates, StopTerminated, JudgeStop, FinishStop, StopGoto,
      WakeJoiners, ClearRuntime, managerVars, runtimeVars, exitVars, coreVars, startVars, stopVars,
      mutVars
<1>14. ASSUME NEW p \in ProcIds,
           TermEnter(p)
     PROVE  TypeMutations'
  BY <1>1, <1>14, Zenon
  DEF TermEnter, TermMoves, managerVars, runtimeVars, exitVars, coreVars, startVars, stopVars,
      mutVars
<1>15. ASSUME NEW p \in Procs,
           Interrupt(p) \/ Kill(p) \/ AttemptEnds(p) \/ AttemptTimesOut(p)
             \/ LoadConfig(p) \/ CoreExits(p) \/ ObservationFails(p) \/ MarkLeaderWait(p)
             \/ FinalizeExited(p) \/ CloseDone(p) \/ CloseMonitor(p) \/ ReadOutcome(p)
             \/ PublishExit(p)
     PROVE  TypeMutations'
  BY <1>1, <1>15, Zenon
  DEF Interrupt, Kill, AttemptEnds, AttemptTimesOut, LoadConfig, CoreExits, ObservationFails,
      MarkLeaderWait, FinalizeExited, CloseDone, CloseMonitor, ReadOutcome, PublishExit, TermMoves,
      MonitorMoves, ExitIsNews, ClearRuntime, managerVars, runtimeVars, exitVars, coreVars,
      startVars, stopVars, mutVars
<1>16. CASE UNCHANGED vars
  BY <1>1, <1>16, Zenon DEF vars, managerVars, runtimeVars, exitVars, coreVars, startVars, stopVars, mutVars
<1> QED
  BY <1>1, <1>2, <1>3, <1>4, <1>5, <1>6, <1>7, <1>8, <1>9, <1>10, <1>11, <1>12, <1>13, <1>14, <1>15, <1>16, Zenon
  DEF Next, StartStep, StopStep, TermStep, MonitorStep, MutationStep

\* The initial state is well typed.
LEMMA TypeInit == Init => TypeOK
<1> SUFFICES ASSUME Init PROVE TypeOK
  OBVIOUS
<1>1. TypeManager
  BY BoundsAssumption DEF Init, TypeManager, ProcIds, NoProc, Callers
<1>2. TypeRuntime
  BY NoValues, BoundsAssumption DEF Init, TypeRuntime, ProcIds, NoProc
<1>3. TypeProcesses
  BY NoValues, Zenon DEF Init, TypeProcesses, Monitors
<1>4. TypeStart
  BY NoValues, BoundsAssumption DEF Init, TypeStart, StartPcs, ProcIds, NoProc
<1>5. TypeStop
  BY BoundsAssumption DEF Init, TypeStop, StopPcs, ProcIds, NoProc
<1>6. TypeMutations
  BY BoundsAssumption DEF Init, TypeMutations, MutPcs, ProcIds, NoProc
<1> QED BY <1>1, <1>2, <1>3, <1>4, <1>5, <1>6, Zenon DEF TypeOK

\* Every step keeps every type.
LEMMA TypeNext == TypeOK /\ [Next]_vars => TypeOK'
BY TypeManagerNext, TypeRuntimeNext, TypeProcessesNext, TypeStartNext, TypeStopNext,
   TypeMutationsNext, Zenon
DEF TypeOK

\* Every variable of Manager, of the processes and of the callers of Start, Stop
\* and BeginMutation holds a value of its Go type, for any number of callers,
\* users and processes.
THEOREM TypeCorrect == Spec => []TypeOK
BY TypeInit, TypeNext, PTL DEF Spec

(* The shared state *)

\* A process identity other than nil has an entry in every process table.
LEMMA ProcDomain == \A p \in ProcIds : p # NoProc => p \in Procs
BY BoundsAssumption DEF ProcIds, Procs, NoProc

\* terminateProcess works for one caller at a time: the owner of lifecycleMu.
LEMMA OneTerminating ==
    ASSUME MutexInv, NEW p, NEW q, Terminating(p), Terminating(q)
    PROVE  p = q
BY CallersAssumption DEF MutexInv, Terminating, Active, Holding

\* A Start in progress excludes every other Start and every Stop past its lock.
LEMMA StartAlone ==
    ASSUME MutexInv, NEW s \in Starters, Active(s)
    PROVE  (\A x \in Starters : Active(x) => x = s) /\ (\A t \in Stoppers : ~Holding(t))
BY CallersAssumption, Zenon DEF MutexInv

\* A Stop that holds lifecycleMu excludes every Start and every other Stop.
LEMMA StopAlone ==
    ASSUME MutexInv, NEW t \in Stoppers, Holding(t)
    PROVE  (\A x \in Stoppers : Holding(x) => x = t) /\ (\A s \in Starters : ~Active(s))
BY CallersAssumption, Zenon DEF MutexInv

\* While an operation is in progress the state is neither stopped nor running.
LEMMA Unsettled ==
    ASSUME MutexInv, StateInv, StandInv
    PROVE  /\ \A s \in Starters : Active(s) => state = "starting" \/ (state = "stopping" /\ stopOp # None)
           /\ \A t \in Stoppers : Holding(t) => state = "stopping" /\ stopOp # None
BY CallersAssumption, Zenon DEF MutexInv, StateInv, StandInv, StartStands

\* A process whose leader has not been seen to exit still has its monitor waiting.
LEMMA Watched ==
    ASSUME LifeInv, OwnerInv, TypeManager, process # NoProc, leader[process] = "unseen"
    PROVE  monitor[process] \notin {"none", "gone"}
BY ProcDomain, Zenon DEF LifeInv, ProcessLife, OwnerInv, TypeManager

\* With no Start between its spawn and its assignment, Manager owns what is alive.
LEMMA OwnedByManager ==
    ASSUME OwnerInv, NEW p \in Unfinalized,
           \A x \in Starters : startPc[x] \notin Unassigned
    PROVE  process = p /\ process # NoProc /\ ~finalized[process]
BY BoundsAssumption DEF OwnerInv, Owned, Unfinalized, Procs, NoProc

\* A Start that is not in progress claims nothing.
LEMMA IdleKnows ==
    ASSUME NEW x \in Starters, startPc'[x] \in {"idle", "release"}
    PROVE  StartKnows(x)'
BY Zenon DEF StartKnows, HasPrevious, Unassigned, AfterSpawn

\* A Start that finds the lifecycle taken from it has lost its epoch.
LEMMA NotOwner ==
    ASSUME StandInv, TypeManager, TypeStart, NEW s \in Starters, Active(s), ~OwnsStarting(s)
    PROVE  ~Owns(s)
BY DEF StandInv, StartStands, Owns, OwnsStarting, TypeManager, TypeStart

\* What the three ways a Start ends leave alone.
LEMMA CompleteFrame ==
    ASSUME NEW s \in Starters, CompleteStart(s)
    PROVE  /\ startPc' = [startPc EXCEPT ![s] = "release"]
           /\ UNCHANGED <<exitVars, stopVars, term, previousProcess, reserved>>
BY Zenon DEF CompleteStart, Goto

LEMMA RestoreFrame ==
    ASSUME NEW s \in Starters, RestorePreviousStart(s)
    PROVE  /\ startPc' = [startPc EXCEPT ![s] = "release"]
           /\ UNCHANGED <<exitVars, stopVars, term, previousProcess, reserved>>
BY Zenon DEF RestorePreviousStart, Goto

LEMMA ReturnFrame ==
    ASSUME NEW s \in Starters, ReturnStart(s)
    PROVE  /\ startPc' = [startPc EXCEPT ![s] = "idle"]
           /\ previousProcess' = [previousProcess EXCEPT ![s] = NoProc]
           /\ reserved' = [reserved EXCEPT ![s] = NoProc]
           /\ UNCHANGED <<exitVars, stopVars, term>>
BY Zenon DEF ReturnStart, Goto

\* lifecycleMu is held by exactly the callers whose program counter says so, and
\* a stop operation belongs to exactly one Stop.
LEMMA MutexInvNext ==
    ASSUME TypeManager, TypeRuntime, TypeProcesses, TypeStart, TypeStop, TypeMutations,
           MutexInv, StateInv, StandInv, SettledInv, LifeInv, OwnerInv,
           StartInv, StopInv, VerdictInv, LeaseInv, [Next]_vars
    PROVE  MutexInv'
<1>1. UNCHANGED <<startPc, stopPc, lifecycleMu, stopOp>> => MutexInv'
  BY Zenon DEF MutexInv, Active, Pending, Holding
<1>2. ASSUME NEW s \in Starters, NEW r \in PanelRequests, BeginStart(s, r) PROVE MutexInv'
  BY <1>2, CallersAssumption, Zenon
  DEF BeginStart, StartAdmitted, Goto, MutexInv, TypeStart, TypeStop, Active, Pending, Holding,
      runtimeVars, exitVars, coreVars, stopVars, mutVars
<1>3. ASSUME NEW s \in Starters, ReadPrevious(s) PROVE MutexInv'
  BY <1>3, Zenon
  DEF ReadPrevious, Goto, MutexInv, TypeStart, TypeStop, Active, Pending, Holding, managerVars,
      runtimeVars, exitVars, coreVars, stopVars, mutVars
<1>4. ASSUME NEW s \in Starters, LockPreviousGate(s) PROVE MutexInv'
  BY <1>4, Zenon
  DEF LockPreviousGate, Goto, MutexInv, TypeStart, TypeStop, Active, Pending, Holding, managerVars,
      runtimeVars, exitVars, coreVars, stopVars, mutVars
<1>5. ASSUME NEW s \in Starters, ConsiderUnchanged(s) PROVE MutexInv'
  BY <1>5, Zenon
  DEF ConsiderUnchanged, StartMoves, Goto, MutexInv, TypeStart, TypeStop, Active, Pending, Holding,
      managerVars, runtimeVars, exitVars, coreVars, stopVars, mutVars
<1>6. ASSUME NEW s \in Starters, ProbePrevious(s) PROVE MutexInv'
  BY <1>6
  DEF ProbePrevious, StartMoves, Goto, MutexInv, TypeStart, TypeStop, Active, Pending, Holding,
      managerVars, runtimeVars, exitVars, coreVars, stopVars, mutVars
<1>7. ASSUME NEW s \in Starters, CompleteUnchanged(s) PROVE MutexInv'
  BY <1>7, CallersAssumption
  DEF CompleteUnchanged, Goto, MutexInv, TypeStart, TypeStop, Active, Pending, Holding, runtimeVars,
      exitVars, coreVars, stopVars, mutVars
<1>8. ASSUME NEW s \in Starters, ReserveProcessIdentity(s) PROVE MutexInv'
  BY <1>8, Zenon
  DEF ReserveProcessIdentity, Goto, MutexInv, TypeStart, TypeStop, Active, Pending, Holding,
      runtimeVars, exitVars, coreVars, stopVars, mutVars
<1>9. ASSUME NEW s \in Starters, Prepare(s) PROVE MutexInv'
  BY <1>9, Zenon
  DEF Prepare, Goto, MutexInv, TypeStart, TypeStop, Active, Pending, Holding, managerVars,
      runtimeVars, exitVars, coreVars, stopVars, mutVars
<1>10. ASSUME NEW s \in Starters, Terminated(s) PROVE MutexInv'
  BY <1>10, Zenon
  DEF Terminated, Goto, MutexInv, TypeStart, TypeStop, Active, Pending, Holding, managerVars,
      runtimeVars, exitVars, coreVars, stopVars, mutVars
<1>11. ASSUME NEW s \in Starters, RunPreStart(s) PROVE MutexInv'
  BY <1>11, Zenon
  DEF RunPreStart, StartMoves, Goto, MutexInv, TypeStart, TypeStop, Active, Pending, Holding,
      managerVars, runtimeVars, exitVars, coreVars, stopVars, mutVars
<1>12. ASSUME NEW s \in Starters, StagePendingConfig(s) PROVE MutexInv'
  BY <1>12, Zenon
  DEF StagePendingConfig, Goto, AdmitReaders, MutexInv, TypeStart, TypeStop, Active, Pending,
      Holding, runtimeVars, exitVars, coreVars, stopVars
<1>13. ASSUME NEW s \in Starters, StartProcess(s) PROVE MutexInv'
  BY <1>13, Zenon
  DEF StartProcess, Goto, MutexInv, TypeStart, TypeStop, Active, Pending, Holding, managerVars,
      runtimeVars, coreVars, stopVars, mutVars
<1>14. ASSUME NEW s \in Starters, AssignProcess(s) PROVE MutexInv'
  BY <1>14, Zenon
  DEF AssignProcess, Goto, MutexInv, TypeStart, TypeStop, Active, Pending, Holding, runtimeVars,
      exitVars, coreVars, stopVars, mutVars
<1>15. ASSUME NEW s \in Starters, RetainUncleanProcess(s) PROVE MutexInv'
  BY <1>15, Zenon
  DEF RetainUncleanProcess, Goto, MutexInv, TypeStart, TypeStop, Active, Pending, Holding,
      runtimeVars, exitVars, coreVars, stopVars, mutVars
<1>16. ASSUME NEW s \in Starters, AwaitReady(s) PROVE MutexInv'
  BY <1>16, Zenon
  DEF AwaitReady, StartMoves, Goto, MutexInv, TypeStart, TypeStop, Active, Pending, Holding,
      managerVars, runtimeVars, exitVars, coreVars, stopVars, mutVars
<1>17. ASSUME NEW s \in Starters, StartFails(s) PROVE MutexInv'
  BY <1>17, Zenon
  DEF StartFails, Goto, MutexInv, TypeStart, TypeStop, Active, Pending, Holding, managerVars,
      runtimeVars, exitVars, coreVars, stopVars, mutVars
<1>18. ASSUME NEW s \in Starters, ProbeVersion(s) PROVE MutexInv'
  BY <1>18, Zenon
  DEF ProbeVersion, StartMoves, Goto, MutexInv, TypeStart, TypeStop, Active, Pending, Holding,
      managerVars, runtimeVars, exitVars, coreVars, stopVars, mutVars
<1>19. ASSUME NEW s \in Starters, CommitRunningStart(s) PROVE MutexInv'
  BY <1>19, CallersAssumption
  DEF CommitRunningStart, Goto, MutexInv, TypeStart, TypeStop, Active, Pending, Holding,
      runtimeVars, exitVars, coreVars, stopVars, mutVars
<1>20. ASSUME NEW s \in Starters, CompleteStart(s) PROVE MutexInv'
  BY <1>20, CallersAssumption
  DEF CompleteStart, Goto, ClearRuntime, MutexInv, TypeStart, TypeStop, Active, Pending, Holding,
      runtimeVars, exitVars, coreVars, stopVars, mutVars, Completing
<1>21. ASSUME NEW s \in Starters, RestorePreviousStart(s) PROVE MutexInv'
  BY <1>21, CallersAssumption
  DEF RestorePreviousStart, Goto, ClearRuntime, MutexInv, TypeStart, TypeStop, Active, Pending,
      Holding, runtimeVars, exitVars, coreVars, stopVars, mutVars
<1>22. ASSUME NEW s \in Starters, ReturnStart(s) PROVE MutexInv'
  BY <1>22, Zenon
  DEF ReturnStart, Goto, AdmitReaders, MutexInv, TypeStart, TypeStop, Active, Pending, Holding,
      managerVars, runtimeVars, exitVars, coreVars, stopVars
<1>23. ASSUME NEW t \in Stoppers, JoinStop(t) PROVE MutexInv'
  BY <1>23, Zenon
  DEF JoinStop, StopGoto, MutexInv, TypeStart, TypeStop, Active, Pending, Holding, managerVars,
      runtimeVars, exitVars, coreVars, startVars, mutVars
<1>24. ASSUME NEW t \in Stoppers, StopStarting(t) PROVE MutexInv'
  BY <1>24, CallersAssumption, Zenon
  DEF StopStarting, StopGoto, MutexInv, TypeStart, TypeStop, Active, Pending, Holding, runtimeVars,
      exitVars, coreVars, startVars, mutVars, StateInv
<1>25. ASSUME NEW t \in Stoppers, StopSettled(t) PROVE MutexInv'
  BY <1>25, CallersAssumption, Zenon
  DEF StopSettled, StopGoto, MutexInv, TypeStart, TypeStop, Active, Pending, Holding, runtimeVars,
      exitVars, coreVars, startVars, mutVars, StateInv
<1>26. ASSUME NEW t \in Stoppers, CancelStart(t) PROVE MutexInv'
  BY <1>26, Zenon
  DEF CancelStart, StopGoto, MutexInv, TypeStart, TypeStop, Active, Pending, Holding, managerVars,
      runtimeVars, exitVars, coreVars, mutVars
<1>27. ASSUME NEW t \in Stoppers, LockLifecycle(t) PROVE MutexInv'
  BY <1>27, CallersAssumption, Zenon
  DEF LockLifecycle, StopGoto, MutexInv, TypeStart, TypeStop, Active, Pending, Holding, runtimeVars,
      exitVars, coreVars, startVars, mutVars
<1>28. ASSUME NEW t \in Stoppers, ReadProcess(t) PROVE MutexInv'
  BY <1>28, Zenon
  DEF ReadProcess, StopGoto, MutexInv, TypeStart, TypeStop, Active, Pending, Holding, managerVars,
      runtimeVars, exitVars, coreVars, startVars, mutVars
<1>29. ASSUME NEW t \in Stoppers, LockGate(t) PROVE MutexInv'
  BY <1>29, Zenon
  DEF LockGate, StopGoto, MutexInv, TypeStart, TypeStop, Active, Pending, Holding, managerVars,
      runtimeVars, exitVars, coreVars, startVars, mutVars
<1>30. ASSUME NEW t \in Stoppers, RetryFinalize(t) PROVE MutexInv'
  BY <1>30, Zenon
  DEF RetryFinalize, StopGoto, MutexInv, TypeStart, TypeStop, Active, Pending, Holding, managerVars,
      runtimeVars, coreVars, startVars, mutVars
<1>31. ASSUME NEW t \in Stoppers, StopCloseDone(t) PROVE MutexInv'
  BY <1>31, Zenon
  DEF StopCloseDone, StopGoto, MutexInv, TypeStart, TypeStop, Active, Pending, Holding, managerVars,
      runtimeVars, coreVars, startVars, mutVars
<1>32. ASSUME NEW t \in Stoppers, StopTerminates(t) PROVE MutexInv'
  BY <1>32, Zenon
  DEF StopTerminates, StopGoto, MutexInv, TypeStart, TypeStop, Active, Pending, Holding,
      managerVars, runtimeVars, exitVars, coreVars, startVars, mutVars
<1>33. ASSUME NEW t \in Stoppers, StopTerminated(t) PROVE MutexInv'
  BY <1>33, Zenon
  DEF StopTerminated, StopGoto, MutexInv, TypeStart, TypeStop, Active, Pending, Holding,
      managerVars, runtimeVars, exitVars, coreVars, startVars, mutVars
<1>34. ASSUME NEW t \in Stoppers, JudgeStop(t) PROVE MutexInv'
  BY <1>34, Zenon
  DEF JudgeStop, StopGoto, MutexInv, TypeStart, TypeStop, Active, Pending, Holding, managerVars,
      runtimeVars, exitVars, coreVars, startVars, mutVars
<1>35. ASSUME NEW t \in Stoppers, FinishStop(t) PROVE MutexInv'
  BY <1>35, CallersAssumption, Zenon
  DEF FinishStop, WakeJoiners, ClearRuntime, MutexInv, TypeStart, TypeStop, Active, Pending,
      Holding, runtimeVars, exitVars, coreVars, startVars, mutVars
<1>36. ASSUME NEW t \in Stoppers, ReturnStop(t) PROVE MutexInv'
  BY <1>36, Zenon
  DEF ReturnStop, StopGoto, AdmitReaders, MutexInv, TypeStart, TypeStop, Active, Pending, Holding,
      managerVars, runtimeVars, exitVars, coreVars, startVars
<1>37. ASSUME NEW s \in Starters,
           CancelRequest(s)
     PROVE  MutexInv'
  BY <1>1, <1>37, Zenon
  DEF CancelRequest, managerVars, runtimeVars, exitVars, coreVars, startVars, stopVars, mutVars
<1>38. ASSUME NEW p \in ProcIds,
           TermEnter(p)
     PROVE  MutexInv'
  BY <1>1, <1>38, Zenon
  DEF TermEnter, TermMoves, managerVars, runtimeVars, exitVars, coreVars, startVars, stopVars,
      mutVars
<1>39. ASSUME NEW p \in Procs,
           Interrupt(p) \/ Kill(p) \/ AttemptEnds(p) \/ AttemptTimesOut(p)
             \/ LoadConfig(p) \/ CoreExits(p) \/ ObservationFails(p) \/ MarkLeaderWait(p)
             \/ FinalizeExited(p) \/ CloseDone(p) \/ CloseMonitor(p) \/ ReadOutcome(p)
             \/ PublishExit(p)
     PROVE  MutexInv'
  BY <1>1, <1>39, Zenon
  DEF Interrupt, Kill, AttemptEnds, AttemptTimesOut, LoadConfig, CoreExits, ObservationFails,
      MarkLeaderWait, FinalizeExited, CloseDone, CloseMonitor, ReadOutcome, PublishExit, TermMoves,
      MonitorMoves, ExitIsNews, ClearRuntime, managerVars, runtimeVars, exitVars, coreVars,
      startVars, stopVars, mutVars
<1>40. ASSUME NEW m \in Mutators,
           BeginMutation(m) \/ LockShared(m) \/ Validate(m) \/ CommitCall(m)
             \/ ReleaseMutation(m)
     PROVE  MutexInv'
  BY <1>1, <1>40, Zenon
  DEF BeginMutation, LockShared, Validate, CommitCall, ReleaseMutation, Unlease, HashesAfter,
      Applied, managerVars, runtimeVars, exitVars, coreVars, startVars, stopVars, mutVars
<1>41. ASSUME NEW m \in Mutators, NEW c \in Calls,
           CallCore(m, c)
     PROVE  MutexInv'
  BY <1>1, <1>41, Zenon
  DEF CallCore, Applied, managerVars, runtimeVars, exitVars, coreVars, startVars, stopVars, mutVars
<1>42. CASE UNCHANGED vars
  BY <1>1, <1>42, Zenon DEF vars, managerVars, runtimeVars, exitVars, coreVars, startVars, stopVars, mutVars
<1> QED
  BY <1>1, <1>2, <1>3, <1>4, <1>5, <1>6, <1>7, <1>8, <1>9, <1>10, <1>11, <1>12, <1>13, <1>14, <1>15, <1>16, <1>17, <1>18, <1>19, <1>20, <1>21, <1>22, <1>23, <1>24, <1>25, <1>26, <1>27, <1>28, <1>29, <1>30, <1>31, <1>32, <1>33, <1>34, <1>35, <1>36, <1>37, <1>38, <1>39, <1>40, <1>41, <1>42, Zenon
  DEF Next, StartStep, StopStep, TermStep, MonitorStep, MutationStep

\* A reserved Stop keeps the state at stopping, and starting means that a Start
\* holds lifecycleMu.
LEMMA StateInvNext ==
    ASSUME TypeManager, TypeRuntime, TypeProcesses, TypeStart, TypeStop, TypeMutations,
           MutexInv, StateInv, StandInv, SettledInv, LifeInv, OwnerInv,
           StartInv, StopInv, VerdictInv, LeaseInv, [Next]_vars
    PROVE  StateInv'
<1>1. UNCHANGED <<stopOp, state, lifecycleMu>> => StateInv'
  BY Zenon DEF StateInv
<1>2. ASSUME NEW s \in Starters, NEW r \in PanelRequests, BeginStart(s, r) PROVE StateInv'
  BY <1>2, Zenon
  DEF BeginStart, StartAdmitted, Goto, StateInv, runtimeVars, exitVars, coreVars, stopVars, mutVars
<1>3. ASSUME NEW s \in Starters, CompleteUnchanged(s) PROVE StateInv'
  BY <1>3
  DEF CompleteUnchanged, Goto, StateInv, runtimeVars, exitVars, coreVars, stopVars, mutVars,
      StandInv, StartStands, Active, Owns, OwnsStarting, TypeManager, TypeStart
<1>4. ASSUME NEW s \in Starters, RetainUncleanProcess(s) PROVE StateInv'
  BY <1>4, Zenon
  DEF RetainUncleanProcess, Goto, StateInv, runtimeVars, exitVars, coreVars, stopVars, mutVars
<1>5. ASSUME NEW s \in Starters, CommitRunningStart(s) PROVE StateInv'
  BY <1>5, Zenon
  DEF CommitRunningStart, Goto, StateInv, runtimeVars, exitVars, coreVars, stopVars, mutVars,
      StandInv, StartStands, Active, Owns, OwnsStarting, TypeManager, TypeStart
<1>6. ASSUME NEW s \in Starters, CompleteStart(s) PROVE StateInv'
  BY <1>6
  DEF CompleteStart, Goto, ClearRuntime, StateInv, runtimeVars, exitVars, coreVars, stopVars,
      mutVars, StandInv, StartStands, Active, Owns, OwnsStarting, TypeManager, TypeStart, Completing
<1>7. ASSUME NEW s \in Starters, RestorePreviousStart(s) PROVE StateInv'
  BY <1>7
  DEF RestorePreviousStart, Goto, ClearRuntime, StateInv, runtimeVars, exitVars, coreVars, stopVars,
      mutVars, StandInv, StartStands, Active, Owns, OwnsStarting, TypeManager, TypeStart
<1>8. ASSUME NEW t \in Stoppers, StopStarting(t) PROVE StateInv'
  BY <1>8, Zenon
  DEF StopStarting, StopGoto, StateInv, runtimeVars, exitVars, coreVars, startVars, mutVars
<1>9. ASSUME NEW t \in Stoppers, StopSettled(t) PROVE StateInv'
  BY <1>9, Zenon
  DEF StopSettled, StopGoto, StateInv, runtimeVars, exitVars, coreVars, startVars, mutVars
<1>10. ASSUME NEW t \in Stoppers, LockLifecycle(t) PROVE StateInv'
  BY <1>10, CallersAssumption, Zenon
  DEF LockLifecycle, StopGoto, StateInv, runtimeVars, exitVars, coreVars, startVars, mutVars,
      MutexInv, Pending
<1>11. ASSUME NEW t \in Stoppers, FinishStop(t) PROVE StateInv'
  BY <1>11, Zenon
  DEF FinishStop, WakeJoiners, ClearRuntime, StateInv, runtimeVars, exitVars, coreVars, startVars,
      mutVars
<1>12. ASSUME NEW p \in Procs, PublishExit(p) PROVE StateInv'
  BY <1>12, Zenon
  DEF PublishExit, ExitIsNews, MonitorMoves, ClearRuntime, StateInv, runtimeVars, coreVars,
      startVars, stopVars, mutVars
<1>13. ASSUME NEW s \in Starters,
           CancelRequest(s) \/ ReadPrevious(s) \/ LockPreviousGate(s) \/ ConsiderUnchanged(s)
             \/ ProbePrevious(s) \/ ReserveProcessIdentity(s) \/ Prepare(s) \/ Terminated(s)
             \/ RunPreStart(s) \/ StagePendingConfig(s) \/ StartProcess(s) \/ AssignProcess(s)
             \/ AwaitReady(s) \/ StartFails(s) \/ ProbeVersion(s) \/ ReturnStart(s)
     PROVE  StateInv'
  BY <1>1, <1>13, Zenon
  DEF CancelRequest, ReadPrevious, LockPreviousGate, ConsiderUnchanged, ProbePrevious,
      ReserveProcessIdentity, Prepare, Terminated, RunPreStart, StagePendingConfig, StartProcess,
      AssignProcess, AwaitReady, StartFails, ProbeVersion, ReturnStart, Goto, StartMoves,
      AdmitReaders, managerVars, runtimeVars, exitVars, coreVars, startVars, stopVars, mutVars
<1>14. ASSUME NEW t \in Stoppers,
           JoinStop(t) \/ CancelStart(t) \/ ReadProcess(t) \/ LockGate(t)
             \/ RetryFinalize(t) \/ StopCloseDone(t) \/ StopTerminates(t) \/ StopTerminated(t)
             \/ JudgeStop(t) \/ ReturnStop(t)
     PROVE  StateInv'
  BY <1>1, <1>14, Zenon
  DEF JoinStop, CancelStart, ReadProcess, LockGate, RetryFinalize, StopCloseDone, StopTerminates,
      StopTerminated, JudgeStop, ReturnStop, StopGoto, AdmitReaders, managerVars, runtimeVars,
      exitVars, coreVars, startVars, stopVars, mutVars
<1>15. ASSUME NEW p \in ProcIds,
           TermEnter(p)
     PROVE  StateInv'
  BY <1>1, <1>15, Zenon
  DEF TermEnter, TermMoves, managerVars, runtimeVars, exitVars, coreVars, startVars, stopVars,
      mutVars
<1>16. ASSUME NEW p \in Procs,
           Interrupt(p) \/ Kill(p) \/ AttemptEnds(p) \/ AttemptTimesOut(p)
             \/ LoadConfig(p) \/ CoreExits(p) \/ ObservationFails(p) \/ MarkLeaderWait(p)
             \/ FinalizeExited(p) \/ CloseDone(p) \/ CloseMonitor(p) \/ ReadOutcome(p)
     PROVE  StateInv'
  BY <1>1, <1>16, Zenon
  DEF Interrupt, Kill, AttemptEnds, AttemptTimesOut, LoadConfig, CoreExits, ObservationFails,
      MarkLeaderWait, FinalizeExited, CloseDone, CloseMonitor, ReadOutcome, TermMoves, MonitorMoves,
      managerVars, runtimeVars, exitVars, coreVars, startVars, stopVars, mutVars
<1>17. ASSUME NEW m \in Mutators,
           BeginMutation(m) \/ LockShared(m) \/ Validate(m) \/ CommitCall(m)
             \/ ReleaseMutation(m)
     PROVE  StateInv'
  BY <1>1, <1>17, Zenon
  DEF BeginMutation, LockShared, Validate, CommitCall, ReleaseMutation, Unlease, HashesAfter,
      Applied, managerVars, runtimeVars, exitVars, coreVars, startVars, stopVars, mutVars
<1>18. ASSUME NEW m \in Mutators, NEW c \in Calls,
           CallCore(m, c)
     PROVE  StateInv'
  BY <1>1, <1>18, Zenon
  DEF CallCore, Applied, managerVars, runtimeVars, exitVars, coreVars, startVars, stopVars, mutVars
<1>19. CASE UNCHANGED vars
  BY <1>1, <1>19, Zenon DEF vars, managerVars, runtimeVars, exitVars, coreVars, startVars, stopVars, mutVars
<1> QED
  BY <1>1, <1>2, <1>3, <1>4, <1>5, <1>6, <1>7, <1>8, <1>9, <1>10, <1>11, <1>12, <1>13, <1>14, <1>15, <1>16, <1>17, <1>18, <1>19, Zenon
  DEF Next, StartStep, StopStep, TermStep, MonitorStep, MutationStep

\* A Start in progress owns the lifecycle, or a Stop has taken it away.
LEMMA StandInvNext ==
    ASSUME TypeManager, TypeRuntime, TypeProcesses, TypeStart, TypeStop, TypeMutations,
           MutexInv, StateInv, StandInv, SettledInv, LifeInv, OwnerInv,
           StartInv, StopInv, VerdictInv, LeaseInv, [Next]_vars
    PROVE  StandInv'
<1>1. UNCHANGED <<startPc, operationEpoch, startEpoch, state, startCancel, stopOp>> => StandInv'
  BY Zenon DEF StandInv, StartStands, Owns, Active
<1>2. ASSUME NEW s \in Starters, NEW r \in PanelRequests, BeginStart(s, r) PROVE StandInv'
  BY <1>2, CallersAssumption, Zenon
  DEF BeginStart, StartAdmitted, Goto, StandInv, StartStands, Owns, TypeStart, Active, runtimeVars,
      exitVars, coreVars, stopVars, mutVars, MutexInv
<1>3. ASSUME NEW s \in Starters, ReadPrevious(s) PROVE StandInv'
  BY <1>3, Zenon
  DEF ReadPrevious, Goto, StandInv, StartStands, Owns, TypeStart, Active, managerVars, runtimeVars,
      exitVars, coreVars, stopVars, mutVars
<1>4. ASSUME NEW s \in Starters, LockPreviousGate(s) PROVE StandInv'
  BY <1>4, Zenon
  DEF LockPreviousGate, Goto, StandInv, StartStands, Owns, TypeStart, Active, managerVars,
      runtimeVars, exitVars, coreVars, stopVars, mutVars
<1>5. ASSUME NEW s \in Starters, ConsiderUnchanged(s) PROVE StandInv'
  BY <1>5, Zenon
  DEF ConsiderUnchanged, StartMoves, Goto, StandInv, StartStands, Owns, TypeStart, Active,
      managerVars, runtimeVars, exitVars, coreVars, stopVars, mutVars
<1>6. ASSUME NEW s \in Starters, ProbePrevious(s) PROVE StandInv'
  BY <1>6
  DEF ProbePrevious, StartMoves, Goto, StandInv, StartStands, Owns, TypeStart, Active, managerVars,
      runtimeVars, exitVars, coreVars, stopVars, mutVars
<1>7. ASSUME NEW s \in Starters, CompleteUnchanged(s) PROVE StandInv'
  BY <1>7, Zenon
  DEF CompleteUnchanged, Goto, StandInv, StartStands, Owns, TypeStart, Active, runtimeVars,
      exitVars, coreVars, stopVars, mutVars
<1>8. ASSUME NEW s \in Starters, ReserveProcessIdentity(s) PROVE StandInv'
  BY <1>8, Zenon
  DEF ReserveProcessIdentity, Goto, StandInv, StartStands, Owns, TypeStart, Active, runtimeVars,
      exitVars, coreVars, stopVars, mutVars
<1>9. ASSUME NEW s \in Starters, Prepare(s) PROVE StandInv'
  BY <1>9, Zenon
  DEF Prepare, Goto, StandInv, StartStands, Owns, TypeStart, Active, managerVars, runtimeVars,
      exitVars, coreVars, stopVars, mutVars
<1>10. ASSUME NEW s \in Starters, Terminated(s) PROVE StandInv'
  BY <1>10, Zenon
  DEF Terminated, Goto, StandInv, StartStands, Owns, TypeStart, Active, managerVars, runtimeVars,
      exitVars, coreVars, stopVars, mutVars
<1>11. ASSUME NEW s \in Starters, RunPreStart(s) PROVE StandInv'
  BY <1>11, Zenon
  DEF RunPreStart, StartMoves, Goto, StandInv, StartStands, Owns, TypeStart, Active, managerVars,
      runtimeVars, exitVars, coreVars, stopVars, mutVars
<1>12. ASSUME NEW s \in Starters, StagePendingConfig(s) PROVE StandInv'
  BY <1>12, Zenon
  DEF StagePendingConfig, Goto, AdmitReaders, StandInv, StartStands, Owns, TypeStart, Active,
      runtimeVars, exitVars, coreVars, stopVars
<1>13. ASSUME NEW s \in Starters, StartProcess(s) PROVE StandInv'
  BY <1>13, Zenon
  DEF StartProcess, Goto, StandInv, StartStands, Owns, TypeStart, Active, managerVars, runtimeVars,
      coreVars, stopVars, mutVars
<1>14. ASSUME NEW s \in Starters, AssignProcess(s) PROVE StandInv'
  BY <1>14, Zenon
  DEF AssignProcess, Goto, StandInv, StartStands, Owns, TypeStart, Active, runtimeVars, exitVars,
      coreVars, stopVars, mutVars
<1>15. ASSUME NEW s \in Starters, RetainUncleanProcess(s) PROVE StandInv'
  BY <1>15, StartAlone, Zenon
  DEF RetainUncleanProcess, Goto, StandInv, StartStands, Owns, TypeStart, Active, runtimeVars,
      exitVars, coreVars, stopVars, mutVars, StartInv, StartKnows
<1>16. ASSUME NEW s \in Starters, AwaitReady(s) PROVE StandInv'
  BY <1>16, Zenon
  DEF AwaitReady, StartMoves, Goto, StandInv, StartStands, Owns, TypeStart, Active, managerVars,
      runtimeVars, exitVars, coreVars, stopVars, mutVars
<1>17. ASSUME NEW s \in Starters, StartFails(s) PROVE StandInv'
  BY <1>17, Zenon
  DEF StartFails, Goto, StandInv, StartStands, Owns, TypeStart, Active, managerVars, runtimeVars,
      exitVars, coreVars, stopVars, mutVars
<1>18. ASSUME NEW s \in Starters, ProbeVersion(s) PROVE StandInv'
  BY <1>18, Zenon
  DEF ProbeVersion, StartMoves, Goto, StandInv, StartStands, Owns, TypeStart, Active, managerVars,
      runtimeVars, exitVars, coreVars, stopVars, mutVars
<1>19. ASSUME NEW s \in Starters, CommitRunningStart(s) PROVE StandInv'
  BY <1>19, Zenon
  DEF CommitRunningStart, Goto, StandInv, StartStands, Owns, TypeStart, Active, runtimeVars,
      exitVars, coreVars, stopVars, mutVars, MutexInv, TypeManager, OwnsStarting
<1>20. ASSUME NEW s \in Starters, CompleteStart(s) PROVE StandInv'
  BY <1>20, Zenon
  DEF CompleteStart, Goto, ClearRuntime, StandInv, StartStands, Owns, TypeStart, Active,
      runtimeVars, exitVars, coreVars, stopVars, mutVars, Completing
<1>21. ASSUME NEW s \in Starters, RestorePreviousStart(s) PROVE StandInv'
  BY <1>21, Zenon
  DEF RestorePreviousStart, Goto, ClearRuntime, StandInv, StartStands, Owns, TypeStart, Active,
      runtimeVars, exitVars, coreVars, stopVars, mutVars
<1>22. ASSUME NEW s \in Starters, ReturnStart(s) PROVE StandInv'
  BY <1>22, Zenon
  DEF ReturnStart, Goto, AdmitReaders, StandInv, StartStands, Owns, TypeStart, Active, managerVars,
      runtimeVars, exitVars, coreVars, stopVars
<1>23. ASSUME NEW t \in Stoppers, StopStarting(t) PROVE StandInv'
  BY <1>23, CallersAssumption
  DEF StopStarting, StopGoto, StandInv, StartStands, Owns, TypeStart, Active, runtimeVars, exitVars,
      coreVars, startVars, mutVars, TypeManager
<1>24. ASSUME NEW t \in Stoppers, StopSettled(t) PROVE StandInv'
  BY <1>24, CallersAssumption, Zenon
  DEF StopSettled, StopGoto, StandInv, StartStands, Owns, TypeStart, Active, runtimeVars, exitVars,
      coreVars, startVars, mutVars, MutexInv
<1>25. ASSUME NEW t \in Stoppers, FinishStop(t) PROVE StandInv'
  BY <1>25, CallersAssumption, Zenon
  DEF FinishStop, WakeJoiners, ClearRuntime, StandInv, StartStands, Owns, TypeStart, Active,
      runtimeVars, exitVars, coreVars, startVars, mutVars, MutexInv, Holding
<1>26. ASSUME NEW p \in Procs, PublishExit(p) PROVE StandInv'
  BY <1>26, Zenon
  DEF PublishExit, ExitIsNews, MonitorMoves, ClearRuntime, StandInv, StartStands, Owns, TypeStart,
      Active, runtimeVars, coreVars, startVars, stopVars, mutVars
<1>27. ASSUME NEW s \in Starters,
           CancelRequest(s)
     PROVE  StandInv'
  BY <1>1, <1>27, Zenon
  DEF CancelRequest, managerVars, runtimeVars, exitVars, coreVars, startVars, stopVars, mutVars
<1>28. ASSUME NEW t \in Stoppers,
           JoinStop(t) \/ CancelStart(t) \/ LockLifecycle(t) \/ ReadProcess(t)
             \/ LockGate(t) \/ RetryFinalize(t) \/ StopCloseDone(t) \/ StopTerminates(t)
             \/ StopTerminated(t) \/ JudgeStop(t) \/ ReturnStop(t)
     PROVE  StandInv'
  BY <1>1, <1>28, Zenon
  DEF JoinStop, CancelStart, LockLifecycle, ReadProcess, LockGate, RetryFinalize, StopCloseDone,
      StopTerminates, StopTerminated, JudgeStop, ReturnStop, StopGoto, AdmitReaders, managerVars,
      runtimeVars, exitVars, coreVars, startVars, stopVars, mutVars
<1>29. ASSUME NEW p \in ProcIds,
           TermEnter(p)
     PROVE  StandInv'
  BY <1>1, <1>29, Zenon
  DEF TermEnter, TermMoves, managerVars, runtimeVars, exitVars, coreVars, startVars, stopVars,
      mutVars
<1>30. ASSUME NEW p \in Procs,
           Interrupt(p) \/ Kill(p) \/ AttemptEnds(p) \/ AttemptTimesOut(p)
             \/ LoadConfig(p) \/ CoreExits(p) \/ ObservationFails(p) \/ MarkLeaderWait(p)
             \/ FinalizeExited(p) \/ CloseDone(p) \/ CloseMonitor(p) \/ ReadOutcome(p)
     PROVE  StandInv'
  BY <1>1, <1>30, Zenon
  DEF Interrupt, Kill, AttemptEnds, AttemptTimesOut, LoadConfig, CoreExits, ObservationFails,
      MarkLeaderWait, FinalizeExited, CloseDone, CloseMonitor, ReadOutcome, TermMoves, MonitorMoves,
      managerVars, runtimeVars, exitVars, coreVars, startVars, stopVars, mutVars
<1>31. ASSUME NEW m \in Mutators,
           BeginMutation(m) \/ LockShared(m) \/ Validate(m) \/ CommitCall(m)
             \/ ReleaseMutation(m)
     PROVE  StandInv'
  BY <1>1, <1>31, Zenon
  DEF BeginMutation, LockShared, Validate, CommitCall, ReleaseMutation, Unlease, HashesAfter,
      Applied, managerVars, runtimeVars, exitVars, coreVars, startVars, stopVars, mutVars
<1>32. ASSUME NEW m \in Mutators, NEW c \in Calls,
           CallCore(m, c)
     PROVE  StandInv'
  BY <1>1, <1>32, Zenon
  DEF CallCore, Applied, managerVars, runtimeVars, exitVars, coreVars, startVars, stopVars, mutVars
<1>33. CASE UNCHANGED vars
  BY <1>1, <1>33, Zenon DEF vars, managerVars, runtimeVars, exitVars, coreVars, startVars, stopVars, mutVars
<1> QED
  BY <1>1, <1>2, <1>3, <1>4, <1>5, <1>6, <1>7, <1>8, <1>9, <1>10, <1>11, <1>12, <1>13, <1>14, <1>15, <1>16, <1>17, <1>18, <1>19, <1>20, <1>21, <1>22, <1>23, <1>24, <1>25, <1>26, <1>27, <1>28, <1>29, <1>30, <1>31, <1>32, <1>33, Zenon
  DEF Next, StartStep, StopStep, TermStep, MonitorStep, MutationStep

\* stopped and running keep their promises.
LEMMA SettledInvNext ==
    ASSUME TypeManager, TypeRuntime, TypeProcesses, TypeStart, TypeStop, TypeMutations,
           MutexInv, StateInv, StandInv, SettledInv, LifeInv, OwnerInv,
           StartInv, StopInv, VerdictInv, LeaseInv, [Next]_vars
    PROVE  SettledInv'
<1>1. UNCHANGED <<state, process, pendingConfig, runtimeEpoch, hashes, os, finalized, monitor>> => SettledInv'
  BY Zenon DEF SettledInv, RuntimeClear, RuntimeLive, Unfinalized
<1>2. ASSUME NEW s \in Starters, NEW r \in PanelRequests, BeginStart(s, r) PROVE SettledInv'
  BY <1>2, Zenon
  DEF BeginStart, StartAdmitted, Goto, SettledInv, RuntimeClear, RuntimeLive, Unfinalized,
      TypeProcesses, runtimeVars, exitVars, coreVars, stopVars, mutVars
<1>3. ASSUME NEW s \in Starters, CompleteUnchanged(s) PROVE SettledInv'
  <2>1. Active(s) BY <1>3, Zenon DEF CompleteUnchanged, Active
  <2>2. CASE state' = state
    BY <2>1, <2>2, Unsettled, Zenon DEF SettledInv
  <2>3. CASE state' # state
    <3>1. state' = "running" /\ process' = process /\ monitor' = monitor
      BY <1>3, <2>3, Zenon DEF CompleteUnchanged, exitVars
    <3>2. process # NoProc /\ leader[process] = "unseen"
      BY <1>3, <2>3, BoundsAssumption, Zenon
      DEF CompleteUnchanged, LeaderUnavailable, StartInv, StartKnows, AfterSpawn, Procs, NoProc
    <3>3. RuntimeLive'
      BY <1>3, <2>3, <3>1, <3>2, Zenon
      DEF CompleteUnchanged, StartInv, StartKnows, HasPrevious, RuntimeLive, runtimeVars
    <3> QED BY <3>1, <3>2, <3>3, Watched, Zenon DEF SettledInv
  <2> QED BY <2>2, <2>3, Zenon
<1>4. ASSUME NEW s \in Starters, StagePendingConfig(s) PROVE SettledInv'
  <2>1. Active(s) /\ state' = state BY <1>4, Zenon DEF StagePendingConfig, Active, managerVars
  <2> QED BY <2>1, Unsettled, Zenon DEF SettledInv
<1>5. ASSUME NEW s \in Starters, StartProcess(s) PROVE SettledInv'
  <2>1. Active(s) /\ state' = state BY <1>5, Zenon DEF StartProcess, Active, managerVars
  <2> QED BY <2>1, Unsettled, Zenon DEF SettledInv
<1>6. ASSUME NEW s \in Starters, AssignProcess(s) PROVE SettledInv'
  <2>1. Active(s) /\ state' = state BY <1>6, Zenon DEF AssignProcess, Active, managerVars
  <2> QED BY <2>1, Unsettled, Zenon DEF SettledInv
<1>7. ASSUME NEW s \in Starters, RetainUncleanProcess(s) PROVE SettledInv'
  BY <1>7, Zenon
  DEF RetainUncleanProcess, Goto, SettledInv, RuntimeClear, RuntimeLive, Unfinalized, TypeProcesses,
      runtimeVars, exitVars, coreVars, stopVars, mutVars
<1>8. ASSUME NEW s \in Starters, CommitRunningStart(s) PROVE SettledInv'
  <2>1. Active(s) BY <1>8, Zenon DEF CommitRunningStart, Active
  <2>2. CASE state' = state
    BY <2>1, <2>2, Unsettled, Zenon DEF SettledInv
  <2>3. CASE state' # state
    <3>1. state' = "running" /\ process' = process /\ monitor' = monitor
      BY <1>8, <2>3, Zenon DEF CommitRunningStart, exitVars
    <3>2. process # NoProc /\ leader[process] = "unseen"
      <4>1. startPc[s] = "commit" /\ process = reserved[s] /\ ~LeaderUnavailable(reserved[s])
        BY <1>8, <2>3, Zenon DEF CommitRunningStart
      <4>2. reserved[s] \in Procs BY <4>1, Zenon DEF StartInv, StartKnows, AfterSpawn
      <4> QED BY <4>1, <4>2, BoundsAssumption DEF LeaderUnavailable, Procs, NoProc
    <3>3. RuntimeLive'
      BY <1>8, <2>3, <3>1, <3>2, Zenon
      DEF CommitRunningStart, StartInv, StartKnows, HasPrevious, RuntimeLive, runtimeVars
    <3> QED BY <3>1, <3>2, <3>3, Watched, Zenon DEF SettledInv
  <2> QED BY <2>2, <2>3, Zenon
<1>9. ASSUME NEW s \in Starters, CompleteStart(s) PROVE SettledInv'
  <2>1. Active(s) /\ Unfinalized' = Unfinalized
    BY <1>9, Zenon DEF CompleteStart, Active, Completing, Unfinalized, exitVars
  <2>2. CASE state' = state
    BY <2>1, <2>2, Unsettled, Zenon DEF SettledInv
  <2>3. CASE state' # state /\ state' = "stopped"
    <3>1. Owns(s) /\ startPc[s] \in {"failStopped", "failCleared", "failBare"}
      BY <1>9, <2>3, Zenon DEF CompleteStart, Completing
    <3>2. startPc[s] # "failBare" /\ Unfinalized = {} /\ (startPc[s] = "failCleared" => process = NoProc)
      BY <3>1, Zenon DEF StartInv, StartKnows
    <3> QED
      BY <1>9, <2>1, <2>3, <3>1, <3>2, Zenon DEF CompleteStart, ClearRuntime, RuntimeClear, SettledInv
  <2>4. CASE state' # state /\ state' # "stopped"
    BY <1>9, <2>4, Zenon DEF CompleteStart, SettledInv
  <2> QED BY <2>2, <2>3, <2>4, Zenon
<1>10. ASSUME NEW s \in Starters, RestorePreviousStart(s) PROVE SettledInv'
  <2>1. Active(s) /\ Unfinalized' = Unfinalized /\ monitor' = monitor
    BY <1>10, Zenon DEF RestorePreviousStart, Active, Unfinalized, exitVars
  <2>2. \A x \in Starters : startPc[x] \notin Unassigned
    BY <1>10, <2>1, StartAlone, Zenon DEF RestorePreviousStart, Active, Unassigned
  <2>3. process = previousProcess[s] /\
        IF previous[s] = "running" THEN RuntimeLive ELSE process = NoProc /\ RuntimeClear
    BY <1>10, Zenon DEF RestorePreviousStart, StartInv, StartKnows, HasPrevious
  <2>4. CASE state' = state
    BY <2>1, <2>4, Unsettled, Zenon DEF SettledInv
  <2>5. CASE state' # state /\ previous[s] # "running"
    <3>1. state' = "stopped" /\ process' = process /\ UNCHANGED runtimeVars
      BY <1>10, <2>5, Zenon DEF RestorePreviousStart, TypeStart
    <3>2. Unfinalized = {} BY <2>2, <2>3, <2>5, OwnedByManager, Zenon
    <3> QED BY <2>1, <2>3, <2>5, <3>1, <3>2, Zenon DEF SettledInv, RuntimeClear, runtimeVars
  <2>6. CASE state' # state /\ previous[s] = "running"
    <3>1. process # NoProc BY <2>3, <2>6, Zenon DEF RuntimeLive
    <3>2. CASE done[process]
      <4>1. Unfinalized = {}
        BY <2>2, <3>1, <3>2, OwnedByManager, ProcDomain, Zenon
        DEF LifeInv, ProcessLife, TypeManager
      <4> QED
        BY <1>10, <2>1, <2>3, <2>6, <3>1, <3>2, <4>1, Zenon
        DEF RestorePreviousStart, ClearRuntime, RuntimeClear, SettledInv
    <3>3. CASE ~done[process] /\ leader[process] # "unseen"
      BY <1>10, <2>3, <2>6, <3>1, <3>3, Zenon DEF RestorePreviousStart, SettledInv
    <3>4. CASE ~done[process] /\ leader[process] = "unseen"
      <4>1. state' = "running" /\ process' = process /\ UNCHANGED runtimeVars
        BY <1>10, <2>3, <2>6, <3>1, <3>4, Zenon DEF RestorePreviousStart
      <4> QED
        BY <2>1, <2>3, <2>6, <3>1, <3>4, <4>1, Watched, Zenon
        DEF SettledInv, RuntimeLive, runtimeVars
    <3> QED BY <3>2, <3>3, <3>4, Zenon
  <2> QED BY <2>4, <2>5, <2>6, Zenon
<1>11. ASSUME NEW t \in Stoppers, StopStarting(t) PROVE SettledInv'
  BY <1>11, Zenon
  DEF StopStarting, StopGoto, SettledInv, RuntimeClear, RuntimeLive, Unfinalized, TypeProcesses,
      runtimeVars, exitVars, coreVars, startVars, mutVars
<1>12. ASSUME NEW t \in Stoppers, StopSettled(t) PROVE SettledInv'
  BY <1>12, Zenon
  DEF StopSettled, StopGoto, SettledInv, RuntimeClear, RuntimeLive, Unfinalized, TypeProcesses,
      runtimeVars, exitVars, coreVars, startVars, mutVars
<1>13. ASSUME NEW t \in Stoppers, RetryFinalize(t) PROVE SettledInv'
  <2>1. Holding(t) /\ state' = state BY <1>13, Zenon DEF RetryFinalize, Holding, managerVars
  <2> QED BY <2>1, Unsettled, Zenon DEF SettledInv
<1>14. ASSUME NEW t \in Stoppers, FinishStop(t) PROVE SettledInv'
  <2>1. Holding(t) /\ Unfinalized' = Unfinalized
    BY <1>14, Zenon DEF FinishStop, WakeJoiners, Holding, Unfinalized, exitVars
  <2>2. \A x \in Starters : startPc[x] \notin Unassigned
    BY <2>1, StopAlone, Zenon DEF Active, Unassigned
  <2>3. CASE stopPc[t] = "publishStopped"
    <3>1. process = stopProcess[t] /\ (process # NoProc => finalized[process])
      BY <2>1, <2>3 DEF StopInv, StopKnows
    <3>2. Unfinalized = {} BY <2>2, <3>1, OwnedByManager, Zenon
    <3> QED
      BY <1>14, <2>1, <2>3, <3>1, <3>2, Zenon DEF FinishStop, WakeJoiners, ClearRuntime, RuntimeClear, SettledInv
  <2>4. CASE stopPc[t] = "publishUnstopped"
    BY <1>14, <2>4, Zenon DEF FinishStop, WakeJoiners, SettledInv
  <2> QED BY <1>14, <2>3, <2>4, Zenon DEF FinishStop, WakeJoiners
<1>15. ASSUME NEW p \in Procs, LoadConfig(p) PROVE SettledInv'
  BY <1>15, Zenon
  DEF LoadConfig, SettledInv, RuntimeClear, RuntimeLive, Unfinalized, TypeProcesses, managerVars,
      runtimeVars, startVars, stopVars, mutVars
<1>16. ASSUME NEW p \in Procs, CoreExits(p) PROVE SettledInv'
  BY <1>16, Zenon
  DEF CoreExits, SettledInv, RuntimeClear, RuntimeLive, Unfinalized, TypeProcesses, managerVars,
      runtimeVars, coreVars, startVars, stopVars, mutVars
<1>17. ASSUME NEW p \in Procs, ObservationFails(p) PROVE SettledInv'
  BY <1>17
  DEF ObservationFails, MonitorMoves, SettledInv, RuntimeClear, RuntimeLive, Unfinalized,
      TypeProcesses, managerVars, runtimeVars, coreVars, startVars, stopVars, mutVars
<1>18. ASSUME NEW p \in Procs, MarkLeaderWait(p) PROVE SettledInv'
  BY <1>18
  DEF MarkLeaderWait, MonitorMoves, SettledInv, RuntimeClear, RuntimeLive, Unfinalized,
      TypeProcesses, managerVars, runtimeVars, coreVars, startVars, stopVars, mutVars
<1>19. ASSUME NEW p \in Procs, FinalizeExited(p) PROVE SettledInv'
  <2>1. UNCHANGED <<state, process, pendingConfig, runtimeEpoch, hashes>>
    BY <1>19, Zenon DEF FinalizeExited, managerVars, runtimeVars
  <2>2. Unfinalized' \subseteq Unfinalized
    BY <1>19, Zenon DEF FinalizeExited, MonitorMoves, Unfinalized, TypeProcesses
  <2>3. process # NoProc /\ monitor[process] \notin {"none", "gone"} => monitor'[process] \notin {"none", "gone"}
    BY <1>19, ProcDomain, Zenon
    DEF FinalizeExited, MonitorMoves, TypeProcesses, TypeManager
  <2> QED BY <2>1, <2>2, <2>3, Zenon DEF SettledInv, RuntimeClear, RuntimeLive
<1>20. ASSUME NEW p \in Procs, CloseDone(p) PROVE SettledInv'
  BY <1>20
  DEF CloseDone, MonitorMoves, SettledInv, RuntimeClear, RuntimeLive, Unfinalized, TypeProcesses,
      managerVars, runtimeVars, coreVars, startVars, stopVars, mutVars
<1>21. ASSUME NEW p \in Procs, CloseMonitor(p) PROVE SettledInv'
  BY <1>21
  DEF CloseMonitor, MonitorMoves, SettledInv, RuntimeClear, RuntimeLive, Unfinalized, TypeProcesses,
      managerVars, runtimeVars, coreVars, startVars, stopVars, mutVars
<1>22. ASSUME NEW p \in Procs, ReadOutcome(p) PROVE SettledInv'
  BY <1>22
  DEF ReadOutcome, MonitorMoves, SettledInv, RuntimeClear, RuntimeLive, Unfinalized, TypeProcesses,
      managerVars, runtimeVars, coreVars, startVars, stopVars, mutVars
<1>23. ASSUME NEW p \in Procs, PublishExit(p) PROVE SettledInv'
  <2>1. Unfinalized' = Unfinalized
    BY <1>23, Zenon DEF PublishExit, ExitIsNews, MonitorMoves, Unfinalized
  <2>2. CASE process = p /\ (state = "running" \/ (state = "stopping" /\ stopOp = None))
    <3>1. CASE monitor[p] = "publishFinalized"
      <4>1. finalized[process] BY <2>2, <3>1, Zenon DEF LifeInv, ProcessLife
      <4>2. \A x \in Starters : startPc[x] \notin Unassigned
        BY <2>2, Unsettled, Zenon DEF Active, Unassigned
      <4>3. Unfinalized = {} BY <4>1, <4>2, OwnedByManager, Zenon
      <4> QED
        BY <1>23, <2>1, <2>2, <3>1, <4>3, Zenon
        DEF PublishExit, ExitIsNews, MonitorMoves, ClearRuntime, RuntimeClear, SettledInv
    <3>2. CASE monitor[p] # "publishFinalized"
      BY <1>23, <2>2, <3>2, Zenon DEF PublishExit, ExitIsNews, MonitorMoves, SettledInv
    <3> QED BY <3>1, <3>2, Zenon
  <2>3. CASE ~(process = p /\ (state = "running" \/ (state = "stopping" /\ stopOp = None)))
    <3>1. UNCHANGED <<state, process, pendingConfig, runtimeEpoch, hashes>>
      BY <1>23, <2>3, Zenon DEF PublishExit, ExitIsNews, runtimeVars
    <3>2. state = "running" => monitor'[process] = monitor[process]
      BY <1>23, <2>3 DEF PublishExit, ExitIsNews, MonitorMoves, TypeProcesses
    <3> QED BY <2>1, <3>1, <3>2, Zenon DEF SettledInv, RuntimeClear, RuntimeLive
  <2> QED BY <2>2, <2>3, Zenon
<1>24. ASSUME NEW m \in Mutators, CommitCall(m) PROVE SettledInv'
  BY <1>24, Zenon
  DEF CommitCall, HashesAfter, Applied, SettledInv, RuntimeClear, RuntimeLive, Unfinalized,
      TypeProcesses, managerVars, exitVars, coreVars, startVars, stopVars, LeaseInv
<1>25. ASSUME NEW s \in Starters,
           CancelRequest(s) \/ ReadPrevious(s) \/ LockPreviousGate(s) \/ ConsiderUnchanged(s)
             \/ ProbePrevious(s) \/ ReserveProcessIdentity(s) \/ Prepare(s) \/ Terminated(s)
             \/ RunPreStart(s) \/ AwaitReady(s) \/ StartFails(s) \/ ProbeVersion(s)
             \/ ReturnStart(s)
     PROVE  SettledInv'
  BY <1>1, <1>25, Zenon
  DEF CancelRequest, ReadPrevious, LockPreviousGate, ConsiderUnchanged, ProbePrevious,
      ReserveProcessIdentity, Prepare, Terminated, RunPreStart, AwaitReady, StartFails,
      ProbeVersion, ReturnStart, Goto, StartMoves, AdmitReaders, managerVars, runtimeVars, exitVars,
      coreVars, startVars, stopVars, mutVars
<1>26. ASSUME NEW t \in Stoppers,
           JoinStop(t) \/ CancelStart(t) \/ LockLifecycle(t) \/ ReadProcess(t)
             \/ LockGate(t) \/ StopCloseDone(t) \/ StopTerminates(t) \/ StopTerminated(t)
             \/ JudgeStop(t) \/ ReturnStop(t)
     PROVE  SettledInv'
  BY <1>1, <1>26, Zenon
  DEF JoinStop, CancelStart, LockLifecycle, ReadProcess, LockGate, StopCloseDone, StopTerminates,
      StopTerminated, JudgeStop, ReturnStop, StopGoto, AdmitReaders, managerVars, runtimeVars,
      exitVars, coreVars, startVars, stopVars, mutVars
<1>27. ASSUME NEW p \in ProcIds,
           TermEnter(p)
     PROVE  SettledInv'
  BY <1>1, <1>27, Zenon
  DEF TermEnter, TermMoves, managerVars, runtimeVars, exitVars, coreVars, startVars, stopVars,
      mutVars
<1>28. ASSUME NEW p \in Procs,
           Interrupt(p) \/ Kill(p) \/ AttemptEnds(p) \/ AttemptTimesOut(p)
     PROVE  SettledInv'
  BY <1>1, <1>28, Zenon
  DEF Interrupt, Kill, AttemptEnds, AttemptTimesOut, TermMoves, managerVars, runtimeVars, exitVars,
      coreVars, startVars, stopVars, mutVars
<1>29. ASSUME NEW m \in Mutators,
           BeginMutation(m) \/ LockShared(m) \/ Validate(m) \/ ReleaseMutation(m)
     PROVE  SettledInv'
  BY <1>1, <1>29, Zenon
  DEF BeginMutation, LockShared, Validate, ReleaseMutation, Unlease, managerVars, runtimeVars,
      exitVars, coreVars, startVars, stopVars, mutVars
<1>30. ASSUME NEW m \in Mutators, NEW c \in Calls,
           CallCore(m, c)
     PROVE  SettledInv'
  BY <1>1, <1>30, Zenon
  DEF CallCore, Applied, managerVars, runtimeVars, exitVars, coreVars, startVars, stopVars, mutVars
<1>31. CASE UNCHANGED vars
  BY <1>1, <1>31, Zenon DEF vars, managerVars, runtimeVars, exitVars, coreVars, startVars, stopVars, mutVars
<1> QED
  BY <1>1, <1>2, <1>3, <1>4, <1>5, <1>6, <1>7, <1>8, <1>9, <1>10, <1>11, <1>12, <1>13, <1>14, <1>15, <1>16, <1>17, <1>18, <1>19, <1>20, <1>21, <1>22, <1>23, <1>24, <1>25, <1>26, <1>27, <1>28, <1>29, <1>30, <1>31, Zenon
  DEF Next, StartStep, StopStep, TermStep, MonitorStep, MutationStep

\* Each process goes through its life in order.
LEMMA LifeInvNext ==
    ASSUME TypeManager, TypeRuntime, TypeProcesses, TypeStart, TypeStop, TypeMutations,
           MutexInv, StateInv, StandInv, SettledInv, LifeInv, OwnerInv,
           StartInv, StopInv, VerdictInv, LeaseInv, [Next]_vars
    PROVE  LifeInv'
<1>1. UNCHANGED <<os, monitor, nextProcessEpoch, leader, done, finalized>> => LifeInv'
  BY Zenon DEF LifeInv, ProcessLife
<1>2. ASSUME NEW s \in Starters, ReserveProcessIdentity(s) PROVE LifeInv'
  BY <1>2
  DEF ReserveProcessIdentity, Goto, LifeInv, ProcessLife, TypeProcesses, runtimeVars, exitVars,
      coreVars, stopVars, mutVars, TypeManager, Procs, ProcIds
<1>3. ASSUME NEW s \in Starters, StartProcess(s) PROVE LifeInv'
  <2>1. reserved[s] \in Procs /\ reserved[s] = nextProcessEpoch /\ os[reserved[s]] = "none"
    BY <1>3, Zenon DEF StartProcess, StartInv, StartKnows
  <2>2. ProcessLife(reserved[s]) BY <2>1, Zenon DEF LifeInv
  <2>3. ASSUME NEW q \in Procs PROVE ProcessLife(q)'
    <3>1. CASE q = reserved[s] /\ os' # os
      <4>1. UNCHANGED <<nextProcessEpoch, leader, finalized, done>>
        BY <1>3, Zenon DEF StartProcess, managerVars
      <4>2. os'[q] = "boot" /\ monitor'[q] = "wait"
        BY <1>3, <2>1, <3>1, Zenon DEF StartProcess, TypeProcesses
      <4>3. q <= nextProcessEpoch BY <2>1, <3>1 DEF TypeManager, ProcIds
      <4> QED BY <2>1, <2>2, <3>1, <4>1, <4>2, <4>3, Zenon DEF ProcessLife
    <3>2. CASE q # reserved[s]
      BY <1>3, <3>2, Zenon DEF StartProcess, LifeInv, ProcessLife, managerVars, TypeProcesses
    <3>3. CASE os' = os
      BY <1>3, <2>1, <3>3, Zenon DEF StartProcess, LifeInv, ProcessLife, managerVars, TypeProcesses
    <3> QED BY <3>1, <3>2, <3>3, Zenon
  <2> QED BY <2>3, Zenon DEF LifeInv
<1>4. ASSUME NEW t \in Stoppers, RetryFinalize(t) PROVE LifeInv'
  <2>1. stopProcess[t] \in Procs /\ leader[stopProcess[t]] = "observed"
    BY <1>4, ProcDomain, Zenon DEF RetryFinalize, RetriesFinalize, TypeStop
  <2>2. ASSUME NEW q \in Procs PROVE ProcessLife(q)'
    BY <1>4, <2>1, ZenonT(60)
    DEF RetryFinalize, LifeInv, ProcessLife, managerVars, TypeProcesses
  <2> QED BY <2>2, Zenon DEF LifeInv
<1>5. ASSUME NEW t \in Stoppers, StopCloseDone(t) PROVE LifeInv'
  BY <1>5, BoundsAssumption
  DEF StopCloseDone, StopGoto, LifeInv, ProcessLife, TypeProcesses, managerVars, runtimeVars,
      coreVars, startVars, mutVars, StopInv, StopKnows, Procs, NoProc
<1>6. ASSUME NEW p \in Procs, LoadConfig(p) PROVE LifeInv'
  BY <1>6, Zenon
  DEF LoadConfig, LifeInv, ProcessLife, TypeProcesses, managerVars, runtimeVars, startVars,
      stopVars, mutVars
<1>7. ASSUME NEW p \in Procs, CoreExits(p) PROVE LifeInv'
  BY <1>7, Zenon
  DEF CoreExits, LifeInv, ProcessLife, TypeProcesses, managerVars, runtimeVars, coreVars, startVars,
      stopVars, mutVars
<1>8. ASSUME NEW p \in Procs, ObservationFails(p) PROVE LifeInv'
  BY <1>8, Zenon
  DEF ObservationFails, MonitorMoves, LifeInv, ProcessLife, TypeProcesses, managerVars, runtimeVars,
      coreVars, startVars, stopVars, mutVars
<1>9. ASSUME NEW p \in Procs, MarkLeaderWait(p) PROVE LifeInv'
  BY <1>9, Zenon
  DEF MarkLeaderWait, MonitorMoves, LifeInv, ProcessLife, TypeProcesses, managerVars, runtimeVars,
      coreVars, startVars, stopVars, mutVars
<1>10. ASSUME NEW p \in Procs, FinalizeExited(p) PROVE LifeInv'
  <2>1. ASSUME NEW q \in Procs PROVE ProcessLife(q)'
    BY <1>10, Zenon
    DEF FinalizeExited, MonitorMoves, LifeInv, ProcessLife, managerVars, TypeProcesses
  <2> QED BY <2>1, Zenon DEF LifeInv
<1>11. ASSUME NEW p \in Procs, CloseDone(p) PROVE LifeInv'
  BY <1>11, Zenon
  DEF CloseDone, MonitorMoves, LifeInv, ProcessLife, TypeProcesses, managerVars, runtimeVars,
      coreVars, startVars, stopVars, mutVars
<1>12. ASSUME NEW p \in Procs, CloseMonitor(p) PROVE LifeInv'
  BY <1>12, Zenon
  DEF CloseMonitor, MonitorMoves, LifeInv, ProcessLife, TypeProcesses, managerVars, runtimeVars,
      coreVars, startVars, stopVars, mutVars
<1>13. ASSUME NEW p \in Procs, ReadOutcome(p) PROVE LifeInv'
  BY <1>13, Zenon
  DEF ReadOutcome, MonitorMoves, LifeInv, ProcessLife, TypeProcesses, managerVars, runtimeVars,
      coreVars, startVars, stopVars, mutVars
<1>14. ASSUME NEW p \in Procs, PublishExit(p) PROVE LifeInv'
  BY <1>14, Zenon
  DEF PublishExit, ExitIsNews, MonitorMoves, ClearRuntime, LifeInv, ProcessLife, TypeProcesses,
      runtimeVars, coreVars, startVars, stopVars, mutVars
<1>15. ASSUME NEW s \in Starters, NEW r \in PanelRequests,
           BeginStart(s, r)
     PROVE  LifeInv'
  BY <1>1, <1>15, Zenon
  DEF BeginStart, StartAdmitted, Goto, managerVars, runtimeVars, exitVars, coreVars, startVars,
      stopVars, mutVars
<1>16. ASSUME NEW s \in Starters,
           CancelRequest(s) \/ ReadPrevious(s) \/ LockPreviousGate(s) \/ ConsiderUnchanged(s)
             \/ ProbePrevious(s) \/ CompleteUnchanged(s) \/ Prepare(s) \/ Terminated(s)
             \/ RunPreStart(s) \/ StagePendingConfig(s) \/ AssignProcess(s) \/ RetainUncleanProcess(s)
             \/ AwaitReady(s) \/ StartFails(s) \/ ProbeVersion(s) \/ CommitRunningStart(s)
             \/ CompleteStart(s) \/ RestorePreviousStart(s) \/ ReturnStart(s)
     PROVE  LifeInv'
  BY <1>1, <1>16, Zenon
  DEF CancelRequest, ReadPrevious, LockPreviousGate, ConsiderUnchanged, ProbePrevious,
      CompleteUnchanged, Prepare, Terminated, RunPreStart, StagePendingConfig, AssignProcess,
      RetainUncleanProcess, AwaitReady, StartFails, ProbeVersion, CommitRunningStart, CompleteStart,
      RestorePreviousStart, ReturnStart, Goto, StartMoves, AdmitReaders, ClearRuntime, managerVars,
      runtimeVars, exitVars, coreVars, startVars, stopVars, mutVars
<1>17. ASSUME NEW t \in Stoppers,
           JoinStop(t) \/ StopStarting(t) \/ StopSettled(t) \/ CancelStart(t)
             \/ LockLifecycle(t) \/ ReadProcess(t) \/ LockGate(t) \/ StopTerminates(t)
             \/ StopTerminated(t) \/ JudgeStop(t) \/ FinishStop(t) \/ ReturnStop(t)
     PROVE  LifeInv'
  BY <1>1, <1>17, Zenon
  DEF JoinStop, StopStarting, StopSettled, CancelStart, LockLifecycle, ReadProcess, LockGate,
      StopTerminates, StopTerminated, JudgeStop, FinishStop, ReturnStop, StopGoto, WakeJoiners,
      ClearRuntime, AdmitReaders, managerVars, runtimeVars, exitVars, coreVars, startVars, stopVars,
      mutVars
<1>18. ASSUME NEW p \in ProcIds,
           TermEnter(p)
     PROVE  LifeInv'
  BY <1>1, <1>18, Zenon
  DEF TermEnter, TermMoves, managerVars, runtimeVars, exitVars, coreVars, startVars, stopVars,
      mutVars
<1>19. ASSUME NEW p \in Procs,
           Interrupt(p) \/ Kill(p) \/ AttemptEnds(p) \/ AttemptTimesOut(p)
     PROVE  LifeInv'
  BY <1>1, <1>19, Zenon
  DEF Interrupt, Kill, AttemptEnds, AttemptTimesOut, TermMoves, managerVars, runtimeVars, exitVars,
      coreVars, startVars, stopVars, mutVars
<1>20. ASSUME NEW m \in Mutators,
           BeginMutation(m) \/ LockShared(m) \/ Validate(m) \/ CommitCall(m)
             \/ ReleaseMutation(m)
     PROVE  LifeInv'
  BY <1>1, <1>20, Zenon
  DEF BeginMutation, LockShared, Validate, CommitCall, ReleaseMutation, Unlease, HashesAfter,
      Applied, managerVars, runtimeVars, exitVars, coreVars, startVars, stopVars, mutVars
<1>21. ASSUME NEW m \in Mutators, NEW c \in Calls,
           CallCore(m, c)
     PROVE  LifeInv'
  BY <1>1, <1>21, Zenon
  DEF CallCore, Applied, managerVars, runtimeVars, exitVars, coreVars, startVars, stopVars, mutVars
<1>22. CASE UNCHANGED vars
  BY <1>1, <1>22, Zenon DEF vars, managerVars, runtimeVars, exitVars, coreVars, startVars, stopVars, mutVars
<1> QED
  BY <1>1, <1>2, <1>3, <1>4, <1>5, <1>6, <1>7, <1>8, <1>9, <1>10, <1>11, <1>12, <1>13, <1>14, <1>15, <1>16, <1>17, <1>18, <1>19, <1>20, <1>21, <1>22, Zenon
  DEF Next, StartStep, StopStep, TermStep, MonitorStep, MutationStep

\* A step of a Start that does not begin a termination keeps the verdict.
LEMMA StartKeepsVerdict ==
    ASSUME VerdictInv, UNCHANGED <<term, stopPc, stopProcess, finalized>>,
           \A x \in Starters :
               \/ startPc'[x] \notin {"termPrevious", "termUnassigned", "termFailed"}
               \/ /\ startPc'[x] = startPc[x]
                  /\ previousProcess'[x] = previousProcess[x] /\ reserved'[x] = reserved[x]
    PROVE  VerdictInv'
BY ZenonT(60) DEF VerdictInv, Terminating

\* So does a step of a Stop; it may finalize a process, never the reverse.
LEMMA StopKeepsVerdict ==
    ASSUME VerdictInv, UNCHANGED <<term, startPc, previousProcess, reserved>>,
           \A p \in Procs : finalized[p] => finalized'[p],
           \A u \in Stoppers : \/ stopPc'[u] # "term"
                               \/ stopPc'[u] = stopPc[u] /\ stopProcess'[u] = stopProcess[u]
    PROVE  VerdictInv'
BY Zenon DEF VerdictInv, Terminating

\* terminateProcess answers nil only when the process is finalized.
LEMMA VerdictInvNext ==
    ASSUME TypeManager, TypeRuntime, TypeProcesses, TypeStart, TypeStop, TypeMutations,
           MutexInv, StateInv, StandInv, SettledInv, LifeInv, OwnerInv,
           StartInv, StopInv, VerdictInv, LeaseInv, [Next]_vars
    PROVE  VerdictInv'
<1>1. UNCHANGED <<term, startPc, stopPc, previousProcess, reserved, stopProcess, finalized>> => VerdictInv'
  BY ZenonT(60) DEF VerdictInv, Terminating
<1>2. ASSUME NEW s \in Starters, NEW r \in PanelRequests, BeginStart(s, r) PROVE VerdictInv'
  <2>1. UNCHANGED <<term, stopPc, stopProcess, finalized>>
    BY <1>2, Zenon DEF BeginStart, exitVars, stopVars
  <2>2. \A x \in Starters :
          \/ startPc'[x] \notin {"termPrevious", "termUnassigned", "termFailed"}
          \/ /\ startPc'[x] = startPc[x]
             /\ previousProcess'[x] = previousProcess[x] /\ reserved'[x] = reserved[x]
    BY <1>2, Zenon DEF BeginStart, Goto, TypeStart
  <2> QED BY <2>1, <2>2, StartKeepsVerdict, Zenon
<1>3. ASSUME NEW s \in Starters, ReadPrevious(s) PROVE VerdictInv'
  <2>1. UNCHANGED <<term, stopPc, stopProcess, finalized>>
    BY <1>3, Zenon DEF ReadPrevious, exitVars, stopVars
  <2>2. \A x \in Starters :
          \/ startPc'[x] \notin {"termPrevious", "termUnassigned", "termFailed"}
          \/ /\ startPc'[x] = startPc[x]
             /\ previousProcess'[x] = previousProcess[x] /\ reserved'[x] = reserved[x]
    BY <1>3, Zenon DEF ReadPrevious, Goto, TypeStart
  <2> QED BY <2>1, <2>2, StartKeepsVerdict, Zenon
<1>4. ASSUME NEW s \in Starters, LockPreviousGate(s) PROVE VerdictInv'
  <2>1. UNCHANGED <<term, stopPc, stopProcess, finalized>>
    BY <1>4, Zenon DEF LockPreviousGate, exitVars, stopVars
  <2>2. \A x \in Starters :
          \/ startPc'[x] \notin {"termPrevious", "termUnassigned", "termFailed"}
          \/ /\ startPc'[x] = startPc[x]
             /\ previousProcess'[x] = previousProcess[x] /\ reserved'[x] = reserved[x]
    BY <1>4, Zenon DEF LockPreviousGate, Goto, TypeStart
  <2> QED BY <2>1, <2>2, StartKeepsVerdict, Zenon
<1>5. ASSUME NEW s \in Starters, ConsiderUnchanged(s) PROVE VerdictInv'
  <2>1. UNCHANGED <<term, stopPc, stopProcess, finalized>>
    BY <1>5, Zenon DEF ConsiderUnchanged, StartMoves, exitVars, stopVars
  <2>2. \A x \in Starters :
          \/ startPc'[x] \notin {"termPrevious", "termUnassigned", "termFailed"}
          \/ /\ startPc'[x] = startPc[x]
             /\ previousProcess'[x] = previousProcess[x] /\ reserved'[x] = reserved[x]
    BY <1>5, Zenon DEF ConsiderUnchanged, StartMoves, Goto, TypeStart
  <2> QED BY <2>1, <2>2, StartKeepsVerdict, Zenon
<1>6. ASSUME NEW s \in Starters, ProbePrevious(s) PROVE VerdictInv'
  <2>1. UNCHANGED <<term, stopPc, stopProcess, finalized>>
    BY <1>6, Zenon DEF ProbePrevious, StartMoves, exitVars, stopVars
  <2>2. \A x \in Starters :
          \/ startPc'[x] \notin {"termPrevious", "termUnassigned", "termFailed"}
          \/ /\ startPc'[x] = startPc[x]
             /\ previousProcess'[x] = previousProcess[x] /\ reserved'[x] = reserved[x]
    BY <1>6, Zenon DEF ProbePrevious, StartMoves, Goto, TypeStart
  <2> QED BY <2>1, <2>2, StartKeepsVerdict, Zenon
<1>7. ASSUME NEW s \in Starters, CompleteUnchanged(s) PROVE VerdictInv'
  <2>1. UNCHANGED <<term, stopPc, stopProcess, finalized>>
    BY <1>7, Zenon DEF CompleteUnchanged, exitVars, stopVars
  <2>2. \A x \in Starters :
          \/ startPc'[x] \notin {"termPrevious", "termUnassigned", "termFailed"}
          \/ /\ startPc'[x] = startPc[x]
             /\ previousProcess'[x] = previousProcess[x] /\ reserved'[x] = reserved[x]
    BY <1>7, Zenon DEF CompleteUnchanged, Goto, TypeStart
  <2> QED BY <2>1, <2>2, StartKeepsVerdict, Zenon
<1>8. ASSUME NEW s \in Starters, ReserveProcessIdentity(s) PROVE VerdictInv'
  <2>1. UNCHANGED <<term, stopPc, stopProcess, finalized>>
    BY <1>8, Zenon DEF ReserveProcessIdentity, exitVars, stopVars
  <2>2. \A x \in Starters :
          \/ startPc'[x] \notin {"termPrevious", "termUnassigned", "termFailed"}
          \/ /\ startPc'[x] = startPc[x]
             /\ previousProcess'[x] = previousProcess[x] /\ reserved'[x] = reserved[x]
    BY <1>8, Zenon DEF ReserveProcessIdentity, Goto, TypeStart
  <2> QED BY <2>1, <2>2, StartKeepsVerdict, Zenon
<1>9. ASSUME NEW s \in Starters, Prepare(s) PROVE VerdictInv'
  <2>1. CASE term' = "enter" BY <2>1, Zenon DEF VerdictInv
  <2>2. CASE term' # "enter"
    <3>1. UNCHANGED <<term, stopPc, stopProcess, finalized>>
      BY <1>9, <2>2, Zenon DEF Prepare, exitVars, stopVars
    <3>2. \A x \in Starters :
            \/ startPc'[x] \notin {"termPrevious", "termUnassigned", "termFailed"}
            \/ /\ startPc'[x] = startPc[x]
               /\ previousProcess'[x] = previousProcess[x] /\ reserved'[x] = reserved[x]
      BY <1>9, <2>2, Zenon DEF Prepare, Goto, TypeStart
    <3> QED BY <3>1, <3>2, StartKeepsVerdict, Zenon
  <2> QED BY <2>1, <2>2, Zenon
<1>10. ASSUME NEW s \in Starters, Terminated(s) PROVE VerdictInv'
  BY <1>10, Zenon DEF Terminated, VerdictInv
<1>11. ASSUME NEW s \in Starters, RunPreStart(s) PROVE VerdictInv'
  <2>1. UNCHANGED <<term, stopPc, stopProcess, finalized>>
    BY <1>11, Zenon DEF RunPreStart, StartMoves, exitVars, stopVars
  <2>2. \A x \in Starters :
          \/ startPc'[x] \notin {"termPrevious", "termUnassigned", "termFailed"}
          \/ /\ startPc'[x] = startPc[x]
             /\ previousProcess'[x] = previousProcess[x] /\ reserved'[x] = reserved[x]
    BY <1>11, Zenon DEF RunPreStart, StartMoves, Goto, TypeStart
  <2> QED BY <2>1, <2>2, StartKeepsVerdict, Zenon
<1>12. ASSUME NEW s \in Starters, StagePendingConfig(s) PROVE VerdictInv'
  <2>1. UNCHANGED <<term, stopPc, stopProcess, finalized>>
    BY <1>12, Zenon DEF StagePendingConfig, exitVars, stopVars
  <2>2. \A x \in Starters :
          \/ startPc'[x] \notin {"termPrevious", "termUnassigned", "termFailed"}
          \/ /\ startPc'[x] = startPc[x]
             /\ previousProcess'[x] = previousProcess[x] /\ reserved'[x] = reserved[x]
    BY <1>12, Zenon DEF StagePendingConfig, Goto, TypeStart
  <2> QED BY <2>1, <2>2, StartKeepsVerdict, Zenon
<1>13. ASSUME NEW s \in Starters, StartProcess(s) PROVE VerdictInv'
  <2>1. UNCHANGED <<term, stopPc, stopProcess, finalized>>
    BY <1>13, Zenon DEF StartProcess, exitVars, stopVars
  <2>2. \A x \in Starters :
          \/ startPc'[x] \notin {"termPrevious", "termUnassigned", "termFailed"}
          \/ /\ startPc'[x] = startPc[x]
             /\ previousProcess'[x] = previousProcess[x] /\ reserved'[x] = reserved[x]
    BY <1>13, Zenon DEF StartProcess, Goto, TypeStart
  <2> QED BY <2>1, <2>2, StartKeepsVerdict, Zenon
<1>14. ASSUME NEW s \in Starters, AssignProcess(s) PROVE VerdictInv'
  <2>1. CASE term' = "enter" BY <2>1, Zenon DEF VerdictInv
  <2>2. CASE term' # "enter"
    <3>1. UNCHANGED <<term, stopPc, stopProcess, finalized>>
      BY <1>14, <2>2, Zenon DEF AssignProcess, exitVars, stopVars
    <3>2. \A x \in Starters :
            \/ startPc'[x] \notin {"termPrevious", "termUnassigned", "termFailed"}
            \/ /\ startPc'[x] = startPc[x]
               /\ previousProcess'[x] = previousProcess[x] /\ reserved'[x] = reserved[x]
      BY <1>14, <2>2, Zenon DEF AssignProcess, Goto, TypeStart
    <3> QED BY <3>1, <3>2, StartKeepsVerdict, Zenon
  <2> QED BY <2>1, <2>2, Zenon
<1>15. ASSUME NEW s \in Starters, RetainUncleanProcess(s) PROVE VerdictInv'
  <2>1. UNCHANGED <<term, stopPc, stopProcess, finalized>>
    BY <1>15, Zenon DEF RetainUncleanProcess, exitVars, stopVars
  <2>2. \A x \in Starters :
          \/ startPc'[x] \notin {"termPrevious", "termUnassigned", "termFailed"}
          \/ /\ startPc'[x] = startPc[x]
             /\ previousProcess'[x] = previousProcess[x] /\ reserved'[x] = reserved[x]
    BY <1>15, Zenon DEF RetainUncleanProcess, Goto, TypeStart
  <2> QED BY <2>1, <2>2, StartKeepsVerdict, Zenon
<1>16. ASSUME NEW s \in Starters, AwaitReady(s) PROVE VerdictInv'
  <2>1. UNCHANGED <<term, stopPc, stopProcess, finalized>>
    BY <1>16, Zenon DEF AwaitReady, StartMoves, exitVars, stopVars
  <2>2. \A x \in Starters :
          \/ startPc'[x] \notin {"termPrevious", "termUnassigned", "termFailed"}
          \/ /\ startPc'[x] = startPc[x]
             /\ previousProcess'[x] = previousProcess[x] /\ reserved'[x] = reserved[x]
    BY <1>16, Zenon DEF AwaitReady, StartMoves, Goto, TypeStart
  <2> QED BY <2>1, <2>2, StartKeepsVerdict, Zenon
<1>17. ASSUME NEW s \in Starters, StartFails(s) PROVE VerdictInv'
  BY <1>17, Zenon DEF StartFails, VerdictInv
<1>18. ASSUME NEW s \in Starters, ProbeVersion(s) PROVE VerdictInv'
  <2>1. UNCHANGED <<term, stopPc, stopProcess, finalized>>
    BY <1>18, Zenon DEF ProbeVersion, StartMoves, exitVars, stopVars
  <2>2. \A x \in Starters :
          \/ startPc'[x] \notin {"termPrevious", "termUnassigned", "termFailed"}
          \/ /\ startPc'[x] = startPc[x]
             /\ previousProcess'[x] = previousProcess[x] /\ reserved'[x] = reserved[x]
    BY <1>18, Zenon DEF ProbeVersion, StartMoves, Goto, TypeStart
  <2> QED BY <2>1, <2>2, StartKeepsVerdict, Zenon
<1>19. ASSUME NEW s \in Starters, CommitRunningStart(s) PROVE VerdictInv'
  <2>1. CASE term' = "enter" BY <2>1, Zenon DEF VerdictInv
  <2>2. CASE term' # "enter"
    <3>1. UNCHANGED <<term, stopPc, stopProcess, finalized>>
      BY <1>19, <2>2, Zenon DEF CommitRunningStart, exitVars, stopVars
    <3>2. \A x \in Starters :
            \/ startPc'[x] \notin {"termPrevious", "termUnassigned", "termFailed"}
            \/ /\ startPc'[x] = startPc[x]
               /\ previousProcess'[x] = previousProcess[x] /\ reserved'[x] = reserved[x]
      BY <1>19, <2>2, Zenon DEF CommitRunningStart, Goto, TypeStart
    <3> QED BY <3>1, <3>2, StartKeepsVerdict, Zenon
  <2> QED BY <2>1, <2>2, Zenon
<1>20. ASSUME NEW s \in Starters, CompleteStart(s) PROVE VerdictInv'
  <2>1. UNCHANGED <<term, stopPc, stopProcess, finalized>>
    BY <1>20, CompleteFrame, Zenon DEF exitVars, stopVars
  <2>2. \A x \in Starters :
          \/ startPc'[x] \notin {"termPrevious", "termUnassigned", "termFailed"}
          \/ /\ startPc'[x] = startPc[x]
             /\ previousProcess'[x] = previousProcess[x] /\ reserved'[x] = reserved[x]
    BY <1>20, CompleteFrame, Zenon DEF TypeStart
  <2> QED BY <2>1, <2>2, StartKeepsVerdict, Zenon
<1>21. ASSUME NEW s \in Starters, RestorePreviousStart(s) PROVE VerdictInv'
  <2>1. UNCHANGED <<term, stopPc, stopProcess, finalized>>
    BY <1>21, RestoreFrame, Zenon DEF exitVars, stopVars
  <2>2. \A x \in Starters :
          \/ startPc'[x] \notin {"termPrevious", "termUnassigned", "termFailed"}
          \/ /\ startPc'[x] = startPc[x]
             /\ previousProcess'[x] = previousProcess[x] /\ reserved'[x] = reserved[x]
    BY <1>21, RestoreFrame, Zenon DEF TypeStart
  <2> QED BY <2>1, <2>2, StartKeepsVerdict, Zenon
<1>22. ASSUME NEW s \in Starters, ReturnStart(s) PROVE VerdictInv'
  <2>1. UNCHANGED <<term, stopPc, stopProcess, finalized>>
    BY <1>22, ReturnFrame, Zenon DEF exitVars, stopVars
  <2>2. \A x \in Starters :
          \/ startPc'[x] \notin {"termPrevious", "termUnassigned", "termFailed"}
          \/ /\ startPc'[x] = startPc[x]
             /\ previousProcess'[x] = previousProcess[x] /\ reserved'[x] = reserved[x]
    BY <1>22, ReturnFrame, Zenon DEF TypeStart
  <2> QED BY <2>1, <2>2, StartKeepsVerdict, Zenon
<1>23. ASSUME NEW t \in Stoppers, JoinStop(t) PROVE VerdictInv'
  <2>1. UNCHANGED <<term, startPc, previousProcess, reserved>>
    BY <1>23, Zenon DEF JoinStop, startVars
  <2>2. \A p \in Procs : finalized[p] => finalized'[p]
    BY <1>23, Zenon DEF JoinStop, exitVars
  <2>3. \A u \in Stoppers : \/ stopPc'[u] # "term"
                            \/ stopPc'[u] = stopPc[u] /\ stopProcess'[u] = stopProcess[u]
    BY <1>23, Zenon DEF JoinStop, StopGoto, TypeStop
  <2> QED BY <2>1, <2>2, <2>3, StopKeepsVerdict, Zenon
<1>24. ASSUME NEW t \in Stoppers, StopStarting(t) PROVE VerdictInv'
  <2>1. UNCHANGED <<term, startPc, previousProcess, reserved>>
    BY <1>24, Zenon DEF StopStarting, startVars
  <2>2. \A p \in Procs : finalized[p] => finalized'[p]
    BY <1>24, Zenon DEF StopStarting, exitVars
  <2>3. \A u \in Stoppers : \/ stopPc'[u] # "term"
                            \/ stopPc'[u] = stopPc[u] /\ stopProcess'[u] = stopProcess[u]
    BY <1>24, Zenon DEF StopStarting, StopGoto, TypeStop
  <2> QED BY <2>1, <2>2, <2>3, StopKeepsVerdict, Zenon
<1>25. ASSUME NEW t \in Stoppers, StopSettled(t) PROVE VerdictInv'
  <2>1. UNCHANGED <<term, startPc, previousProcess, reserved>>
    BY <1>25, Zenon DEF StopSettled, startVars
  <2>2. \A p \in Procs : finalized[p] => finalized'[p]
    BY <1>25, Zenon DEF StopSettled, exitVars
  <2>3. \A u \in Stoppers : \/ stopPc'[u] # "term"
                            \/ stopPc'[u] = stopPc[u] /\ stopProcess'[u] = stopProcess[u]
    BY <1>25, Zenon DEF StopSettled, StopGoto, TypeStop
  <2> QED BY <2>1, <2>2, <2>3, StopKeepsVerdict, Zenon
<1>26. ASSUME NEW t \in Stoppers, CancelStart(t) PROVE VerdictInv'
  <2>1. UNCHANGED <<term, startPc, previousProcess, reserved>>
    BY <1>26, Zenon DEF CancelStart, startVars
  <2>2. \A p \in Procs : finalized[p] => finalized'[p]
    BY <1>26, Zenon DEF CancelStart, exitVars
  <2>3. \A u \in Stoppers : \/ stopPc'[u] # "term"
                            \/ stopPc'[u] = stopPc[u] /\ stopProcess'[u] = stopProcess[u]
    BY <1>26, Zenon DEF CancelStart, StopGoto, TypeStop
  <2> QED BY <2>1, <2>2, <2>3, StopKeepsVerdict, Zenon
<1>27. ASSUME NEW t \in Stoppers, LockLifecycle(t) PROVE VerdictInv'
  <2>1. UNCHANGED <<term, startPc, previousProcess, reserved>>
    BY <1>27, Zenon DEF LockLifecycle, startVars
  <2>2. \A p \in Procs : finalized[p] => finalized'[p]
    BY <1>27, Zenon DEF LockLifecycle, exitVars
  <2>3. \A u \in Stoppers : \/ stopPc'[u] # "term"
                            \/ stopPc'[u] = stopPc[u] /\ stopProcess'[u] = stopProcess[u]
    BY <1>27, Zenon DEF LockLifecycle, StopGoto, TypeStop
  <2> QED BY <2>1, <2>2, <2>3, StopKeepsVerdict, Zenon
<1>28. ASSUME NEW t \in Stoppers, ReadProcess(t) PROVE VerdictInv'
  <2>1. UNCHANGED <<term, startPc, previousProcess, reserved>>
    BY <1>28, Zenon DEF ReadProcess, startVars
  <2>2. \A p \in Procs : finalized[p] => finalized'[p]
    BY <1>28, Zenon DEF ReadProcess, exitVars
  <2>3. \A u \in Stoppers : \/ stopPc'[u] # "term"
                            \/ stopPc'[u] = stopPc[u] /\ stopProcess'[u] = stopProcess[u]
    BY <1>28, Zenon DEF ReadProcess, StopGoto, TypeStop
  <2> QED BY <2>1, <2>2, <2>3, StopKeepsVerdict, Zenon
<1>29. ASSUME NEW t \in Stoppers, LockGate(t) PROVE VerdictInv'
  <2>1. UNCHANGED <<term, startPc, previousProcess, reserved>>
    BY <1>29, Zenon DEF LockGate, startVars
  <2>2. \A p \in Procs : finalized[p] => finalized'[p]
    BY <1>29, Zenon DEF LockGate, exitVars
  <2>3. \A u \in Stoppers : \/ stopPc'[u] # "term"
                            \/ stopPc'[u] = stopPc[u] /\ stopProcess'[u] = stopProcess[u]
    BY <1>29, Zenon DEF LockGate, StopGoto, TypeStop
  <2> QED BY <2>1, <2>2, <2>3, StopKeepsVerdict, Zenon
<1>30. ASSUME NEW t \in Stoppers, RetryFinalize(t) PROVE VerdictInv'
  <2>1. UNCHANGED <<term, startPc, previousProcess, reserved>>
    BY <1>30, Zenon DEF RetryFinalize, startVars
  <2>2. \A p \in Procs : finalized[p] => finalized'[p]
    BY <1>30, Zenon DEF RetryFinalize, TypeProcesses
  <2>3. \A u \in Stoppers : \/ stopPc'[u] # "term"
                            \/ stopPc'[u] = stopPc[u] /\ stopProcess'[u] = stopProcess[u]
    BY <1>30, Zenon DEF RetryFinalize, StopGoto, TypeStop
  <2> QED BY <2>1, <2>2, <2>3, StopKeepsVerdict, Zenon
<1>31. ASSUME NEW t \in Stoppers, StopCloseDone(t) PROVE VerdictInv'
  <2>1. UNCHANGED <<term, startPc, previousProcess, reserved>>
    BY <1>31, Zenon DEF StopCloseDone, startVars
  <2>2. \A p \in Procs : finalized[p] => finalized'[p]
    BY <1>31, Zenon DEF StopCloseDone, exitVars
  <2>3. \A u \in Stoppers : \/ stopPc'[u] # "term"
                            \/ stopPc'[u] = stopPc[u] /\ stopProcess'[u] = stopProcess[u]
    BY <1>31, Zenon DEF StopCloseDone, StopGoto, TypeStop
  <2> QED BY <2>1, <2>2, <2>3, StopKeepsVerdict, Zenon
<1>32. ASSUME NEW t \in Stoppers, StopTerminates(t) PROVE VerdictInv'
  <2>1. CASE term' = "enter" BY <2>1, Zenon DEF VerdictInv
  <2>2. CASE term' # "enter"
    <3>1. UNCHANGED <<term, startPc, previousProcess, reserved, finalized>>
      BY <1>32, <2>2, Zenon DEF StopTerminates, startVars, exitVars
    <3>2. \A u \in Stoppers : \/ stopPc'[u] # "term"
                              \/ stopPc'[u] = stopPc[u] /\ stopProcess'[u] = stopProcess[u]
      BY <1>32, <2>2, Zenon DEF StopTerminates, StopGoto, TypeStop
    <3> QED BY <3>1, <3>2, StopKeepsVerdict, Zenon
  <2> QED BY <2>1, <2>2, Zenon
<1>33. ASSUME NEW t \in Stoppers, StopTerminated(t) PROVE VerdictInv'
  BY <1>33, Zenon DEF StopTerminated, VerdictInv
<1>34. ASSUME NEW t \in Stoppers, JudgeStop(t) PROVE VerdictInv'
  <2>1. UNCHANGED <<term, startPc, previousProcess, reserved>>
    BY <1>34, Zenon DEF JudgeStop, startVars
  <2>2. \A p \in Procs : finalized[p] => finalized'[p]
    BY <1>34, Zenon DEF JudgeStop, exitVars
  <2>3. \A u \in Stoppers : \/ stopPc'[u] # "term"
                            \/ stopPc'[u] = stopPc[u] /\ stopProcess'[u] = stopProcess[u]
    BY <1>34, Zenon DEF JudgeStop, StopGoto, TypeStop
  <2> QED BY <2>1, <2>2, <2>3, StopKeepsVerdict, Zenon
<1>35. ASSUME NEW t \in Stoppers, FinishStop(t) PROVE VerdictInv'
  <2>1. UNCHANGED <<term, startPc, previousProcess, reserved>>
    BY <1>35, Zenon DEF FinishStop, startVars
  <2>2. \A p \in Procs : finalized[p] => finalized'[p]
    BY <1>35, Zenon DEF FinishStop, exitVars
  <2>3. \A u \in Stoppers : \/ stopPc'[u] # "term"
                            \/ stopPc'[u] = stopPc[u] /\ stopProcess'[u] = stopProcess[u]
    BY <1>35, Zenon DEF FinishStop, WakeJoiners, TypeStop
  <2> QED BY <2>1, <2>2, <2>3, StopKeepsVerdict, Zenon
<1>36. ASSUME NEW t \in Stoppers, ReturnStop(t) PROVE VerdictInv'
  <2>1. UNCHANGED <<term, startPc, previousProcess, reserved>>
    BY <1>36, Zenon DEF ReturnStop, startVars
  <2>2. \A p \in Procs : finalized[p] => finalized'[p]
    BY <1>36, Zenon DEF ReturnStop, exitVars
  <2>3. \A u \in Stoppers : \/ stopPc'[u] # "term"
                            \/ stopPc'[u] = stopPc[u] /\ stopProcess'[u] = stopProcess[u]
    BY <1>36, Zenon DEF ReturnStop, StopGoto, TypeStop
  <2> QED BY <2>1, <2>2, <2>3, StopKeepsVerdict, Zenon
<1>37. ASSUME NEW p \in ProcIds, TermEnter(p) PROVE VerdictInv'
  <2>1. \A q : Terminating(q)' <=> Terminating(q)
    BY <1>37, Zenon DEF TermEnter, TermMoves, Terminating, startVars, stopVars
  <2>2. \A q : Terminating(q) => q = p
    BY <1>37, OneTerminating, Zenon DEF TermEnter, TermMoves
  <2>3. finalized' = finalized /\ (term' = "ok" => p = NoProc \/ finalized[p])
    BY <1>37, Zenon DEF TermEnter, TermMoves, exitVars
  <2> QED BY <2>1, <2>2, <2>3, BoundsAssumption DEF VerdictInv, Procs, NoProc
<1>38. ASSUME NEW p \in Procs, Interrupt(p) PROVE VerdictInv'
  BY <1>38, Zenon DEF Interrupt, TermMoves, VerdictInv
<1>39. ASSUME NEW p \in Procs, Kill(p) PROVE VerdictInv'
  BY <1>39, Zenon DEF Kill, TermMoves, VerdictInv
<1>40. ASSUME NEW p \in Procs, AttemptEnds(p) PROVE VerdictInv'
  <2>1. \A q : Terminating(q)' <=> Terminating(q)
    BY <1>40, Zenon DEF AttemptEnds, TermMoves, Terminating, startVars, stopVars
  <2>2. \A q : Terminating(q) => q = p
    BY <1>40, OneTerminating, Zenon DEF AttemptEnds, TermMoves
  <2>3. finalized' = finalized /\ (term' = "ok" => finalized[p])
    BY <1>40, Zenon DEF AttemptEnds, TermMoves, exitVars
  <2> QED BY <2>1, <2>2, <2>3, Zenon DEF VerdictInv
<1>41. ASSUME NEW p \in Procs, AttemptTimesOut(p) PROVE VerdictInv'
  BY <1>41, Zenon DEF AttemptTimesOut, TermMoves, VerdictInv
<1>42. ASSUME NEW p \in Procs, FinalizeExited(p) PROVE VerdictInv'
  <2>1. UNCHANGED <<term, startPc, stopPc, previousProcess, reserved, stopProcess>>
    BY <1>42, Zenon DEF FinalizeExited, MonitorMoves, startVars, stopVars
  <2>2. \A q \in Procs : finalized[q] => finalized'[q]
    BY <1>42, Zenon DEF FinalizeExited, TypeProcesses
  <2> QED BY <2>1, <2>2, StopKeepsVerdict, Zenon
<1>43. ASSUME NEW s \in Starters,
           CancelRequest(s)
     PROVE  VerdictInv'
  BY <1>1, <1>43, Zenon
  DEF CancelRequest, managerVars, runtimeVars, exitVars, coreVars, startVars, stopVars, mutVars
<1>44. ASSUME NEW p \in Procs,
           LoadConfig(p) \/ CoreExits(p) \/ ObservationFails(p) \/ MarkLeaderWait(p)
             \/ CloseDone(p) \/ CloseMonitor(p) \/ ReadOutcome(p) \/ PublishExit(p)
     PROVE  VerdictInv'
  BY <1>1, <1>44, Zenon
  DEF LoadConfig, CoreExits, ObservationFails, MarkLeaderWait, CloseDone, CloseMonitor, ReadOutcome,
      PublishExit, MonitorMoves, ExitIsNews, ClearRuntime, managerVars, runtimeVars, exitVars,
      coreVars, startVars, stopVars, mutVars
<1>45. ASSUME NEW m \in Mutators,
           BeginMutation(m) \/ LockShared(m) \/ Validate(m) \/ CommitCall(m)
             \/ ReleaseMutation(m)
     PROVE  VerdictInv'
  BY <1>1, <1>45, Zenon
  DEF BeginMutation, LockShared, Validate, CommitCall, ReleaseMutation, Unlease, HashesAfter,
      Applied, managerVars, runtimeVars, exitVars, coreVars, startVars, stopVars, mutVars
<1>46. ASSUME NEW m \in Mutators, NEW c \in Calls,
           CallCore(m, c)
     PROVE  VerdictInv'
  BY <1>1, <1>46, Zenon
  DEF CallCore, Applied, managerVars, runtimeVars, exitVars, coreVars, startVars, stopVars, mutVars
<1>47. CASE UNCHANGED vars
  BY <1>1, <1>47, Zenon DEF vars, managerVars, runtimeVars, exitVars, coreVars, startVars, stopVars, mutVars
<1> QED
  BY <1>1, <1>2, <1>3, <1>4, <1>5, <1>6, <1>7, <1>8, <1>9, <1>10, <1>11, <1>12, <1>13, <1>14, <1>15, <1>16, <1>17, <1>18, <1>19, <1>20, <1>21, <1>22, <1>23, <1>24, <1>25, <1>26, <1>27, <1>28, <1>29, <1>30, <1>31, <1>32, <1>33, <1>34, <1>35, <1>36, <1>37, <1>38, <1>39, <1>40, <1>41, <1>42, <1>43, <1>44, <1>45, <1>46, <1>47, Zenon
  DEF Next, StartStep, StopStep, TermStep, MonitorStep, MutationStep

\* A mutation's token names a process.
LEMMA LeaseInvNext ==
    ASSUME TypeManager, TypeRuntime, TypeProcesses, TypeStart, TypeStop, TypeMutations,
           MutexInv, StateInv, StandInv, SettledInv, LifeInv, OwnerInv,
           StartInv, StopInv, VerdictInv, LeaseInv, [Next]_vars
    PROVE  LeaseInv'
<1>1. UNCHANGED <<mutPc, mutProcess>> => LeaseInv'
  BY Zenon DEF LeaseInv
<1>2. ASSUME NEW s \in Starters, StagePendingConfig(s) PROVE LeaseInv'
  BY <1>2, Zenon
  DEF StagePendingConfig, Goto, AdmitReaders, LeaseInv, TypeMutations, runtimeVars, exitVars,
      coreVars, stopVars
<1>3. ASSUME NEW s \in Starters, ReturnStart(s) PROVE LeaseInv'
  BY <1>3, Zenon
  DEF ReturnStart, Goto, AdmitReaders, LeaseInv, TypeMutations, managerVars, runtimeVars, exitVars,
      coreVars, stopVars
<1>4. ASSUME NEW t \in Stoppers, ReturnStop(t) PROVE LeaseInv'
  BY <1>4, Zenon
  DEF ReturnStop, StopGoto, AdmitReaders, LeaseInv, TypeMutations, managerVars, runtimeVars,
      exitVars, coreVars, startVars
<1>5. ASSUME NEW m \in Mutators, BeginMutation(m) PROVE LeaseInv'
  BY <1>5, Zenon
  DEF BeginMutation, LeaseInv, TypeMutations, managerVars, runtimeVars, exitVars, coreVars,
      startVars, stopVars
<1>6. ASSUME NEW m \in Mutators, LockShared(m) PROVE LeaseInv'
  BY <1>6, Zenon
  DEF LockShared, LeaseInv, TypeMutations, managerVars, runtimeVars, exitVars, coreVars, startVars,
      stopVars
<1>7. ASSUME NEW m \in Mutators, Validate(m) PROVE LeaseInv'
  BY <1>7, Zenon
  DEF Validate, Unlease, LeaseInv, TypeMutations, managerVars, runtimeVars, exitVars, coreVars,
      startVars, stopVars
<1>8. ASSUME NEW m \in Mutators, NEW c \in Calls, CallCore(m, c) PROVE LeaseInv'
  BY <1>8, Zenon
  DEF CallCore, Applied, LeaseInv, TypeMutations, managerVars, runtimeVars, exitVars, startVars,
      stopVars
<1>9. ASSUME NEW m \in Mutators, CommitCall(m) PROVE LeaseInv'
  BY <1>9, Zenon
  DEF CommitCall, HashesAfter, Applied, LeaseInv, TypeMutations, managerVars, exitVars, coreVars,
      startVars, stopVars
<1>10. ASSUME NEW m \in Mutators, ReleaseMutation(m) PROVE LeaseInv'
  BY <1>10, Zenon
  DEF ReleaseMutation, Unlease, LeaseInv, TypeMutations, managerVars, runtimeVars, exitVars,
      coreVars, startVars, stopVars
<1>11. ASSUME NEW s \in Starters, NEW r \in PanelRequests,
           BeginStart(s, r)
     PROVE  LeaseInv'
  BY <1>1, <1>11, Zenon
  DEF BeginStart, StartAdmitted, Goto, managerVars, runtimeVars, exitVars, coreVars, startVars,
      stopVars, mutVars
<1>12. ASSUME NEW s \in Starters,
           CancelRequest(s) \/ ReadPrevious(s) \/ LockPreviousGate(s) \/ ConsiderUnchanged(s)
             \/ ProbePrevious(s) \/ CompleteUnchanged(s) \/ ReserveProcessIdentity(s) \/ Prepare(s)
             \/ Terminated(s) \/ RunPreStart(s) \/ StartProcess(s) \/ AssignProcess(s)
             \/ RetainUncleanProcess(s) \/ AwaitReady(s) \/ StartFails(s) \/ ProbeVersion(s)
             \/ CommitRunningStart(s) \/ CompleteStart(s) \/ RestorePreviousStart(s)
     PROVE  LeaseInv'
  BY <1>1, <1>12, Zenon
  DEF CancelRequest, ReadPrevious, LockPreviousGate, ConsiderUnchanged, ProbePrevious,
      CompleteUnchanged, ReserveProcessIdentity, Prepare, Terminated, RunPreStart, StartProcess,
      AssignProcess, RetainUncleanProcess, AwaitReady, StartFails, ProbeVersion, CommitRunningStart,
      CompleteStart, RestorePreviousStart, Goto, StartMoves, ClearRuntime, managerVars, runtimeVars,
      exitVars, coreVars, startVars, stopVars, mutVars
<1>13. ASSUME NEW t \in Stoppers,
           JoinStop(t) \/ StopStarting(t) \/ StopSettled(t) \/ CancelStart(t)
             \/ LockLifecycle(t) \/ ReadProcess(t) \/ LockGate(t) \/ RetryFinalize(t)
             \/ StopCloseDone(t) \/ StopTerminates(t) \/ StopTerminated(t) \/ JudgeStop(t)
             \/ FinishStop(t)
     PROVE  LeaseInv'
  BY <1>1, <1>13, Zenon
  DEF JoinStop, StopStarting, StopSettled, CancelStart, LockLifecycle, ReadProcess, LockGate,
      RetryFinalize, StopCloseDone, StopTerminates, StopTerminated, JudgeStop, FinishStop, StopGoto,
      WakeJoiners, ClearRuntime, managerVars, runtimeVars, exitVars, coreVars, startVars, stopVars,
      mutVars
<1>14. ASSUME NEW p \in ProcIds,
           TermEnter(p)
     PROVE  LeaseInv'
  BY <1>1, <1>14, Zenon
  DEF TermEnter, TermMoves, managerVars, runtimeVars, exitVars, coreVars, startVars, stopVars,
      mutVars
<1>15. ASSUME NEW p \in Procs,
           Interrupt(p) \/ Kill(p) \/ AttemptEnds(p) \/ AttemptTimesOut(p)
             \/ LoadConfig(p) \/ CoreExits(p) \/ ObservationFails(p) \/ MarkLeaderWait(p)
             \/ FinalizeExited(p) \/ CloseDone(p) \/ CloseMonitor(p) \/ ReadOutcome(p)
             \/ PublishExit(p)
     PROVE  LeaseInv'
  BY <1>1, <1>15, Zenon
  DEF Interrupt, Kill, AttemptEnds, AttemptTimesOut, LoadConfig, CoreExits, ObservationFails,
      MarkLeaderWait, FinalizeExited, CloseDone, CloseMonitor, ReadOutcome, PublishExit, TermMoves,
      MonitorMoves, ExitIsNews, ClearRuntime, managerVars, runtimeVars, exitVars, coreVars,
      startVars, stopVars, mutVars
<1>16. CASE UNCHANGED vars
  BY <1>1, <1>16, Zenon DEF vars, managerVars, runtimeVars, exitVars, coreVars, startVars, stopVars, mutVars
<1> QED
  BY <1>1, <1>2, <1>3, <1>4, <1>5, <1>6, <1>7, <1>8, <1>9, <1>10, <1>11, <1>12, <1>13, <1>14, <1>15, <1>16, Zenon
  DEF Next, StartStep, StopStep, TermStep, MonitorStep, MutationStep

=============================================================================
