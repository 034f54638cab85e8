------------------------- MODULE XrayLifecycleProofs -------------------------
(***************************************************************************)
(* The inductive invariant of XrayLifecycle and the safety properties that *)
(* follow from it, for any number of callers, users, processes and epochs. *)
(*                                                                         *)
(* SingleCore and NoOrphan are far from inductive: that Start may spawn    *)
(* rests on the verdict of terminateProcess for the previous process       *)
(* (VerdictInv), on that process still being Manager's (StartInv), on no   *)
(* other caller having moved it meanwhile (MutexInv, StandInv), and on who *)
(* owns a process between its spawn and its assignment (OwnerInv).         *)
(***************************************************************************)
EXTENDS XrayStateProofs

\* A process that may be alive always has an owner.
LEMMA OwnerInvNext ==
    ASSUME TypeManager, TypeRuntime, TypeProcesses, TypeStart, TypeStop, TypeMutations,
           MutexInv, StateInv, StandInv, SettledInv, LifeInv, OwnerInv,
           StartInv, StopInv, VerdictInv, LeaseInv, [Next]_vars
    PROVE  OwnerInv'
<1>1. UNCHANGED <<process, os, finalized, reserved, startPc>> => OwnerInv'
  BY Zenon DEF OwnerInv, Owned, Unfinalized
<1>2. ASSUME NEW s \in Starters, NEW r \in PanelRequests, BeginStart(s, r) PROVE OwnerInv'
  BY <1>2, Zenon
  DEF BeginStart, StartAdmitted, Goto, OwnerInv, Owned, Unfinalized, Unassigned, TypeStart,
      runtimeVars, exitVars, coreVars, stopVars, mutVars
<1>3. ASSUME NEW s \in Starters, ReadPrevious(s) PROVE OwnerInv'
  BY <1>3, Zenon
  DEF ReadPrevious, Goto, OwnerInv, Owned, Unfinalized, Unassigned, TypeStart, managerVars,
      runtimeVars, exitVars, coreVars, stopVars, mutVars
<1>4. ASSUME NEW s \in Starters, LockPreviousGate(s) PROVE OwnerInv'
  BY <1>4, Zenon
  DEF LockPreviousGate, Goto, OwnerInv, Owned, Unfinalized, Unassigned, TypeStart, managerVars,
      runtimeVars, exitVars, coreVars, stopVars, mutVars
<1>5. ASSUME NEW s \in Starters, ConsiderUnchanged(s) PROVE OwnerInv'
  BY <1>5, Zenon
  DEF ConsiderUnchanged, StartMoves, Goto, OwnerInv, Owned, Unfinalized, Unassigned, TypeStart,
      managerVars, runtimeVars, exitVars, coreVars, stopVars, mutVars
<1>6. ASSUME NEW s \in Starters, ProbePrevious(s) PROVE OwnerInv'
  BY <1>6
  DEF ProbePrevious, StartMoves, Goto, OwnerInv, Owned, Unfinalized, Unassigned, TypeStart,
      managerVars, runtimeVars, exitVars, coreVars, stopVars, mutVars
<1>7. ASSUME NEW s \in Starters, CompleteUnchanged(s) PROVE OwnerInv'
  BY <1>7
  DEF CompleteUnchanged, Goto, OwnerInv, Owned, Unfinalized, Unassigned, TypeStart, runtimeVars,
      exitVars, coreVars, stopVars, mutVars
<1>8. ASSUME NEW s \in Starters, ReserveProcessIdentity(s) PROVE OwnerInv'
  BY <1>8
  DEF ReserveProcessIdentity, Goto, OwnerInv, Owned, Unfinalized, Unassigned, TypeStart,
      runtimeVars, exitVars, coreVars, stopVars, mutVars
<1>9. ASSUME NEW s \in Starters, Prepare(s) PROVE OwnerInv'
  BY <1>9
  DEF Prepare, Goto, OwnerInv, Owned, Unfinalized, Unassigned, TypeStart, managerVars, runtimeVars,
      exitVars, coreVars, stopVars, mutVars
<1>10. ASSUME NEW s \in Starters, Terminated(s) PROVE OwnerInv'
  <2>1. \A x \in Starters : x # s => startPc'[x] = startPc[x]
    BY <1>10, Zenon DEF Terminated, Goto, TypeStart
  <2>2. startPc[s] = "termUnassigned" => startPc'[s] \in Unassigned \/ finalized[reserved[s]]
    <3>1. CASE startPc[s] = "termUnassigned" /\ term = "ok"
      <4>1. Terminating(reserved[s]) BY <3>1, Zenon DEF Terminating
      <4>2. reserved[s] \in Procs BY <3>1, Zenon DEF StartInv, StartKnows, AfterSpawn
      <4> QED BY <3>1, <4>1, <4>2, Zenon DEF VerdictInv
    <3>2. CASE startPc[s] = "termUnassigned" /\ term = "failed"
      BY <1>10, <3>2, Zenon DEF Terminated, Goto, TypeStart, Unassigned
    <3> QED BY <1>10, <3>1, <3>2, Zenon DEF Terminated
  <2>3. startPc[s] \in Unassigned => startPc[s] = "termUnassigned"
    BY <1>10, Zenon DEF Terminated, Unassigned
  <2> QED
    BY <1>10, <2>1, <2>2, <2>3
    DEF Terminated, OwnerInv, Owned, Unfinalized, managerVars, exitVars
<1>11. ASSUME NEW s \in Starters, RunPreStart(s) PROVE OwnerInv'
  BY <1>11, Zenon
  DEF RunPreStart, StartMoves, Goto, OwnerInv, Owned, Unfinalized, Unassigned, TypeStart,
      managerVars, runtimeVars, exitVars, coreVars, stopVars, mutVars
<1>12. ASSUME NEW s \in Starters, StagePendingConfig(s) PROVE OwnerInv'
  BY <1>12, Zenon
  DEF StagePendingConfig, Goto, AdmitReaders, OwnerInv, Owned, Unfinalized, Unassigned, TypeStart,
      runtimeVars, exitVars, coreVars, stopVars, StartInv, StartKnows
<1>13. ASSUME NEW s \in Starters, StartProcess(s) PROVE OwnerInv'
  <2>1. process = NoProc /\ Unfinalized = {} /\ reserved[s] \in Procs
    BY <1>13, Zenon DEF StartProcess, StartInv, StartKnows
  <2>2. process' = process /\ reserved' = reserved /\ finalized' = finalized
    BY <1>13, Zenon DEF StartProcess, managerVars
  <2>3. CASE os' = os
    BY <2>1, <2>2, <2>3, Zenon DEF OwnerInv, Unfinalized
  <2>4. CASE os' = [os EXCEPT ![reserved[s]] = "boot"] /\ Goto(s, "assign")
    <3>1. \A p \in Unfinalized' : p = reserved[s]
      BY <2>1, <2>2, <2>4, Zenon DEF Unfinalized, TypeProcesses
    <3>2. startPc'[s] = "assign" BY <2>4, Zenon DEF Goto, TypeStart
    <3> QED BY <2>1, <2>2, <3>1, <3>2, Zenon DEF OwnerInv, Owned, Unassigned
  <2> QED BY <1>13, <2>3, <2>4, Zenon DEF StartProcess
<1>14. ASSUME NEW s \in Starters, AssignProcess(s) PROVE OwnerInv'
  <2>1. process = NoProc /\ os[reserved[s]] # "none" /\ reserved[s] \in Procs
    BY <1>14, Zenon DEF AssignProcess, StartInv, StartKnows, Unassigned, AfterSpawn
  <2>2. ASSUME NEW p \in Unfinalized PROVE p = reserved[s]
    <3>1. PICK x \in Starters : reserved[x] = p /\ startPc[x] \in Unassigned
      BY <2>1, BoundsAssumption DEF OwnerInv, Owned, Unfinalized, Procs, NoProc
    <3>2. lifecycleMu = x /\ lifecycleMu = s
      BY <1>14, <3>1, Zenon DEF AssignProcess, MutexInv, Active, Unassigned
    <3> QED BY <3>1, <3>2, Zenon
  <2>3. Unfinalized' = Unfinalized /\ os' = os /\ reserved' = reserved
    BY <1>14, Zenon DEF AssignProcess, Unfinalized, exitVars
  <2>4. process' = reserved[s] \/ (process' = process /\ startPc'[s] \in Unassigned)
    BY <1>14, <2>1, Zenon DEF AssignProcess, Goto, TypeStart, Unassigned
  <2> QED BY <2>1, <2>2, <2>3, <2>4, Zenon DEF OwnerInv, Owned
<1>15. ASSUME NEW s \in Starters, RetainUncleanProcess(s) PROVE OwnerInv'
  <2>1. process = NoProc /\ os[reserved[s]] # "none" /\ reserved[s] \in Procs
    BY <1>15, Zenon DEF RetainUncleanProcess, StartInv, StartKnows, Unassigned, AfterSpawn
  <2>2. ASSUME NEW p \in Unfinalized PROVE p = reserved[s]
    <3>1. PICK x \in Starters : reserved[x] = p /\ startPc[x] \in Unassigned
      BY <2>1, BoundsAssumption DEF OwnerInv, Owned, Unfinalized, Procs, NoProc
    <3>2. lifecycleMu = x /\ lifecycleMu = s
      BY <1>15, <3>1, Zenon DEF RetainUncleanProcess, MutexInv, Active, Unassigned
    <3> QED BY <3>1, <3>2, Zenon
  <2>3. Unfinalized' = Unfinalized /\ os' = os /\ reserved' = reserved
    BY <1>15, Zenon DEF RetainUncleanProcess, Unfinalized, exitVars
  <2>4. process' = reserved[s] \/ (process' = process /\ startPc'[s] \in Unassigned)
    BY <1>15, <2>1, Zenon DEF RetainUncleanProcess, Goto, TypeStart, Unassigned
  <2> QED BY <2>1, <2>2, <2>3, <2>4, Zenon DEF OwnerInv, Owned
<1>16. ASSUME NEW s \in Starters, AwaitReady(s) PROVE OwnerInv'
  BY <1>16, Zenon
  DEF AwaitReady, StartMoves, Goto, OwnerInv, Owned, Unfinalized, Unassigned, TypeStart,
      managerVars, runtimeVars, exitVars, coreVars, stopVars, mutVars
<1>17. ASSUME NEW s \in Starters, StartFails(s) PROVE OwnerInv'
  BY <1>17, Zenon
  DEF StartFails, Goto, OwnerInv, Owned, Unfinalized, Unassigned, TypeStart, managerVars,
      runtimeVars, exitVars, coreVars, stopVars, mutVars
<1>18. ASSUME NEW s \in Starters, ProbeVersion(s) PROVE OwnerInv'
  BY <1>18, Zenon
  DEF ProbeVersion, StartMoves, Goto, OwnerInv, Owned, Unfinalized, Unassigned, TypeStart,
      managerVars, runtimeVars, exitVars, coreVars, stopVars, mutVars
<1>19. ASSUME NEW s \in Starters, CommitRunningStart(s) PROVE OwnerInv'
  BY <1>19
  DEF CommitRunningStart, Goto, OwnerInv, Owned, Unfinalized, Unassigned, TypeStart, runtimeVars,
      exitVars, coreVars, stopVars, mutVars
<1>20. ASSUME NEW s \in Starters, CompleteStart(s) PROVE OwnerInv'
  BY <1>20
  DEF CompleteStart, Goto, ClearRuntime, OwnerInv, Owned, Unfinalized, Unassigned, TypeStart,
      runtimeVars, exitVars, coreVars, stopVars, mutVars, Completing, StartInv, StartKnows
<1>21. ASSUME NEW s \in Starters, RestorePreviousStart(s) PROVE OwnerInv'
  <2>1. process' = process \/ (process' = NoProc /\ done[process])
    BY <1>21, Zenon DEF RestorePreviousStart
  <2>2. process # NoProc /\ done[process] => finalized[process]
    BY ProcDomain, Zenon DEF LifeInv, ProcessLife, TypeManager
  <2>3. Unfinalized' = Unfinalized /\ os' = os /\ reserved' = reserved
    BY <1>21, Zenon DEF RestorePreviousStart, Unfinalized, exitVars
  <2>4. \A x \in Starters : startPc[x] \in Unassigned => startPc'[x] \in Unassigned
    BY <1>21, Zenon DEF RestorePreviousStart, Goto, TypeStart, Unassigned
  <2>5. \A p \in Unfinalized : p # NoProc /\ ~finalized[p]
    BY BoundsAssumption DEF Unfinalized, Procs, NoProc
  <2> QED BY <2>1, <2>2, <2>3, <2>4, <2>5, Zenon DEF OwnerInv, Owned
<1>22. ASSUME NEW s \in Starters, ReturnStart(s) PROVE OwnerInv'
  BY <1>22, Zenon
  DEF ReturnStart, Goto, AdmitReaders, OwnerInv, Owned, Unfinalized, Unassigned, TypeStart,
      managerVars, runtimeVars, exitVars, coreVars, stopVars
<1>23. ASSUME NEW t \in Stoppers, RetryFinalize(t) PROVE OwnerInv'
  BY <1>23
  DEF RetryFinalize, StopGoto, OwnerInv, Owned, Unfinalized, Unassigned, TypeStart, managerVars,
      runtimeVars, coreVars, startVars, mutVars, TypeProcesses
<1>24. ASSUME NEW t \in Stoppers, FinishStop(t) PROVE OwnerInv'
  <2>1. process' = process \/ (process' = NoProc /\ (process # NoProc => finalized[process]))
    <3>1. stopPc[t] = "publishStopped" /\ process = stopProcess[t] /\ process # NoProc =>
              finalized[process]
      BY Zenon DEF StopInv, StopKnows
    <3> QED BY <1>24, <3>1, Zenon DEF FinishStop, WakeJoiners
  <2>2. Unfinalized' = Unfinalized /\ os' = os /\ reserved' = reserved /\ startPc' = startPc
    BY <1>24, Zenon DEF FinishStop, WakeJoiners, Unfinalized, exitVars, startVars
  <2>3. \A p \in Unfinalized : p # NoProc /\ ~finalized[p]
    BY BoundsAssumption DEF Unfinalized, Procs, NoProc
  <2> QED BY <2>1, <2>2, <2>3, Zenon DEF OwnerInv, Owned
<1>25. ASSUME NEW p \in Procs, LoadConfig(p) PROVE OwnerInv'
  BY <1>25
  DEF LoadConfig, OwnerInv, Owned, Unfinalized, Unassigned, TypeStart, managerVars, runtimeVars,
      startVars, stopVars, mutVars, TypeProcesses
<1>26. ASSUME NEW p \in Procs, CoreExits(p) PROVE OwnerInv'
  BY <1>26
  DEF CoreExits, OwnerInv, Owned, Unfinalized, Unassigned, TypeStart, managerVars, runtimeVars,
      coreVars, startVars, stopVars, mutVars, TypeProcesses
<1>27. ASSUME NEW p \in Procs, FinalizeExited(p) PROVE OwnerInv'
  BY <1>27
  DEF FinalizeExited, MonitorMoves, OwnerInv, Owned, Unfinalized, Unassigned, TypeStart,
      managerVars, runtimeVars, coreVars, startVars, stopVars, mutVars, TypeProcesses
<1>28. ASSUME NEW p \in Procs, PublishExit(p) PROVE OwnerInv'
  <2>1. process' = process \/ (process' = NoProc /\ process = p /\ finalized[p])
    BY <1>28, Zenon DEF PublishExit, ExitIsNews, MonitorMoves, LifeInv, ProcessLife
  <2>2. Unfinalized' = Unfinalized /\ os' = os /\ reserved' = reserved /\ startPc' = startPc
    BY <1>28, Zenon DEF PublishExit, ExitIsNews, MonitorMoves, Unfinalized, startVars
  <2>3. \A q \in Unfinalized : q # NoProc /\ ~finalized[q]
    BY BoundsAssumption DEF Unfinalized, Procs, NoProc
  <2> QED BY <2>1, <2>2, <2>3, Zenon DEF OwnerInv, Owned
<1>29. ASSUME NEW s \in Starters,
           CancelRequest(s)
     PROVE  OwnerInv'
  BY <1>1, <1>29, Zenon
  DEF CancelRequest, managerVars, runtimeVars, exitVars, coreVars, startVars, stopVars, mutVars
<1>30. ASSUME NEW t \in Stoppers,
           JoinStop(t) \/ StopStarting(t) \/ StopSettled(t) \/ CancelStart(t)
             \/ LockLifecycle(t) \/ ReadProcess(t) \/ LockGate(t) \/ StopCloseDone(t)
             \/ StopTerminates(t) \/ StopTerminated(t) \/ JudgeStop(t) \/ ReturnStop(t)
     PROVE  OwnerInv'
  BY <1>1, <1>30, Zenon
  DEF JoinStop, StopStarting, StopSettled, CancelStart, LockLifecycle, ReadProcess, LockGate,
      StopCloseDone, StopTerminates, StopTerminated, JudgeStop, ReturnStop, StopGoto, AdmitReaders,
      managerVars, runtimeVars, exitVars, coreVars, startVars, stopVars, mutVars
<1>31. ASSUME NEW p \in ProcIds,
           TermEnter(p)
     PROVE  OwnerInv'
  BY <1>1, <1>31, Zenon
  DEF TermEnter, TermMoves, managerVars, runtimeVars, exitVars, coreVars, startVars, stopVars,
      mutVars
<1>32. ASSUME NEW p \in Procs,
           Interrupt(p) \/ Kill(p) \/ AttemptEnds(p) \/ AttemptTimesOut(p)
             \/ ObservationFails(p) \/ MarkLeaderWait(p) \/ CloseDone(p) \/ CloseMonitor(p)
             \/ ReadOutcome(p)
     PROVE  OwnerInv'
  BY <1>1, <1>32, Zenon
  DEF Interrupt, Kill, AttemptEnds, AttemptTimesOut, ObservationFails, MarkLeaderWait, CloseDone,
      CloseMonitor, ReadOutcome, TermMoves, MonitorMoves, managerVars, runtimeVars, exitVars,
      coreVars, startVars, stopVars, mutVars
<1>33. ASSUME NEW m \in Mutators,
           BeginMutation(m) \/ LockShared(m) \/ Validate(m) \/ CommitCall(m)
             \/ ReleaseMutation(m)
     PROVE  OwnerInv'
  BY <1>1, <1>33, Zenon
  DEF BeginMutation, LockShared, Validate, CommitCall, ReleaseMutation, Unlease, HashesAfter,
      Applied, managerVars, runtimeVars, exitVars, coreVars, startVars, stopVars, mutVars
<1>34. ASSUME NEW m \in Mutators, NEW c \in Calls,
           CallCore(m, c)
     PROVE  OwnerInv'
  BY <1>1, <1>34, Zenon
  DEF CallCore, Applied, managerVars, runtimeVars, exitVars, coreVars, startVars, stopVars, mutVars
<1>35. CASE UNCHANGED vars
  BY <1>1, <1>35, Zenon DEF vars, managerVars, runtimeVars, exitVars, coreVars, startVars, stopVars, mutVars
<1> QED
  BY <1>1, <1>2, <1>3, <1>4, <1>5, <1>6, <1>7, <1>8, <1>9, <1>10, <1>11, <1>12, <1>13, <1>14, <1>15, <1>16, <1>17, <1>18, <1>19, <1>20, <1>21, <1>22, <1>23, <1>24, <1>25, <1>26, <1>27, <1>28, <1>29, <1>30, <1>31, <1>32, <1>33, <1>34, <1>35, Zenon
  DEF Next, StartStep, StopStep, TermStep, MonitorStep, MutationStep

\* The steps of a Start that let go of knowledge without gaining any.
LessKnown(s) ==
    \/ startPc'[s] = startPc[s]
    \/ startPc'[s] \in {"idle", "release"}
    \/ /\ startPc[s] \in {"gate", "locked", "probe", "unchanged"}
       /\ startPc'[s] \in {"locked", "probe", "unchanged", "reserve", "restore"}
    \/ startPc[s] = "prepare" /\ startPc'[s] \in {"termPrevious", "restore"}
    \/ startPc[s] = "preStart" /\ startPc'[s] \in {"stage", "failStopped"}
    \/ /\ startPc[s] \in {"await", "version", "commit"}
       /\ startPc'[s] \in {"version", "commit", "termFailed"}

\* What StartKnows is about, apart from the program counter and what is spawned.
KnowledgeVars == <<process, previousProcess, previous, pendingConfig, runtimeEpoch, hashes, reserved,
                   nextProcessEpoch, finalized, operationEpoch, startEpoch>>

KnowledgeKept(s) ==
    /\ UNCHANGED <<process, pendingConfig, runtimeEpoch, hashes, nextProcessEpoch, finalized, operationEpoch>>
    /\ previousProcess'[s] = previousProcess[s] /\ previous'[s] = previous[s]
    /\ reserved'[s] = reserved[s] /\ startEpoch'[s] = startEpoch[s]

\* No process is spawned (one may load its configuration or exit).
NothingSpawned == \A p \in Procs : os'[p] = "none" <=> os[p] = "none"

\* Such a step keeps what the Start still claims to know.
LEMMA StartKnowsLess ==
    ASSUME NEW s \in Starters, StartKnows(s), KnowledgeKept(s), NothingSpawned, LessKnown(s)
    PROVE  StartKnows(s)'
<1>1. /\ UNCHANGED <<process, nextProcessEpoch>>
      /\ previousProcess'[s] = previousProcess[s] /\ previous'[s] = previous[s] /\ reserved'[s] = reserved[s]
      /\ RuntimeLive' <=> RuntimeLive
      /\ RuntimeClear' <=> RuntimeClear
      /\ Owns(s)' <=> Owns(s)
  BY Zenon DEF KnowledgeKept, RuntimeLive, RuntimeClear, Owns
<1>2. Unfinalized' = Unfinalized
  BY Zenon DEF KnowledgeKept, NothingSpawned, Unfinalized
<1>3. reserved[s] \in Procs => (os'[reserved[s]] = "none" <=> os[reserved[s]] = "none")
  BY Zenon DEF NothingSpawned
<1>4. CASE startPc'[s] = startPc[s]
  BY <1>1, <1>2, <1>3, <1>4, Zenon DEF StartKnows
<1>5. CASE startPc'[s] \in {"idle", "release"}
  BY <1>5, IdleKnows, Zenon
<1>6. CASE /\ startPc[s] \in {"gate", "locked", "probe", "unchanged"}
           /\ startPc'[s] \in {"locked", "probe", "unchanged", "reserve", "restore"}
  BY <1>1, <1>6, Zenon DEF StartKnows, HasPrevious, Unassigned, AfterSpawn
<1>7. CASE startPc[s] = "prepare" /\ startPc'[s] \in {"termPrevious", "restore"}
  BY <1>1, <1>3, <1>7, Zenon DEF StartKnows, HasPrevious, Unassigned, AfterSpawn
<1>8. CASE startPc[s] = "preStart" /\ startPc'[s] \in {"stage", "failStopped"}
  BY <1>1, <1>2, <1>3, <1>8, Zenon DEF StartKnows, HasPrevious, Unassigned, AfterSpawn
<1>9. CASE /\ startPc[s] \in {"await", "version", "commit"}
           /\ startPc'[s] \in {"version", "commit", "termFailed"}
  BY <1>1, <1>3, <1>9, Zenon DEF StartKnows, HasPrevious, Unassigned, AfterSpawn
<1> QED BY <1>4, <1>5, <1>6, <1>7, <1>8, <1>9, Zenon DEF LessKnown

\* What a Start knows at each program point stays true while others step.
LEMMA StartInvNext ==
    ASSUME TypeManager, TypeRuntime, TypeProcesses, TypeStart, TypeStop, TypeMutations,
           MutexInv, StateInv, StandInv, SettledInv, LifeInv, OwnerInv,
           StartInv, StopInv, VerdictInv, LeaseInv, [Next]_vars
    PROVE  StartInv'
<1>1. UNCHANGED KnowledgeVars /\ NothingSpawned /\ (\A x \in Starters : LessKnown(x)) => StartInv'
  BY StartKnowsLess, Zenon DEF StartInv, KnowledgeVars, KnowledgeKept
<1>0. UNCHANGED <<startPc, process, previousProcess, previous, pendingConfig, runtimeEpoch, hashes,
                  reserved, nextProcessEpoch, os, finalized, operationEpoch, startEpoch>> => StartInv'
  BY <1>1, Zenon DEF KnowledgeVars, NothingSpawned, LessKnown
<1>2. ASSUME NEW s \in Starters, NEW r \in PanelRequests, BeginStart(s, r) PROVE StartInv'
  <2>1. \A x \in Starters : x # s => startPc'[x] \in {"idle", "release"}
    BY <1>2, CallersAssumption, Zenon DEF BeginStart, StartAdmitted, MutexInv, Goto, Active, TypeStart
  <2>2. startPc'[s] = "begun" /\ previous'[s] = state /\ state \in {"stopped", "running"}
    BY <1>2, Zenon DEF BeginStart, StartAdmitted, Goto, TypeStart
  <2>3. UNCHANGED <<process, pendingConfig, runtimeEpoch, hashes>>
    BY <1>2, Zenon DEF BeginStart, StartAdmitted, runtimeVars
  <2>4. StartKnows(s)'
    BY <2>2, <2>3, Zenon
    DEF StartKnows, SettledInv, RuntimeClear, RuntimeLive, HasPrevious, Unassigned, AfterSpawn
  <2> QED BY <2>1, <2>4, IdleKnows, Zenon DEF StartInv
<1>3. ASSUME NEW s \in Starters, ReadPrevious(s) PROVE StartInv'
  BY <1>3
  DEF ReadPrevious, Goto, StartInv, StartKnows, HasPrevious, Unassigned, AfterSpawn, RuntimeClear,
      RuntimeLive, Unfinalized, Owns, TypeStart, managerVars, runtimeVars, exitVars, coreVars,
      stopVars, mutVars
<1>4. ASSUME NEW s \in Starters, LockPreviousGate(s) PROVE StartInv'
  <2>1. UNCHANGED KnowledgeVars /\ NothingSpawned
    BY <1>4, Zenon DEF LockPreviousGate, KnowledgeVars, NothingSpawned, managerVars, runtimeVars, exitVars
  <2>2. \A x \in Starters : LessKnown(x)
    BY <1>4, Zenon DEF LockPreviousGate, Goto, LessKnown, TypeStart
  <2> QED BY <1>1, <2>1, <2>2, Zenon
<1>5. ASSUME NEW s \in Starters, ConsiderUnchanged(s) PROVE StartInv'
  <2>1. UNCHANGED KnowledgeVars /\ NothingSpawned
    BY <1>5, Zenon DEF ConsiderUnchanged, StartMoves, KnowledgeVars, NothingSpawned, managerVars, runtimeVars, exitVars
  <2>2. \A x \in Starters : LessKnown(x)
    BY <1>5, Zenon DEF ConsiderUnchanged, StartMoves, Goto, LessKnown, TypeStart
  <2> QED BY <1>1, <2>1, <2>2, Zenon
<1>6. ASSUME NEW s \in Starters, ProbePrevious(s) PROVE StartInv'
  <2>1. UNCHANGED KnowledgeVars /\ NothingSpawned
    BY <1>6, Zenon DEF ProbePrevious, StartMoves, KnowledgeVars, NothingSpawned, managerVars, runtimeVars, exitVars
  <2>2. \A x \in Starters : LessKnown(x)
    BY <1>6, Zenon DEF ProbePrevious, StartMoves, Goto, LessKnown, TypeStart
  <2> QED BY <1>1, <2>1, <2>2, Zenon
<1>7. ASSUME NEW s \in Starters, CompleteUnchanged(s) PROVE StartInv'
  <2>1. UNCHANGED KnowledgeVars /\ NothingSpawned
    BY <1>7, Zenon DEF CompleteUnchanged, KnowledgeVars, NothingSpawned, managerVars, runtimeVars, exitVars
  <2>2. \A x \in Starters : LessKnown(x)
    BY <1>7, Zenon DEF CompleteUnchanged, Goto, LessKnown, TypeStart
  <2> QED BY <1>1, <2>1, <2>2, Zenon
<1>8. ASSUME NEW s \in Starters, ReserveProcessIdentity(s) PROVE StartInv'
  <2>1. \A x \in Starters : x # s => startPc'[x] \in {"idle", "release"}
    BY <1>8, StartAlone, Zenon DEF ReserveProcessIdentity, Goto, Active, TypeStart
  <2>2. StartKnows(s)'
    <3>1. nextProcessEpoch + 1 \in Procs /\ os[nextProcessEpoch + 1] = "none"
      BY <1>8, BoundsAssumption
      DEF ReserveProcessIdentity, LifeInv, ProcessLife, TypeManager, Procs, ProcIds
    <3>2. UNCHANGED <<process, previous, previousProcess, os, pendingConfig, runtimeEpoch, hashes>>
      BY <1>8, Zenon DEF ReserveProcessIdentity, runtimeVars, exitVars
    <3>3. CASE startPc'[s] = "prepare" /\ reserved'[s] = nextProcessEpoch + 1 /\ nextProcessEpoch' = nextProcessEpoch + 1
      BY <1>8, <3>1, <3>2, <3>3, Zenon
      DEF ReserveProcessIdentity, StartInv, StartKnows, HasPrevious, Unassigned, AfterSpawn, RuntimeClear, RuntimeLive
    <3>4. CASE startPc'[s] = "restore"
      BY <1>8, <3>2, <3>4, Zenon
      DEF ReserveProcessIdentity, StartInv, StartKnows, HasPrevious, Unassigned, AfterSpawn, RuntimeClear, RuntimeLive
    <3> QED BY <1>8, <3>3, <3>4, Zenon DEF ReserveProcessIdentity, Goto, TypeStart
  <2> QED BY <2>1, <2>2, IdleKnows, Zenon DEF StartInv
<1>9. ASSUME NEW s \in Starters, Prepare(s) PROVE StartInv'
  <2>1. UNCHANGED KnowledgeVars /\ NothingSpawned
    BY <1>9, Zenon DEF Prepare, KnowledgeVars, NothingSpawned, managerVars, runtimeVars, exitVars
  <2>2. \A x \in Starters : LessKnown(x)
    BY <1>9, Zenon DEF Prepare, Goto, LessKnown, TypeStart
  <2> QED BY <1>1, <2>1, <2>2, Zenon
<1>10. ASSUME NEW s \in Starters, Terminated(s) PROVE StartInv'
  <2>1. \A x \in Starters : x # s => startPc'[x] \in {"idle", "release"}
    BY <1>10, StartAlone, Zenon DEF Terminated, Goto, Active, TypeStart
  <2>2. StartKnows(s)'
    <3>1. Active(s) BY <1>10, Zenon DEF Terminated, Active
    <3>2. UNCHANGED <<process, os, finalized, reserved, operationEpoch, startEpoch>>
      BY <1>10, Zenon DEF Terminated, managerVars, exitVars
    <3>3. startPc[s] = "termUnassigned" => ~Owns(s) /\ process = NoProc /\ reserved[s] \in Procs
      BY Zenon DEF StartInv, StartKnows, Unassigned, AfterSpawn
    <3>4. startPc[s] = "termPrevious" => process = previousProcess[s]
      BY Zenon DEF StartInv, StartKnows, HasPrevious
    <3>5. startPc[s] = "termFailed" => process = reserved[s]
      BY Zenon DEF StartInv, StartKnows
    <3>6. ASSUME term = "ok", NEW p \in Unfinalized PROVE FALSE
      <4>1. ~finalized[p] /\ p \in Procs /\ p # NoProc BY BoundsAssumption DEF Unfinalized, Procs, NoProc
      <4>2. Terminating(p)
        <5>1. \A x \in Starters : startPc[x] \in Unassigned => x = s
          BY <3>1, StartAlone, Zenon DEF Active, Unassigned
        <5>2. CASE process = p
          BY <1>10, <3>3, <3>4, <3>5, <4>1, <5>2, Zenon DEF Terminated, Terminating
        <5>3. CASE reserved[s] = p /\ startPc[s] \in Unassigned
          BY <1>10, <5>3, Zenon DEF Terminated, Terminating, Unassigned
        <5> QED BY <5>1, <5>2, <5>3, Zenon DEF OwnerInv, Owned
      <4> QED BY <3>6, <4>1, <4>2, Zenon DEF VerdictInv
    <3>7. Unfinalized' = Unfinalized BY <3>2, Zenon DEF Unfinalized
    <3>8. CASE startPc'[s] \in {"preStart", "failStopped"} /\ term = "ok"
      <4>1. CASE startPc'[s] = "preStart"
        <5>1. startPc[s] = "termPrevious" BY <1>10, <4>1, Zenon DEF Terminated, Goto, TypeStart
        <5>2. UNCHANGED <<previous, previousProcess, nextProcessEpoch, pendingConfig, runtimeEpoch, hashes>>
          BY <1>10, Zenon DEF Terminated, managerVars, runtimeVars
        <5> QED
          BY <3>2, <3>6, <3>7, <3>8, <4>1, <5>1, <5>2, Zenon
          DEF StartInv, StartKnows, HasPrevious, Unassigned, AfterSpawn, RuntimeClear, RuntimeLive
      <4>2. CASE startPc'[s] = "failStopped"
        BY <3>6, <3>7, <3>8, <4>2, Zenon DEF StartKnows, HasPrevious, Unassigned, AfterSpawn
      <4> QED BY <3>8, <4>1, <4>2, Zenon
    <3>9. CASE startPc'[s] = "failStopping"
      BY <3>9, Zenon DEF StartKnows, HasPrevious, Unassigned, AfterSpawn
    <3>10. CASE startPc[s] = "termUnassigned" /\ startPc'[s] = "failBare" /\ term = "ok"
      BY <3>2, <3>3, <3>6, <3>7, <3>10, Zenon DEF StartKnows, HasPrevious, Unassigned, AfterSpawn, Owns
    <3>11. CASE startPc[s] = "termUnassigned" /\ startPc'[s] = "retain"
      BY <3>2, <3>3, <3>11, Zenon DEF StartInv, StartKnows, HasPrevious, Unassigned, AfterSpawn, Owns
    <3> QED
      BY <1>10, <3>8, <3>9, <3>10, <3>11, Zenon DEF Terminated, Goto, TypeStart
  <2> QED BY <2>1, <2>2, IdleKnows, Zenon DEF StartInv
<1>11. ASSUME NEW s \in Starters, RunPreStart(s) PROVE StartInv'
  <2>1. UNCHANGED KnowledgeVars /\ NothingSpawned
    BY <1>11, Zenon DEF RunPreStart, StartMoves, KnowledgeVars, NothingSpawned, managerVars, runtimeVars, exitVars
  <2>2. \A x \in Starters : LessKnown(x)
    BY <1>11, Zenon DEF RunPreStart, StartMoves, Goto, LessKnown, TypeStart
  <2> QED BY <1>1, <2>1, <2>2, Zenon
<1>12. ASSUME NEW s \in Starters, StagePendingConfig(s) PROVE StartInv'
  <2>1. \A x \in Starters : x # s => startPc'[x] \in {"idle", "release"}
    BY <1>12, StartAlone, Zenon DEF StagePendingConfig, Goto, Active, TypeStart
  <2>2. StartKnows(s)'
    <3>1. Active(s) BY <1>12, Zenon DEF StagePendingConfig, Active
    <3>2. /\ process = previousProcess[s] /\ Unfinalized = {} /\ reserved[s] \in Procs
          /\ reserved[s] = nextProcessEpoch /\ os[reserved[s]] = "none"
      BY <1>12, Zenon DEF StagePendingConfig, StartInv, StartKnows, HasPrevious
    <3>3. UNCHANGED <<reserved, nextProcessEpoch, os, operationEpoch, startEpoch>> /\ Unfinalized' = Unfinalized
      BY <1>12, Zenon DEF StagePendingConfig, exitVars, Unfinalized
    <3>4. CASE OwnsStarting(s)
      <4>1. startPc'[s] = "spawn" /\ process' = NoProc
        BY <1>12, <3>2, <3>4, Zenon DEF StagePendingConfig, Goto, TypeStart
      <4> QED BY <3>2, <3>3, <4>1, Zenon DEF StartKnows, HasPrevious, Unassigned, AfterSpawn
    <3>5. CASE ~OwnsStarting(s)
      <4>1. startPc'[s] = "failBare" BY <1>12, <3>5, Zenon DEF StagePendingConfig, Goto, TypeStart
      <4>2. ~Owns(s) BY <3>1, <3>5, NotOwner, Zenon
      <4> QED BY <3>2, <3>3, <4>1, <4>2, Zenon DEF StartKnows, HasPrevious, Unassigned, AfterSpawn, Owns
    <3> QED BY <3>4, <3>5, Zenon
  <2> QED BY <2>1, <2>2, IdleKnows, Zenon DEF StartInv
<1>13. ASSUME NEW s \in Starters, StartProcess(s) PROVE StartInv'
  <2>1. \A x \in Starters : x # s => startPc'[x] \in {"idle", "release"}
    BY <1>13, StartAlone, Zenon DEF StartProcess, Goto, Active, TypeStart
  <2>2. StartKnows(s)'
    <3>1. process = NoProc /\ Unfinalized = {} /\ reserved[s] \in Procs
      BY <1>13, Zenon DEF StartProcess, StartInv, StartKnows
    <3>2. UNCHANGED <<process, reserved, finalized>> BY <1>13, Zenon DEF StartProcess, managerVars
    <3>3. CASE startPc'[s] = "assign" /\ os' = [os EXCEPT ![reserved[s]] = "boot"]
      BY <3>1, <3>2, <3>3, Zenon
      DEF TypeProcesses, StartKnows, HasPrevious, Unassigned, AfterSpawn
    <3>4. CASE startPc'[s] = "failCleared" /\ os' = os
      BY <3>1, <3>2, <3>4, Zenon DEF Unfinalized, StartKnows, HasPrevious, Unassigned, AfterSpawn
    <3> QED BY <1>13, <3>3, <3>4, Zenon DEF StartProcess, Goto, TypeStart
  <2> QED BY <2>1, <2>2, IdleKnows, Zenon DEF StartInv
<1>14. ASSUME NEW s \in Starters, AssignProcess(s) PROVE StartInv'
  <2>1. \A x \in Starters : x # s => startPc'[x] \in {"idle", "release"}
    BY <1>14, StartAlone, Zenon DEF AssignProcess, Goto, Active, TypeStart
  <2>2. StartKnows(s)'
    <3>1. Active(s) BY <1>14, Zenon DEF AssignProcess, Active
    <3>2. process = NoProc /\ reserved[s] \in Procs /\ os[reserved[s]] # "none"
      BY <1>14, Zenon DEF AssignProcess, StartInv, StartKnows, Unassigned, AfterSpawn
    <3>3. UNCHANGED <<reserved, os, operationEpoch, startEpoch>> BY <1>14, Zenon DEF AssignProcess, exitVars
    <3>4. CASE OwnsStarting(s)
      <4>1. startPc'[s] = "await" /\ process' = reserved[s]
        BY <1>14, <3>4, Zenon DEF AssignProcess, Goto, TypeStart
      <4> QED BY <3>2, <3>3, <4>1, Zenon DEF StartKnows, HasPrevious, Unassigned, AfterSpawn
    <3>5. CASE ~OwnsStarting(s)
      <4>1. startPc'[s] = "termUnassigned" /\ process' = process
        BY <1>14, <3>5, Zenon DEF AssignProcess, Goto, TypeStart
      <4>2. ~Owns(s) BY <3>1, <3>5, NotOwner, Zenon
      <4> QED BY <3>2, <3>3, <4>1, <4>2, Zenon DEF StartKnows, HasPrevious, Unassigned, AfterSpawn, Owns
    <3> QED BY <3>4, <3>5, Zenon
  <2> QED BY <2>1, <2>2, IdleKnows, Zenon DEF StartInv
<1>15. ASSUME NEW s \in Starters, RetainUncleanProcess(s) PROVE StartInv'
  <2>1. \A x \in Starters : x # s => startPc'[x] \in {"idle", "release"}
    BY <1>15, StartAlone, Zenon DEF RetainUncleanProcess, Goto, Active, TypeStart
  <2>2. StartKnows(s)'
    <3>1. startPc'[s] = "failStopping" BY <1>15, Zenon DEF RetainUncleanProcess, Goto, TypeStart
    <3> QED BY <3>1, Zenon DEF StartKnows, HasPrevious, Unassigned, AfterSpawn
  <2> QED BY <2>1, <2>2, IdleKnows, Zenon DEF StartInv
<1>16. ASSUME NEW s \in Starters, AwaitReady(s) PROVE StartInv'
  <2>1. UNCHANGED KnowledgeVars /\ NothingSpawned
    BY <1>16, Zenon DEF AwaitReady, StartMoves, KnowledgeVars, NothingSpawned, managerVars, runtimeVars, exitVars
  <2>2. \A x \in Starters : LessKnown(x)
    BY <1>16, Zenon DEF AwaitReady, StartMoves, Goto, LessKnown, TypeStart
  <2> QED BY <1>1, <2>1, <2>2, Zenon
<1>17. ASSUME NEW s \in Starters, StartFails(s) PROVE StartInv'
  <2>1. UNCHANGED KnowledgeVars /\ NothingSpawned
    BY <1>17, Zenon DEF StartFails, KnowledgeVars, NothingSpawned, managerVars, runtimeVars, exitVars
  <2>2. \A x \in Starters : LessKnown(x)
    BY <1>17, Zenon DEF StartFails, Goto, LessKnown, TypeStart
  <2> QED BY <1>1, <2>1, <2>2, Zenon
<1>18. ASSUME NEW s \in Starters, ProbeVersion(s) PROVE StartInv'
  <2>1. UNCHANGED KnowledgeVars /\ NothingSpawned
    BY <1>18, Zenon DEF ProbeVersion, StartMoves, KnowledgeVars, NothingSpawned, managerVars, runtimeVars, exitVars
  <2>2. \A x \in Starters : LessKnown(x)
    BY <1>18, Zenon DEF ProbeVersion, StartMoves, Goto, LessKnown, TypeStart
  <2> QED BY <1>1, <2>1, <2>2, Zenon
<1>19. ASSUME NEW s \in Starters, CommitRunningStart(s) PROVE StartInv'
  <2>1. CASE startPc'[s] = "release"
    <3>1. \A x \in Starters : startPc'[x] \in {"idle", "release"}
      BY <1>19, <2>1, StartAlone, Zenon DEF CommitRunningStart, Goto, Active, TypeStart
    <3> QED BY <3>1, IdleKnows, Zenon DEF StartInv
  <2>2. CASE startPc'[s] # "release"
    <3>1. UNCHANGED KnowledgeVars /\ NothingSpawned
      BY <1>19, <2>2, Zenon DEF CommitRunningStart, Goto, TypeStart, KnowledgeVars, NothingSpawned, runtimeVars, exitVars
    <3>2. \A x \in Starters : LessKnown(x)
      BY <1>19, <2>2, Zenon DEF CommitRunningStart, Goto, LessKnown, TypeStart
    <3> QED BY <1>1, <3>1, <3>2, Zenon
  <2> QED BY <2>1, <2>2, Zenon
<1>20. ASSUME NEW s \in Starters, CompleteStart(s) PROVE StartInv'
  <2>1. \A x \in Starters : startPc'[x] \in {"idle", "release"}
    BY <1>20, StartAlone, Zenon DEF CompleteStart, Goto, Active, Completing, TypeStart
  <2> QED BY <2>1, IdleKnows, Zenon DEF StartInv
<1>21. ASSUME NEW s \in Starters, RestorePreviousStart(s) PROVE StartInv'
  <2>1. \A x \in Starters : startPc'[x] \in {"idle", "release"}
    BY <1>21, StartAlone, Zenon DEF RestorePreviousStart, Goto, Active, TypeStart
  <2> QED BY <2>1, IdleKnows, Zenon DEF StartInv
<1>22. ASSUME NEW s \in Starters, ReturnStart(s) PROVE StartInv'
  <2>1. ASSUME NEW x \in Starters, x # s PROVE KnowledgeKept(x)
    BY <1>22, <2>1, Zenon DEF ReturnStart, KnowledgeKept, managerVars, runtimeVars, exitVars, TypeStart
  <2>2. NothingSpawned BY <1>22, Zenon DEF ReturnStart, NothingSpawned, exitVars
  <2>3. ASSUME NEW x \in Starters PROVE LessKnown(x)
    BY <1>22, Zenon DEF ReturnStart, Goto, LessKnown, TypeStart
  <2>4. startPc'[s] = "idle" BY <1>22, Zenon DEF ReturnStart, Goto, TypeStart
  <2> QED BY <2>1, <2>2, <2>3, <2>4, StartKnowsLess, IdleKnows, Zenon DEF StartInv
<1>23. ASSUME NEW t \in Stoppers, StopStarting(t) PROVE StartInv'
  <2>1. \A x \in Starters : Active(x) => ~Owns(x)'
    BY <1>23
    DEF StopStarting, StandInv, StartStands, Owns, TypeManager, TypeStart, startVars
  <2>2. \A x \in Starters : startPc[x] \in {"termUnassigned", "retain", "failBare"} => Active(x)
    BY Zenon DEF Active
  <2>3. UNCHANGED <<startPc, process, previousProcess, previous, pendingConfig, runtimeEpoch, hashes,
                    reserved, nextProcessEpoch, os, finalized>>
    BY <1>23, Zenon DEF StopStarting, startVars, runtimeVars, exitVars
  <2> QED
    BY <2>1, <2>2, <2>3, Zenon DEF StartInv, StartKnows, RuntimeClear, RuntimeLive, Unfinalized
<1>24. ASSUME NEW t \in Stoppers, StopSettled(t) PROVE StartInv'
  <2>1. \A x \in Starters : startPc'[x] \in {"idle", "release"}
    BY <1>24, CallersAssumption, Zenon DEF StopSettled, MutexInv, Active, startVars
  <2> QED BY <2>1, IdleKnows, Zenon DEF StartInv
<1>25. ASSUME NEW t \in Stoppers, RetryFinalize(t) PROVE StartInv'
  <2>1. \A x \in Starters : startPc'[x] \in {"idle", "release"}
    BY <1>25, StopAlone, Zenon DEF RetryFinalize, Holding, Active, startVars
  <2> QED BY <2>1, IdleKnows, Zenon DEF StartInv
<1>26. ASSUME NEW t \in Stoppers, FinishStop(t) PROVE StartInv'
  <2>1. \A x \in Starters : startPc'[x] \in {"idle", "release"}
    BY <1>26, StopAlone, Zenon DEF FinishStop, Holding, Active, startVars
  <2> QED BY <2>1, IdleKnows, Zenon DEF StartInv
<1>27. ASSUME NEW p \in Procs, LoadConfig(p) PROVE StartInv'
  <2>1. UNCHANGED KnowledgeVars BY <1>27, Zenon DEF LoadConfig, KnowledgeVars, managerVars, runtimeVars, startVars
  <2>2. NothingSpawned BY <1>27, Zenon DEF LoadConfig, NothingSpawned, TypeProcesses
  <2>3. \A x \in Starters : LessKnown(x) BY <1>27, Zenon DEF LoadConfig, LessKnown, startVars
  <2> QED BY <1>1, <2>1, <2>2, <2>3, Zenon
<1>28. ASSUME NEW p \in Procs, CoreExits(p) PROVE StartInv'
  <2>1. UNCHANGED KnowledgeVars BY <1>28, Zenon DEF CoreExits, KnowledgeVars, managerVars, runtimeVars, startVars
  <2>2. NothingSpawned BY <1>28, Zenon DEF CoreExits, NothingSpawned, TypeProcesses
  <2>3. \A x \in Starters : LessKnown(x) BY <1>28, Zenon DEF CoreExits, LessKnown, startVars
  <2> QED BY <1>1, <2>1, <2>2, <2>3, Zenon
<1>29. ASSUME NEW p \in Procs, FinalizeExited(p) PROVE StartInv'
  <2>1. UNCHANGED <<startPc, process, previousProcess, previous, pendingConfig, runtimeEpoch, hashes,
                    reserved, nextProcessEpoch, os, operationEpoch, startEpoch>>
    BY <1>29, Zenon DEF FinalizeExited, MonitorMoves, startVars, managerVars, runtimeVars
  <2>2. Unfinalized' \subseteq Unfinalized
    BY <1>29, Zenon DEF FinalizeExited, MonitorMoves, Unfinalized, TypeProcesses
  <2> QED
    BY <2>1, <2>2, Zenon DEF StartInv, StartKnows, RuntimeClear, RuntimeLive, Owns
<1>30. ASSUME NEW p \in Procs, PublishExit(p) PROVE StartInv'
  <2>1. UNCHANGED <<startPc, previousProcess, previous, reserved, nextProcessEpoch, os, finalized,
                    operationEpoch, startEpoch>>
    BY <1>30, Zenon DEF PublishExit, ExitIsNews, MonitorMoves, startVars
  <2>2. CASE UNCHANGED <<process, pendingConfig, runtimeEpoch, hashes>>
    BY <1>0, <2>1, <2>2, Zenon
  <2>3. CASE ~UNCHANGED <<process, pendingConfig, runtimeEpoch, hashes>>
    <3>1. state = "running" \/ (state = "stopping" /\ stopOp = None)
      BY <1>30, <2>3, Zenon DEF PublishExit, ExitIsNews, runtimeVars
    <3>2. \A x \in Starters : startPc'[x] \in {"idle", "release"}
      BY <2>1, <3>1, Unsettled, Zenon DEF Active
    <3> QED BY <3>2, IdleKnows, Zenon DEF StartInv
  <2> QED BY <2>2, <2>3, Zenon
<1>31. ASSUME NEW m \in Mutators, CommitCall(m) PROVE StartInv'
  <2>1. UNCHANGED <<startPc, process, previousProcess, previous, pendingConfig, runtimeEpoch,
                    reserved, nextProcessEpoch, os, finalized, operationEpoch, startEpoch>>
    BY <1>31, Zenon DEF CommitCall, HashesAfter, startVars, managerVars, exitVars
  <2>2. mutProcess[m] # NoProc BY <1>31, Zenon DEF CommitCall, HashesAfter, LeaseInv
  <2>3. runtimeEpoch = NoProc => hashes' = hashes
    BY <1>31, <2>2, Zenon DEF CommitCall, HashesAfter
  <2> QED
    BY <2>1, <2>3, ZenonT(60) DEF StartInv, StartKnows, RuntimeClear, RuntimeLive, Unfinalized, Owns
<1>32. ASSUME NEW s \in Starters,
           CancelRequest(s)
     PROVE  StartInv'
  BY <1>0, <1>32, Zenon
  DEF CancelRequest, managerVars, runtimeVars, exitVars, coreVars, startVars, stopVars, mutVars
<1>33. ASSUME NEW t \in Stoppers,
           JoinStop(t) \/ CancelStart(t) \/ LockLifecycle(t) \/ ReadProcess(t)
             \/ LockGate(t) \/ StopCloseDone(t) \/ StopTerminates(t) \/ StopTerminated(t)
             \/ JudgeStop(t) \/ ReturnStop(t)
     PROVE  StartInv'
  BY <1>0, <1>33, Zenon
  DEF JoinStop, CancelStart, LockLifecycle, ReadProcess, LockGate, StopCloseDone, StopTerminates,
      StopTerminated, JudgeStop, ReturnStop, StopGoto, AdmitReaders, managerVars, runtimeVars,
      exitVars, coreVars, startVars, stopVars, mutVars
<1>34. ASSUME NEW p \in ProcIds,
           TermEnter(p)
     PROVE  StartInv'
  BY <1>0, <1>34, Zenon
  DEF TermEnter, TermMoves, managerVars, runtimeVars, exitVars, coreVars, startVars, stopVars,
      mutVars
<1>35. ASSUME NEW p \in Procs,
           Interrupt(p) \/ Kill(p) \/ AttemptEnds(p) \/ AttemptTimesOut(p)
             \/ ObservationFails(p) \/ MarkLeaderWait(p) \/ CloseDone(p) \/ CloseMonitor(p)
             \/ ReadOutcome(p)
     PROVE  StartInv'
  BY <1>0, <1>35, Zenon
  DEF Interrupt, Kill, AttemptEnds, AttemptTimesOut, ObservationFails, MarkLeaderWait, CloseDone,
      CloseMonitor, ReadOutcome, TermMoves, MonitorMoves, managerVars, runtimeVars, exitVars,
      coreVars, startVars, stopVars, mutVars
<1>36. ASSUME NEW m \in Mutators,
           BeginMutation(m) \/ LockShared(m) \/ Validate(m) \/ ReleaseMutation(m)
     PROVE  StartInv'
  BY <1>0, <1>36, Zenon
  DEF BeginMutation, LockShared, Validate, ReleaseMutation, Unlease, managerVars, runtimeVars,
      exitVars, coreVars, startVars, stopVars, mutVars
<1>37. ASSUME NEW m \in Mutators, NEW c \in Calls,
           CallCore(m, c)
     PROVE  StartInv'
  BY <1>0, <1>37, Zenon
  DEF CallCore, Applied, managerVars, runtimeVars, exitVars, coreVars, startVars, stopVars, mutVars
<1>38. CASE UNCHANGED vars
  BY <1>0, <1>38, Zenon DEF vars, managerVars, runtimeVars, exitVars, coreVars, startVars, stopVars, mutVars
<1> QED
  BY <1>1, <1>2, <1>3, <1>4, <1>5, <1>6, <1>7, <1>8, <1>9, <1>10, <1>11, <1>12, <1>13, <1>14, <1>15, <1>16, <1>17, <1>18, <1>19, <1>20, <1>21, <1>22, <1>23, <1>24, <1>25, <1>26, <1>27, <1>28, <1>29, <1>30, <1>31, <1>32, <1>33, <1>34, <1>35, <1>36, <1>37, <1>38, Zenon
  DEF Next, StartStep, StopStep, TermStep, MonitorStep, MutationStep

\* What a Stop knows stays true while others step.
LEMMA StopInvNext ==
    ASSUME TypeManager, TypeRuntime, TypeProcesses, TypeStart, TypeStop, TypeMutations,
           MutexInv, StateInv, StandInv, SettledInv, LifeInv, OwnerInv,
           StartInv, StopInv, VerdictInv, LeaseInv, [Next]_vars
    PROVE  StopInv'
<1>1. UNCHANGED <<stopPc, process, stopProcess, leader, finalized>> => StopInv'
  BY Zenon DEF StopInv, StopKnows, Holding
<1>2. ASSUME NEW s \in Starters, StagePendingConfig(s) PROVE StopInv'
  <2>1. \A u \in Stoppers : ~Holding(u)
    BY <1>2, StartAlone, Zenon DEF StagePendingConfig, Active
  <2>2. UNCHANGED <<stopPc, stopProcess, leader, finalized>>
    BY <1>2, Zenon DEF StagePendingConfig, stopVars, exitVars
  <2> QED BY <2>1, <2>2, Zenon DEF StopInv, StopKnows, Holding
<1>3. ASSUME NEW s \in Starters, AssignProcess(s) PROVE StopInv'
  <2>1. \A u \in Stoppers : ~Holding(u)
    BY <1>3, StartAlone, Zenon DEF AssignProcess, Active
  <2>2. UNCHANGED <<stopPc, stopProcess, leader, finalized>>
    BY <1>3, Zenon DEF AssignProcess, stopVars, exitVars
  <2> QED BY <2>1, <2>2, Zenon DEF StopInv, StopKnows, Holding
<1>4. ASSUME NEW s \in Starters, RetainUncleanProcess(s) PROVE StopInv'
  <2>1. \A u \in Stoppers : ~Holding(u)
    BY <1>4, StartAlone, Zenon DEF RetainUncleanProcess, Active
  <2>2. UNCHANGED <<stopPc, stopProcess, leader, finalized>>
    BY <1>4, Zenon DEF RetainUncleanProcess, stopVars, exitVars
  <2> QED BY <2>1, <2>2, Zenon DEF StopInv, StopKnows, Holding
<1>5. ASSUME NEW s \in Starters, CompleteStart(s) PROVE StopInv'
  <2>1. \A u \in Stoppers : ~Holding(u)
    BY <1>5, StartAlone, Zenon DEF CompleteStart, Active, Completing
  <2>2. UNCHANGED <<stopPc, stopProcess, leader, finalized>>
    BY <1>5, Zenon DEF CompleteStart, stopVars, exitVars
  <2> QED BY <2>1, <2>2, Zenon DEF StopInv, StopKnows, Holding
<1>6. ASSUME NEW s \in Starters, RestorePreviousStart(s) PROVE StopInv'
  <2>1. \A u \in Stoppers : ~Holding(u)
    BY <1>6, StartAlone, Zenon DEF RestorePreviousStart, Active
  <2>2. UNCHANGED <<stopPc, stopProcess, leader, finalized>>
    BY <1>6, Zenon DEF RestorePreviousStart, stopVars, exitVars
  <2> QED BY <2>1, <2>2, Zenon DEF StopInv, StopKnows, Holding
<1>7. ASSUME NEW t \in Stoppers, JoinStop(t) PROVE StopInv'
  BY <1>7, Zenon
  DEF JoinStop, StopGoto, StopInv, StopKnows, TypeStop, Holding, managerVars, runtimeVars, exitVars,
      coreVars, startVars, mutVars
<1>8. ASSUME NEW t \in Stoppers, StopStarting(t) PROVE StopInv'
  BY <1>8, Zenon
  DEF StopStarting, StopGoto, StopInv, StopKnows, TypeStop, Holding, runtimeVars, exitVars,
      coreVars, startVars, mutVars
<1>9. ASSUME NEW t \in Stoppers, StopSettled(t) PROVE StopInv'
  BY <1>9, Zenon
  DEF StopSettled, StopGoto, StopInv, StopKnows, TypeStop, Holding, runtimeVars, exitVars, coreVars,
      startVars, mutVars
<1>10. ASSUME NEW t \in Stoppers, CancelStart(t) PROVE StopInv'
  BY <1>10, Zenon
  DEF CancelStart, StopGoto, StopInv, StopKnows, TypeStop, Holding, managerVars, runtimeVars,
      exitVars, coreVars, mutVars
<1>11. ASSUME NEW t \in Stoppers, LockLifecycle(t) PROVE StopInv'
  BY <1>11, Zenon
  DEF LockLifecycle, StopGoto, StopInv, StopKnows, TypeStop, Holding, runtimeVars, exitVars,
      coreVars, startVars, mutVars
<1>12. ASSUME NEW t \in Stoppers, ReadProcess(t) PROVE StopInv'
  BY <1>12, Zenon
  DEF ReadProcess, StopGoto, StopInv, StopKnows, TypeStop, Holding, managerVars, runtimeVars,
      exitVars, coreVars, startVars, mutVars
<1>13. ASSUME NEW t \in Stoppers, LockGate(t) PROVE StopInv'
  BY <1>13, Zenon
  DEF LockGate, StopGoto, StopInv, StopKnows, TypeStop, Holding, managerVars, runtimeVars, exitVars,
      coreVars, startVars, mutVars
<1>14. ASSUME NEW t \in Stoppers, RetryFinalize(t) PROVE StopInv'
  <2>1. \A u \in Stoppers : u # t => ~Holding(u) /\ stopPc'[u] = stopPc[u]
    BY <1>14, StopAlone, Zenon DEF RetryFinalize, StopGoto, Holding, TypeStop
  <2>2. StopKnows(t)'
    BY <1>14, ProcDomain
    DEF RetryFinalize, RetriesFinalize, StopGoto, Holding, StopInv, StopKnows, LifeInv, ProcessLife,
        TypeStop, TypeProcesses, managerVars, exitVars
  <2>3. ASSUME NEW u \in Stoppers, u # t PROVE StopKnows(u)'
    BY <2>1, <2>3, Zenon DEF StopKnows, Holding
  <2> QED BY <2>2, <2>3, Zenon DEF StopInv
<1>15. ASSUME NEW t \in Stoppers, StopCloseDone(t) PROVE StopInv'
  BY <1>15, Zenon
  DEF StopCloseDone, StopGoto, StopInv, StopKnows, TypeStop, Holding, managerVars, runtimeVars,
      coreVars, startVars, mutVars
<1>16. ASSUME NEW t \in Stoppers, StopTerminates(t) PROVE StopInv'
  <2>1. \A u \in Stoppers : u # t => ~Holding(u) /\ stopPc'[u] = stopPc[u]
    BY <1>16, StopAlone, Zenon DEF StopTerminates, StopGoto, Holding, TypeStop
  <2>2. StopKnows(t)'
    BY <1>16, ProcDomain
    DEF StopTerminates, RetriesFinalize, StopGoto, Holding, StopInv, StopKnows, LifeInv, ProcessLife,
        TypeStop, TypeProcesses, managerVars, exitVars
  <2>3. ASSUME NEW u \in Stoppers, u # t PROVE StopKnows(u)'
    BY <2>1, <2>3, Zenon DEF StopKnows, Holding
  <2> QED BY <2>2, <2>3, Zenon DEF StopInv
<1>17. ASSUME NEW t \in Stoppers, StopTerminated(t) PROVE StopInv'
  BY <1>17, Zenon
  DEF StopTerminated, StopGoto, StopInv, StopKnows, TypeStop, Holding, managerVars, runtimeVars,
      exitVars, coreVars, startVars, mutVars
<1>18. ASSUME NEW t \in Stoppers, JudgeStop(t) PROVE StopInv'
  <2>1. \A u \in Stoppers : u # t => ~Holding(u) /\ stopPc'[u] = stopPc[u]
    BY <1>18, StopAlone, Zenon DEF JudgeStop, StopGoto, Holding, TypeStop
  <2>2. StopKnows(t)'
    BY <1>18, ProcDomain
    DEF JudgeStop, NoProc, StopGoto, Holding, StopInv, StopKnows, LifeInv, ProcessLife,
        TypeStop, TypeProcesses, managerVars, exitVars
  <2>3. ASSUME NEW u \in Stoppers, u # t PROVE StopKnows(u)'
    BY <2>1, <2>3, Zenon DEF StopKnows, Holding
  <2> QED BY <2>2, <2>3, Zenon DEF StopInv
<1>19. ASSUME NEW t \in Stoppers, FinishStop(t) PROVE StopInv'
  <2>1. \A u \in Stoppers : u # t => ~Holding(u)
    BY <1>19, StopAlone, Zenon DEF FinishStop, WakeJoiners, Holding
  <2>2. \A u \in Stoppers : ~Holding(u)'
    BY <1>19, <2>1, Zenon DEF FinishStop, WakeJoiners, Holding
  <2> QED BY <2>2, Zenon DEF StopInv, StopKnows, Holding
<1>20. ASSUME NEW t \in Stoppers, ReturnStop(t) PROVE StopInv'
  BY <1>20, Zenon
  DEF ReturnStop, StopGoto, AdmitReaders, StopInv, StopKnows, TypeStop, Holding, managerVars,
      runtimeVars, exitVars, coreVars, startVars
<1>21. ASSUME NEW p \in Procs, ObservationFails(p) PROVE StopInv'
  BY <1>21, ProcDomain, Zenon
  DEF ObservationFails, MonitorMoves, StopInv, StopKnows, TypeStop, Holding, managerVars,
      runtimeVars, coreVars, startVars, stopVars, mutVars, LifeInv, ProcessLife, TypeProcesses
<1>22. ASSUME NEW p \in Procs, MarkLeaderWait(p) PROVE StopInv'
  <2>1. UNCHANGED <<stopPc, stopProcess, process, finalized>>
    BY <1>22, Zenon DEF MarkLeaderWait, MonitorMoves, stopVars, managerVars
  <2>2. \A q \in Procs : leader[q] = "observed" => leader'[q] = "observed"
    BY <1>22, Zenon DEF MarkLeaderWait, TypeProcesses
  <2>3. \A u \in Stoppers : stopProcess[u] # NoProc => stopProcess[u] \in Procs
    BY ProcDomain, Zenon DEF TypeStop
  <2> QED BY <2>1, <2>2, <2>3, Zenon DEF StopInv, StopKnows, Holding
<1>23. ASSUME NEW p \in Procs, FinalizeExited(p) PROVE StopInv'
  <2>1. UNCHANGED <<stopPc, stopProcess, process, leader>>
    BY <1>23, Zenon DEF FinalizeExited, MonitorMoves, stopVars, managerVars
  <2>2. \A q \in Procs : finalized[q] => finalized'[q]
    BY <1>23, Zenon DEF FinalizeExited, TypeProcesses
  <2>3. \A u \in Stoppers : stopProcess[u] # NoProc => stopProcess[u] \in Procs
    BY ProcDomain, Zenon DEF TypeStop
  <2> QED BY <2>1, <2>2, <2>3, Zenon DEF StopInv, StopKnows, Holding
<1>24. ASSUME NEW p \in Procs, PublishExit(p) PROVE StopInv'
  <2>1. UNCHANGED <<stopPc, stopProcess, leader, finalized>>
    BY <1>24, Zenon DEF PublishExit, ExitIsNews, MonitorMoves, stopVars
  <2>2. ASSUME NEW u \in Stoppers, Holding(u) PROVE process' = process
    <3>1. stopOp # None /\ state = "stopping"
      BY <2>2, CallersAssumption, Zenon DEF MutexInv, StateInv
    <3> QED BY <1>24, <3>1, Zenon DEF PublishExit, ExitIsNews
  <2> QED BY <2>1, <2>2, Zenon DEF StopInv, StopKnows, Holding
<1>25. ASSUME NEW s \in Starters, NEW r \in PanelRequests,
           BeginStart(s, r)
     PROVE  StopInv'
  BY <1>1, <1>25, Zenon
  DEF BeginStart, StartAdmitted, Goto, managerVars, runtimeVars, exitVars, coreVars, startVars,
      stopVars, mutVars
<1>26. ASSUME NEW s \in Starters,
           CancelRequest(s) \/ ReadPrevious(s) \/ LockPreviousGate(s) \/ ConsiderUnchanged(s)
             \/ ProbePrevious(s) \/ CompleteUnchanged(s) \/ ReserveProcessIdentity(s) \/ Prepare(s)
             \/ Terminated(s) \/ RunPreStart(s) \/ StartProcess(s) \/ AwaitReady(s)
             \/ StartFails(s) \/ ProbeVersion(s) \/ CommitRunningStart(s) \/ ReturnStart(s)
     PROVE  StopInv'
  BY <1>1, <1>26, Zenon
  DEF CancelRequest, ReadPrevious, LockPreviousGate, ConsiderUnchanged, ProbePrevious,
      CompleteUnchanged, ReserveProcessIdentity, Prepare, Terminated, RunPreStart, StartProcess,
      AwaitReady, StartFails, ProbeVersion, CommitRunningStart, ReturnStart, Goto, StartMoves,
      AdmitReaders, managerVars, runtimeVars, exitVars, coreVars, startVars, stopVars, mutVars
<1>27. ASSUME NEW p \in ProcIds,
           TermEnter(p)
     PROVE  StopInv'
  BY <1>1, <1>27, Zenon
  DEF TermEnter, TermMoves, managerVars, runtimeVars, exitVars, coreVars, startVars, stopVars,
      mutVars
<1>28. ASSUME NEW p \in Procs,
           Interrupt(p) \/ Kill(p) \/ AttemptEnds(p) \/ AttemptTimesOut(p)
             \/ LoadConfig(p) \/ CoreExits(p) \/ CloseDone(p) \/ CloseMonitor(p)
             \/ ReadOutcome(p)
     PROVE  StopInv'
  BY <1>1, <1>28, Zenon
  DEF Interrupt, Kill, AttemptEnds, AttemptTimesOut, LoadConfig, CoreExits, CloseDone, CloseMonitor,
      ReadOutcome, TermMoves, MonitorMoves, managerVars, runtimeVars, exitVars, coreVars, startVars,
      stopVars, mutVars
<1>29. ASSUME NEW m \in Mutators,
           BeginMutation(m) \/ LockShared(m) \/ Validate(m) \/ CommitCall(m)
             \/ ReleaseMutation(m)
     PROVE  StopInv'
  BY <1>1, <1>29, Zenon
  DEF BeginMutation, LockShared, Validate, CommitCall, ReleaseMutation, Unlease, HashesAfter,
      Applied, managerVars, runtimeVars, exitVars, coreVars, startVars, stopVars, mutVars
<1>30. ASSUME NEW m \in Mutators, NEW c \in Calls,
           CallCore(m, c)
     PROVE  StopInv'
  BY <1>1, <1>30, Zenon
  DEF CallCore, Applied, managerVars, runtimeVars, exitVars, coreVars, startVars, stopVars, mutVars
<1>31. CASE UNCHANGED vars
  BY <1>1, <1>31, Zenon DEF vars, managerVars, runtimeVars, exitVars, coreVars, startVars, stopVars, mutVars
<1> QED
  BY <1>1, <1>2, <1>3, <1>4, <1>5, <1>6, <1>7, <1>8, <1>9, <1>10, <1>11, <1>12, <1>13, <1>14, <1>15, <1>16, <1>17, <1>18, <1>19, <1>20, <1>21, <1>22, <1>23, <1>24, <1>25, <1>26, <1>27, <1>28, <1>29, <1>30, <1>31, Zenon
  DEF Next, StartStep, StopStep, TermStep, MonitorStep, MutationStep

\* The invariant holds initially.
LEMMA InvInit == Init => LifecycleInv
<1> SUFFICES ASSUME Init PROVE LifecycleInv
  OBVIOUS
<1>1. TypeOK BY TypeInit, Zenon
<1>2. \A s \in Starters : startPc[s] = "idle" BY Zenon DEF Init
<1>3. \A t \in Stoppers : stopPc[t] = "idle" BY Zenon DEF Init
<1>4. MutexInv
  BY <1>2, <1>3, CallersAssumption, Zenon DEF Init, MutexInv, Active, Holding, Pending
<1>5. StateInv /\ StandInv
  BY <1>2, Zenon DEF Init, StateInv, StandInv, StartStands, Active
<1>6. Unfinalized = {} BY Zenon DEF Init, Unfinalized
<1>7. SettledInv BY <1>6, Zenon DEF Init, SettledInv, RuntimeClear
<1>8. LifeInv BY Zenon DEF Init, LifeInv, ProcessLife
<1>9. OwnerInv BY <1>6, Zenon DEF Init, OwnerInv
<1>10. StartInv
  BY <1>2, Zenon DEF StartInv, StartKnows, HasPrevious, Unassigned, AfterSpawn
<1>11. StopInv BY <1>3, Zenon DEF StopInv, StopKnows, Holding
<1>12. VerdictInv /\ LeaseInv BY Zenon DEF Init, VerdictInv, LeaseInv
<1> QED BY <1>1, <1>4, <1>5, <1>7, <1>8, <1>9, <1>10, <1>11, <1>12, Zenon DEF LifecycleInv

\* Every step preserves the invariant.
LEMMA InvNext == LifecycleInv /\ [Next]_vars => LifecycleInv'
<1> SUFFICES ASSUME LifecycleInv, [Next]_vars PROVE LifecycleInv'
  OBVIOUS
<1>1. /\ TypeManager /\ TypeRuntime /\ TypeProcesses /\ TypeStart /\ TypeStop /\ TypeMutations
      /\ MutexInv /\ StateInv /\ StandInv /\ SettledInv /\ LifeInv
      /\ OwnerInv /\ StartInv /\ StopInv /\ VerdictInv /\ LeaseInv
  BY Zenon DEF LifecycleInv, TypeOK
<1>2. TypeOK' BY TypeNext, Zenon DEF LifecycleInv
<1> QED
  BY <1>1, <1>2, MutexInvNext, StateInvNext, StandInvNext, SettledInvNext, LifeInvNext,
     OwnerInvNext, StartInvNext, StopInvNext, VerdictInvNext, LeaseInvNext, Zenon
  DEF LifecycleInv

\* The inductive invariant: who owns the lifecycle, what each caller knows, and
\* the order of a process's life, in every reachable state.
THEOREM Invariant == Spec => []LifecycleInv
BY InvInit, InvNext, PTL DEF Spec

\* Two processes that may be alive would have one owner between them.
LEMMA InvSingleCore == LifecycleInv => SingleCore
<1> SUFFICES ASSUME LifecycleInv, NEW p \in Unfinalized, NEW q \in Unfinalized PROVE p = q
  BY Zenon DEF SingleCore
<1>1. Owned(p) /\ Owned(q) BY Zenon DEF LifecycleInv, OwnerInv
<1>2. p # NoProc /\ q # NoProc BY BoundsAssumption DEF Unfinalized, Procs, NoProc
<1>3. \A s \in Starters : startPc[s] \in Unassigned => process = NoProc /\ Active(s)
  BY Zenon DEF LifecycleInv, StartInv, StartKnows, Unassigned, Active
<1>4. \A s, x \in Starters : Active(s) /\ Active(x) => s = x
  BY Zenon DEF LifecycleInv, MutexInv
<1> QED BY <1>1, <1>2, <1>3, <1>4, Zenon DEF Owned

\* Start never spawns rw-core beside a process group that may survive: at most
\* one process is alive, for any number of concurrent callers.
THEOREM OneCore == Spec => []SingleCore
BY InvSingleCore, Invariant, PTL

\* A process that may be alive has an owner that can end it: Manager, or the
\* Start that spawned it and holds lifecycleMu.
THEOREM NoProcessIsOrphaned == Spec => []NoOrphan
<1>1. LifecycleInv => NoOrphan
  <2> SUFFICES ASSUME LifecycleInv, NEW p \in Unfinalized, process # p
               PROVE  \E s \in Starters : lifecycleMu = s /\ reserved[s] = p /\ startPc[s] \in AfterSpawn
    BY Zenon DEF NoOrphan
  <2>1. PICK s \in Starters : reserved[s] = p /\ startPc[s] \in Unassigned
    BY Zenon DEF LifecycleInv, OwnerInv, Owned
  <2>2. lifecycleMu = s /\ startPc[s] \in AfterSpawn
    BY <2>1, Zenon DEF LifecycleInv, MutexInv, Active, Unassigned, AfterSpawn
  <2> QED BY <2>1, <2>2, Zenon
<1> QED BY <1>1, Invariant, PTL

\* At most one process is alive, and it has an owner that can end it.
THEOREM CoreIsOwned == Spec => []CoreOwned
BY OneCore, NoProcessIsOrphaned, PTL DEF CoreOwned

\* State and lifecycleMu are published together: the TryLocks of beginStart and
\* reserveStop cannot fail in a settled state.
THEOREM OwnershipIsPublished == Spec => []OwnershipPublished
<1>1. LifecycleInv => OwnershipPublished
  <2> SUFFICES ASSUME LifecycleInv PROVE OwnershipPublished
    OBVIOUS
  <2>1. MutexInv /\ StateInv /\ StandInv BY Zenon DEF LifecycleInv
  <2>2. ASSUME lifecycleMu # None
        PROVE  state = "starting" \/ (state = "stopping" /\ stopOp # None)
    <3>1. CASE lifecycleMu \in Starters BY <2>1, <3>1, Unsettled, Zenon DEF MutexInv
    <3>2. CASE lifecycleMu \in Stoppers BY <2>1, <3>2, Unsettled, Zenon DEF MutexInv
    <3> QED BY <2>2, <3>1, <3>2, Zenon DEF LifecycleInv, TypeOK, TypeManager, Callers
  <2>3. state = "starting" => lifecycleMu \in Starters /\ startCancel = lifecycleMu
    BY <2>1, Zenon DEF MutexInv, StateInv, StandInv, StartStands
  <2> QED BY <2>2, <2>3, Zenon DEF OwnershipPublished
<1> QED BY <1>1, Invariant, PTL

\* stopped is the truth: no process of this Manager survives and nothing of the
\* old runtime is left.
THEOREM StoppedIsTrue == Spec => []StoppedIsClean
<1>1. LifecycleInv => StoppedIsClean
  BY Zenon DEF LifecycleInv, SettledInv, StoppedIsClean, RuntimeClear
<1> QED BY <1>1, Invariant, PTL

\* A running core has a monitor that has yet to publish its exit.
THEOREM RunningIsWatched == Spec => []RunningIsMonitored
<1>1. LifecycleInv => RunningIsMonitored
  BY Zenon DEF LifecycleInv, SettledInv, RunningIsMonitored, RuntimeLive
<1> QED BY <1>1, Invariant, PTL

\* No Start publishes over a Stop that has reserved the lifecycle.
THEOREM StopWins == Spec => []StopOutranksStart
<1>1. LifecycleInv => StopOutranksStart
  BY Zenon DEF LifecycleInv, StateInv, StopOutranksStart
<1> QED BY <1>1, Invariant, PTL
=============================================================================
