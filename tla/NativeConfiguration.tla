------------------------- MODULE NativeConfiguration -------------------------
(***************************************************************************)
(* Changing the configuration of a native installation                     *)
(* (internal/rnlctl/configuration.go, native_config.go): `config set`,     *)
(* `config unset`, `config apply` and `secret set`, each with or without   *)
(* --apply, by concurrent rnlctl processes that may crash, next to a       *)
(* service that loads the files whenever it is restarted.                  *)
(*                                                                         *)
(* The items are the editable keys of node.env and the Secret; the         *)
(* commands have no journal, so a crash keeps what was written.            *)
(***************************************************************************)
EXTENDS Naturals, FiniteSets

CONSTANTS NcProcs, NcItems, NcValues,
          NcBroken,     \* values that pass validation but keep the node unhealthy
          MaxCommands   \* bound: commands run

ASSUME NcAssumption == NcBroken \subseteq NcValues /\ MaxCommands \in Nat /\ "free" \notin NcProcs

VARIABLES ncFiles,    \* value of every item on disk
          ncLoaded,   \* values the service last started with
          ncUp,       \* the service is active
          ncLock,     \* holder of the operation lock, or "free"
          ncProc,     \* [pc, item, value, apply, set, old, changed, restarted]
          ncAcked,    \* history: values of the last command that succeeded
          ncTorn,     \* history: a crash or an unrecovered failure happened
          ncCount

ncVars == <<ncFiles, ncLoaded, ncUp, ncLock, ncProc, ncAcked, ncTorn, ncCount>>
ncDisk == <<ncFiles, ncAcked, ncTorn>>
ncService == <<ncLoaded, ncUp>>

NcIdle == [pc |-> "idle"]

NcInit ==
    /\ \E v \in NcValues \ NcBroken :
        ncFiles = [i \in NcItems |-> v] /\ ncLoaded = ncFiles /\ ncAcked = ncFiles
    /\ ncUp \in BOOLEAN
    /\ ncLock = "free" /\ ncProc = [p \in NcProcs |-> NcIdle] /\ ncTorn = FALSE /\ ncCount = 0

NcAt(p, pc) == ncProc[p].pc = pc
NcTo(p, pc) == ncProc' = [ncProc EXCEPT ![p].pc = pc]
NcHealthy(files) == \A i \in NcItems : files[i] \notin NcBroken

\* A command: set one item (unset writes its default), or only apply.
NcBegin(p) ==
    /\ NcAt(p, "idle") /\ ncCount < MaxCommands
    /\ \E i \in NcItems, v \in NcValues, apply, set \in BOOLEAN :
        /\ set \/ apply
        /\ ncProc' = [ncProc EXCEPT ![p] =
             [pc |-> "lock", item |-> i, value |-> v, apply |-> apply, set |-> set,
              old |-> v, changed |-> FALSE, restarted |-> FALSE]]
    /\ ncCount' = ncCount + 1
    /\ UNCHANGED <<ncDisk, ncService, ncLock>>

NcLockFree == ncLock = "free"

\* acquireOperationLock fails at once when another command runs.
NcAcquire(p) ==
    /\ NcAt(p, "lock")
    /\ IF NcLockFree THEN ncLock' = p /\ NcTo(p, "check")
       ELSE UNCHANGED ncLock /\ ncProc' = [ncProc EXCEPT ![p] = NcIdle]
    /\ UNCHANGED <<ncDisk, ncService, ncCount>>

NcReturn(p) == ncProc' = [ncProc EXCEPT ![p] = NcIdle] /\ ncLock' = "free"

NcRestarts(c) == c.apply

NcAfterWrite(p, c) == IF NcRestarts(c) THEN "restart" ELSE "succeed"

\* requireCleanState, requireActiveConfigurationTarget, the snapshot, the
\* rewrite and its validation, all under the lock and before any write.
NcCheck(p) ==
    /\ NcAt(p, "check")
    /\ LET c == ncProc[p]
           old == ncFiles[c.item]
           now == [c EXCEPT !.old = old, !.changed = c.set /\ old # c.value] IN
       \/ NcReturn(p)
       \/ /\ c.apply => ncUp
          /\ UNCHANGED ncLock
          /\ ncProc' = [ncProc EXCEPT ![p] =
               [now EXCEPT !.pc = IF now.changed THEN "write" ELSE NcAfterWrite(p, now)]]
    /\ UNCHANGED <<ncDisk, ncService, ncCount>>

\* atomicWriteFile: a failure before the rename changes nothing; one after it
\* is reported without a rollback.
NcWrite(p) ==
    /\ NcAt(p, "write")
    /\ LET c == ncProc[p]
           written == [ncFiles EXCEPT ![c.item] = c.value] IN
       \/ ncFiles' = written /\ NcTo(p, "own") /\ UNCHANGED <<ncLock, ncTorn>>
       \/ ncFiles' = written /\ ncTorn' = TRUE /\ NcReturn(p)
       \/ NcReturn(p) /\ UNCHANGED <<ncFiles, ncTorn>>
    /\ UNCHANGED <<ncAcked, ncService, ncCount>>

\* ApplyOwnership, checkConfigurationPermissions, and for a Secret the
\* validation of the whole configuration; a failure restores the file.
NcOwn(p) ==
    /\ NcAt(p, "own")
    /\ NcTo(p, NcAfterWrite(p, ncProc[p])) \/ NcTo(p, "undo")
    /\ UNCHANGED <<ncDisk, ncService, ncLock, ncCount>>

\* host.Restart: the service stops, then loads the files.
NcRestart(p) ==
    /\ NcAt(p, "restart")
    /\ \/ ncUp' = TRUE /\ ncLoaded' = ncFiles
          /\ ncProc' = [ncProc EXCEPT ![p].pc = "healthy", ![p].restarted = TRUE]
       \/ ncUp' \in {ncUp, FALSE} /\ UNCHANGED ncLoaded
          /\ ncProc' = [ncProc EXCEPT ![p].pc = "unhealthy", ![p].restarted = TRUE]
    /\ UNCHANGED <<ncDisk, ncLock, ncCount>>

\* WaitHealthy: a broken configuration never becomes healthy, and any other
\* may miss the deadline.
NcWait(p) ==
    /\ NcAt(p, "healthy")
    /\ \/ ncUp /\ NcHealthy(ncLoaded) /\ NcTo(p, "succeed")
       \/ NcTo(p, "unhealthy")
    /\ UNCHANGED <<ncDisk, ncLock, ncService, ncCount>>

\* A changed file is restored and loaded again; an unchanged one is loaded
\* again only if the command was cancelled.
NcUnhealthy(p) ==
    /\ NcAt(p, "unhealthy")
    /\ \/ ncProc[p].changed /\ NcTo(p, "undoRestart") /\ UNCHANGED ncLock
       \/ ~ncProc[p].changed /\ NcTo(p, "recover") /\ UNCHANGED ncLock
       \/ ~ncProc[p].changed /\ NcReturn(p)
    /\ UNCHANGED <<ncDisk, ncService, ncCount>>

\* Mutant: the rollback leaves the running service as it is.
NcUndoForgets(p) == FALSE

NcUndoRestarts(p) == NcAt(p, "undoRestart")

\* restoreManagedFile under the recovery context: restore and ownership.
NcUndo(p) ==
    /\ ncProc[p].pc \in {"undo", "undoRestart"}
    /\ LET c == ncProc[p] IN
       \/ /\ ncFiles' = [ncFiles EXCEPT ![c.item] = c.old]
          /\ IF NcUndoRestarts(p) THEN NcTo(p, "recover") ELSE NcTo(p, "failed")
          /\ UNCHANGED ncTorn
       \/ NcTo(p, "failed") /\ ncTorn' = TRUE /\ UNCHANGED ncFiles
    /\ UNCHANGED <<ncAcked, ncService, ncLock, ncCount>>

\* The restart of a recovery; its failure is reported with the first error.
NcRecover(p) ==
    /\ NcAt(p, "recover")
    /\ \/ ncUp' = TRUE /\ ncLoaded' = ncFiles /\ UNCHANGED ncTorn
       \/ ncUp' \in {ncUp, FALSE} /\ UNCHANGED ncLoaded /\ ncTorn' = TRUE
    /\ NcTo(p, "failed")
    /\ UNCHANGED <<ncFiles, ncAcked, ncLock, ncCount>>

NcFail(p) ==
    /\ NcAt(p, "failed")
    /\ NcReturn(p)
    /\ UNCHANGED <<ncDisk, ncService, ncCount>>

NcSucceed(p) ==
    /\ NcAt(p, "succeed")
    /\ LET c == ncProc[p] IN
       ncAcked' = IF c.set THEN [ncAcked EXCEPT ![c.item] = c.value] ELSE ncAcked
    /\ NcReturn(p)
    /\ UNCHANGED <<ncFiles, ncTorn, ncService, ncCount>>

\* rnlctl dies; the kernel drops its lock.
NcCrash(p) ==
    /\ ncProc[p].pc \notin {"idle", "lock"}
    /\ NcReturn(p) /\ ncTorn' = TRUE
    /\ UNCHANGED <<ncFiles, ncAcked, ncService, ncCount>>

\* The service manager restarts the node after it died.
NcSupervisor ==
    /\ ncUp /\ ncLoaded' = ncFiles
    /\ UNCHANGED <<ncDisk, ncUp, ncLock, ncProc, ncCount>>

NcNext ==
    \/ NcSupervisor
    \/ \E p \in NcProcs :
        \/ NcBegin(p) \/ NcAcquire(p) \/ NcCheck(p) \/ NcWrite(p) \/ NcOwn(p) \/ NcRestart(p)
        \/ NcWait(p) \/ NcUnhealthy(p) \/ NcUndo(p) \/ NcRecover(p) \/ NcFail(p) \/ NcSucceed(p) \/ NcCrash(p)

NcSpec == NcInit /\ [][NcNext]_ncVars

-----------------------------------------------------------------------------
\* Between commands the files hold what the last successful commands set,
\* item by item: a failed command has put its file back, and no command has
\* overwritten a concurrent one with what it had read earlier.
NcAcknowledgedKept == ncLock = "free" /\ ~ncTorn => ncFiles = ncAcked

\* A command with --apply that succeeds leaves the service running exactly
\* what is on disk, changes made earlier without --apply included.
NcAppliedIsLoaded ==
    \A p \in NcProcs : NcAt(p, "succeed") /\ ncProc[p].apply => ncUp /\ ncLoaded = ncFiles

\* A command that rolls back after it had restarted the service leaves it
\* running the files it put back, not the rejected ones.
NcFailureReverts ==
    \A p \in NcProcs :
        NcAt(p, "failed") /\ ncProc[p].restarted /\ ~ncTorn => ncUp /\ ncLoaded = ncFiles

\* What the configuration commands promise: files, service and answers agree
\* whichever command failed and whoever else ran.
NcPromise ==
    /\ NcAcknowledgedKept
    /\ NcAppliedIsLoaded
    /\ NcFailureReverts

-----------------------------------------------------------------------------
(* The inductive invariant behind NcPromise *)

NcRecs ==
    [pc : {"lock", "check", "write", "own", "restart", "healthy", "unhealthy", "undo", "undoRestart", "recover",
           "failed", "succeed"},
     item : NcItems, value : NcValues, apply : BOOLEAN, set : BOOLEAN, old : NcValues, changed : BOOLEAN,
     restarted : BOOLEAN]
NcTypeOK ==
    /\ ncFiles \in [NcItems -> NcValues] /\ ncLoaded \in [NcItems -> NcValues] /\ ncAcked \in [NcItems -> NcValues]
    /\ ncUp \in BOOLEAN /\ ncTorn \in BOOLEAN /\ ncLock \in NcProcs \cup {"free"}
    /\ ncProc \in [NcProcs -> NcRecs \cup {NcIdle}]

NcClean == ~ncTorn => ncFiles = ncAcked

\* A command has written its item and can still put it back, or it had nothing
\* to write.
NcWritten(c) ==
    /\ c.set => ncFiles[c.item] = c.value
    /\ c.changed => c.set /\ (~ncTorn => [ncFiles EXCEPT ![c.item] = c.old] = ncAcked)
    /\ ~c.changed => NcClean

\* What the holder of the lock knows of files and service at each place.
NcKnows(c) ==
    /\ c.pc \in {"check", "write", "recover", "failed"} => NcClean
    /\ c.pc = "write" => c.changed /\ c.set /\ c.old = ncFiles[c.item]
    /\ c.pc \in {"own", "undo", "undoRestart"} => c.changed
    /\ c.pc \in {"own", "restart", "healthy", "unhealthy", "succeed", "undo", "undoRestart"} => NcWritten(c)
    /\ c.pc \in {"lock", "check", "write", "own", "restart", "undo"} => ~c.restarted
    /\ c.pc = "healthy" => ncLoaded = ncFiles
    /\ c.pc = "succeed" /\ c.apply => ncUp /\ ncLoaded = ncFiles
    /\ c.pc = "failed" /\ c.restarted /\ ~ncTorn => ncUp /\ ncLoaded = ncFiles

NcLocked(c) == c.pc \notin {"idle", "lock"}

NcInv ==
    /\ NcTypeOK
    /\ \A p \in NcProcs : NcLocked(ncProc[p]) <=> ncLock = p
    /\ ncLock = "free" => NcClean
    /\ \A p \in NcProcs : NcKnows(ncProc[p])
=============================================================================
