---------------------------- MODULE ProcessGroup ----------------------------
(***************************************************************************)
(* How rw-core's process group is ended (internal/xray/process_linux.go    *)
(* and the callers in lifecycle.go): the monitor observes the leader's     *)
(* exit without reaping it, kills the group, scans /proc until no member   *)
(* is alive and only then reaps the leader, while terminateProcess sends   *)
(* group signals, members fork and exit, and the kernel reuses process     *)
(* ids.  XrayLifecycle's "finalized" stands for the outcome.               *)
(***************************************************************************)
EXTENDS Naturals

CONSTANTS Pids, Leader,   \* process ids; rw-core's own
          MaxCleanups     \* bound: cleanups of the group

ASSUME PgAssumption == Leader \in Pids /\ 0 \notin Pids /\ MaxCleanups \in Nat

VARIABLES pgTab,      \* pid -> [st, grp, ours]
          pgFin,      \* the process as finalizeExitedProcess sees it: [pc, left, alive, tries]
          pgFinal,    \* processState.finalized
          pgStray     \* a group signal reached a process that is not rw-core's

pgVars == <<pgTab, pgFin, pgFinal, pgStray>>

PgFree == [st |-> "free", grp |-> 0, ours |-> FALSE]

\* configureProcessOwnership makes rw-core the leader of a group of its own, which
\* its children join.  A child that left the group would be out of reach.
PgInit ==
    /\ pgTab = [p \in Pids |-> IF p = Leader THEN [st |-> "live", grp |-> Leader, ours |-> TRUE] ELSE PgFree]
    /\ pgFin = [pc |-> "wait", left |-> {}, alive |-> FALSE, tries |-> 0]
    /\ pgFinal = FALSE /\ pgStray = FALSE

PgMembers == {p \in Pids : pgTab[p].grp = Leader /\ pgTab[p].st \in {"live", "dying"}}

-----------------------------------------------------------------------------
\* The kernel.  A process with a pending SIGKILL forks no more; a number is
\* reused only when no process has it as its id or its group.
PgUnused(q) == pgTab[q].st = "free" /\ \A p \in Pids : pgTab[p].st # "free" => pgTab[p].grp # q

PgFork(p, q) ==
    /\ pgTab[p].st = "live" /\ pgTab[p].ours /\ PgUnused(q)
    /\ pgTab' = [pgTab EXCEPT ![q] = pgTab[p]]
    /\ UNCHANGED <<pgFin, pgFinal, pgStray>>

\* Another process of the host, which may lead a group of its own.
PgOther(q) ==
    /\ PgUnused(q)
    /\ \E grp \in {0, q} : pgTab' = [pgTab EXCEPT ![q] = [st |-> "live", grp |-> grp, ours |-> FALSE]]
    /\ UNCHANGED <<pgFin, pgFinal, pgStray>>

PgExit(p) ==
    /\ pgTab[p].st \in {"live", "dying"}
    /\ pgTab' = [pgTab EXCEPT ![p].st = "zombie"]
    /\ UNCHANGED <<pgFin, pgFinal, pgStray>>

\* Somebody else's parent, or PID 1, reaps; rw-core's parent is the node.
PgReaped(p) ==
    /\ pgTab[p].st = "zombie" /\ ~(p = Leader /\ pgTab[p].ours)
    /\ pgTab' = [pgTab EXCEPT ![p] = PgFree]
    /\ UNCHANGED <<pgFin, pgFinal, pgStray>>

\* kill(-pid, SIGKILL); without a group of that number ESRCH, which is no error.
PgKillGroup ==
    /\ pgTab' = [p \in Pids |-> IF p \in PgMembers THEN [pgTab[p] EXCEPT !.st = "dying"] ELSE pgTab[p]]
    /\ pgStray' = (pgStray \/ \E p \in PgMembers : ~pgTab[p].ours)

-----------------------------------------------------------------------------
\* finalizeMu is held from the kill of a cleanup to markFinalized.
PgBusy == pgFin.pc \in {"kill", "list", "scan", "reap", "mark"}

PgGoto(pc) == pgFin' = [pgFin EXCEPT !.pc = pc]

PgMaySignal == ~PgBusy /\ ~pgFinal

\* processState.signal and kill, called by terminateProcess.  What rw-core does
\* about an interrupt is PgExit's business.
PgTerminate ==
    /\ PgMaySignal
    /\ \/ PgKillGroup
       \/ /\ pgStray' = (pgStray \/ \E p \in PgMembers : ~pgTab[p].ours)
          /\ UNCHANGED pgTab
    /\ UNCHANGED <<pgFin, pgFinal>>

\* Mutant: waitid without WNOWAIT, which reaps the leader it reports.
PgObserveReaps ==
    /\ pgFin.pc = "wait"
    /\ \/ pgTab[Leader].st = "zombie" /\ PgGoto("observed") /\ pgTab' = [pgTab EXCEPT ![Leader] = PgFree]
       \/ PgGoto("unobservable") /\ UNCHANGED pgTab
    /\ UNCHANGED <<pgFinal, pgStray>>

\* waitForProcessLeader: WNOWAIT leaves the zombie.  If waitid fails nothing is
\* cleaned up and the process is never finalized.
PgObserve ==
    /\ pgFin.pc = "wait"
    /\ \/ pgTab[Leader].st = "zombie" /\ PgGoto("observed")
       \/ PgGoto("unobservable")
    /\ UNCHANGED <<pgTab, pgFinal, pgStray>>

\* finalizeExitedProcess, by the monitor and again by each Stop that finds a
\* cleanup failed.
PgFinalize ==
    /\ pgFin.pc \in {"observed", "failed"} /\ pgFin.tries < MaxCleanups
    /\ pgFin' = [pgFin EXCEPT !.pc = "kill", !.tries = @ + 1]
    /\ UNCHANGED <<pgTab, pgFinal, pgStray>>

\* cleanupOwnedProcessGroup kills before it looks.
PgKill ==
    /\ pgFin.pc = "kill"
    /\ \/ PgKillGroup /\ PgGoto("list")
       \/ PgGoto("failed") /\ UNCHANGED <<pgTab, pgStray>>
    /\ UNCHANGED pgFinal

\* ownedProcessGroupMembers: the entries of /proc, without the leader.
PgList ==
    /\ pgFin.pc = "list"
    /\ pgFin' = [pgFin EXCEPT !.pc = "scan", !.alive = FALSE,
                              !.left = {p \in Pids \ {Leader} : pgTab[p].st # "free"}]
    /\ UNCHANGED <<pgTab, pgFinal, pgStray>>

PgIsMember(e) == e.grp = Leader /\ e.st \notin {"zombie", "free"}

\* readLinuxProcessStat, one entry at a time.  One that is gone is skipped, but
\* fails the scan when it went between open and read.
PgStat(p) ==
    /\ pgFin.pc = "scan" /\ p \in pgFin.left
    /\ \/ pgFin' = [pgFin EXCEPT !.left = @ \ {p}, !.alive = @ \/ PgIsMember(pgTab[p])]
       \/ pgTab[p].st = "free" /\ PgGoto("failed")
    /\ UNCHANGED <<pgTab, pgFinal, pgStray>>

\* The deadline passes during the scan.
PgScanTimeout ==
    /\ pgFin.pc = "scan" /\ pgFin.left # {} /\ PgGoto("failed")
    /\ UNCHANGED <<pgTab, pgFinal, pgStray>>

\* No member alive, else the next poll or the deadline.
PgScanned ==
    /\ pgFin.pc = "scan" /\ pgFin.left = {}
    /\ IF pgFin.alive THEN PgGoto("list") \/ PgGoto("failed") ELSE PgGoto("reap")
    /\ UNCHANGED <<pgTab, pgFinal, pgStray>>

\* cmd.Wait, then markFinalized.
PgReap ==
    /\ pgFin.pc = "reap" /\ pgTab' = [pgTab EXCEPT ![Leader] = PgFree] /\ PgGoto("mark")
    /\ UNCHANGED <<pgFinal, pgStray>>

PgMark ==
    /\ pgFin.pc = "mark" /\ pgFinal' = TRUE /\ PgGoto("done")
    /\ UNCHANGED <<pgTab, pgStray>>

PgNext ==
    \/ \E p, q \in Pids : PgFork(p, q)
    \/ \E p \in Pids : PgOther(p) \/ PgExit(p) \/ PgReaped(p) \/ PgStat(p)
    \/ PgTerminate \/ PgObserve \/ PgFinalize \/ PgKill \/ PgList \/ PgScanTimeout \/ PgScanned
    \/ PgReap \/ PgMark

PgSpec == PgInit /\ [][PgNext]_pgVars

-----------------------------------------------------------------------------
\* A verified cleanup is true: once the leader is reaped no process of
\* rw-core's group runs, although /proc is read entry by entry while members
\* fork and exit.
PgVerifiedIsEmpty ==
    pgFin.pc \in {"reap", "mark", "done"} => \A p \in PgMembers : ~pgTab[p].ours

\* "A recycled PID can never redirect a later group signal to an unrelated
\* group": the unreaped leader keeps its number, and a finalized process is
\* signalled no more.
PgNoStraySignal == ~pgStray

\* What the group's cleanup promises: rw-core's processes, all of them and no
\* others.
PgPromise ==
    /\ PgVerifiedIsEmpty
    /\ PgNoStraySignal

-----------------------------------------------------------------------------
(* The inductive invariant behind PgPromise *)

PgTypeOK ==
    /\ pgTab \in [Pids -> [st : {"free", "live", "dying", "zombie"}, grp : Pids \cup {0}, ours : BOOLEAN]]
    /\ pgFin \in [pc : {"wait", "unobservable", "observed", "failed", "kill", "list", "scan", "reap", "mark", "done"},
                  left : SUBSET Pids, alive : BOOLEAN, tries : Nat]
    /\ pgFinal \in BOOLEAN /\ pgStray \in BOOLEAN

\* Until the leader is reaped its number is taken, so its group is rw-core's
\* alone; from the observation on it is a zombie.
PgUnreaped == pgFin.pc \notin {"mark", "done"}
PgLeaderInv ==
    /\ PgUnreaped =>
        /\ pgTab[Leader].st # "free" /\ pgTab[Leader].ours
        /\ \A p \in Pids : pgTab[p].st # "free" /\ pgTab[p].grp = Leader => pgTab[p].ours
    /\ pgFin.pc \in {"observed", "failed", "kill", "list", "scan", "reap"} => pgTab[Leader].st = "zombie"
    /\ \A p \in Pids : pgTab[p].st # "free" /\ pgTab[p].ours => pgTab[p].grp = Leader

\* After the kill nobody of rw-core's can fork, and a scan that has found nobody
\* has only the entries before it to look at.
PgKilled == pgFin.pc \in {"list", "scan", "reap", "mark", "done"}
PgScanInv ==
    /\ PgKilled => \A p \in Pids : pgTab[p].ours => pgTab[p].st # "live"
    /\ pgFin.pc = "scan" /\ ~pgFin.alive => \A p \in PgMembers : pgTab[p].ours => p \in pgFin.left

PgInv ==
    /\ PgTypeOK /\ PgLeaderInv /\ PgScanInv /\ PgPromise
    /\ pgFin.pc = "done" => pgFinal
=============================================================================
