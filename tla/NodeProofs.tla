----------------------------- MODULE NodeProofs -----------------------------
(***************************************************************************)
(* What the parts of the node around the core promise, for every number of *)
(* processes and interfaces and every limit: the cleanup of rw-core's      *)
(* process group, the network monitor, the path of the internal socket,    *)
(* the reports of the torrent blocker and the bounded logs.                *)
(***************************************************************************)
EXTENDS ProcessGroup, NetworkMonitor, UnixSocket, TorrentReports, LogRotation, SequenceTheorems,
        WellFoundedInduction, TLAPS

(* The process group *)

\* What a signal to the group changes.
LEMMA PgKillFrame ==
    ASSUME PgTypeOK, PgKillGroup
    PROVE  /\ \A p \in Pids : /\ pgTab'[p].grp = pgTab[p].grp
                              /\ pgTab'[p].ours = pgTab[p].ours
                              /\ pgTab'[p].st = IF p \in PgMembers THEN "dying" ELSE pgTab[p].st
           /\ pgTab' \in [Pids -> [st : {"free", "live", "dying", "zombie"}, grp : Pids \cup {0}, ours : BOOLEAN]]
<1>1. ASSUME NEW p \in Pids
      PROVE  /\ pgTab'[p] = IF p \in PgMembers THEN [pgTab[p] EXCEPT !.st = "dying"] ELSE pgTab[p]
             /\ pgTab[p] \in [st : {"free", "live", "dying", "zombie"}, grp : Pids \cup {0}, ours : BOOLEAN]
  BY <1>1, Zenon DEF PgKillGroup, PgTypeOK
<1>2. ASSUME NEW p \in Pids
      PROVE  /\ pgTab'[p].grp = pgTab[p].grp /\ pgTab'[p].ours = pgTab[p].ours
             /\ pgTab'[p].st = IF p \in PgMembers THEN "dying" ELSE pgTab[p].st
             /\ pgTab'[p] \in [st : {"free", "live", "dying", "zombie"}, grp : Pids \cup {0}, ours : BOOLEAN]
  BY <1>1, Zenon
<1>3. pgTab' = [p \in Pids |-> pgTab'[p]]
  BY Zenon DEF PgKillGroup
<1> QED  BY <1>2, <1>3, Zenon

\* What the other steps of the kernel change.
LEMMA PgTabFrame ==
    ASSUME PgTypeOK, NEW q \in Pids,
           NEW e \in [st : {"free", "live", "dying", "zombie"}, grp : Pids \cup {0}, ours : BOOLEAN],
           pgTab' = [pgTab EXCEPT ![q] = e]
    PROVE  /\ pgTab'[q] = e /\ \A p \in Pids : p # q => pgTab'[p] = pgTab[p]
           /\ pgTab' \in [Pids -> [st : {"free", "live", "dying", "zombie"}, grp : Pids \cup {0}, ours : BOOLEAN]]
BY Zenon DEF PgTypeOK

LEMMA PgFinFrame ==
    ASSUME PgTypeOK, NEW pc, PgGoto(pc)
    PROVE  pgFin'.pc = pc /\ pgFin'.left = pgFin.left /\ pgFin'.alive = pgFin.alive /\ pgFin'.tries = pgFin.tries
BY Zenon DEF PgTypeOK, PgGoto

LEMMA PgTypeNext == PgTypeOK /\ [PgNext]_pgVars => PgTypeOK'
<1> SUFFICES ASSUME PgTypeOK, [PgNext]_pgVars PROVE PgTypeOK'
  OBVIOUS
<1>0. Leader \in Pids
  BY PgAssumption, Zenon
<1>1. ASSUME NEW p \in Pids, NEW q \in Pids, PgFork(p, q) PROVE PgTypeOK'
  <2>1. pgTab[p] \in [st : {"free", "live", "dying", "zombie"}, grp : Pids \cup {0}, ours : BOOLEAN]
    BY Zenon DEF PgTypeOK
  <2> QED  BY <1>1, <2>1, PgTabFrame, Zenon DEF PgFork, PgTypeOK
<1>2. ASSUME NEW p \in Pids, PgOther(p) PROVE PgTypeOK'
  <2>1. PICK grp \in {0, p} : pgTab' = [pgTab EXCEPT ![p] = [st |-> "live", grp |-> grp, ours |-> FALSE]]
    BY <1>2, Zenon DEF PgOther
  <2>2. [st |-> "live", grp |-> grp, ours |-> FALSE]
          \in [st : {"free", "live", "dying", "zombie"}, grp : Pids \cup {0}, ours : BOOLEAN]
    OBVIOUS
  <2> QED  BY <1>2, <2>1, <2>2, PgTabFrame, Zenon DEF PgOther, PgTypeOK
<1>3. ASSUME NEW p \in Pids, PgExit(p) PROVE PgTypeOK'
  BY <1>3, Zenon DEF PgExit, PgTypeOK
<1>4. ASSUME NEW p \in Pids, PgReaped(p) PROVE PgTypeOK'
  BY <1>4, Zenon DEF PgReaped, PgTypeOK, PgFree
<1>5. ASSUME NEW p \in Pids, PgStat(p) PROVE PgTypeOK'
  <2>1. PgIsMember(pgTab[p]) \in BOOLEAN
    BY Zenon DEF PgIsMember
  <2> QED  BY <1>5, <2>1, Zenon DEF PgStat, PgTypeOK, PgGoto
<1>6. CASE PgTerminate
  BY <1>6, PgKillFrame, Zenon DEF PgTerminate, PgKillGroup, PgTypeOK
<1>7. CASE PgObserve
  BY <1>7, Zenon DEF PgObserve, PgTypeOK, PgGoto
<1>8. CASE PgFinalize
  <2>1. pgFin.tries + 1 \in Nat
    BY DEF PgTypeOK
  <2> QED  BY <1>8, <2>1, Zenon DEF PgFinalize, PgTypeOK
<1>9. CASE PgKill
  <2>1. /\ pgTab' \in [Pids -> [st : {"free", "live", "dying", "zombie"}, grp : Pids \cup {0}, ours : BOOLEAN]]
        /\ pgStray' \in BOOLEAN /\ pgFinal' = pgFinal
    BY <1>9, PgKillFrame, Zenon DEF PgKill, PgKillGroup, PgTypeOK
  <2>2. pgFin' \in [pc : {"wait", "unobservable", "observed", "failed", "kill", "list", "scan", "reap", "mark", "done"},
                    left : SUBSET Pids, alive : BOOLEAN, tries : Nat]
    BY <1>9, Zenon DEF PgKill, PgGoto, PgTypeOK
  <2> QED  BY <2>1, <2>2, Zenon DEF PgTypeOK
<1>10. CASE PgList
  BY <1>10, Zenon DEF PgList, PgTypeOK
<1>11. CASE PgScanTimeout \/ PgScanned
  BY <1>11, Zenon DEF PgScanTimeout, PgScanned, PgTypeOK, PgGoto
<1>12. CASE PgReap
  BY <1>0, <1>12, Zenon DEF PgReap, PgTypeOK, PgGoto, PgFree
<1>13. CASE PgMark
  BY <1>13, Zenon DEF PgMark, PgTypeOK, PgGoto
<1>14. CASE UNCHANGED pgVars
  BY <1>14, Zenon DEF pgVars, PgTypeOK
<1> QED
  BY <1>1, <1>2, <1>3, <1>4, <1>5, <1>6, <1>7, <1>8, <1>9, <1>10, <1>11, <1>12, <1>13, <1>14, Zenon DEF PgNext

\* The unreaped leader keeps its number, and its group is rw-core's.
LEMMA PgLeaderNext == PgTypeOK /\ PgLeaderInv /\ [PgNext]_pgVars => PgLeaderInv'
<1> SUFFICES ASSUME PgTypeOK, PgLeaderInv, [PgNext]_pgVars PROVE PgLeaderInv'
  OBVIOUS
<1>0. Leader \in Pids /\ 0 \notin Pids
  BY PgAssumption, Zenon
<1>1. ASSUME NEW p \in Pids, NEW q \in Pids, PgFork(p, q) PROVE PgLeaderInv'
  <2>1. pgTab'[q] = pgTab[p] /\ \A x \in Pids : x # q => pgTab'[x] = pgTab[x]
    BY <1>1, Zenon DEF PgFork, PgTypeOK
  <2>2. pgFin' = pgFin /\ pgTab[p].ours /\ pgTab[p].grp = Leader /\ pgTab[p].st = "live"
    BY <1>1, Zenon DEF PgFork, PgLeaderInv
  <2>3. PgUnreaped => q # Leader
    BY <1>1, Zenon DEF PgFork, PgUnused, PgLeaderInv
  <2>4. ~PgUnreaped => pgFin.pc \notin {"observed", "failed", "kill", "list", "scan", "reap"}
    BY Zenon DEF PgUnreaped
  <2> QED  BY <1>0, <2>1, <2>2, <2>3, <2>4, Zenon DEF PgLeaderInv, PgUnreaped
<1>2. ASSUME NEW q \in Pids, PgOther(q) PROVE PgLeaderInv'
  <2>1. PICK grp \in {0, q} : pgTab' = [pgTab EXCEPT ![q] = [st |-> "live", grp |-> grp, ours |-> FALSE]]
    BY <1>2, Zenon DEF PgOther
  <2>2. /\ pgTab'[q].grp = grp /\ pgTab'[q].ours = FALSE /\ pgFin' = pgFin
        /\ \A x \in Pids : x # q => pgTab'[x] = pgTab[x]
    BY <1>2, <2>1, Zenon DEF PgOther, PgTypeOK
  <2>3. PgUnreaped => q # Leader
    BY <1>2, Zenon DEF PgOther, PgUnused, PgLeaderInv
  <2>4. ~PgUnreaped => pgFin.pc \notin {"observed", "failed", "kill", "list", "scan", "reap"}
    BY Zenon DEF PgUnreaped
  <2> QED  BY <1>0, <2>2, <2>3, <2>4, Zenon DEF PgLeaderInv, PgUnreaped
<1>3. ASSUME NEW q \in Pids, PgExit(q) PROVE PgLeaderInv'
  <2>1. /\ pgTab'[q].st = "zombie" /\ pgTab'[q].grp = pgTab[q].grp /\ pgTab'[q].ours = pgTab[q].ours
        /\ \A x \in Pids : x # q => pgTab'[x] = pgTab[x]
    BY <1>3, Zenon DEF PgExit, PgTypeOK
  <2>2. pgFin' = pgFin /\ pgTab[q].st # "free"
    BY <1>3, Zenon DEF PgExit
  <2> QED  BY <1>0, <2>1, <2>2, Zenon DEF PgLeaderInv, PgUnreaped
<1>4. ASSUME NEW q \in Pids, PgReaped(q) PROVE PgLeaderInv'
  <2>1. pgTab'[q] = PgFree /\ pgFin' = pgFin /\ \A x \in Pids : x # q => pgTab'[x] = pgTab[x]
    BY <1>4, Zenon DEF PgReaped, PgTypeOK
  <2>2. PgUnreaped => q # Leader
    BY <1>4, Zenon DEF PgReaped, PgLeaderInv
  <2>3. ~PgUnreaped => pgFin.pc \notin {"observed", "failed", "kill", "list", "scan", "reap"}
    BY Zenon DEF PgUnreaped
  <2> QED  BY <1>0, <2>1, <2>2, <2>3 DEF PgLeaderInv, PgUnreaped, PgFree
<1>5. ASSUME pgTab' = pgTab, PgUnreaped \/ ~PgUnreaped',
             pgFin'.pc \in {"observed", "failed", "kill", "list", "scan", "reap"} => pgTab[Leader].st = "zombie"
      PROVE  PgLeaderInv'
  BY <1>5, Zenon DEF PgLeaderInv
<1>6. ASSUME NEW p \in Pids, PgStat(p) PROVE PgLeaderInv'
  <2>1. pgFin'.pc \in {"scan", "failed"} /\ pgTab' = pgTab /\ pgFin.pc = "scan"
    BY <1>6, Zenon DEF PgStat, PgTypeOK, PgGoto
  <2> QED  BY <1>5, <2>1, Zenon DEF PgLeaderInv, PgUnreaped
<1>7. ASSUME PgKillGroup, PgUnreaped,
             pgFin'.pc \in {"observed", "failed", "kill", "list", "scan", "reap"} => pgTab[Leader].st = "zombie",
             PgUnreaped'
      PROVE  PgLeaderInv'
  <2>1. pgTab[Leader].st = "zombie" => Leader \notin PgMembers
    BY Zenon DEF PgMembers
  <2>2. \A x \in Pids : pgTab'[x].st = "free" => pgTab[x].st = "free"
    BY <1>7, PgKillFrame, Zenon
  <2>3. \A x \in Pids : pgTab[x].st = "free" => x \notin PgMembers
    BY Zenon DEF PgMembers
  <2>4. \A x \in Pids : pgTab'[x].st # "free" => pgTab[x].st # "free"
    BY <1>7, <2>3, PgKillFrame, Zenon
  <2> QED  BY <1>0, <1>7, <2>1, <2>2, <2>4, PgKillFrame, Zenon DEF PgLeaderInv
<1>8. CASE PgTerminate
  <2>1. pgFin' = pgFin
    BY <1>8, Zenon DEF PgTerminate
  <2>2. CASE UNCHANGED pgTab
    BY <1>5, <2>1, <2>2, Zenon DEF PgLeaderInv, PgUnreaped
  <2>3. CASE PgKillGroup
    <3>1. CASE PgUnreaped
      BY <1>7, <2>1, <2>3, <3>1, Zenon DEF PgLeaderInv, PgUnreaped
    <3>2. CASE ~PgUnreaped
      <4>1. \A x \in Pids : pgTab[x].st = "free" => x \notin PgMembers
        BY Zenon DEF PgMembers
      <4>2. \A x \in Pids : pgTab'[x].st # "free" => pgTab[x].st # "free"
        BY <2>3, <4>1, PgKillFrame, Zenon
      <4> QED  BY <2>1, <2>3, <3>2, <4>2, PgKillFrame, Zenon DEF PgLeaderInv, PgUnreaped
    <3> QED  BY <3>1, <3>2, Zenon
  <2> QED  BY <1>8, <2>2, <2>3, Zenon DEF PgTerminate
<1>9. CASE PgObserve
  BY <1>5, <1>9, PgFinFrame DEF PgObserve, PgUnreaped
<1>10. CASE PgFinalize
  BY <1>5, <1>10, Zenon DEF PgFinalize, PgTypeOK, PgUnreaped, PgLeaderInv
<1>11. CASE PgKill
  <2>1. pgFin.pc = "kill" /\ pgTab[Leader].st = "zombie"
    BY <1>11, Zenon DEF PgKill, PgLeaderInv
  <2>2. CASE PgKillGroup /\ PgGoto("list")
    BY <1>7, <2>1, <2>2, PgFinFrame DEF PgUnreaped
  <2>3. CASE PgGoto("failed") /\ UNCHANGED <<pgTab, pgStray>>
    BY <1>5, <2>1, <2>3, PgFinFrame, Zenon DEF PgUnreaped
  <2> QED  BY <1>11, <2>2, <2>3, Zenon DEF PgKill
<1>12. CASE PgList
  BY <1>5, <1>12, Zenon DEF PgList, PgTypeOK, PgUnreaped, PgLeaderInv
<1>13. CASE PgScanTimeout \/ PgScanned
  BY <1>5, <1>13, PgFinFrame, Zenon DEF PgScanTimeout, PgScanned, PgUnreaped, PgLeaderInv
<1>14. CASE PgReap
  <2>1. pgTab'[Leader] = PgFree /\ \A x \in Pids : x # Leader => pgTab'[x] = pgTab[x]
    BY <1>0, <1>14, Zenon DEF PgReap, PgTypeOK
  <2>2. pgFin'.pc = "mark"
    BY <1>14, PgFinFrame, Zenon DEF PgReap
  <2> QED  BY <2>1, <2>2 DEF PgLeaderInv, PgUnreaped, PgFree
<1>15. CASE PgMark
  BY <1>5, <1>15, PgFinFrame DEF PgMark, PgUnreaped
<1>16. CASE UNCHANGED pgVars
  BY <1>5, <1>16, Zenon DEF pgVars, PgLeaderInv, PgUnreaped
<1> QED
  BY <1>1, <1>2, <1>3, <1>4, <1>6, <1>8, <1>9, <1>10, <1>11, <1>12, <1>13, <1>14, <1>15, <1>16, Zenon DEF PgNext

\* A step that makes nobody of rw-core's live, and no new member.
LEMMA PgScanFrame ==
    ASSUME PgScanInv, PgKilled' => PgKilled, pgFin'.pc = "scan" => pgFin.pc = "scan",
           pgFin'.left = pgFin.left, pgFin'.alive = pgFin.alive,
           \A p \in Pids : pgTab'[p].ours /\ pgTab'[p].st = "live" => pgTab[p].ours /\ pgTab[p].st = "live",
           \A p \in PgMembers' : pgTab'[p].ours => p \in PgMembers /\ pgTab[p].ours
    PROVE  PgScanInv'
BY Zenon DEF PgScanInv, PgMembers

\* After the kill the group only shrinks, and the scan misses nobody.
LEMMA PgScanNext == PgTypeOK /\ PgLeaderInv /\ PgScanInv /\ [PgNext]_pgVars => PgScanInv'
<1> SUFFICES ASSUME PgTypeOK, PgLeaderInv, PgScanInv, [PgNext]_pgVars PROVE PgScanInv'
  OBVIOUS
<1>0. Leader \in Pids
  BY PgAssumption, Zenon
<1>1. ASSUME NEW p \in Pids, NEW q \in Pids, PgFork(p, q) PROVE PgScanInv'
  <2>1. ~PgKilled /\ pgFin' = pgFin
    BY <1>1, Zenon DEF PgFork, PgScanInv
  <2>2. ~PgKilled' /\ pgFin'.pc # "scan"
    BY <2>1, Zenon DEF PgKilled
  <2> QED  BY <2>2, Zenon DEF PgScanInv
<1>2. ASSUME NEW q \in Pids, NEW e, pgTab' = [pgTab EXCEPT ![q] = e], e.ours => e.st \notin {"live", "dying"},
             UNCHANGED pgFin
      PROVE  PgScanInv'
  <2>1. pgTab'[q] = e /\ \A x \in Pids : x # q => pgTab'[x] = pgTab[x]
    BY <1>2, Zenon DEF PgTypeOK
  <2>2. \A p \in PgMembers' : pgTab'[p].ours => p \in PgMembers /\ pgTab[p].ours
    BY <1>2, <2>1, Zenon DEF PgMembers
  <2>3. PgKilled' = PgKilled
    BY <1>2, Zenon DEF PgKilled
  <2> QED  BY <1>2, <2>1, <2>2, <2>3, PgScanFrame, Zenon
<1>3. ASSUME NEW q \in Pids, PgOther(q) PROVE PgScanInv'
  BY <1>2, <1>3, Zenon DEF PgOther
<1>4. ASSUME NEW q \in Pids, PgExit(q) PROVE PgScanInv'
  <2>1. pgTab' = [pgTab EXCEPT ![q] = [pgTab[q] EXCEPT !.st = "zombie"]] /\ UNCHANGED pgFin
    BY <1>4, Zenon DEF PgExit
  <2>2. [pgTab[q] EXCEPT !.st = "zombie"].st = "zombie"
    BY Zenon DEF PgTypeOK
  <2> QED  BY <1>2, <2>1, <2>2, Zenon
<1>5. ASSUME NEW q \in Pids, PgReaped(q) PROVE PgScanInv'
  BY <1>2, <1>5, Zenon DEF PgReaped, PgFree
<1>6. ASSUME NEW p \in Pids, PgStat(p) PROVE PgScanInv'
  <2>1. UNCHANGED pgTab /\ pgFin.pc = "scan" /\ PgKilled
    BY <1>6, Zenon DEF PgStat, PgKilled
  <2>2. CASE PgGoto("failed")
    <3>1. ~PgKilled' /\ pgFin'.pc # "scan"
      BY <2>2, PgFinFrame DEF PgKilled
    <3> QED  BY <3>1, Zenon DEF PgScanInv
  <2>3. CASE pgFin' = [pgFin EXCEPT !.left = @ \ {p}, !.alive = @ \/ PgIsMember(pgTab[p])]
    <3>1. pgFin'.left = pgFin.left \ {p} /\ pgFin'.alive = (pgFin.alive \/ PgIsMember(pgTab[p]))
      BY <2>3, Zenon DEF PgTypeOK
    <3>2. \A x \in PgMembers : PgIsMember(pgTab[x])
      BY Zenon DEF PgMembers, PgIsMember
    <3>3. PgMembers' = PgMembers
      BY <2>1, Zenon DEF PgMembers
    <3> QED  BY <2>1, <3>1, <3>2, <3>3, Zenon DEF PgScanInv
  <2> QED  BY <1>6, <2>2, <2>3, Zenon DEF PgStat
<1>7. CASE PgTerminate
  <2>1. pgFin' = pgFin /\ (UNCHANGED pgTab \/ PgKillGroup)
    BY <1>7, Zenon DEF PgTerminate
  <2>2. PgKilled' = PgKilled
    BY <2>1, Zenon DEF PgKilled
  <2>3. \A x \in Pids : /\ pgTab'[x].grp = pgTab[x].grp /\ pgTab'[x].ours = pgTab[x].ours
                        /\ pgTab'[x].st = "live" => pgTab[x].st = "live"
                        /\ pgTab'[x].st = "dying" => pgTab[x].st = "dying" \/ x \in PgMembers
    BY <2>1, PgKillFrame, Zenon
  <2>4. \A x \in PgMembers' : pgTab'[x].ours => x \in PgMembers /\ pgTab[x].ours
    BY <2>3, Zenon DEF PgMembers
  <2> QED  BY <2>1, <2>2, <2>3, <2>4, PgScanFrame, Zenon
<1>8. CASE PgKill
  <2>1. CASE PgKillGroup /\ PgGoto("list")
    <3>1. pgFin'.pc = "list"
      BY <2>1, PgFinFrame, Zenon
    <3>2. \A x \in Pids : pgTab[x].ours /\ pgTab[x].st = "live" => x \in PgMembers
      BY Zenon DEF PgLeaderInv, PgMembers
    <3>3. \A x \in Pids : pgTab'[x].ours => pgTab'[x].st # "live"
      BY <2>1, <3>2, PgKillFrame, Zenon
    <3> QED  BY <3>1, <3>3, Zenon DEF PgScanInv
  <2>2. CASE PgGoto("failed")
    <3>1. ~PgKilled' /\ pgFin'.pc # "scan"
      BY <2>2, PgFinFrame DEF PgKilled
    <3> QED  BY <3>1, Zenon DEF PgScanInv
  <2> QED  BY <1>8, <2>1, <2>2, Zenon DEF PgKill
<1>9. CASE PgList
  <2>1. /\ pgFin.pc = "list" /\ pgFin'.pc = "scan" /\ UNCHANGED pgTab
        /\ pgFin'.left = {p \in Pids \ {Leader} : pgTab[p].st # "free"}
    BY <1>9, Zenon DEF PgList, PgTypeOK
  <2>2. pgTab[Leader].st = "zombie" /\ PgKilled
    BY <2>1, Zenon DEF PgLeaderInv, PgKilled
  <2>3. \A x \in PgMembers : x \in pgFin'.left
    BY <2>1, <2>2, Zenon DEF PgMembers
  <2>4. PgMembers' = PgMembers
    BY <2>1, Zenon DEF PgMembers
  <2> QED  BY <2>1, <2>2, <2>3, <2>4, Zenon DEF PgScanInv
<1>10. ASSUME UNCHANGED pgTab, NEW pc \in {"observed", "unobservable", "failed", "list", "reap", "done"}, PgGoto(pc),
              pc \in {"observed", "unobservable", "failed"} \/ PgKilled
       PROVE  PgScanInv'
  <2>1. pgFin'.pc = pc
    BY <1>10, PgFinFrame, Zenon
  <2> QED  BY <1>10, <2>1, Zenon DEF PgScanInv, PgKilled
<1>11. CASE PgObserve \/ PgScanTimeout \/ PgScanned \/ PgMark
  BY <1>10, <1>11, Zenon DEF PgObserve, PgScanTimeout, PgScanned, PgMark, PgKilled
<1>12. CASE PgFinalize
  <2>1. ~PgKilled' /\ pgFin'.pc # "scan"
    BY <1>12, Zenon DEF PgFinalize, PgTypeOK, PgKilled
  <2> QED  BY <2>1, Zenon DEF PgScanInv
<1>13. CASE PgReap
  <2>1. pgTab'[Leader] = PgFree /\ \A x \in Pids : x # Leader => pgTab'[x] = pgTab[x]
    BY <1>0, <1>13, Zenon DEF PgReap, PgTypeOK
  <2>2. pgFin'.pc = "mark" /\ PgKilled
    BY <1>13, PgFinFrame, Zenon DEF PgReap, PgKilled
  <2> QED  BY <2>1, <2>2 DEF PgScanInv, PgFree
<1>14. CASE UNCHANGED pgVars
  BY <1>14, PgScanFrame, Zenon DEF pgVars, PgKilled, PgMembers
<1> QED
  BY <1>1, <1>3, <1>4, <1>5, <1>6, <1>7, <1>8, <1>9, <1>11, <1>12, <1>13, <1>14, Zenon DEF PgNext

\* A step after which the verdict stands that stood before.
LEMMA PgVerdictFrame ==
    ASSUME PgVerifiedIsEmpty,
           pgFin'.pc \in {"reap", "mark", "done"} => pgFin.pc \in {"reap", "mark", "done"},
           \A p \in PgMembers' : pgTab'[p].ours => p \in PgMembers /\ pgTab[p].ours
    PROVE  PgVerifiedIsEmpty'
BY Zenon DEF PgVerifiedIsEmpty

\* What the cleanup has verified stays true, and no signal goes astray.
LEMMA PgPromiseNext ==
    ASSUME PgInv, [PgNext]_pgVars
    PROVE  PgPromise' /\ (pgFin'.pc = "done" => pgFinal')
<1>0. PgTypeOK /\ PgLeaderInv /\ PgScanInv /\ PgVerifiedIsEmpty /\ ~pgStray /\ (pgFin.pc = "done" => pgFinal)
  BY Zenon DEF PgInv, PgPromise, PgNoStraySignal
<1>1. PgUnreaped => \A p \in PgMembers : pgTab[p].ours
  BY <1>0, Zenon DEF PgLeaderInv, PgMembers
<1>2. ASSUME NEW q \in Pids, NEW e, pgTab' = [pgTab EXCEPT ![q] = e],
             e.ours /\ e.st \in {"live", "dying"} =>
                 \/ pgTab[q].ours /\ pgTab[q].st \in {"live", "dying"} /\ pgTab[q].grp = e.grp
                 \/ pgFin.pc \notin {"reap", "mark", "done"},
             UNCHANGED <<pgFin, pgFinal, pgStray>>
      PROVE  PgPromise' /\ (pgFin'.pc = "done" => pgFinal')
  <2>1. pgTab'[q] = e /\ \A x \in Pids : x # q => pgTab'[x] = pgTab[x]
    BY <1>0, <1>2, Zenon DEF PgTypeOK
  <2>2. pgFin.pc \in {"reap", "mark", "done"} =>
          \A p \in PgMembers' : pgTab'[p].ours => p \in PgMembers /\ pgTab[p].ours
    BY <1>2, <2>1, Zenon DEF PgMembers
  <2>3. PgVerifiedIsEmpty'
    BY <1>0, <1>2, <2>2, Zenon DEF PgVerifiedIsEmpty
  <2> QED  BY <1>0, <1>2, <2>3, Zenon DEF PgPromise, PgNoStraySignal
<1>3. ASSUME NEW p \in Pids, NEW q \in Pids, PgFork(p, q) PROVE PgPromise' /\ (pgFin'.pc = "done" => pgFinal')
  <2>1. pgFin.pc \notin {"reap", "mark", "done"}
    BY <1>0, <1>3, Zenon DEF PgFork, PgScanInv, PgKilled
  <2> QED  BY <1>2, <1>3, <2>1, Zenon DEF PgFork
<1>4. ASSUME NEW q \in Pids, PgOther(q) PROVE PgPromise' /\ (pgFin'.pc = "done" => pgFinal')
  BY <1>2, <1>4, Zenon DEF PgOther
<1>5. ASSUME NEW q \in Pids, PgExit(q) PROVE PgPromise' /\ (pgFin'.pc = "done" => pgFinal')
  <2>1. pgTab' = [pgTab EXCEPT ![q] = [pgTab[q] EXCEPT !.st = "zombie"]] /\ UNCHANGED <<pgFin, pgFinal, pgStray>>
    BY <1>5, Zenon DEF PgExit
  <2>2. [pgTab[q] EXCEPT !.st = "zombie"].st = "zombie"
    BY <1>0, Zenon DEF PgTypeOK
  <2> QED  BY <1>2, <2>1, <2>2, Zenon
<1>6. ASSUME NEW q \in Pids, PgReaped(q) PROVE PgPromise' /\ (pgFin'.pc = "done" => pgFinal')
  BY <1>2, <1>6, Zenon DEF PgReaped, PgFree
<1>7. ASSUME UNCHANGED <<pgTab, pgFinal, pgStray>>, pgFin'.pc \notin {"reap", "mark", "done"}
      PROVE  PgPromise' /\ (pgFin'.pc = "done" => pgFinal')
  BY <1>0, <1>7, Zenon DEF PgPromise, PgNoStraySignal, PgVerifiedIsEmpty
<1>8. ASSUME NEW p \in Pids, PgStat(p) PROVE PgPromise' /\ (pgFin'.pc = "done" => pgFinal')
  <2>1. pgFin'.pc \in {"scan", "failed"}
    BY <1>0, <1>8, Zenon DEF PgStat, PgTypeOK, PgGoto
  <2> QED  BY <1>7, <1>8, <2>1, Zenon DEF PgStat
<1>9. CASE PgTerminate
  <2>1. pgFin' = pgFin /\ pgFinal' = pgFinal /\ ~PgBusy /\ ~pgFinal
    BY <1>9, Zenon DEF PgTerminate, PgMaySignal
  <2>2. PgUnreaped /\ pgFin.pc \notin {"reap", "mark", "done"}
    BY <1>0, <2>1, Zenon DEF PgBusy, PgUnreaped
  <2>3. ~pgStray'
    BY <1>0, <1>1, <1>9, <2>2, Zenon DEF PgTerminate, PgKillGroup
  <2> QED  BY <1>0, <2>1, <2>2, <2>3, Zenon DEF PgPromise, PgNoStraySignal, PgVerifiedIsEmpty
<1>10. CASE PgKill
  <2>1. pgFin.pc = "kill" /\ pgFin'.pc \in {"list", "failed"}
    BY <1>0, <1>10, PgFinFrame, Zenon DEF PgKill
  <2>2. ~pgStray'
    BY <1>0, <1>1, <1>10, <2>1, Zenon DEF PgKill, PgKillGroup, PgUnreaped
  <2> QED  BY <2>1, <2>2, Zenon DEF PgPromise, PgNoStraySignal, PgVerifiedIsEmpty
<1>11. CASE PgObserve \/ PgScanTimeout
  BY <1>0, <1>7, <1>11, PgFinFrame DEF PgObserve, PgScanTimeout
<1>12. CASE PgFinalize \/ PgList
  BY <1>0, <1>7, <1>12, Zenon DEF PgFinalize, PgList, PgTypeOK
<1>13. CASE PgScanned
  <2>1. UNCHANGED <<pgTab, pgFinal, pgStray>> /\ pgFin.pc = "scan" /\ pgFin.left = {}
    BY <1>13, Zenon DEF PgScanned
  <2>2. CASE PgGoto("list") \/ PgGoto("failed")
    BY <1>0, <1>7, <2>1, <2>2, PgFinFrame
  <2>3. CASE PgGoto("reap") /\ ~pgFin.alive
    <3>1. \A p \in PgMembers : ~pgTab[p].ours
      BY <1>0, <2>1, <2>3, Zenon DEF PgScanInv
    <3>2. pgFin'.pc = "reap" /\ PgMembers' = PgMembers
      BY <1>0, <2>1, <2>3, PgFinFrame, Zenon DEF PgMembers
    <3> QED  BY <1>0, <2>1, <3>1, <3>2, Zenon DEF PgPromise, PgNoStraySignal, PgVerifiedIsEmpty
  <2> QED  BY <1>13, <2>2, <2>3, Zenon DEF PgScanned
<1>14. CASE PgReap
  <2>1. pgTab'[Leader] = PgFree /\ \A x \in Pids : x # Leader => pgTab'[x] = pgTab[x]
    BY <1>0, <1>14, PgAssumption, Zenon DEF PgReap, PgTypeOK
  <2>2. pgFin'.pc = "mark" /\ pgFin.pc = "reap" /\ pgStray' = pgStray
    BY <1>0, <1>14, PgFinFrame, Zenon DEF PgReap
  <2>3. \A p \in PgMembers' : pgTab'[p].ours => p \in PgMembers /\ pgTab[p].ours
    BY <2>1 DEF PgMembers, PgFree
  <2> QED  BY <1>0, <2>2, <2>3, PgVerdictFrame, Zenon DEF PgPromise, PgNoStraySignal
<1>15. CASE PgMark
  <2>1. pgFin'.pc = "done" /\ pgFin.pc = "mark" /\ pgFinal' = TRUE /\ UNCHANGED <<pgTab, pgStray>>
    BY <1>0, <1>15, PgFinFrame, Zenon DEF PgMark
  <2> QED  BY <1>0, <2>1, Zenon DEF PgPromise, PgNoStraySignal, PgVerifiedIsEmpty, PgMembers
<1>16. CASE UNCHANGED pgVars
  BY <1>0, <1>16, Zenon DEF pgVars, PgPromise, PgNoStraySignal, PgVerifiedIsEmpty, PgMembers
<1> QED
  BY <1>3, <1>4, <1>5, <1>6, <1>8, <1>9, <1>10, <1>11, <1>12, <1>13, <1>14, <1>15, <1>16, Zenon DEF PgNext

LEMMA PgStarts == PgInit => PgInv
<1> SUFFICES ASSUME PgInit PROVE PgInv
  OBVIOUS
<1>1. /\ pgTab = [p \in Pids |-> IF p = Leader THEN [st |-> "live", grp |-> Leader, ours |-> TRUE] ELSE PgFree]
      /\ pgFin = [pc |-> "wait", left |-> {}, alive |-> FALSE, tries |-> 0]
      /\ pgFinal = FALSE /\ pgStray = FALSE
  BY Zenon DEF PgInit
<1>2. PgTypeOK
  BY <1>1, PgAssumption, Zenon DEF PgTypeOK, PgFree
<1>3. PgLeaderInv /\ PgScanInv /\ PgPromise
  BY <1>1, PgAssumption, Zenon
     DEF PgLeaderInv, PgUnreaped, PgScanInv, PgKilled, PgPromise, PgVerifiedIsEmpty, PgNoStraySignal, PgFree
<1> QED  BY <1>1, <1>2, <1>3, Zenon DEF PgInv

\* However many processes the group has and however they fork, exit and are
\* reaped while /proc is read: a cleanup that was verified left no process of
\* rw-core's, and no group signal reached anybody else (process_linux.go).
THEOREM GroupIsEnded == PgSpec => []PgPromise
<1>1. PgInv /\ [PgNext]_pgVars => PgInv'
  BY PgTypeNext, PgLeaderNext, PgScanNext, PgPromiseNext, Zenon DEF PgInv
<1>2. PgInv => PgPromise
  BY Zenon DEF PgInv
<1> QED  BY PgStarts, <1>1, <1>2, PTL DEF PgSpec

-----------------------------------------------------------------------------

(* The network monitor *)

LEMMA ElementType ==
    ASSUME NEW S, NEW seq \in Seq(S), NEW k \in DOMAIN seq
    PROVE  seq[k] \in S
OBVIOUS

LEMMA LeastNumber ==
    ASSUME NEW T, T \subseteq Nat, T # {}
    PROVE  \E x \in T : \A y \in T : x <= y
<1>1. IsWellFoundedOn(OpToRel(<, Nat), Nat)
  BY NatLessThanWellFounded, Zenon
<1>2. PICK x \in T : \A y \in T : ~(<<y, x>> \in OpToRel(<, Nat))
  BY <1>1, WFMin, Zenon
<1>3. \A y \in T : ~(y < x)
  BY <1>2, Zenon DEF OpToRel
<1> QED  BY <1>3

\* The CHOOSE of NmDefault has something to choose.
LEMMA NmDefaultIsBest ==
    ASSUME NEW table \in NmRoutes, NmDefault(table) # NmNone
    PROVE  \E k \in DOMAIN table :
             /\ table[k].usable /\ table[k].iface = NmDefault(table)
             /\ \A j \in DOMAIN table : table[j].usable => table[k].metric <= table[j].metric
<1> DEFINE usable == {k \in DOMAIN table : NmUsable(table[k])}
           before(k, j) == table[k].metric < table[j].metric \/ (table[k].metric = table[j].metric /\ k <= j)
           best == CHOOSE k \in usable : \A j \in usable : before(k, j)
<1>1. table \in Seq([iface : Ifaces, usable : BOOLEAN, metric : Nat])
  BY NmAssumption, Zenon
<1>2. DOMAIN table \subseteq Nat /\ \A k \in DOMAIN table : table[k].metric \in Nat
  <2>1. DOMAIN table = 1 .. Len(table) /\ Len(table) \in Nat
    BY <1>1
  <2>2. \A k \in DOMAIN table : table[k] \in [iface : Ifaces, usable : BOOLEAN, metric : Nat]
    BY <1>1, ElementType, Zenon
  <2>3. \A k \in DOMAIN table : table[k].metric \in Nat
    BY <2>2, Zenon
  <2> QED  BY <2>1, <2>3
<1>3. NmDefault(table) = IF usable = {} THEN NmNone ELSE table[best].iface
  BY Zenon DEF NmDefault
<1>4. usable # {}
  BY <1>3, Zenon
<1>5. \E k \in usable : \A j \in usable : before(k, j)
  <2> DEFINE metrics == {table[k].metric : k \in usable}
  <2>1. metrics \subseteq Nat /\ metrics # {}
    BY <1>2, <1>4, Zenon
  <2>2. PICK m \in metrics : \A n \in metrics : m <= n
    BY <2>1, LeastNumber, Zenon
  <2> DEFINE firsts == {k \in usable : table[k].metric = m}
  <2>3. firsts \subseteq Nat /\ firsts # {}
    BY <1>2, <2>2, Zenon
  <2>4. PICK k \in firsts : \A j \in firsts : k <= j
    BY <2>3, LeastNumber, Zenon
  <2>5. \A j \in usable : before(k, j)
    <3> TAKE j \in usable
    <3>1. m <= table[j].metric /\ m \in Nat /\ table[j].metric \in Nat /\ table[k].metric = m
      BY <1>2, <2>2, <2>4, Zenon
    <3>2. table[j].metric = m => k <= j
      BY <2>4, Zenon
    <3>3. m < table[j].metric \/ m = table[j].metric
      BY <3>1
    <3> QED  BY <3>1, <3>2, <3>3, Zenon
  <2> QED  BY <2>4, <2>5, Zenon
<1>6. best \in usable /\ \A j \in usable : before(best, j)
  BY <1>5, Zenon
<1> HIDE DEF best
<1>7. ASSUME NEW j \in DOMAIN table, table[j].usable PROVE table[best].metric <= table[j].metric
  <2>1. j \in usable
    BY <1>7, Zenon DEF NmUsable
  <2>2. before(best, j) /\ best \in DOMAIN table
    BY <1>6, <2>1, Zenon
  <2>3. table[best].metric \in Nat /\ table[j].metric \in Nat
    BY <1>2, <2>2, Zenon
  <2> QED  BY <2>2, <2>3
<1> QED  BY <1>3, <1>4, <1>6, <1>7, Zenon DEF NmUsable

\* A counter one further, and the difference of two counters.
LEMMA NmWraps ==
    ASSUME NEW a \in 0 .. NmModulus - 1
    PROVE  /\ a % NmModulus = a
           /\ (a + 1) % NmModulus \in 0 .. NmModulus - 1
           /\ (a + 1) % NmModulus = IF a + 1 = NmModulus THEN 0 ELSE a + 1
<1>1. NmModulus \in Nat \ {0}
  BY NmAssumption, Zenon
<1> QED  BY <1>1

LEMMA NmTrafficNext ==
    ASSUME NmInv, NmTraffic
    PROVE  NmInv'
<1> DEFINE base == IF nmLoop = "apply" THEN nmRead.sample ELSE nmPrev
<1>1. PICK i \in Ifaces :
        \/ /\ nmCounter[i] # -1 /\ nmCarried[i] < MaxBurst
           /\ nmCounter' = [nmCounter EXCEPT ![i] = (@ + 1) % NmModulus]
           /\ nmCarried' = [nmCarried EXCEPT ![i] = @ + 1]
        \/ nmCounter' = [nmCounter EXCEPT ![i] = IF @ = -1 THEN 0 ELSE -1] /\ UNCHANGED nmCarried
  BY Zenon DEF NmTraffic
<1>2. /\ NmTypeOK /\ NmTrack(nmCounter, base, nmCarried) /\ UNCHANGED <<nmTable, nmPrev, nmRead, nmCur, nmLoop, nmStop, nmPolls, nmLate>>
      /\ nmCounter \in NmCounts /\ nmCarried \in [Ifaces -> Nat] /\ NmModulus \in Nat \ {0}
  BY NmAssumption, Zenon DEF NmInv, NmTracks, NmTypeOK, NmTraffic
<1>3. base \in NmCounts
  BY <1>2, Zenon DEF NmTypeOK
<1> HIDE DEF base
<1>4. \A j \in Ifaces : nmCounter[j] \in -1 .. NmModulus - 1 /\ nmCarried[j] \in Nat /\ base[j] \in -1 .. NmModulus - 1
  BY <1>2, <1>3, Zenon DEF NmCounts
<1>5. \A j \in Ifaces : j # i => nmCounter'[j] = nmCounter[j] /\ nmCarried'[j] = nmCarried[j]
  BY <1>1, <1>2, Zenon DEF NmCounts
<1>6. /\ nmCounter'[i] \in -1 .. NmModulus - 1 /\ nmCarried'[i] \in Nat
      /\ nmCounter'[i] # -1 =>
            nmCounter'[i] <= nmCarried'[i] \/ (base[i] # -1 /\ nmCounter'[i] - base[i] <= nmCarried'[i])
  <2>1. CASE /\ nmCounter[i] # -1 /\ nmCarried[i] < MaxBurst
             /\ nmCounter' = [nmCounter EXCEPT ![i] = (@ + 1) % NmModulus]
             /\ nmCarried' = [nmCarried EXCEPT ![i] = @ + 1]
    <3>1. nmCounter'[i] = (nmCounter[i] + 1) % NmModulus /\ nmCarried'[i] = nmCarried[i] + 1
      BY <1>2, <2>1, Zenon DEF NmCounts
    <3>2. nmCounter[i] \in 0 .. NmModulus - 1
      BY <1>2, <1>4, <2>1
    <3>3. /\ nmCounter'[i] \in 0 .. NmModulus - 1
          /\ nmCounter'[i] = IF nmCounter[i] + 1 = NmModulus THEN 0 ELSE nmCounter[i] + 1
      BY <3>1, <3>2, NmWraps, Zenon
    <3>4. nmCounter[i] <= nmCarried[i] \/ (base[i] # -1 /\ nmCounter[i] - base[i] <= nmCarried[i])
      BY <1>2, <2>1, Zenon DEF NmTrack
    <3> QED  BY <1>2, <1>4, <3>1, <3>2, <3>3, <3>4
  <2>2. CASE nmCounter' = [nmCounter EXCEPT ![i] = IF @ = -1 THEN 0 ELSE -1] /\ UNCHANGED nmCarried
    <3>1. nmCounter'[i] \in {0, -1} /\ nmCarried'[i] = nmCarried[i]
      BY <1>2, <2>2, Zenon DEF NmCounts
    <3> QED  BY <1>2, <1>4, <3>1
  <2> QED  BY <1>1, <2>1, <2>2, Zenon
<1>7. nmCounter' \in NmCounts /\ nmCarried' \in [Ifaces -> Nat]
  <2>1. nmCounter' = [j \in Ifaces |-> nmCounter'[j]] /\ nmCarried' = [j \in Ifaces |-> nmCarried'[j]]
    BY <1>1, <1>2, Zenon DEF NmCounts
  <2>2. \A j \in Ifaces : nmCounter'[j] \in -1 .. NmModulus - 1 /\ nmCarried'[j] \in Nat
    BY <1>4, <1>5, <1>6, Zenon
  <2> QED  BY <2>1, <2>2, Zenon DEF NmCounts
<1>8. NmTrack(nmCounter', base, nmCarried')
  BY <1>2, <1>5, <1>6, Zenon DEF NmTrack
<1>9. NmTypeOK'
  BY <1>2, <1>7, Zenon DEF NmTypeOK
<1>10. NmTracks'
  BY <1>2, <1>8, Zenon DEF NmInv, NmTracks, base
<1> QED  BY <1>2, <1>9, <1>10, Zenon DEF NmInv, NmLastPoll, NmStopIsBounded, NmNeverOverstates

LEMMA NmReadNext ==
    ASSUME NmInv, NmReadSamples
    PROVE  NmInv'
<1>1. /\ NmTypeOK /\ nmLoop' = "apply" /\ nmRead' = [sample |-> nmCounter, carried |-> nmCarried] /\ nmCarried' = NmZero
      /\ NmTrack(nmCounter, nmPrev, nmCarried)
      /\ UNCHANGED <<nmCounter, nmTable, nmPrev, nmCur, nmStop, nmPolls, nmLate>>
  BY Zenon DEF NmReadSamples, NmInv, NmTracks
<1>2. nmRead'.sample = nmCounter /\ nmRead'.carried = nmCarried
  BY <1>1, Zenon
<1>3. nmCounter \in NmCounts /\ nmCarried \in [Ifaces -> Nat]
  BY <1>1, Zenon DEF NmTypeOK
<1>4. NmTypeOK'
  <2>1. nmRead' \in [sample : NmCounts, carried : [Ifaces -> Nat]]
    BY <1>1, <1>3, Zenon
  <2>2. nmCarried' \in [Ifaces -> Nat]
    BY <1>1, Zenon DEF NmZero
  <2> QED  BY <1>1, <2>1, <2>2, Zenon DEF NmTypeOK
<1>5. NmTrack(nmCounter, nmCounter, NmZero)
  <2>1. \A i \in Ifaces : nmCounter[i] # -1 => nmCounter[i] - nmCounter[i] <= NmZero[i]
    <3>1. \A i \in Ifaces : nmCounter[i] \in Int /\ NmZero[i] = 0
      BY <1>3, NmAssumption DEF NmCounts, NmZero
    <3> QED  BY <3>1
  <2> QED  BY <2>1, Zenon DEF NmTrack
<1>6. NmTracks'
  <2>1. NmTrack(nmRead'.sample, nmPrev', nmRead'.carried) /\ NmTrack(nmCounter', nmRead'.sample, nmCarried')
    BY <1>1, <1>2, <1>5, Zenon
  <2> QED  BY <1>1, <2>1, Zenon DEF NmTracks
<1> QED  BY <1>1, <1>4, <1>6, Zenon DEF NmInv, NmLastPoll, NmStopIsBounded, NmNeverOverstates

\* The rate of two samples is at most what was carried between them.
LEMMA NmRateIsTrue ==
    ASSUME NmTypeOK, NEW iface, iface = NmNone \/ iface \in Ifaces, NmTrack(nmRead.sample, nmPrev, nmRead.carried)
    PROVE  NmRate(iface, nmRead.sample).delta <= NmRate(iface, nmRead.sample).real
<1> DEFINE cur == nmRead.sample
<1>1. CASE /\ iface # NmNone /\ cur[iface] # -1 /\ nmPrev[iface] # -1
           /\ NmMonotone(nmPrev[iface], cur[iface])
  <2>1. NmRate(iface, cur) =
          [iface |-> iface, delta |-> (cur[iface] - nmPrev[iface]) % NmModulus, real |-> nmRead.carried[iface]]
    BY <1>1, Zenon DEF NmRate
  <2>2. /\ cur[iface] \in -1 .. NmModulus - 1 /\ nmPrev[iface] \in -1 .. NmModulus - 1
        /\ nmRead.carried[iface] \in Nat /\ NmModulus \in Nat \ {0} /\ iface \in Ifaces
    BY <1>1, NmAssumption, Zenon DEF NmTypeOK, NmCounts
  <2>3. cur[iface] - nmPrev[iface] \in 0 .. NmModulus - 1
    BY <1>1, <2>2 DEF NmMonotone
  <2>4. (cur[iface] - nmPrev[iface]) % NmModulus = cur[iface] - nmPrev[iface]
    BY <2>3, NmWraps, Zenon
  <2>5. cur[iface] <= nmRead.carried[iface] \/ cur[iface] - nmPrev[iface] <= nmRead.carried[iface]
    BY <1>1, <2>2, Zenon DEF NmTrack
  <2>6. cur[iface] - nmPrev[iface] <= nmRead.carried[iface]
    BY <1>1, <2>2, <2>5
  <2> QED  BY <2>1, <2>4, <2>6
<1>2. CASE ~(/\ iface # NmNone /\ cur[iface] # -1 /\ nmPrev[iface] # -1
             /\ NmMonotone(nmPrev[iface], cur[iface]))
  <2>1. NmRate(iface, cur) = NmNothing
    BY <1>2, Zenon DEF NmRate
  <2> QED  BY <2>1 DEF NmNothing
<1> QED  BY <1>1, <1>2, Zenon

\* The default interface is one of the host's.
LEMMA NmDefaultType ==
    ASSUME NEW table \in NmRoutes
    PROVE  NmDefault(table) = NmNone \/ NmDefault(table) \in Ifaces
<1> SUFFICES ASSUME NmDefault(table) # NmNone PROVE NmDefault(table) \in Ifaces
  OBVIOUS
<1>1. PICK k \in DOMAIN table : table[k].iface = NmDefault(table)
  BY NmDefaultIsBest, Zenon
<1>2. table \in Seq([iface : Ifaces, usable : BOOLEAN, metric : Nat])
  BY NmAssumption, Zenon
<1>3. table[k] \in [iface : Ifaces, usable : BOOLEAN, metric : Nat]
  BY <1>2, ElementType, Zenon
<1> QED  BY <1>1, <1>3, Zenon

LEMMA NmApplyNext ==
    ASSUME NmInv, NmApply
    PROVE  NmInv'
<1>1. /\ NmTypeOK /\ nmLoop = "apply" /\ nmLoop' = "top" /\ nmPrev' = nmRead.sample /\ nmRead' = NmNoRead
      /\ nmCur' = NmRate(NmDefault(nmTable), nmRead.sample) /\ UNCHANGED <<nmHost, nmStop, nmPolls, nmLate>>
      /\ NmTrack(nmCounter, nmRead.sample, nmCarried) /\ NmTrack(nmRead.sample, nmPrev, nmRead.carried)
  BY Zenon DEF NmApply, NmInv, NmTracks
<1>2. UNCHANGED <<nmCounter, nmCarried, nmTable>>
  BY <1>1, Zenon DEF nmHost
<1>3. NmTypeOK'
  <2>1. NmNoRead \in [sample : NmCounts, carried : [Ifaces -> Nat]] /\ nmRead.sample \in NmCounts
    BY <1>1, NmAssumption DEF NmNoRead, NmZero, NmCounts, NmTypeOK
  <2> QED  BY <1>1, <1>2, <2>1, Zenon DEF NmTypeOK
<1>4. NmTracks'
  BY <1>1, <1>2, Zenon DEF NmTracks
<1>5. NmNeverOverstates'
  <2>1. NmDefault(nmTable) = NmNone \/ NmDefault(nmTable) \in Ifaces
    BY <1>1, NmDefaultType, Zenon DEF NmTypeOK
  <2> QED  BY <1>1, <2>1, NmRateIsTrue, Zenon DEF NmNeverOverstates
<1> QED  BY <1>1, <1>3, <1>4, <1>5, Zenon DEF NmInv, NmLastPoll, NmStopIsBounded

LEMMA NmLoopNext ==
    ASSUME NmInv, NmLoop
    PROVE  NmInv'
<1>1. /\ NmTypeOK /\ NmTracks /\ NmLastPoll /\ NmNeverOverstates /\ UNCHANGED <<nmHost, nmPrev, nmRead, nmCur, nmStop>>
      /\ nmLoop # "apply" /\ nmLoop' \in {"done", "wait", "tick"}
  BY Zenon DEF NmLoop, NmInv, NmPrefersStop
<1>2. UNCHANGED <<nmCounter, nmCarried, nmTable>>
  BY <1>1, Zenon DEF nmHost
<1>3. NmTracks'
  BY <1>1, <1>2, Zenon DEF NmTracks
<1>4. nmLate' \in Nat /\ nmPolls' \in Nat /\ NmLastPoll'
  <2>1. CASE nmLoop = "top" /\ NmPrefersStop /\ UNCHANGED <<nmPolls, nmLate>>
    BY <1>1, <2>1, Zenon DEF NmTypeOK, NmPrefersStop, NmLastPoll, NmStopIsBounded
  <2>2. CASE /\ nmLoop = "wait" /\ nmLoop' = "tick" /\ nmPolls' = nmPolls + 1
             /\ nmLate' = IF nmStop = "no" THEN 0 ELSE nmLate + 1
    <3>1. nmLate = 0 /\ nmPolls \in Nat
      BY <1>1, <2>2, Zenon DEF NmLastPoll, NmTypeOK
    <3> QED  BY <1>1, <2>2, <3>1 DEF NmLastPoll, NmStopIsBounded
  <2>3. CASE nmLoop = "wait" /\ nmStop # "no" /\ nmLoop' = "done" /\ UNCHANGED <<nmPolls, nmLate>>
    BY <1>1, <2>3, Zenon DEF NmTypeOK, NmLastPoll, NmStopIsBounded
  <2> QED  BY <2>1, <2>2, <2>3, Zenon DEF NmLoop
<1>5. NmTypeOK'
  BY <1>1, <1>2, <1>4, Zenon DEF NmTypeOK
<1> QED  BY <1>1, <1>3, <1>4, <1>5, Zenon DEF NmInv, NmNeverOverstates

LEMMA NmInvNext == NmInv /\ [NmNext]_nmVars => NmInv'
<1> SUFFICES ASSUME NmInv, [NmNext]_nmVars PROVE NmInv'
  OBVIOUS
<1>1. CASE UNCHANGED nmVars
  BY <1>1, Zenon DEF nmVars, NmInv, NmTypeOK, NmTracks, NmLastPoll, NmStopIsBounded, NmNeverOverstates
<1>2. CASE NmReroute
  BY <1>2, Zenon DEF NmReroute, NmInv, NmTypeOK, NmTracks, NmLastPoll, NmStopIsBounded, NmNeverOverstates
<1>3. CASE NmStop
  BY <1>3, Zenon DEF NmStop, nmHost, NmInv, NmTypeOK, NmTracks, NmLastPoll, NmStopIsBounded, NmNeverOverstates
<1> QED  BY <1>1, <1>2, <1>3, NmTrafficNext, NmReadNext, NmApplyNext, NmLoopNext, Zenon DEF NmNext

LEMMA NmStarts == NmInit => NmInv
<1> SUFFICES ASSUME NmInit PROVE NmInv
  OBVIOUS
<1>1. NmZero \in NmCounts /\ NmZero \in [Ifaces -> Nat] /\ \A i \in Ifaces : NmZero[i] = 0
  BY NmAssumption DEF NmZero, NmCounts
<1>2. NmTypeOK
  <2>1. nmRead \in [sample : NmCounts, carried : [Ifaces -> Nat]]
    BY <1>1, Zenon DEF NmInit, NmNoRead
  <2>2. nmCounter \in NmCounts /\ nmPrev \in NmCounts /\ nmCarried \in [Ifaces -> Nat]
    BY <1>1, Zenon DEF NmInit
  <2>3. nmLate \in Nat /\ nmPolls \in Nat
    BY Zenon DEF NmInit
  <2> QED  BY <2>1, <2>2, <2>3, Zenon DEF NmInit, NmTypeOK
<1>3. NmTracks
  <2>1. \A i \in Ifaces : nmCounter[i] <= nmCarried[i]
    <3>1. \A i \in Ifaces : nmCounter[i] = 0 /\ nmCarried[i] = 0
      BY <1>1, Zenon DEF NmInit
    <3>2. 0 <= 0
      OBVIOUS
    <3> QED  BY <3>1, <3>2, Zenon
  <2> QED  BY <2>1, Zenon DEF NmInit, NmTracks, NmTrack
<1>4. NmLastPoll /\ NmNeverOverstates
  BY DEF NmInit, NmLastPoll, NmStopIsBounded, NmNeverOverstates, NmNothing
<1> QED  BY <1>2, <1>3, <1>4, Zenon DEF NmInv

\* Only NmApply goes from "apply" to "top".
LEMMA NmPublishes ==
    ASSUME NmInv, NmNext, nmLoop = "apply", nmLoop' = "top", nmCur'.iface # NmNone
    PROVE  \E k \in DOMAIN nmTable :
            /\ nmTable[k].usable /\ nmTable[k].iface = nmCur'.iface
            /\ \A j \in DOMAIN nmTable : nmTable[j].usable => nmTable[k].metric <= nmTable[j].metric
<1>1. NmApply
  BY Zenon DEF NmNext, NmTraffic, NmReroute, NmReadSamples, NmLoop, NmStop
<1>2. nmCur' = NmRate(NmDefault(nmTable), nmRead.sample) /\ nmTable \in NmRoutes
  BY <1>1, Zenon DEF NmApply, NmInv, NmTypeOK
<1>3. nmCur'.iface = NmDefault(nmTable)
  BY <1>2, Zenon DEF NmRate, NmNothing
<1> QED  BY <1>2, <1>3, NmDefaultIsBest, Zenon

\* Whatever the interfaces, the width of their counters, the routing tables and
\* the order of polls and Stop: the rate shown was really there, belongs to the
\* interface of the default route, and Stop waits for one poll at most.
THEOREM MonitorIsTruthful == NmSpec => NmPromise
<1>1. NmInv /\ [NmNext]_nmVars =>
        [nmLoop = "apply" /\ nmLoop' = "top" /\ nmCur'.iface # NmNone =>
          \E k \in DOMAIN nmTable :
            /\ nmTable[k].usable /\ nmTable[k].iface = nmCur'.iface
            /\ \A j \in DOMAIN nmTable : nmTable[j].usable => nmTable[k].metric <= nmTable[j].metric]_nmVars
  BY NmPublishes, Zenon
<1>2. NmInv => NmNeverOverstates /\ NmStopIsBounded
  BY Zenon DEF NmInv, NmLastPoll
<1>3. NmSpec => []NmInv
  BY NmStarts, NmInvNext, PTL DEF NmSpec
<1>4. NmSpec => [](NmNeverOverstates /\ NmStopIsBounded)
  BY <1>2, <1>3, PTL
<1>5. NmSpec => NmFollowsRoute
  BY <1>1, <1>3, PTL DEF NmSpec, NmFollowsRoute
<1> QED  BY <1>4, <1>5, PTL DEF NmPromise

-----------------------------------------------------------------------------

(* The internal socket *)

\* A process's own socket is none of the ones it may find there.
LEMMA UsOwnSocket ==
    ASSUME UsTypeOK, NEW p \in Nodes
    PROVE  UsSocket(p) \in UsSockets \ {<<"none">>, <<"file">>, <<"stale">>, <<"live">>}
<1>1. UsSocket(p) \in UsSockets
  BY Zenon DEF UsTypeOK, UsSocket, UsSockets
<1>2. UsSocket(p) \notin {<<"none">>, <<"file">>, <<"stale">>, <<"live">>}
  BY Zenon DEF UsSocket
<1> QED  BY <1>1, <1>2, Zenon

LEMMA UsPathNames ==
    /\ {<<"none">>, <<"file">>, <<"live">>, <<"stale">>} \subseteq UsPaths /\ UsSockets \subseteq UsPaths
    /\ <<"none">> \notin {<<"file">>, <<"live">>, <<"stale">>}
    /\ <<"file">> \notin {<<"live">>, <<"stale">>} /\ <<"live">> # <<"stale">>
    /\ {<<"none">>, <<"file">>} \cap UsSockets = {}
<1>1. ASSUME NEW x \in Nodes \X (0..MaxCrashes) PROVE x \notin {<<"none">>, <<"file">>}
  OBVIOUS
<1> QED  BY <1>1 DEF UsPaths, UsSockets

\* A step of one process leaves what the others know alone: either it takes or
\* has the lock, and nobody else is past it, or it changes nothing they look at.
LEMMA UsKeeps ==
    ASSUME UsInv, NEW p \in Nodes, NEW pc \in UsLocked \cup {"start", "failed"}, NEW seen \in UsPaths,
           usPc' = [usPc EXCEPT ![p] = pc], usSeen' = [usSeen EXCEPT ![p] = seen],
           usLife' \in [Nodes -> 0..MaxCrashes], \A q \in Nodes \ {p} : usLife'[q] = usLife[q],
           usPath' \in UsPaths,
           usLock \in {p, "none"} \/ (usLock' = usLock /\ usPath' = usPath),
           UsKnows(p)'
    PROVE  UsInv'
<1>1. UsTypeOK'
  BY Zenon DEF UsInv, UsTypeOK
<1>2. ASSUME NEW q \in Nodes \ {p} PROVE UsKnows(q)'
  <2>1. usPc'[q] = usPc[q] /\ usSeen'[q] = usSeen[q] /\ usLife'[q] = usLife[q] /\ UsKnows(q) /\ q # "none" /\ q # p
    BY UsAssumption, Zenon DEF UsInv, UsTypeOK
  <2>2. CASE usLock \in {p, "none"}
    <3>1. usPc'[q] \notin UsLocked
      BY <2>1, <2>2, Zenon DEF UsKnows
    <3> QED  BY <3>1, Zenon DEF UsKnows, UsLocked
  <2>3. CASE usLock' = usLock /\ usPath' = usPath
    BY <2>1, <2>3, Zenon DEF UsKnows, UsSocket
  <2> QED  BY <2>2, <2>3, Zenon
<1> QED  BY <1>1, <1>2, Zenon DEF UsInv

\* What the process that steps had, and has.
LEMMA UsGoes ==
    ASSUME UsInv, NEW p \in Nodes, NEW pc, UsGoto(p, pc)
    PROVE  usPc' = [usPc EXCEPT ![p] = pc] /\ usPc'[p] = pc
BY Zenon DEF UsInv, UsTypeOK, UsGoto

LEMMA UsSame ==
    ASSUME UsInv, NEW p \in Nodes
    PROVE  /\ UsTypeOK /\ UsKnows(p) /\ usSeen[p] \in UsPaths /\ usPath \in UsPaths
           /\ usSeen = [usSeen EXCEPT ![p] = usSeen[p]]
           /\ usLife \in [Nodes -> 0..MaxCrashes]
BY Zenon DEF UsInv, UsTypeOK

\* Steps that only look.
LEMMA UsLooks ==
    ASSUME UsInv, NEW p \in Nodes, NEW pc \in UsLocked, usPc[p] \in UsLocked, UsGoto(p, pc),
           UNCHANGED <<usPath, usLock, usSeen, usLife>>,
           UsKnows(p)'
    PROVE  UsInv'
<1>1. usLock = p
  BY UsSame, Zenon DEF UsKnows
<1> QED  BY <1>1, UsGoes, UsSame, UsKeeps, Zenon

\* The lock is taken only when nobody has it.
LEMMA UsTaking ==
    ASSUME UsInv, NEW p \in Nodes, UsTakeLock(p)
    PROVE  UsInv'
<1>1. CASE usLock = "none"
  <2>1. usLock' = p /\ UsGoto(p, "inspect") /\ UNCHANGED <<usPath, usSeen, usLife>>
    BY <1>1, Zenon DEF UsTakeLock
  <2>2. usPc'[p] = "inspect"
    BY <2>1, UsGoes, Zenon
  <2>3. UsKnows(p)'
    BY <2>1, <2>2, Zenon DEF UsKnows
  <2>4. "inspect" \in UsLocked
    BY Zenon DEF UsLocked
  <2> QED  BY <1>1, <2>1, <2>3, <2>4, UsGoes, UsSame, UsKeeps, Zenon
<1>2. CASE usLock # "none"
  <2>1. usLock' = usLock /\ UsGoto(p, "failed") /\ UNCHANGED <<usPath, usSeen, usLife>>
    BY <1>2, Zenon DEF UsTakeLock
  <2>2. usPc'[p] = "failed"
    BY <2>1, UsGoes, Zenon
  <2>3. UsKnows(p)'
    BY <2>2, Zenon DEF UsKnows, UsLocked
  <2> QED  BY <2>1, <2>3, UsGoes, UsSame, UsKeeps, Zenon
<1> QED  BY <1>1, <1>2, Zenon

LEMMA UsInspecting ==
    ASSUME UsInv, NEW p \in Nodes, UsInspect(p)
    PROVE  UsInv'
<1>1. usLock = p /\ UNCHANGED <<usPath, usLock, usLife>>
  BY UsSame, Zenon DEF UsInspect, UsKnows, UsLocked
<1>2. CASE usPath \in {<<"none">>, <<"file">>}
  <2> DEFINE pc == IF usPath = <<"none">> THEN "bind" ELSE "unlock"
  <2>1. UsGoto(p, pc) /\ UNCHANGED usSeen
    BY <1>2, UsPathNames, Zenon DEF UsInspect
  <2>2. pc \in {"bind", "unlock"} /\ pc \in UsLocked /\ (pc = "bind" => usPath = <<"none">>)
    BY Zenon DEF UsLocked
  <2> HIDE DEF pc
  <2>3. usPc'[p] = pc
    BY <2>1, UsGoes, Zenon
  <2>4. UsKnows(p)'
    BY <1>1, <2>1, <2>2, <2>3, Zenon DEF UsKnows
  <2> QED  BY <1>1, <2>1, <2>2, <2>4, UsGoes, UsSame, UsKeeps, Zenon
<1>3. CASE usPath \notin {<<"none">>, <<"file">>}
  <2>1. UsGoto(p, "probe") /\ usSeen' = [usSeen EXCEPT ![p] = usPath]
    BY <1>3, Zenon DEF UsInspect
  <2>2. usPc'[p] = "probe" /\ usSeen'[p] = usPath /\ "probe" \in UsLocked
    BY <2>1, UsGoes, UsSame, Zenon DEF UsTypeOK, UsLocked
  <2>3. UsKnows(p)'
    BY <1>1, <1>3, <2>2, Zenon DEF UsKnows
  <2> QED  BY <1>1, <2>1, <2>2, <2>3, UsGoes, UsSame, UsKeeps, Zenon
<1> QED  BY <1>2, <1>3, Zenon

\* Only the listener of the path's socket can accept there, and it has the lock.
LEMMA UsProbeFinds ==
    ASSUME UsInv, NEW p \in Nodes, usPc[p] = "probe", usPath \in UsListening \cup {<<"none">>, <<"file">>}
    PROVE  usPath = <<"live">>
<1>1. usPath \in UsListening /\ usLock = p
  BY UsSame, Zenon DEF UsKnows, UsLocked
<1>2. SUFFICES ASSUME NEW q \in Nodes, usPc[q] \in UsBound PROVE FALSE
  BY <1>1, Zenon DEF UsListening
<1>3. usPc[q] \in UsLocked /\ q # p
  BY <1>2, Zenon DEF UsBound, UsLocked
<1> QED  BY <1>1, <1>3, UsSame, Zenon DEF UsKnows

LEMMA UsLooking ==
    ASSUME UsInv, NEW p \in Nodes,
           UsProbe(p) \/ UsRecheck(p) \/ UsChmod(p) \/ UsStopServing(p) \/ UsCompareOwned(p)
    PROVE  UsInv'
<1>0. UsKnows(p)
  BY UsSame, Zenon
<1>1. CASE UsProbe(p)
  <2> DEFINE pc == IF usPath \in UsListening \cup {<<"none">>, <<"file">>} THEN "unlock" ELSE "recheck"
  <2>1. usPc[p] = "probe" /\ UsGoto(p, pc) /\ UNCHANGED <<usPath, usLock, usSeen, usLife>>
    BY <1>1, Zenon DEF UsProbe
  <2>2. pc \in {"unlock", "recheck"} /\ (pc = "recheck" => usPath # <<"live">>)
    BY Zenon DEF UsListening
  <2> HIDE DEF pc
  <2>3. usPc'[p] = pc
    BY <2>1, UsGoes, Zenon
  <2>4. UsKnows(p)'
    BY <1>0, <2>1, <2>2, <2>3, Zenon DEF UsKnows, UsLocked
  <2>5. pc \in UsLocked /\ usPc[p] \in UsLocked
    BY <2>1, <2>2, Zenon DEF UsLocked
  <2> QED  BY <2>1, <2>4, <2>5, UsLooks, Zenon
<1>2. CASE UsRecheck(p)
  <2>1. usPc[p] = "recheck" /\ UsGoto(p, "unlink") /\ UNCHANGED <<usPath, usLock, usSeen, usLife>>
    BY <1>0, <1>2, Zenon DEF UsRecheck, UsKnows
  <2>3. usPc'[p] = "unlink"
    BY <2>1, UsGoes, Zenon
  <2>4. UsKnows(p)'
    BY <1>0, <2>1, <2>3, Zenon DEF UsKnows, UsLocked
  <2>5. "unlink" \in UsLocked /\ usPc[p] \in UsLocked
    BY <2>1, Zenon DEF UsLocked
  <2> QED  BY <2>1, <2>4, <2>5, UsLooks, Zenon
<1>3. CASE UsChmod(p) \/ UsStopServing(p) \/ UsCompareOwned(p)
  <2>1. /\ usPc[p] \in {"chmod", "serve", "owned"} /\ UNCHANGED <<usPath, usLock, usSeen, usLife>>
        /\ \E pc \in {"serve", "owned", "remove", "unlock"} : UsGoto(p, pc)
    <3>1. CASE UsChmod(p)
      BY <3>1, Zenon DEF UsChmod
    <3>2. CASE UsStopServing(p) \/ UsCompareOwned(p)
      BY <3>2, Zenon DEF UsStopServing, UsCompareOwned
    <3> QED  BY <1>3, <3>1, <3>2, Zenon
  <2>2. PICK pc \in {"serve", "owned", "remove", "unlock"} : UsGoto(p, pc)
    BY <2>1, Zenon
  <2>3. usPc'[p] = pc
    BY <2>2, UsGoes, Zenon
  <2>4. UsKnows(p)'
    BY <1>0, <2>1, <2>3, Zenon DEF UsKnows, UsLocked, UsSocket
  <2>5. pc \in UsLocked /\ usPc[p] \in UsLocked
    BY <2>1, Zenon DEF UsLocked
  <2> QED  BY <2>1, <2>2, <2>4, <2>5, UsLooks, Zenon
<1> QED  BY <1>1, <1>2, <1>3, Zenon

\* Steps that change the path, or what is known of it.
LEMMA UsMoving ==
    ASSUME UsInv, NEW p \in Nodes,
           UsUnlinkStale(p) \/ UsBind(p) \/ UsStat(p) \/ UsRemoveOwned(p)
    PROVE  UsInv'
<1>0. UsKnows(p) /\ usPc[p] \in UsLocked
  BY UsSame, Zenon DEF UsUnlinkStale, UsBind, UsStat, UsRemoveOwned, UsLocked
<1>1. usLock = p /\ UNCHANGED <<usLock, usLife>>
  BY <1>0, Zenon DEF UsKnows, UsUnlinkStale, UsBind, UsStat, UsRemoveOwned
<1>2. CASE UsUnlinkStale(p) \/ UsRemoveOwned(p)
  <2>1. PICK pc \in {"bind", "unlock"} : UsGoto(p, pc)
    BY <1>2, Zenon DEF UsUnlinkStale, UsRemoveOwned
  <2>2. usPath' = <<"none">> /\ usPath' \in UsPaths /\ UNCHANGED usSeen
    BY <1>2, UsPathNames, Zenon DEF UsUnlinkStale, UsRemoveOwned
  <2>3. usPc'[p] = pc /\ pc \in UsLocked
    BY <2>1, UsGoes, Zenon DEF UsLocked
  <2>4. UsKnows(p)'
    BY <1>1, <2>2, <2>3, Zenon DEF UsKnows
  <2> QED  BY <1>1, <2>1, <2>2, <2>3, <2>4, UsGoes, UsSame, UsKeeps, Zenon
<1>3. CASE UsBind(p)
  <2>1. usPath' = UsSocket(p) /\ UsGoto(p, "stat") /\ UNCHANGED usSeen
    BY <1>0, <1>3, Zenon DEF UsBind, UsKnows
  <2>2. usPath' \in UsPaths
    BY <2>1, UsSame, UsOwnSocket, UsPathNames, Zenon
  <2>3. usPc'[p] = "stat" /\ "stat" \in UsLocked
    BY <2>1, UsGoes, Zenon DEF UsLocked
  <2>4. UsKnows(p)'
    BY <1>1, <2>1, <2>3, Zenon DEF UsKnows, UsSocket
  <2> QED  BY <1>1, <2>1, <2>2, <2>3, <2>4, UsGoes, UsSame, UsKeeps, Zenon
<1>4. CASE UsStat(p)
  <2>1. usPath = UsSocket(p) /\ usPath \in UsSockets
    BY <1>0, <1>4, UsSame, UsOwnSocket, Zenon DEF UsStat, UsKnows
  <2>2. usSeen' = [usSeen EXCEPT ![p] = usPath] /\ UsGoto(p, "chmod") /\ UNCHANGED usPath
    BY <1>4, <2>1, Zenon DEF UsStat
  <2>3. usPc'[p] = "chmod" /\ "chmod" \in UsLocked /\ usSeen'[p] = usPath
    BY <2>2, UsGoes, UsSame, Zenon DEF UsLocked, UsTypeOK
  <2>4. UsKnows(p)'
    BY <1>1, <2>1, <2>2, <2>3, Zenon DEF UsKnows, UsSocket
  <2> QED  BY <1>1, <2>2, <2>3, <2>4, UsGoes, UsSame, UsKeeps, Zenon
<1> QED  BY <1>2, <1>3, <1>4, Zenon

\* A process that goes, in order or not, takes only its own lock with it.
LEMMA UsGoing ==
    ASSUME UsInv, NEW p \in Nodes, UsUnlock(p) \/ UsCrash(p)
    PROVE  UsInv'
<1>1. usPath' = usPath /\ usLock' = IF usLock = p THEN "none" ELSE usLock
  BY Zenon DEF UsUnlock, UsCrash
<1>2. usLock \in {p, "none"} \/ (usLock' = usLock /\ usPath' = usPath)
  BY <1>1, Zenon
<1>3. CASE UsUnlock(p)
  <2>1. UsGoto(p, "failed") /\ UNCHANGED <<usSeen, usLife>>
    BY <1>3, Zenon DEF UsUnlock
  <2>2. usPc'[p] = "failed"
    BY <2>1, UsGoes, Zenon
  <2>3. UsKnows(p)'
    BY <2>2, Zenon DEF UsKnows, UsLocked
  <2> QED  BY <1>1, <1>2, <2>1, <2>3, UsGoes, UsSame, UsKeeps, Zenon
<1>4. CASE UsCrash(p)
  <2>1. UsGoto(p, "start") /\ usSeen' = [usSeen EXCEPT ![p] = <<"none">>] /\ <<"none">> \in UsPaths
    BY <1>4, UsPathNames, Zenon DEF UsCrash
  <2>2. usPc'[p] = "start"
    BY <2>1, UsGoes, Zenon
  <2>3. UsKnows(p)'
    BY <2>2, Zenon DEF UsKnows, UsLocked
  <2>4. usLife' \in [Nodes -> 0..MaxCrashes] /\ \A q \in Nodes \ {p} : usLife'[q] = usLife[q]
    BY <1>4, UsSame, UsAssumption DEF UsCrash
  <2> QED  BY <1>1, <1>2, <2>1, <2>3, <2>4, UsGoes, UsSame, UsKeeps, Zenon
<1> QED  BY <1>3, <1>4, Zenon

LEMMA UsInvNext == UsInv /\ [UsNext]_usVars => UsInv'
<1> SUFFICES ASSUME UsInv, [UsNext]_usVars PROVE UsInv'
  OBVIOUS
<1>1. CASE UNCHANGED usVars
  BY <1>1, Zenon DEF usVars, UsInv, UsTypeOK, UsKnows, UsSocket
<1>2. CASE UsNext
  BY <1>2, UsTaking, UsInspecting, UsLooking, UsMoving, UsGoing, Zenon DEF UsNext, UsStep
<1> QED  BY <1>1, <1>2, Zenon

\* What is not the node's is neither removed nor replaced.
LEMMA UsKeepsForeign ==
    ASSUME UsInv, [UsNext]_usVars, usPath \in {<<"file">>, <<"live">>}
    PROVE  usPath' = usPath
<1>1. CASE UNCHANGED usVars
  BY <1>1, Zenon DEF usVars
<1>2. ASSUME NEW p \in Nodes, UsStep(p) \/ UsStopServing(p) \/ UsCrash(p)
      PROVE  usPath' = usPath
  <2>1. ~UsUnlinkStale(p)
    BY UsSame, Zenon DEF UsUnlinkStale, UsKnows
  <2>2. ~UsRemoveOwned(p)
    BY UsSame, UsOwnSocket, Zenon DEF UsRemoveOwned, UsKnows
  <2>3. UsBind(p) => usPath' = usPath
    BY UsPathNames, Zenon DEF UsBind
  <2> QED  BY <1>2, <2>1, <2>2, <2>3, Zenon
           DEF UsStep, UsTakeLock, UsInspect, UsProbe, UsRecheck, UsStat, UsChmod, UsStopServing,
               UsCompareOwned, UsUnlock, UsCrash
<1> QED  BY <1>1, <1>2, Zenon DEF UsNext

\* The step of a process follows from where it stands.
LEMMA UsAt ==
    ASSUME NEW p \in Nodes, UsStep(p) \/ UsStopServing(p)
    PROVE  /\ usPc[p] = "inspect" => UsInspect(p)
           /\ usPc[p] = "probe" => UsProbe(p)
           /\ usPc[p] = "recheck" => UsRecheck(p)
           /\ usPc[p] = "bind" => UsBind(p)
           /\ usPc[p] = "stat" => UsStat(p)
BY Zenon DEF UsStep, UsTakeLock, UsInspect, UsProbe, UsRecheck, UsUnlinkStale, UsBind, UsStat, UsChmod,
       UsStopServing, UsCompareOwned, UsRemoveOwned, UsUnlock

\* What a start that gives the path up has found there.
LEMMA UsGivesUp ==
    ASSUME UsInv, [UsNext]_usVars, NEW p \in Nodes,
           usPc[p] \in {"inspect", "probe", "recheck", "bind", "stat"}, usPc'[p] = "unlock"
    PROVE  usPath \in {<<"file">>, <<"live">>}
<1>1. PICK q \in Nodes : UsStep(q) \/ UsStopServing(q) \/ UsCrash(q)
  BY Zenon DEF UsNext, usVars
<1>2. PICK pc : UsGoto(q, pc)
  BY <1>1, Zenon DEF UsStep, UsTakeLock, UsInspect, UsProbe, UsRecheck, UsUnlinkStale, UsBind, UsStat, UsChmod,
         UsStopServing, UsCompareOwned, UsRemoveOwned, UsUnlock, UsCrash
<1>3. q = p
  BY <1>2, Zenon DEF UsGoto, UsInv, UsTypeOK
<1>4. \A x : UsGoto(p, x) => x = "unlock"
  BY UsGoes, Zenon
<1>5. UsStep(p) \/ UsStopServing(p)
  BY <1>1, <1>3, <1>4, Zenon DEF UsCrash
<1>6. UsKnows(p)
  BY UsSame, Zenon
<1>7. CASE usPc[p] = "inspect"
  <2>1. UsInspect(p)
    BY <1>5, <1>7, UsAt, Zenon
  <2> QED  BY <1>4, <2>1, Zenon DEF UsInspect
<1>8. CASE usPc[p] = "probe"
  <2>1. UsProbe(p)
    BY <1>5, <1>8, UsAt, Zenon
  <2> QED  BY <1>4, <1>8, <2>1, UsProbeFinds, Zenon DEF UsProbe
<1>9. CASE usPc[p] = "recheck"
  <2>1. UsRecheck(p)
    BY <1>5, <1>9, UsAt, Zenon
  <2> QED  BY <1>4, <1>6, <1>9, <2>1, Zenon DEF UsRecheck, UsKnows
<1>10. CASE usPc[p] = "bind"
  <2>1. UsBind(p)
    BY <1>5, <1>10, UsAt, Zenon
  <2> QED  BY <1>4, <1>6, <1>10, <2>1, Zenon DEF UsBind, UsKnows
<1>11. CASE usPc[p] = "stat"
  <2>1. UsStat(p)
    BY <1>5, <1>11, UsAt, Zenon
  <2>2. usPath \in UsSockets
    BY <1>6, <1>11, UsSame, UsOwnSocket, Zenon DEF UsKnows
  <2> QED  BY <1>4, <2>1, <2>2, Zenon DEF UsStat
<1> QED  BY <1>7, <1>8, <1>9, <1>10, <1>11, Zenon

\* However many processes want the path, start, crash and clean up: who serves
\* is reachable at it, what is foreign there is kept, and a socket a crash left
\* is no obstacle.
THEOREM SocketPathIsOwned == UsSpec => UsPromise
<1>1. UsInit => UsInv
  <2> SUFFICES ASSUME UsInit PROVE UsInv
    OBVIOUS
  <2>1. UsTypeOK
    BY UsPathNames, UsAssumption DEF UsInit, UsTypeOK
  <2>2. ASSUME NEW p \in Nodes PROVE UsKnows(p)
    <3>1. usPc[p] = "start"
      BY Zenon DEF UsInit
    <3> QED  BY <3>1, Zenon DEF UsKnows, UsLocked
  <2> QED  BY <2>1, <2>2, Zenon DEF UsInv
<1>2. UsInv => UsServingIsReachable
  BY Zenon DEF UsInv, UsKnows, UsServingIsReachable
<1>3. UsInv /\ [UsNext]_usVars => (usPath \in {<<"file">>, <<"live">>} => usPath' = usPath)
  BY UsKeepsForeign, Zenon
<1>4. UsInv /\ [UsNext]_usVars =>
        \A p \in Nodes : usPc[p] \in {"inspect", "probe", "recheck", "bind", "stat"}
                         /\ usPc'[p] = "unlock" => usPath \in {<<"file">>, <<"live">>}
  BY UsGivesUp, Zenon
<1> QED  BY <1>1, <1>2, <1>3, <1>4, UsInvNext, PTL DEF UsSpec, UsPromise, UsForeignKept, UsStaleNeverBlocks

-----------------------------------------------------------------------------

(* The reports of the torrent blocker *)

\* The canonical address of what is not ignored is not to be left alone.
LEMMA RrBlockable ==
    ASSUME NEW event \in RrEvents, ~RrIgnores(event)
    PROVE  RrExtract(event.source).addr \notin RrIgnored \cup RrProtected
<1> DEFINE s == RrExtract(event.source)
<1>1. event.source \in [addr : {event.source.addr}, form : {"plain", "mapped", "scoped", "unreadable"}]
  BY RrAssumption, Zenon
<1>2. s.form \in {"plain", "scoped", "unreadable"}
  BY <1>1, Zenon DEF RrExtract
<1> HIDE DEF s
<1>3. s.form \notin {"scoped", "unreadable"} /\ s.addr \notin RrProtected /\ ~(s.form = "plain" /\ s.addr \in RrIgnored)
  BY Zenon DEF RrIgnores, s
<1>4. s.addr \notin RrIgnored \cup RrProtected
  BY <1>2, <1>3, Zenon
<1> QED  BY <1>4, Zenon DEF s

LEMMA RrWraps ==
    ASSUME NEW c \in Nat \ {0}, NEW h \in 0..c - 1
    PROVE  (h + 1) % c = IF h + 1 = c THEN 0 ELSE h + 1
<1>1. CASE h + 1 = c
  <2>1. c % c = 0
    OBVIOUS
  <2> QED  BY <1>1, <2>1, Zenon
<1>2. CASE h + 1 < c
  <2> DEFINE k == h + 1
  <2>1. k \in 0..c - 1
    BY <1>2
  <2> HIDE DEF k
  <2>2. k % c = k
    BY <2>1
  <2> QED  BY <1>2, <2>2 DEF k
<1> QED  BY <1>1, <1>2

\* A report keeps the ring: the slot of the oldest is the one that is taken.
LEMMA RrAdds ==
    ASSUME RrInv, NEW r \in RrRecs, RrAddReport(r), rrHistory' = Append(rrHistory, r)
    PROVE  /\ rrReports' \in Seq(RrRecs) /\ rrHistory' \in Seq(RrRecs)
           /\ rrHead' \in 0..ReportCap - 1 /\ rrDropped' \in Nat
           /\ Len(rrReports') <= ReportCap /\ rrDropped' + Len(rrReports') = Len(rrHistory')
           /\ Len(rrReports') < ReportCap => rrHead' = 0 /\ rrDropped' = 0
           /\ \A i \in 1..Len(rrReports') : rrReports'[i] = rrHistory'[rrDropped' + RrAge(i)']
<1>1. /\ rrReports \in Seq(RrRecs) /\ rrHistory \in Seq(RrRecs) /\ ReportCap \in Nat \ {0}
      /\ rrHead \in 0..ReportCap - 1 /\ rrDropped \in Nat /\ Len(rrReports) \in Nat /\ Len(rrHistory) \in Nat
      /\ Len(rrReports) <= ReportCap /\ rrDropped + Len(rrReports) = Len(rrHistory)
      /\ Len(rrReports) < ReportCap => rrHead = 0 /\ rrDropped = 0
  BY RrAssumption DEF RrInv, RrTypeOK
<1>2. \A i \in 1..Len(rrReports) : rrReports[i] = rrHistory[rrDropped + RrAge(i)]
  BY Zenon DEF RrInv
<1>3. /\ rrHistory' \in Seq(RrRecs) /\ Len(rrHistory') = Len(rrHistory) + 1
      /\ \A i \in 1..Len(rrHistory) : rrHistory'[i] = rrHistory[i]
      /\ rrHistory'[Len(rrHistory) + 1] = r
  BY <1>1, AppendProperties
<1>4. CASE Len(rrReports) = ReportCap
  <2>1. ReportCap \in Nat \ {0} /\ rrDropped \in Nat /\ rrDropped + ReportCap = Len(rrHistory)
    BY <1>1, <1>4, Zenon
  <2>2. /\ rrReports' = [rrReports EXCEPT ![rrHead + 1] = r] /\ rrDropped' = rrDropped + 1
        /\ rrHead' = (rrHead + 1) % ReportCap /\ rrHead + 1 \in 1..Len(rrReports)
    BY <1>1, <1>4 DEF RrAddReport
  <2>3. /\ rrReports' \in Seq(RrRecs) /\ Len(rrReports') = Len(rrReports)
        /\ \A i \in 1..Len(rrReports) : rrReports'[i] = IF i = rrHead + 1 THEN r ELSE rrReports[i]
    BY <1>1, <2>2, ExceptSeq
  <2>4. rrDropped' = rrDropped + 1 /\ rrHead' = IF rrHead + 1 = ReportCap THEN 0 ELSE rrHead + 1
    BY <1>1, <2>2, RrWraps, Zenon
  <2>5. ASSUME NEW i \in 1..Len(rrReports') PROVE rrReports'[i] = rrHistory'[rrDropped' + RrAge(i)']
    <3>1. /\ Len(rrReports) = ReportCap /\ Len(rrReports') = ReportCap /\ i \in 1..ReportCap
          /\ rrHead \in 0..ReportCap - 1 /\ rrHead' = IF rrHead + 1 = ReportCap THEN 0 ELSE rrHead + 1
      BY <1>1, <1>4, <2>3, <2>4, <2>5, Zenon
    <3>2. RrAge(i)' = IF i = rrHead + 1 THEN ReportCap ELSE RrAge(i) - 1
      BY <2>1, <3>1 DEF RrAge
    <3>3. RrAge(i) \in 1..ReportCap
      BY <2>1, <3>1 DEF RrAge
    <3>4. CASE i = rrHead + 1
      <4>1. rrDropped' = rrDropped + 1 /\ RrAge(i)' = ReportCap /\ rrReports'[i] = r
        BY <2>3, <2>4, <2>5, <3>2, <3>4, Zenon
      <4>2. rrDropped' + RrAge(i)' = Len(rrHistory) + 1
        BY <2>1, <4>1
      <4> QED  BY <1>3, <4>1, <4>2, Zenon
    <3>5. CASE i # rrHead + 1
      <4>1. rrDropped' + RrAge(i)' = rrDropped + RrAge(i) /\ rrDropped + RrAge(i) \in 1..Len(rrHistory)
        BY <2>1, <2>4, <3>2, <3>3, <3>5
      <4>2. rrReports'[i] = rrHistory[rrDropped + RrAge(i)]
        BY <1>2, <2>3, <2>5, <3>5, Zenon
      <4> QED  BY <1>3, <4>1, <4>2, Zenon
    <3> QED  BY <3>4, <3>5, Zenon
  <2>6. /\ rrHead' \in 0..ReportCap - 1 /\ rrDropped' \in Nat
        /\ Len(rrReports') <= ReportCap /\ rrDropped' + Len(rrReports') = Len(rrHistory')
        /\ Len(rrReports') < ReportCap => rrHead' = 0 /\ rrDropped' = 0
    <3>1. Len(rrReports') = ReportCap /\ Len(rrHistory') = Len(rrHistory) + 1
      BY <1>3, <1>4, <2>3, Zenon
    <3>2. rrHead' \in 0..ReportCap - 1 /\ rrDropped' = rrDropped + 1
      BY <1>1, <2>4
    <3> QED  BY <2>1, <3>1, <3>2
  <2> QED  BY <1>3, <2>3, <2>5, <2>6, Zenon
<1>5. CASE Len(rrReports) # ReportCap
  <2>1. rrReports' = Append(rrReports, r) /\ rrHead' = 0 /\ rrDropped' = 0 /\ rrHead = 0 /\ rrDropped = 0
    BY <1>1, <1>5 DEF RrAddReport
  <2>2. /\ rrReports' \in Seq(RrRecs) /\ Len(rrReports') = Len(rrReports) + 1
        /\ \A i \in 1..Len(rrReports) : rrReports'[i] = rrReports[i]
        /\ rrReports'[Len(rrReports) + 1] = r
    BY <1>1, <2>1, AppendProperties
  <2>3. ASSUME NEW i \in 1..Len(rrReports') PROVE rrReports'[i] = rrHistory'[rrDropped' + RrAge(i)']
    <3>1. rrDropped' + RrAge(i)' = i /\ rrDropped + RrAge(i) = i
      BY <1>1, <2>1, <2>2, <2>3 DEF RrAge
    <3>2. CASE i = Len(rrReports) + 1
      BY <1>1, <1>3, <2>1, <2>2, <3>1, <3>2
    <3>3. CASE i \in 1..Len(rrReports)
      BY <1>1, <1>2, <1>3, <2>1, <2>2, <3>1, <3>3
    <3>4. i = Len(rrReports) + 1 \/ i \in 1..Len(rrReports)
      BY <1>1, <2>2, <2>3
    <3> QED  BY <3>2, <3>3, <3>4, Zenon
  <2>4. /\ rrHead' \in 0..ReportCap - 1 /\ rrDropped' \in Nat
        /\ Len(rrReports') <= ReportCap /\ rrDropped' + Len(rrReports') = Len(rrHistory')
        /\ Len(rrReports') < ReportCap => rrHead' = 0 /\ rrDropped' = 0
    BY <1>1, <1>3, <1>5, <2>1, <2>2
  <2> QED  BY <1>3, <2>2, <2>3, <2>4, Zenon
<1> QED  BY <1>4, <1>5, Zenon

LEMMA RrInvNext == RrInv /\ [RrNext]_rrVars => RrInv'
<1> SUFFICES ASSUME RrInv, [RrNext]_rrVars PROVE RrInv'
  OBVIOUS
<1>1. CASE UNCHANGED rrVars
  BY <1>1, Zenon DEF rrVars, RrInv, RrTypeOK, RrIgnoredUntouched, RrAge
<1>2. CASE RrProcess
  <2>1. PICK event \in RrEvents, blocked \in BOOLEAN, lost \in BOOLEAN :
          LET ip == RrExtract(event.source).addr
              r == [id |-> rrTotal + 1, ip |-> ip, user |-> event.user, blocked |-> blocked] IN
          /\ ~RrIgnores(event)
          /\ rrBlocked' = IF blocked THEN rrBlocked \cup {ip} ELSE rrBlocked
          /\ RrAddReport(r) /\ rrHistory' = Append(rrHistory, r) /\ rrTotal' = rrTotal + 1
    BY <1>2, Zenon DEF RrProcess
  <2> DEFINE ip == RrExtract(event.source).addr
             r == [id |-> rrTotal + 1, ip |-> ip, user |-> event.user, blocked |-> blocked]
  <2>2. rrTotal \in Nat /\ rrTotal + 1 \in Nat
    BY DEF RrInv, RrTypeOK
  <2>3. r \in RrRecs
    BY <2>2, Zenon DEF RrRecs
  <2>4. RrAddReport(r) /\ rrHistory' = Append(rrHistory, r) /\ rrTotal' \in Nat
    BY <2>1, <2>2, Zenon
  <2>5. RrIgnoredUntouched'
    <3>1. ip \notin RrIgnored \cup RrProtected
      BY <2>1, RrBlockable, Zenon
    <3>2. rrBlocked' \in {rrBlocked, rrBlocked \cup {ip}}
      BY <2>1, Zenon
    <3> HIDE DEF ip
    <3> QED  BY <3>1, <3>2, Zenon DEF RrInv, RrIgnoredUntouched
  <2> HIDE DEF r
  <2> QED  BY <2>3, <2>4, <2>5, RrAdds, Zenon DEF RrInv, RrTypeOK
<1>3. CASE RrCollect
  <2>1. Len(rrReports') = 0 /\ rrReports' \in Seq(RrRecs) /\ Len(rrHistory') = 0 /\ rrHistory' \in Seq(RrRecs)
        /\ rrHead' = 0 /\ rrDropped' = 0
    BY <1>3 DEF RrCollect
  <2> QED  BY <1>3, <2>1, RrAssumption DEF RrCollect, RrInv, RrTypeOK, RrIgnoredUntouched
<1> QED  BY <1>1, <1>2, <1>3, Zenon DEF RrNext

\* In the order of their ages the slots are the newest reports.
LEMMA RrFlushesInOrder ==
    ASSUME RrInv
    PROVE  RrFlushed = SubSeq(rrHistory, rrDropped + 1, Len(rrHistory))
<1>1. /\ rrReports \in Seq(RrRecs) /\ rrHistory \in Seq(RrRecs) /\ ReportCap \in Nat \ {0}
      /\ rrHead \in 0..ReportCap - 1 /\ rrDropped \in Nat /\ Len(rrReports) \in Nat /\ Len(rrHistory) \in Nat
      /\ Len(rrReports) <= ReportCap /\ rrDropped + Len(rrReports) = Len(rrHistory)
      /\ Len(rrReports) < ReportCap => rrHead = 0 /\ rrDropped = 0
  BY RrAssumption DEF RrInv, RrTypeOK
<1>2. \A i \in 1..Len(rrReports) : rrReports[i] = rrHistory[rrDropped + RrAge(i)]
  BY Zenon DEF RrInv
<1> DEFINE n == Len(rrReports)  newest == SubSeq(rrHistory, rrDropped + 1, Len(rrHistory))
           first == SubSeq(rrReports, rrHead + 1, n)  second == SubSeq(rrReports, 1, rrHead)
<1>3. /\ newest \in Seq(RrRecs) /\ Len(newest) = n
      /\ \A i \in 1..n : newest[i] = rrHistory[rrDropped + i]
  <2>1. \A i \in rrDropped + 1..Len(rrHistory) : rrHistory[i] \in RrRecs
    BY <1>1
  <2>2. /\ newest \in Seq(RrRecs)
        /\ Len(newest) = IF rrDropped + 1 <= Len(rrHistory) THEN Len(rrHistory) - (rrDropped + 1) + 1 ELSE 0
        /\ \A i \in 1..Len(rrHistory) - (rrDropped + 1) + 1 : newest[i] = rrHistory[rrDropped + 1 + i - 1]
    BY <1>1, <2>1, SubSeqProperties
  <2>3. n \in Nat /\ n = Len(rrHistory) - (rrDropped + 1) + 1
    BY <1>1
  <2>4. n = IF rrDropped + 1 <= Len(rrHistory) THEN Len(rrHistory) - (rrDropped + 1) + 1 ELSE 0
    BY <1>1
  <2>5. \A i \in 1..n : rrDropped + 1 + i - 1 = rrDropped + i
    BY <1>1
  <2> HIDE DEF newest, n
  <2> QED  BY <2>2, <2>3, <2>4, <2>5, Zenon
<1>4. CASE rrHead = 0
  <2>1. \A i \in 1..n : RrAge(i) = i
    BY <1>1, <1>4 DEF RrAge
  <2>2. \A i \in 1..n : rrReports[i] = newest[i]
    BY <1>2, <1>3, <2>1, Zenon
  <2> HIDE DEF newest
  <2>3. rrReports = newest
    BY <1>1, <1>3, <2>2, SeqEqual, Zenon
  <2> QED  BY <1>4, <2>3, Zenon DEF RrFlushed, newest
<1>5. CASE rrHead # 0
  <2>1. n = ReportCap /\ rrHead \in 1..n - 1
    BY <1>1, <1>5
  <2>2. /\ first \in Seq(RrRecs) /\ Len(first) = n - rrHead
        /\ \A i \in 1..n - rrHead : first[i] = rrReports[rrHead + i]
    <3>1. \A i \in rrHead + 1..n : rrReports[i] \in RrRecs
      BY <1>1
    <3>2. /\ first \in Seq(RrRecs)
          /\ Len(first) = IF rrHead + 1 <= n THEN n - (rrHead + 1) + 1 ELSE 0
          /\ \A i \in 1..n - (rrHead + 1) + 1 : first[i] = rrReports[rrHead + 1 + i - 1]
      BY <1>1, <3>1, SubSeqProperties
    <3> HIDE DEF first
    <3> QED  BY <1>1, <2>1, <3>2
  <2>3. /\ second \in Seq(RrRecs) /\ Len(second) = rrHead
        /\ \A i \in 1..rrHead : second[i] = rrReports[i]
    <3>1. \A i \in 1..rrHead : rrReports[i] \in RrRecs
      BY <1>1, <2>1
    <3>2. /\ second \in Seq(RrRecs)
          /\ Len(second) = IF 1 <= rrHead THEN rrHead - 1 + 1 ELSE 0
          /\ \A i \in 1..rrHead - 1 + 1 : second[i] = rrReports[1 + i - 1]
      BY <1>1, <3>1, SubSeqProperties
    <3> HIDE DEF second
    <3> QED  BY <1>1, <2>1, <3>2
  <2> DEFINE both == first \o second
  <2> HIDE DEF first, second, newest
  <2>4. /\ both \in Seq(RrRecs) /\ Len(both) = n
        /\ \A i \in 1..n : both[i] = IF i <= n - rrHead THEN first[i] ELSE second[i - (n - rrHead)]
    <3>1. /\ both \in Seq(RrRecs) /\ Len(both) = Len(first) + Len(second)
          /\ \A i \in 1..Len(first) + Len(second) : both[i] = IF i <= Len(first) THEN first[i] ELSE second[i - Len(first)]
      BY <2>2, <2>3, ConcatProperties, Zenon
    <3>2. Len(first) + Len(second) = n
      BY <1>1, <2>1, <2>2, <2>3
    <3> QED  BY <2>2, <3>1, <3>2, Zenon
  <2> HIDE DEF both
  <2>5. ASSUME NEW i \in 1..n PROVE both[i] = newest[i]
    <3>1. CASE i <= n - rrHead
      <4>1. i \in 1..n - rrHead /\ rrHead + i \in 1..n /\ RrAge(rrHead + i) = i
        BY <1>1, <2>1, <2>5, <3>1 DEF RrAge
      <4>2. both[i] = rrReports[rrHead + i]
        BY <2>2, <2>4, <2>5, <3>1, <4>1, Zenon
      <4> QED  BY <1>2, <1>3, <2>5, <4>1, <4>2, Zenon
    <3>2. CASE ~(i <= n - rrHead)
      <4> DEFINE k == i - (n - rrHead)
      <4>1. k \in 1..n /\ k \in 1..rrHead /\ RrAge(k) = i
        BY <1>1, <2>1, <2>5, <3>2 DEF RrAge
      <4>2. both[i] = second[k]
        BY <2>4, <2>5, <3>2, Zenon
      <4> HIDE DEF k
      <4> QED  BY <1>2, <1>3, <2>3, <2>5, <4>1, <4>2, Zenon
    <3> QED  BY <3>1, <3>2, Zenon
  <2>6. both = newest
    BY <1>3, <2>4, <2>5, SeqEqual, Zenon
  <2> QED  BY <1>5, <2>6, Zenon DEF RrFlushed, newest, both, first, second
<1> QED  BY <1>4, <1>5, Zenon

\* For every capacity of the ring and all events: a collection returns the
\* newest reports in order and counts the rest, and what the settings ignore is
\* never blocked.
THEOREM ReportsAreExact == RrSpec => []RrPromise
<1>1. RrInit => RrInv
  <2> SUFFICES ASSUME RrInit PROVE RrInv
    OBVIOUS
  <2>1. Len(rrReports) = 0 /\ rrReports \in Seq(RrRecs) /\ Len(rrHistory) = 0 /\ rrHistory \in Seq(RrRecs)
    BY DEF RrInit
  <2> QED  BY <2>1, RrAssumption DEF RrInit, RrInv, RrTypeOK, RrIgnoredUntouched
<1>2. RrInv => RrPromise
  BY RrFlushesInOrder, Zenon DEF RrPromise, RrNewestInOrder, RrInv
<1> QED  BY <1>1, <1>2, RrInvNext, PTL DEF RrSpec

-----------------------------------------------------------------------------

(* The bounded logs *)

LEMMA LrBytesAre ==
    ASSUME NEW a \in Nat \ {0}, NEW n \in Nat
    PROVE  /\ LrBytes(a, n) \in Seq(Nat) /\ Len(LrBytes(a, n)) = n
           /\ \A i \in 1..n : LrBytes(a, n)[i] = a + i - 1
<1>1. \A i \in 1..n : a + i - 1 \in Nat
  OBVIOUS
<1>2. LrBytes(a, n) \in Seq(Nat) /\ Len(LrBytes(a, n)) = n
  BY <1>1 DEF LrBytes
<1> QED  BY <1>2, Zenon DEF LrBytes

LEMMA LrSizes ==
    ASSUME NEW l \in Nat, NEW n \in Nat, n = IF l < MaxSize THEN l ELSE MaxSize
    PROVE  n <= MaxSize /\ n <= l /\ l - n + 1 \in 1..l + 1 /\ l - n + 1 \in Int /\ n = l - (l - n + 1) + 1
BY LrAssumption

\* The tail of a file is its end, of at most MaxSize bytes.
LEMMA LrTailIs ==
    ASSUME NEW s \in Seq(Nat)
    PROVE  /\ LrTail(s) \in Seq(Nat) /\ Len(LrTail(s)) <= MaxSize /\ Len(LrTail(s)) <= Len(s)
           /\ \A i \in 1..Len(LrTail(s)) : LrTail(s)[i] = s[Len(s) - Len(LrTail(s)) + i]
<1> DEFINE n == IF Len(s) < MaxSize THEN Len(s) ELSE MaxSize
           m == Len(s) - n + 1
<1>1. Len(s) \in Nat /\ n \in Nat /\ n <= MaxSize /\ n <= Len(s) /\ m \in 1..Len(s) + 1 /\ m \in Int
  <2>1. Len(s) \in Nat /\ n \in Nat
    BY LrAssumption
  <2> QED  BY <2>1, LrSizes, Zenon
<1>2. \A i \in m..Len(s) : s[i] \in Nat
  BY <1>1
<1>3. n = Len(s) - m + 1
  BY <1>1, LrSizes, Zenon
<1>4. LrTail(s) = SubSeq(s, m, Len(s))
  BY Zenon DEF LrTail
<1> HIDE DEF n, m
<1>5. /\ LrTail(s) \in Seq(Nat) /\ Len(LrTail(s)) = IF m <= Len(s) THEN Len(s) - m + 1 ELSE 0
      /\ \A i \in 1..Len(s) - m + 1 : LrTail(s)[i] = s[m + i - 1]
  BY <1>1, <1>2, <1>4, SubSeqProperties
<1>6. Len(LrTail(s)) = n
  BY <1>1, <1>3, <1>5
<1>7. \A i \in 1..n : LrTail(s)[i] = s[Len(s) - n + i]
  <2> SUFFICES ASSUME NEW i \in 1..n PROVE LrTail(s)[i] = s[Len(s) - n + i]
    OBVIOUS
  <2>1. m + i - 1 = Len(s) - n + i
    BY <1>1, <1>3
  <2> QED  BY <1>3, <1>5, <2>1, Zenon
<1> QED  BY <1>1, <1>5, <1>6, <1>7, Zenon

LEMMA LrTailReaches ==
    ASSUME NEW s \in Seq(Nat), NEW gap \in Nat, lrNext \in Nat, LrReaches(s, gap)
    PROVE  LrReaches(LrTail(s), gap)
<1> DEFINE t == LrTail(s)
<1>1. t \in Seq(Nat) /\ Len(t) \in Nat /\ Len(s) \in Nat /\ Len(t) <= Len(s)
      /\ \A i \in 1..Len(t) : t[i] = s[Len(s) - Len(t) + i]
  BY LrTailIs
<1> HIDE DEF t
<1>2. ASSUME NEW i \in 1..Len(t) PROVE t[i] + (Len(t) - i) = t[Len(t)] /\ t[Len(t)] + 1 + gap >= lrNext
  <2> DEFINE k == Len(s) - Len(t) + i
  <2>1. k \in 1..Len(s) /\ Len(s) - k = Len(t) - i /\ Len(t) \in 1..Len(t) /\ Len(s) - Len(t) + Len(t) = Len(s)
    BY <1>1, <1>2
  <2>2. t[i] = s[k] /\ t[Len(t)] = s[Len(s)]
    BY <1>1, <1>2, <2>1, Zenon
  <2> HIDE DEF k
  <2>3. s[k] + (Len(s) - k) = s[Len(s)] /\ s[Len(s)] + 1 + gap >= lrNext
    BY <2>1, Zenon DEF LrReaches
  <2> QED  BY <2>1, <2>2, <2>3, Zenon
<1> QED  BY <1>2, Zenon DEF LrReaches, t

\* The log itself reaches the newest byte.
LEMMA LrLogReaches ==
    ASSUME LrTypeOK, LrWhole
    PROVE  LrReaches(lrLog, 0)
<1>1. lrLog \in Seq(Nat) /\ Len(lrLog) \in Nat /\ lrNext \in Nat
  BY DEF LrTypeOK
<1>2. \A i \in 1..Len(lrLog) : lrLog[i] + Len(lrLog) + 1 = lrNext + i /\ lrLog[i] \in Nat
  BY <1>1 DEF LrWhole
<1>3. ASSUME NEW i \in 1..Len(lrLog)
      PROVE  lrLog[i] + (Len(lrLog) - i) = lrLog[Len(lrLog)] /\ lrLog[Len(lrLog)] + 1 + 0 >= lrNext
  <2>1. Len(lrLog) \in 1..Len(lrLog)
    BY <1>1, <1>3
  <2>2. /\ lrLog[i] \in Nat /\ lrLog[i] + Len(lrLog) + 1 = lrNext + i
        /\ lrLog[Len(lrLog)] \in Nat /\ lrLog[Len(lrLog)] + Len(lrLog) + 1 = lrNext + Len(lrLog)
    BY <1>2, <1>3, <2>1, Zenon
  <2>3. Len(lrLog) \in Nat /\ lrNext \in Nat /\ i \in Nat
    BY <1>1, <1>3
  <2> QED  BY <2>2, <2>3
<1> QED  BY <1>3, Zenon DEF LrReaches

\* Reaching the newest byte is more than reaching the log.
LEMMA LrReachesFar ==
    ASSUME NEW s \in Seq(Nat), NEW gap \in Nat, lrNext \in Nat, LrReaches(s, 0)
    PROVE  LrReaches(s, gap)
<1>1. ASSUME NEW i \in 1..Len(s) PROVE s[i] + (Len(s) - i) = s[Len(s)] /\ s[Len(s)] + 1 + gap >= lrNext
  <2>1. s[i] + (Len(s) - i) = s[Len(s)] /\ s[Len(s)] + 1 + 0 >= lrNext /\ s[Len(s)] \in Nat
    BY <1>1 DEF LrReaches
  <2> QED  BY <2>1
<1> QED  BY <1>1, Zenon DEF LrReaches

-----------------------------------------------------------------------------
\* Steps that leave the files alone.
LEMMA LrStays ==
    ASSUME LrInv, UNCHANGED <<lrMode, lrFiles>>,
           \/ LrBegin \/ LrCheck \/ LrTruncateFails \/ LrOpening \/ LrWrite \/ LrCrash
    PROVE  LrInv'
<1>1. UNCHANGED <<lrMode, lrLog, lrOld, lrTmp, lrStaged, lrNext>> /\ (lrFault' = lrFault \/ lrFault' = TRUE)
  BY Zenon DEF lrFiles, LrRest, LrBegin, LrCheck, LrTruncateFails, LrOpening, LrWrite, LrCrash
<1>2. lrPc' \in {"idle", "check", "stage", "opening", "append"}
  BY Zenon DEF LrGo, LrBegin, LrCheck, LrTruncateFails, LrOpening, LrWrite, LrCrash
<1>3. lrMode' = "capped" /\ ~lrFault' => LrWhole'
  <2> SUFFICES ASSUME lrMode' = "capped", ~lrFault' PROVE LrWhole'
    OBVIOUS
  <2>1. LrWhole
    BY <1>1, Zenon DEF LrInv
  <2> QED  BY <1>1, <1>2, <2>1, Zenon DEF LrWhole, LrReaches
<1>4. LrTypeOK' /\ LrBounded' /\ LrSteps'
  <2>1. LrTypeOK /\ LrBounded /\ LrSteps /\ Len(lrLog) \in Nat /\ Len(lrOld) \in Nat /\ MaxSize \in Nat \ {0}
    BY LrAssumption DEF LrInv, LrTypeOK
  <2>2. CASE LrBegin
    BY <1>1, <2>1, <2>2, Zenon DEF LrBegin, LrGo, LrRest, LrTypeOK, LrBounded, LrSteps
  <2>3. CASE LrCheck
    BY <1>1, <2>1, <2>3, Zenon DEF LrCheck, LrGo, LrRest, LrTypeOK, LrBounded, LrSteps
  <2>4. CASE LrTruncateFails
    BY <1>1, <2>1, <2>4 DEF LrTruncateFails, LrGo, LrTypeOK, LrBounded, LrSteps
  <2>5. CASE LrOpening
    BY <1>1, <2>1, <2>5, Zenon DEF LrOpening, LrGo, LrRest, LrTypeOK, LrBounded, LrSteps
  <2>6. CASE LrWrite
    BY <1>1, <2>1, <2>6 DEF LrWrite, LrFits, LrGo, LrTypeOK, LrBounded, LrSteps
  <2>7. CASE LrCrash
    <3>1. lrPc' = "idle" /\ lrCont' = "none" /\ lrPending' = 0 /\ lrOpen' = FALSE /\ lrFault' = lrFault
      BY <2>7, Zenon DEF LrCrash, LrGo
    <3>2. 0 \in 0..MaxSize
      BY <2>1
    <3>3. LrTypeOK'
      BY <1>1, <2>1, <3>1, <3>2, Zenon DEF LrTypeOK
    <3>4. LrBounded'
      BY <1>1, <2>1, <3>1, Zenon DEF LrBounded
    <3>5. LrSteps'
      BY <3>1, Zenon DEF LrSteps
    <3> QED  BY <3>3, <3>4, <3>5, Zenon
  <2> QED  BY <2>2, <2>3, <2>4, <2>5, <2>6, <2>7, Zenon
<1> QED  BY <1>3, <1>4, Zenon DEF LrInv

\* The staging file is the tail of its source.
LEMMA LrStages ==
    ASSUME LrInv, LrStage
    PROVE  LrInv'
<1> DEFINE src == IF lrCont = "bound" THEN lrOld ELSE lrLog
<1>1. /\ lrPc = "stage" /\ lrPc' = "rename" /\ lrTmp' = LrTail(src)
      /\ UNCHANGED <<lrMode, lrNext, lrPending, lrLog, lrOld, lrCont, lrOpen, lrFault>>
  BY Zenon DEF LrStage, LrStageReady, LrRest
<1>2. LrTypeOK /\ LrBounded /\ LrSteps
  BY Zenon DEF LrInv
<1>3. src \in Seq(Nat)
  BY <1>2, Zenon DEF LrTypeOK
<1>4. lrTmp' \in Seq(Nat) /\ Len(lrTmp') <= MaxSize
  BY <1>1, <1>3, LrTailIs, Zenon
<1>5. LrTypeOK' /\ LrBounded' /\ LrSteps'
  BY <1>1, <1>2, <1>4, Zenon DEF LrTypeOK, LrBounded, LrSteps
<1>6. lrMode' = "capped" /\ ~lrFault' => LrWhole'
  <2> SUFFICES ASSUME lrMode' = "capped", ~lrFault' PROVE LrWhole'
    OBVIOUS
  <2> DEFINE gap == IF lrCont = "bound" THEN Len(lrLog) ELSE 0
  <2>1. LrWhole
    BY <1>1, Zenon DEF LrInv
  <2>2. gap \in Nat /\ lrNext \in Nat
    BY <1>2 DEF LrTypeOK
  <2>3. LrReaches(src, gap)
    BY <1>2, <2>1, LrLogReaches, Zenon DEF LrWhole
  <2>4. LrReaches(LrTail(src), gap)
    BY <1>3, <2>2, <2>3, LrTailReaches, Zenon
  <2> HIDE DEF src
  <2>5. LrReaches(lrTmp, IF lrCont = "bound" THEN Len(lrLog) ELSE 0)'
    BY <1>1, <2>4, Zenon DEF LrReaches
  <2>6. LrReaches(lrOld, Len(lrLog))'
    BY <1>1, <2>1, Zenon DEF LrReaches, LrWhole
  <2> QED  BY <1>1, <2>1, <2>5, <2>6, Zenon DEF LrWhole
<1> QED  BY <1>5, <1>6, Zenon DEF LrInv

LEMMA LrRenames ==
    ASSUME LrInv, LrRename
    PROVE  LrInv'
<1>1. /\ lrPc = "rename" /\ lrPc' = (IF lrCont = "bound" THEN "check" ELSE "truncate")
      /\ lrOld' = lrTmp /\ lrTmp' = <<>>
      /\ UNCHANGED <<lrMode, lrNext, lrPending, lrLog, lrCont, lrOpen, lrFault>>
  BY Zenon DEF LrRename, LrRest
<1>2. LrTypeOK /\ LrBounded /\ LrSteps /\ MaxSize \in Nat
  BY LrAssumption, Zenon DEF LrInv
<1>3. LrTypeOK' /\ LrBounded' /\ LrSteps'
  BY <1>1, <1>2 DEF LrTypeOK, LrBounded, LrSteps
<1>4. lrMode' = "capped" /\ ~lrFault' => LrWhole'
  <2> SUFFICES ASSUME lrMode' = "capped", ~lrFault' PROVE LrWhole'
    OBVIOUS
  <2>1. LrWhole
    BY <1>1, Zenon DEF LrInv
  <2>2. Len(lrLog) \in Nat /\ lrNext \in Nat /\ lrTmp \in Seq(Nat)
    BY <1>2 DEF LrTypeOK
  <2>3. LrReaches(lrTmp, IF lrCont = "bound" THEN Len(lrLog) ELSE 0)
    BY <1>1, <2>1, Zenon DEF LrWhole
  <2>4. LrReaches(lrTmp, Len(lrLog)) /\ (lrCont # "bound" => LrReaches(lrTmp, 0))
    BY <2>2, <2>3, LrReachesFar, Zenon
  <2>5. LrReaches(lrOld, Len(lrLog))' /\ (lrPc' = "truncate" => LrReaches(lrOld, 0)')
    BY <1>1, <2>4, Zenon DEF LrReaches
  <2> QED  BY <1>1, <2>1, <2>5, Zenon DEF LrWhole
<1> QED  BY <1>3, <1>4, Zenon DEF LrInv

\* Once an archive is lost only the bounds remain.
LEMMA LrLoses ==
    ASSUME LrInv, LrArchiveFails \/ LrUnarchived
    PROVE  LrInv'
<1>1. LrTypeOK /\ LrBounded /\ LrSteps /\ MaxSize \in Nat
  BY LrAssumption, Zenon DEF LrInv
<1>2. CASE LrArchiveFails
  <2>1. lrFault' /\ LrTypeOK' /\ LrBounded' /\ LrSteps'
    BY <1>1, <1>2 DEF LrArchiveFails, LrRest, LrTypeOK, LrBounded, LrSteps
  <2> QED  BY <2>1, Zenon DEF LrInv
<1>3. CASE LrUnarchived
  <2>1. lrFault' /\ lrFault
    BY <1>1, <1>3, Zenon DEF LrUnarchived, LrSteps
  <2>2. lrCont = "bound" => SubSeq(lrOld, 1, MaxSize) \in Seq(Nat) /\ Len(SubSeq(lrOld, 1, MaxSize)) = MaxSize
    BY <1>1, <1>3, LrAssumption DEF LrUnarchived, LrTypeOK, LrSteps
  <2>3. lrOld' \in Seq(Nat) /\ (Len(lrOld) <= MaxSize => Len(lrOld') <= MaxSize)
    <3>1. lrOld \in Seq(Nat)
      BY <1>1, Zenon DEF LrTypeOK
    <3>2. lrOld' = lrOld \/ (lrCont = "bound" /\ lrOld' = SubSeq(lrOld, 1, MaxSize))
      BY <1>3, Zenon DEF LrUnarchived
    <3>3. MaxSize <= MaxSize
      BY <1>1
    <3> QED  BY <2>2, <3>1, <3>2, <3>3, Zenon
  <2>4. LrTypeOK' /\ LrBounded' /\ LrSteps'
    BY <1>1, <1>3, <2>1, <2>3, Zenon DEF LrUnarchived, LrRest, LrTypeOK, LrBounded, LrSteps
  <2> QED  BY <2>1, <2>4, Zenon DEF LrInv
<1> QED  BY <1>2, <1>3, Zenon

LEMMA LrTruncates ==
    ASSUME LrInv, LrTruncate
    PROVE  LrInv'
<1>1. /\ lrPc = "truncate" /\ lrPc' = (IF lrCont = "write" THEN "append" ELSE "opening") /\ lrCont' = "none"
      /\ lrLog' = <<>> /\ Len(lrLog') = 0 /\ lrLog' \in Seq(Nat)
      /\ UNCHANGED <<lrMode, lrNext, lrPending, lrOld, lrTmp, lrOpen, lrFault>>
  BY DEF LrTruncate, LrGo, LrRest
<1>2. LrTypeOK /\ LrBounded /\ LrSteps /\ MaxSize \in Nat
  BY LrAssumption, Zenon DEF LrInv
<1>3. LrTypeOK' /\ LrBounded' /\ LrSteps'
  BY <1>1, <1>2 DEF LrTypeOK, LrBounded, LrSteps
<1>4. lrMode' = "capped" /\ ~lrFault' => LrWhole'
  <2> SUFFICES ASSUME lrMode' = "capped", ~lrFault' PROVE LrWhole'
    OBVIOUS
  <2>1. LrReaches(lrOld, 0)
    BY <1>1, Zenon DEF LrInv, LrWhole
  <2>2. LrReaches(lrOld, Len(lrLog))'
    BY <1>1, <2>1, Zenon DEF LrReaches
  <2> QED  BY <1>1, <2>2 DEF LrWhole
<1> QED  BY <1>3, <1>4, Zenon DEF LrInv

LEMMA LrAppends ==
    ASSUME LrInv, LrAppend
    PROVE  LrInv'
<1>1. PICK n \in 0..lrPending : lrLog' = lrLog \o LrBytes(lrNext, n) /\ lrNext' = lrNext + n
  BY Zenon DEF LrAppend
<1>2. /\ lrPc = "append" /\ lrPc' = "idle" /\ lrCont' = "none" /\ lrPending' = 0
      /\ UNCHANGED <<lrMode, lrOld, lrTmp, lrOpen, lrFault>>
  BY Zenon DEF LrAppend, LrGo
<1>3. LrTypeOK /\ LrBounded /\ LrSteps /\ MaxSize \in Nat
  BY LrAssumption, Zenon DEF LrInv
<1>4. lrNext \in Nat \ {0} /\ n \in Nat /\ n <= lrPending /\ lrLog \in Seq(Nat) /\ Len(lrLog) \in Nat
  BY <1>1, <1>3 DEF LrTypeOK
<1>5. /\ lrLog' \in Seq(Nat) /\ Len(lrLog') = Len(lrLog) + n
      /\ \A i \in 1..Len(lrLog) + n : lrLog'[i] = IF i <= Len(lrLog) THEN lrLog[i] ELSE lrNext + (i - Len(lrLog)) - 1
  <2> DEFINE new == LrBytes(lrNext, n)
  <2>1. new \in Seq(Nat) /\ Len(new) = n /\ \A i \in 1..n : new[i] = lrNext + i - 1
    BY <1>4, LrBytesAre, Zenon
  <2>2. lrLog' = lrLog \o new
    BY <1>1, Zenon
  <2> HIDE DEF new
  <2>3. /\ lrLog' \in Seq(Nat) /\ Len(lrLog') = Len(lrLog) + n
        /\ \A i \in 1..Len(lrLog) + n : lrLog'[i] = IF i <= Len(lrLog) THEN lrLog[i] ELSE new[i - Len(lrLog)]
    BY <1>4, <2>1, <2>2, ConcatProperties, Zenon
  <2>4. \A i \in 1..Len(lrLog) + n : ~(i <= Len(lrLog)) => i - Len(lrLog) \in 1..n
    BY <1>4
  <2> QED  BY <2>1, <2>3, <2>4, Zenon
<1>6. LrTypeOK' /\ LrBounded' /\ LrSteps'
  <2>1. lrNext' \in Nat \ {0} /\ Len(lrLog) + n <= MaxSize
    <3>1. lrPending \in Nat /\ Len(lrLog) + lrPending <= MaxSize
      BY <1>2, <1>3 DEF LrTypeOK, LrSteps
    <3> QED  BY <1>1, <1>3, <1>4, <3>1
  <2>2. lrLog' \in Seq(Nat) /\ Len(lrLog') <= MaxSize
    BY <1>5, <2>1, Zenon
  <2> QED  BY <1>2, <1>3, <2>1, <2>2 DEF LrTypeOK, LrBounded, LrSteps
<1>7. lrMode' = "capped" /\ ~lrFault' => LrWhole'
  <2> SUFFICES ASSUME lrMode' = "capped", ~lrFault' PROVE LrWhole'
    OBVIOUS
  <2>1. LrWhole
    BY <1>2, Zenon DEF LrInv
  <2>2. ASSUME NEW i \in 1..Len(lrLog') PROVE lrLog'[i] + Len(lrLog') + 1 = lrNext' + i
    <3>1. i \in 1..Len(lrLog) + n
      BY <1>5, <2>2, Zenon
    <3>2. CASE i <= Len(lrLog)
      <4>1. i \in 1..Len(lrLog) /\ lrLog'[i] = lrLog[i] /\ lrLog[i] \in Nat
        BY <1>4, <1>5, <3>1, <3>2
      <4>2. lrLog[i] + Len(lrLog) + 1 = lrNext + i
        BY <2>1, <4>1, Zenon DEF LrWhole
      <4>3. Len(lrLog') = Len(lrLog) + n /\ lrNext' = lrNext + n
        BY <1>1, <1>5, Zenon
      <4> QED  BY <1>4, <4>1, <4>2, <4>3
    <3>3. CASE ~(i <= Len(lrLog))
      <4>1. lrLog'[i] = lrNext + (i - Len(lrLog)) - 1 /\ Len(lrLog') = Len(lrLog) + n /\ lrNext' = lrNext + n
        BY <1>1, <1>5, <3>1, <3>3, Zenon
      <4> QED  BY <1>4, <3>1, <4>1
    <3> QED  BY <3>2, <3>3, Zenon
  <2>3. ASSUME NEW i \in 1..Len(lrOld)
        PROVE  lrOld[i] + (Len(lrOld) - i) = lrOld[Len(lrOld)] /\ lrOld[Len(lrOld)] + 1 + Len(lrLog') >= lrNext'
    <3>1. lrOld[i] + (Len(lrOld) - i) = lrOld[Len(lrOld)] /\ lrOld[Len(lrOld)] + 1 + Len(lrLog) >= lrNext
      BY <2>1, <2>3, Zenon DEF LrWhole, LrReaches
    <3>2. lrOld[Len(lrOld)] \in Nat
      BY <1>3, <2>3 DEF LrTypeOK
    <3>3. Len(lrLog') = Len(lrLog) + n /\ lrNext' = lrNext + n
      BY <1>1, <1>5, Zenon
    <3>4. lrOld[Len(lrOld)] + 1 + Len(lrLog') >= lrNext'
      BY <1>4, <3>1, <3>2, <3>3
    <3> QED  BY <3>1, <3>4, Zenon
  <2>4. LrReaches(lrOld, Len(lrLog))'
    BY <1>2, <2>3, Zenon DEF LrReaches
  <2> QED  BY <1>2, <2>2, <2>4, Zenon DEF LrWhole
<1> QED  BY <1>6, <1>7, Zenon DEF LrInv

\* The supervisor's log is nobody's promise.
LEMMA LrSupervises ==
    ASSUME LrInv, LrSupervisorWrites
    PROVE  LrInv'
<1>1. LrTypeOK /\ LrBounded /\ LrSteps
  BY Zenon DEF LrInv
<1>2. lrLog' \in Seq(Nat) /\ lrNext' \in Nat \ {0}
  BY <1>1 DEF LrSupervisorWrites, LrTypeOK
<1>3. /\ lrMode = "periodic" /\ ~lrOpen /\ lrPc # "append" /\ lrCont # "write"
      /\ UNCHANGED <<lrMode, lrOld, lrTmp, lrStaged, lrPc, lrCont, lrPending, lrOpen, lrFault>>
  BY <1>1, Zenon DEF LrSupervisorWrites, LrSteps
<1>4. LrTypeOK' /\ LrBounded' /\ LrSteps'
  BY <1>1, <1>2, <1>3, Zenon DEF LrTypeOK, LrBounded, LrSteps
<1> QED  BY <1>3, <1>4, Zenon DEF LrInv

LEMMA LrInvNext == LrInv /\ [LrNext]_lrVars => LrInv'
<1> SUFFICES ASSUME LrInv, [LrNext]_lrVars PROVE LrInv'
  OBVIOUS
<1>1. CASE UNCHANGED lrVars
  BY <1>1, Zenon DEF lrVars, LrInv, LrTypeOK, LrBounded, LrSteps, LrWhole, LrReaches
<1>2. CASE LrBegin \/ LrCheck \/ LrTruncateFails \/ LrOpening \/ LrWrite \/ LrCrash
  <2>1. UNCHANGED <<lrMode, lrFiles>>
    BY <1>2, Zenon DEF LrRest, LrBegin, LrCheck, LrTruncateFails, LrOpening, LrWrite, LrCrash
  <2> QED  BY <1>2, <2>1, LrStays, Zenon
<1> QED  BY <1>1, <1>2, LrStages, LrRenames, LrLoses, LrTruncates, LrAppends, LrSupervises, Zenon DEF LrNext

\* From what the files hold to the bytes they keep.
LEMMA LrKeepsNewest ==
    ASSUME LrInv
    PROVE  LrNoHole
<1> SUFFICES ASSUME lrMode = "capped", ~lrFault,
                    NEW b \in Range(lrOld) \cup Range(lrLog), NEW c \in b..lrNext - 1
             PROVE  c \in Range(lrOld) \cup Range(lrLog)
  BY Zenon DEF LrNoHole
<1>1. /\ LrWhole /\ lrLog \in Seq(Nat) /\ lrOld \in Seq(Nat) /\ lrNext \in Nat
      /\ Len(lrLog) \in Nat /\ Len(lrOld) \in Nat
  BY DEF LrInv, LrTypeOK
<1>2. /\ \A x : x \in Range(lrLog) <=> \E i \in 1..Len(lrLog) : x = lrLog[i]
      /\ \A x : x \in Range(lrOld) <=> \E i \in 1..Len(lrOld) : x = lrOld[i]
  <2>1. DOMAIN lrLog = 1..Len(lrLog) /\ DOMAIN lrOld = 1..Len(lrOld)
    BY <1>1
  <2> QED  BY <2>1, Zenon DEF Range
<1>3. b \in Nat /\ c \in Nat /\ b <= c /\ c < lrNext
  <2>1. (\A i \in 1..Len(lrLog) : lrLog[i] \in Nat) /\ (\A i \in 1..Len(lrOld) : lrOld[i] \in Nat)
    BY <1>1
  <2>2. b \in Nat
    BY <1>2, <2>1
  <2> QED  BY <1>1, <2>2
<1>4. ASSUME c + Len(lrLog) >= lrNext PROVE c \in Range(lrLog)
  <2> DEFINE i == c + Len(lrLog) + 1 - lrNext
  <2>1. i \in 1..Len(lrLog)
    BY <1>1, <1>3, <1>4
  <2>2. i + lrNext = c + Len(lrLog) + 1
    BY <1>1, <1>3
  <2> HIDE DEF i
  <2>3. lrLog[i] + Len(lrLog) + 1 = lrNext + i /\ lrLog[i] \in Nat
    BY <1>1, <2>1 DEF LrWhole
  <2>4. c = lrLog[i]
    BY <1>1, <1>3, <2>1, <2>2, <2>3
  <2> QED  BY <1>2, <2>1, <2>4, Zenon
<1>5. CASE b \in Range(lrLog)
  <2>1. PICK i \in 1..Len(lrLog) : b = lrLog[i]
    BY <1>2, <1>5, Zenon
  <2>2. b + Len(lrLog) + 1 = lrNext + i
    BY <1>1, <2>1, Zenon DEF LrWhole
  <2>3. c + Len(lrLog) >= lrNext
    BY <1>1, <1>3, <2>1, <2>2
  <2> QED  BY <1>4, <2>3, Zenon
<1>6. CASE b \in Range(lrOld)
  <2> DEFINE e == lrOld[Len(lrOld)]
  <2>1. PICK i \in 1..Len(lrOld) : b = lrOld[i]
    BY <1>2, <1>6, Zenon
  <2>2. e \in Nat /\ b + (Len(lrOld) - i) = e /\ e + 1 + Len(lrLog) >= lrNext
    BY <1>1, <2>1 DEF LrWhole, LrReaches
  <2>3. CASE c <= e
    <3> DEFINE k == i + (c - b)
    <3>1. Len(lrOld) \in Nat /\ i \in 1..Len(lrOld) /\ b \in Nat /\ c \in Nat /\ b <= c
      BY <1>1, <1>3, <2>1, Zenon
    <3> HIDE DEF e
    <3>2. k \in 1..Len(lrOld) /\ Len(lrOld) - k = e - c
      BY <2>2, <2>3, <3>1
    <3> HIDE DEF k
    <3>3. lrOld[k] + (Len(lrOld) - k) = e
      BY <1>1, <3>2, Zenon DEF LrWhole, LrReaches, e
    <3>4. lrOld[k] \in Nat
      BY <1>1, <3>2
    <3>5. lrOld[k] = c
      BY <2>2, <3>1, <3>2, <3>3, <3>4
    <3> QED  BY <1>2, <3>2, <3>5, Zenon
  <2>4. CASE ~(c <= e)
    <3>1. c + Len(lrLog) >= lrNext
      BY <1>1, <1>3, <2>2, <2>4
    <3> QED  BY <1>4, <3>1, Zenon
  <2> QED  BY <2>3, <2>4, Zenon
<1> QED  BY <1>5, <1>6, Zenon

\* For every size limit, and whatever crashes and I/O errors: the capped writer's
\* files stay within the limit, and hold the newest bytes without a hole.
THEOREM LogIsBoundedAndWhole == LrSpec => []LrPromise
<1>1. LrInit => LrInv
  <2> SUFFICES ASSUME LrInit PROVE LrInv
    OBVIOUS
  <2>1. PICK k \in 0..MaxSize + 1, m \in 0..MaxSize + 1 :
          lrOld = LrBytes(1, k) /\ lrLog = LrBytes(k + 1, m) /\ lrNext = k + m + 1
    BY Zenon DEF LrInit
  <2>2. k \in Nat /\ m \in Nat /\ 1 \in Nat \ {0} /\ k + 1 \in Nat \ {0} /\ MaxSize \in Nat
    BY LrAssumption
  <2>3. /\ lrOld \in Seq(Nat) /\ Len(lrOld) = k /\ \A i \in 1..k : lrOld[i] = 1 + i - 1
        /\ lrLog \in Seq(Nat) /\ Len(lrLog) = m /\ \A i \in 1..m : lrLog[i] = k + 1 + i - 1
    BY <2>1, <2>2, LrBytesAre, Zenon
  <2>4. LrTypeOK /\ LrBounded /\ LrSteps
    <3>1. lrTmp \in Seq(Nat) /\ Len(lrTmp) <= MaxSize /\ lrNext \in Nat \ {0} /\ 0 \in 0..MaxSize
      BY <2>1, <2>2 DEF LrInit
    <3>2. LrTypeOK
      BY <2>3, <3>1, Zenon DEF LrInit, LrTypeOK
    <3> QED  BY <3>1, <3>2, Zenon DEF LrInit, LrBounded, LrSteps
  <2>5. \A i \in 1..Len(lrLog) : lrLog[i] + Len(lrLog) + 1 = lrNext + i
    BY <2>1, <2>2, <2>3
  <2>6. LrReaches(lrOld, Len(lrLog))
    BY <2>1, <2>2, <2>3 DEF LrReaches
  <2> QED  BY <2>4, <2>5, <2>6, Zenon DEF LrInit, LrInv, LrWhole
<1>2. LrInv => LrPromise
  BY LrKeepsNewest, Zenon DEF LrInv, LrPromise
<1> QED  BY <1>1, <1>2, LrInvNext, PTL DEF LrSpec

=============================================================================
