---------------------------- MODULE NativeProofs ----------------------------
(***************************************************************************)
(* What rnlctl promises about the installed node, for every number of      *)
(* commands, items, values and releases: the commands that change the      *)
(* installed configuration, and the store of generations and archives.     *)
(***************************************************************************)
EXTENDS NativeConfiguration, BundleStore, TLAPS

(* The configuration commands *)

\* A step of the command that holds the lock keeps the invariant if the command
\* knows what it should, or lets go of the lock with clean files.
LEMMA NcHolder ==
    ASSUME NcInv, NEW p \in NcProcs, ncLock = p, NEW c \in NcRecs \cup {NcIdle},
           ncProc' = [ncProc EXCEPT ![p] = c],
           ncFiles' \in [NcItems -> NcValues], ncLoaded' \in [NcItems -> NcValues],
           ncAcked' \in [NcItems -> NcValues], ncUp' \in BOOLEAN, ncTorn' \in BOOLEAN,
           \/ NcLocked(c) /\ ncLock' = p /\ NcKnows(c)'
           \/ c = NcIdle /\ ncLock' = "free" /\ NcClean'
    PROVE  NcInv'
<1>1. p # "free"
  BY NcAssumption, Zenon
<1>2. ncProc \in [NcProcs -> NcRecs \cup {NcIdle}]
  BY Zenon DEF NcInv, NcTypeOK
<1>3. NcTypeOK'
  <2>1. ncProc' \in [NcProcs -> NcRecs \cup {NcIdle}]
    BY <1>2, Zenon
  <2>2. ncLock' \in NcProcs \cup {"free"}
    BY Zenon
  <2> QED  BY <2>1, <2>2, Zenon DEF NcTypeOK
<1>4. ncProc'[p] = c /\ \A q \in NcProcs \ {p} : ncProc'[q] = ncProc[q]
  BY <1>2, Zenon
<1>5. \A q \in NcProcs \ {p} : ~NcLocked(ncProc[q]) /\ ncLock' # q
  BY <1>1, NcAssumption, Zenon DEF NcInv
<1>6. NcIdle.pc = "idle"
  BY Zenon DEF NcIdle
<1>7. ASSUME NEW q \in NcProcs PROVE (NcLocked(ncProc[q]) <=> ncLock = q)' /\ NcKnows(ncProc[q])'
  <2>1. CASE q # p
    <3>1. ncProc'[q] = ncProc[q] /\ ~NcLocked(ncProc[q]) /\ ncLock' # q /\ NcKnows(ncProc[q])
      BY <1>4, <1>5, <2>1, Zenon DEF NcInv
    <3> QED  BY <3>1 DEF NcLocked, NcKnows
  <2>2. CASE q = p
    <3>1. CASE NcLocked(c) /\ ncLock' = p /\ NcKnows(c)'
      BY <1>4, <2>2, <3>1, Zenon DEF NcLocked, NcKnows, NcWritten, NcClean
    <3>2. CASE c = NcIdle /\ ncLock' = "free"
      BY <1>1, <1>4, <1>6, <2>2, <3>2, Zenon DEF NcLocked, NcKnows
    <3> QED  BY <3>1, <3>2, Zenon
  <2> QED  BY <2>1, <2>2, Zenon
<1>8. (ncLock = "free" => NcClean)'
  BY <1>1, Zenon
<1> QED  BY <1>3, <1>7, <1>8, Zenon DEF NcInv

\* What the invariant says of a command past the lock.
LEMMA NcInside ==
    ASSUME NcInv, NEW p \in NcProcs, ncProc[p].pc \notin {"idle", "lock"}
    PROVE  /\ ncLock = p /\ ncProc[p] \in NcRecs /\ NcKnows(ncProc[p])
           /\ NcIdle \in NcRecs \cup {NcIdle} /\ ncProc \in [NcProcs -> NcRecs \cup {NcIdle}]
           /\ ncFiles \in [NcItems -> NcValues] /\ ncLoaded \in [NcItems -> NcValues]
           /\ ncAcked \in [NcItems -> NcValues] /\ ncUp \in BOOLEAN /\ ncTorn \in BOOLEAN
<1>1. ncProc[p] \in NcRecs \cup {NcIdle}
  BY Zenon DEF NcInv, NcTypeOK
<1>2. NcIdle.pc = "idle"
  BY Zenon DEF NcIdle
<1> QED  BY <1>1, <1>2, Zenon DEF NcInv, NcTypeOK, NcLocked

\* A command moves on, its files and the service staying as they are or not.
LEMMA NcMoves ==
    ASSUME NcInv, NEW p \in NcProcs, ncProc[p] \in NcRecs,
           NEW pc \in {"write", "own", "restart", "healthy", "unhealthy", "undo", "undoRestart", "recover",
                       "failed", "succeed"},
           NcTo(p, pc)
    PROVE  \E c \in NcRecs :
           /\ NcLocked(c) /\ ncProc' = [ncProc EXCEPT ![p] = c]
           /\ c.pc = pc /\ c.item = ncProc[p].item /\ c.value = ncProc[p].value /\ c.apply = ncProc[p].apply
           /\ c.set = ncProc[p].set /\ c.old = ncProc[p].old /\ c.changed = ncProc[p].changed
           /\ c.restarted = ncProc[p].restarted
<1> DEFINE c == [ncProc[p] EXCEPT !.pc = pc]
<1>1. /\ c \in NcRecs /\ NcLocked(c)
      /\ c.pc = pc /\ c.item = ncProc[p].item /\ c.value = ncProc[p].value /\ c.apply = ncProc[p].apply
      /\ c.set = ncProc[p].set /\ c.old = ncProc[p].old /\ c.changed = ncProc[p].changed
      /\ c.restarted = ncProc[p].restarted
  BY DEF NcRecs, NcLocked
<1>2. ncProc' = [ncProc EXCEPT ![p] = c]
  BY Zenon DEF NcTo
<1> QED  BY <1>1, <1>2, Zenon

\* A new command, and one that asks for the lock.
LEMMA NcEntering ==
    ASSUME NcInv, NEW p \in NcProcs, NcBegin(p) \/ NcAcquire(p)
    PROVE  NcInv'
<1>1. /\ ncProc \in [NcProcs -> NcRecs \cup {NcIdle}] /\ ncProc[p].pc \in {"idle", "lock"}
      /\ UNCHANGED <<ncFiles, ncLoaded, ncAcked, ncUp, ncTorn>> /\ ~NcLocked(ncProc[p])
  BY Zenon DEF NcBegin, NcAcquire, NcAt, ncDisk, ncService, NcInv, NcTypeOK, NcLocked
<1>2. ncLock # p
  BY <1>1, Zenon DEF NcInv
<1>3. \A q \in NcProcs : NcKnows(ncProc[q])' <=> NcKnows(ncProc'[q])
  BY <1>1 DEF NcKnows, NcWritten, NcClean
<1>4. ASSUME NEW c \in NcRecs \cup {NcIdle}, ncProc' = [ncProc EXCEPT ![p] = c], c.pc \in {"idle", "lock"},
             c.pc = "lock" => ~c.restarted, UNCHANGED ncLock
      PROVE  NcInv'
  <2>1. NcTypeOK'
    <3>1. ncProc' \in [NcProcs -> NcRecs \cup {NcIdle}]
      BY <1>1, <1>4, Zenon
    <3> QED  BY <1>1, <1>4, <3>1, Zenon DEF NcInv, NcTypeOK
  <2>2. ncProc'[p] = c /\ \A q \in NcProcs \ {p} : ncProc'[q] = ncProc[q]
    BY <1>1, <1>4, Zenon
  <2>3. ASSUME NEW q \in NcProcs PROVE (NcLocked(ncProc[q]) <=> ncLock = q)' /\ NcKnows(ncProc'[q])
    <3>1. CASE q = p
      BY <1>2, <1>4, <2>2, <3>1, Zenon DEF NcLocked, NcKnows
    <3>2. CASE q # p
      BY <1>4, <2>2, <3>2, Zenon DEF NcLocked, NcInv
    <3> QED  BY <3>1, <3>2, Zenon
  <2>4. (ncLock = "free" => NcClean)'
    BY <1>1, <1>4, Zenon DEF NcInv, NcClean
  <2> QED  BY <1>3, <2>1, <2>3, <2>4, Zenon DEF NcInv
<1>5. CASE NcBegin(p)
  <2>1. PICK i \in NcItems, v \in NcValues, apply \in BOOLEAN, set \in BOOLEAN :
          ncProc' = [ncProc EXCEPT ![p] =
             [pc |-> "lock", item |-> i, value |-> v, apply |-> apply, set |-> set,
              old |-> v, changed |-> FALSE, restarted |-> FALSE]]
    BY <1>5, Zenon DEF NcBegin
  <2> DEFINE c == [pc |-> "lock", item |-> i, value |-> v, apply |-> apply, set |-> set,
                   old |-> v, changed |-> FALSE, restarted |-> FALSE]
  <2>2. c \in NcRecs /\ c.pc = "lock" /\ ~c.restarted
    BY DEF NcRecs
  <2>3. ncProc' = [ncProc EXCEPT ![p] = c] /\ UNCHANGED ncLock
    BY <1>5, <2>1, Zenon DEF NcBegin
  <2> HIDE DEF c
  <2> QED  BY <1>4, <2>2, <2>3, Zenon
<1>6. CASE NcAcquire(p)
  <2>1. CASE ~NcLockFree
    BY <1>4, <1>6, <2>1, Zenon DEF NcAcquire, NcIdle
  <2>2. CASE NcLockFree
    <3>1. ncLock = "free" /\ ncLock' = p /\ NcTo(p, "check") /\ ncProc[p].pc = "lock" /\ NcClean
      BY <1>6, <2>2, Zenon DEF NcAcquire, NcLockFree, NcAt, NcInv
    <3>2. ncProc[p] \in NcRecs
      BY <1>1, <3>1 DEF NcIdle
    <3>3. PICK c \in NcRecs :
            c.pc = "check" /\ c.restarted = ncProc[p].restarted /\ ncProc' = [ncProc EXCEPT ![p] = c]
      <4>1. [ncProc[p] EXCEPT !.pc = "check"] \in NcRecs
        BY <3>2 DEF NcRecs
      <4> QED  BY <3>1, <3>2, <4>1 DEF NcTo, NcRecs
    <3>4. ncProc'[p] = c /\ (\A q \in NcProcs \ {p} : ncProc'[q] = ncProc[q]) /\ ncProc' \in [NcProcs -> NcRecs \cup {NcIdle}]
      BY <1>1, <3>3, Zenon
    <3>5. ~c.restarted
      BY <3>1, <3>3, Zenon DEF NcInv, NcKnows
    <3>6. p # "free"
      BY NcAssumption, Zenon
    <3>7. ASSUME NEW q \in NcProcs PROVE (NcLocked(ncProc[q]) <=> ncLock = q)' /\ NcKnows(ncProc'[q])
      <4>1. CASE q = p
        BY <3>1, <3>3, <3>4, <3>5, <4>1, Zenon DEF NcLocked, NcKnows
      <4>2. CASE q # p
        <5>1. q # "free"
          BY NcAssumption, Zenon
        <5> QED  BY <3>1, <3>4, <4>2, <5>1, Zenon DEF NcLocked, NcInv
      <4> QED  BY <4>1, <4>2, Zenon
    <3>8. NcTypeOK'
      BY <1>1, <3>1, <3>4, Zenon DEF NcInv, NcTypeOK
    <3> QED  BY <1>3, <3>1, <3>6, <3>7, <3>8, Zenon DEF NcInv
  <2> QED  BY <2>1, <2>2, Zenon
<1> QED  BY <1>5, <1>6, Zenon

\* The checks under the lock, and the write.
LEMMA NcWriting ==
    ASSUME NcInv, NEW p \in NcProcs, NcCheck(p) \/ NcWrite(p)
    PROVE  NcInv'
<1> DEFINE b == ncProc[p]
<1>1. /\ ncLock = p /\ b \in NcRecs /\ NcKnows(b) /\ NcIdle \in NcRecs \cup {NcIdle}
      /\ ncProc \in [NcProcs -> NcRecs \cup {NcIdle}]
      /\ ncFiles \in [NcItems -> NcValues] /\ ncLoaded \in [NcItems -> NcValues]
      /\ ncAcked \in [NcItems -> NcValues] /\ ncUp \in BOOLEAN /\ ncTorn \in BOOLEAN
  BY NcInside, Zenon DEF NcCheck, NcWrite, NcAt
<1>2. ncAcked' = ncAcked /\ ncLoaded' = ncLoaded /\ ncUp' = ncUp
  BY Zenon DEF NcCheck, NcWrite, ncDisk, ncService
<1>3. b.item \in NcItems /\ b.value \in NcValues
  BY <1>1 DEF NcRecs
<1>4. NcClean
  BY <1>1, Zenon DEF NcCheck, NcWrite, NcAt, NcKnows
<1>5. CASE NcReturn(p) /\ UNCHANGED <<ncFiles, ncTorn>>
  <2>1. NcClean'
    BY <1>2, <1>4, <1>5, Zenon DEF NcClean
  <2> QED  BY <1>1, <1>2, <1>5, <2>1, NcHolder, Zenon DEF NcReturn
<1>6. CASE NcCheck(p) /\ ~NcReturn(p)
  <2> DEFINE now == [b EXCEPT !.old = ncFiles[b.item], !.changed = b.set /\ ncFiles[b.item] # b.value]
             pc == IF now.changed THEN "write" ELSE IF now.apply THEN "restart" ELSE "succeed"
             next == [now EXCEPT !.pc = pc]
  <2>1. ncLock' = ncLock /\ ncProc' = [ncProc EXCEPT ![p] = next] /\ ncFiles' = ncFiles /\ ncTorn' = ncTorn /\ b.pc = "check"
    BY <1>6, Zenon DEF NcCheck, NcAt, NcAfterWrite, NcRestarts, ncDisk
  <2>2. PICK c \in NcRecs :
        /\ c.item = b.item /\ c.value = b.value /\ c.set = b.set /\ c.restarted = b.restarted
        /\ c.apply = b.apply /\ c.old = ncFiles[b.item] /\ c.changed = (b.set /\ ncFiles[b.item] # b.value)
        /\ c.pc = IF c.changed THEN "write" ELSE IF c.apply THEN "restart" ELSE "succeed"
        /\ ncProc' = [ncProc EXCEPT ![p] = c]
    <3>1. /\ next \in NcRecs /\ next.item = b.item /\ next.value = b.value /\ next.set = b.set
          /\ next.restarted = b.restarted /\ next.apply = b.apply /\ next.old = ncFiles[b.item]
          /\ next.changed = (b.set /\ ncFiles[b.item] # b.value)
          /\ next.pc = IF next.changed THEN "write" ELSE IF next.apply THEN "restart" ELSE "succeed"
      BY <1>1, <1>3 DEF NcRecs
    <3> HIDE DEF next
    <3> QED  BY <2>1, <3>1, Zenon
  <2>3. ~c.restarted
    BY <1>1, <2>1, <2>2, Zenon DEF NcKnows
  <2>4. NcClean'
    BY <1>2, <1>4, <2>1, Zenon DEF NcClean
  <2>5. NcLocked(c)
    BY <2>2, Zenon DEF NcLocked
  <2>6. NcKnows(c)'
    <3>1. c.pc \in {"write", "restart", "succeed"} /\ (c.pc = "succeed" => ~c.apply) /\ (c.pc = "write" <=> c.changed)
      BY <2>2, Zenon
    <3>2. ~c.changed => NcWritten(c)'
      BY <2>1, <2>2, <2>4, Zenon DEF NcWritten
    <3>3. c.changed => c.set /\ c.old = ncFiles'[c.item]
      BY <2>1, <2>2, Zenon
    <3> QED  BY <2>3, <2>4, <3>1, <3>2, <3>3, Zenon DEF NcKnows
  <2> QED  BY <1>1, <1>2, <2>1, <2>2, <2>5, <2>6, NcHolder, Zenon
<1>7. CASE NcWrite(p) /\ ~(NcReturn(p) /\ UNCHANGED <<ncFiles, ncTorn>>)
  <2> DEFINE written == [ncFiles EXCEPT ![b.item] = b.value]
  <2>1. ncFiles' = written /\ b.pc = "write" /\ ((NcTo(p, "own") /\ UNCHANGED <<ncLock, ncTorn>>) \/ (ncTorn' = TRUE /\ NcReturn(p)))
    BY <1>7, Zenon DEF NcWrite, NcAt
  <2>2. written \in [NcItems -> NcValues] /\ written[b.item] = b.value
    BY <1>1, <1>3, Zenon
  <2>3. [written EXCEPT ![b.item] = ncFiles[b.item]] = ncFiles
    BY <1>1, <1>3
  <2>4. b.changed /\ b.set /\ b.old = ncFiles[b.item] /\ ~b.restarted
    BY <1>1, <2>1, Zenon DEF NcKnows
  <2> HIDE DEF written
  <2>5. CASE ncTorn' = TRUE /\ NcReturn(p)
    <3>1. NcClean'
      BY <2>5, Zenon DEF NcClean
    <3> QED  BY <1>1, <1>2, <2>1, <2>2, <2>5, <3>1, NcHolder, Zenon DEF NcReturn
  <2>6. CASE NcTo(p, "own") /\ UNCHANGED <<ncLock, ncTorn>>
    <3>1. PICK c \in NcRecs :
          /\ NcLocked(c) /\ ncProc' = [ncProc EXCEPT ![p] = c]
          /\ c.pc = "own" /\ c.item = b.item /\ c.value = b.value /\ c.set = b.set /\ c.old = b.old
          /\ c.changed = b.changed /\ c.restarted = b.restarted
      BY <1>1, <2>6, NcMoves
    <3>2. ncFiles'[c.item] = c.value /\ (~ncTorn' => [ncFiles' EXCEPT ![c.item] = c.old] = ncAcked')
      BY <1>2, <1>4, <2>1, <2>2, <2>3, <2>4, <2>6, <3>1, Zenon DEF NcClean
    <3>3. NcKnows(c)'
      BY <2>4, <3>1, <3>2, Zenon DEF NcKnows, NcWritten
    <3> QED  BY <1>1, <1>2, <2>1, <2>2, <2>6, <3>1, <3>3, NcHolder, Zenon
  <2> QED  BY <2>1, <2>5, <2>6, Zenon
<1> QED  BY <1>5, <1>6, <1>7, Zenon DEF NcCheck, ncDisk

\* Steps that leave the files as they are: ownership, restart, wait and the
\* decision to go back.
LEMMA NcApplying ==
    ASSUME NcInv, NEW p \in NcProcs, NcOwn(p) \/ NcRestart(p) \/ NcWait(p) \/ NcUnhealthy(p)
    PROVE  NcInv'
<1> DEFINE b == ncProc[p]
<1>1. /\ ncLock = p /\ b \in NcRecs /\ NcKnows(b) /\ NcIdle \in NcRecs \cup {NcIdle}
      /\ ncProc \in [NcProcs -> NcRecs \cup {NcIdle}]
      /\ ncFiles \in [NcItems -> NcValues] /\ ncLoaded \in [NcItems -> NcValues]
      /\ ncAcked \in [NcItems -> NcValues] /\ ncUp \in BOOLEAN /\ ncTorn \in BOOLEAN
  BY NcInside, Zenon DEF NcOwn, NcRestart, NcWait, NcUnhealthy, NcAt
<1>2. ncAcked' = ncAcked /\ ncFiles' = ncFiles /\ ncTorn' = ncTorn
  BY Zenon DEF NcOwn, NcRestart, NcWait, NcUnhealthy, ncDisk
<1>3. b.pc \in {"own", "restart", "healthy", "unhealthy"} /\ NcWritten(b)
  BY <1>1, Zenon DEF NcOwn, NcRestart, NcWait, NcUnhealthy, NcAt, NcKnows
<1>4. ASSUME NEW pc \in {"restart", "healthy", "unhealthy", "undo", "undoRestart", "recover", "succeed"},
             NEW r \in BOOLEAN,
             ncProc' = [ncProc EXCEPT ![p] = [b EXCEPT !.pc = pc, !.restarted = r]], ncLock' = ncLock,
             ncLoaded' \in [NcItems -> NcValues], ncUp' \in BOOLEAN,
             pc \in {"undo", "undoRestart"} => b.changed,
             pc = "recover" => ~b.changed,
             pc \in {"restart", "undo"} => ~r,
             pc = "healthy" => ncLoaded' = ncFiles,
             pc = "succeed" /\ b.apply => ncUp' /\ ncLoaded' = ncFiles
      PROVE  NcInv'
  <2> DEFINE next == [b EXCEPT !.pc = pc, !.restarted = r]
  <2>1. PICK c \in NcRecs :
        /\ c.pc = pc /\ c.item = b.item /\ c.value = b.value /\ c.set = b.set /\ c.restarted = r
        /\ c.apply = b.apply /\ c.old = b.old /\ c.changed = b.changed /\ c = next
    <3>1. /\ next \in NcRecs /\ next.pc = pc /\ next.item = b.item /\ next.value = b.value /\ next.set = b.set
          /\ next.restarted = r /\ next.apply = b.apply /\ next.old = b.old /\ next.changed = b.changed
      BY <1>1, <1>4 DEF NcRecs
    <3> HIDE DEF next
    <3> QED  BY <3>1, Zenon
  <2>2. ncProc' = [ncProc EXCEPT ![p] = c]
    BY <1>4, <2>1, Zenon
  <2> HIDE DEF next
  <2>3. NcWritten(c)'
    BY <1>2, <1>3, <2>1, Zenon DEF NcWritten, NcClean
  <2>4. ~c.changed => NcClean'
    BY <2>3, Zenon DEF NcWritten
  <2>5. NcKnows(c)' /\ NcLocked(c)
    BY <1>2, <1>4, <2>1, <2>3, <2>4, Zenon DEF NcKnows, NcLocked
  <2> QED  BY <1>1, <1>2, <1>4, <2>1, <2>2, <2>5, NcHolder, Zenon
<1>5. /\ b.restarted \in BOOLEAN
      /\ \A pc \in STRING : [b EXCEPT !.pc = pc] = [b EXCEPT !.pc = pc, !.restarted = b.restarted]
  BY <1>1 DEF NcRecs
<1>6. ASSUME NEW pc \in {"restart", "healthy", "unhealthy", "undo", "undoRestart", "recover", "succeed"}, NcTo(p, pc)
      PROVE  ncProc' = [ncProc EXCEPT ![p] = [b EXCEPT !.pc = pc, !.restarted = b.restarted]]
  <2>1. ncProc' = [ncProc EXCEPT ![p] = [b EXCEPT !.pc = pc]]
    BY <1>6, Zenon DEF NcTo
  <2> QED  BY <1>5, <1>6, <2>1, Zenon
<1>7. CASE NcOwn(p)
  <2>1. b.changed /\ ~b.restarted
    BY <1>1, <1>7, Zenon DEF NcOwn, NcAt, NcKnows
  <2>2. PICK pc \in {"restart", "succeed", "undo"} : NcTo(p, pc) /\ (pc = "succeed" => ~b.apply)
    BY <1>7, Zenon DEF NcOwn, NcAfterWrite, NcRestarts
  <2>3. ncLock' = ncLock /\ ncLoaded' = ncLoaded /\ ncUp' = ncUp
    BY <1>7, Zenon DEF NcOwn, ncService
  <2> QED  BY <1>1, <1>4, <1>5, <1>6, <2>1, <2>2, <2>3, Zenon
<1>8. CASE NcRestart(p)
  <2>1. ncLock' = ncLock /\ ncUp' \in BOOLEAN /\ ncLoaded' \in [NcItems -> NcValues]
    BY <1>1, <1>8, Zenon DEF NcRestart
  <2>2. PICK pc \in {"healthy", "unhealthy"} :
          /\ ncProc' = [ncProc EXCEPT ![p].pc = pc, ![p].restarted = TRUE]
          /\ pc = "healthy" => ncLoaded' = ncFiles
    BY <1>8, Zenon DEF NcRestart
  <2>3. ncProc' = [ncProc EXCEPT ![p] = [b EXCEPT !.pc = pc, !.restarted = TRUE]]
    BY <1>1, <2>2
  <2> QED  BY <1>4, <2>1, <2>2, <2>3, Zenon
<1>9. CASE NcWait(p)
  <2>1. ncLock' = ncLock /\ ncLoaded' = ncLoaded /\ ncUp' = ncUp /\ ncLoaded = ncFiles
    BY <1>1, <1>9, Zenon DEF NcWait, NcAt, NcKnows, ncService
  <2>2. PICK pc \in {"succeed", "unhealthy"} : NcTo(p, pc) /\ (pc = "succeed" => ncUp)
    BY <1>9, Zenon DEF NcWait
  <2> QED  BY <1>1, <1>4, <1>5, <1>6, <2>1, <2>2, Zenon
<1>10. CASE NcUnhealthy(p)
  <2>1. ncLoaded' = ncLoaded /\ ncUp' = ncUp
    BY <1>10, Zenon DEF NcUnhealthy, ncService
  <2>2. CASE ~b.changed /\ NcReturn(p)
    <3>1. NcClean'
      BY <1>2, <1>3, <2>2, Zenon DEF NcWritten, NcClean
    <3> QED  BY <1>1, <1>2, <2>1, <2>2, <3>1, NcHolder, Zenon DEF NcReturn
  <2>3. CASE ~NcReturn(p)
    <3>1. PICK pc \in {"undoRestart", "recover"} :
            NcTo(p, pc) /\ ncLock' = ncLock /\ (pc = "undoRestart" => b.changed) /\ (pc = "recover" => ~b.changed)
      BY <1>10, <2>3, Zenon DEF NcUnhealthy
    <3> QED  BY <1>1, <1>4, <1>5, <1>6, <2>1, <3>1, Zenon
  <2>4. CASE b.changed
    <3>1. NcTo(p, "undoRestart") /\ ncLock' = ncLock
      BY <1>10, <2>4, Zenon DEF NcUnhealthy
    <3> QED  BY <1>1, <1>4, <1>5, <1>6, <2>1, <2>4, <3>1, Zenon
  <2> QED  BY <2>2, <2>3, <2>4, Zenon
<1> QED  BY <1>7, <1>8, <1>9, <1>10, Zenon

\* The way back: the file as it was, and the service restarted with it.
LEMMA NcReverting ==
    ASSUME NcInv, NEW p \in NcProcs, NcUndo(p) \/ NcRecover(p)
    PROVE  NcInv'
<1> DEFINE b == ncProc[p]
<1>1. /\ ncLock = p /\ b \in NcRecs /\ NcKnows(b)
      /\ ncProc \in [NcProcs -> NcRecs \cup {NcIdle}]
      /\ ncFiles \in [NcItems -> NcValues] /\ ncLoaded \in [NcItems -> NcValues]
      /\ ncAcked \in [NcItems -> NcValues] /\ ncUp \in BOOLEAN /\ ncTorn \in BOOLEAN
  BY NcInside, Zenon DEF NcUndo, NcRecover, NcAt
<1>2. ncAcked' = ncAcked /\ ncLock' = ncLock
  BY Zenon DEF NcUndo, NcRecover
<1>3. b.item \in NcItems /\ b.old \in NcValues
  BY <1>1 DEF NcRecs
<1>4. ASSUME NEW pc \in {"recover", "failed"}, NcTo(p, pc), NcClean',
             ncFiles' \in [NcItems -> NcValues], ncLoaded' \in [NcItems -> NcValues], ncUp' \in BOOLEAN, ncTorn' \in BOOLEAN,
             pc = "failed" /\ b.restarted /\ ~ncTorn' => ncUp' /\ ncLoaded' = ncFiles'
      PROVE  NcInv'
  <2>1. PICK c \in NcRecs :
          NcLocked(c) /\ ncProc' = [ncProc EXCEPT ![p] = c] /\ c.pc = pc /\ c.restarted = b.restarted
    BY <1>1, <1>4, NcMoves
  <2>2. NcKnows(c)'
    BY <1>4, <2>1, Zenon DEF NcKnows
  <2> QED  BY <1>1, <1>2, <1>4, <2>1, <2>2, NcHolder, Zenon
<1>5. CASE NcUndo(p)
  <2>1. b.pc \in {"undo", "undoRestart"} /\ b.changed /\ NcWritten(b) /\ (b.pc = "undo" => ~b.restarted)
    BY <1>1, <1>5, Zenon DEF NcUndo, NcKnows
  <2>2. ncLoaded' = ncLoaded /\ ncUp' = ncUp
    BY <1>5, Zenon DEF NcUndo, ncService
  <2>3. CASE NcTo(p, "failed") /\ ncTorn' = TRUE /\ UNCHANGED ncFiles
    BY <1>1, <1>4, <2>2, <2>3, Zenon DEF NcClean
  <2>4. CASE ncFiles' = [ncFiles EXCEPT ![b.item] = b.old] /\ UNCHANGED ncTorn
    <3>1. ncFiles' \in [NcItems -> NcValues]
      BY <1>1, <1>3, <2>4, Zenon
    <3>2. NcClean'
      BY <1>2, <2>1, <2>4, Zenon DEF NcClean, NcWritten
    <3>3. PICK pc \in {"recover", "failed"} : NcTo(p, pc) /\ (pc = "failed" => b.pc = "undo" \/ ncTorn' = TRUE)
      BY <1>5, <2>1, Zenon DEF NcUndo, NcUndoRestarts, NcAt
    <3> QED  BY <1>1, <1>4, <2>1, <2>2, <2>4, <3>1, <3>2, <3>3, Zenon
  <2> QED  BY <1>5, <2>3, <2>4, Zenon DEF NcUndo
<1>6. CASE NcRecover(p)
  <2>1. NcClean /\ NcTo(p, "failed") /\ ncFiles' = ncFiles
    BY <1>1, <1>6, Zenon DEF NcRecover, NcAt, NcKnows
  <2>2. ncUp' \in BOOLEAN /\ ncLoaded' \in [NcItems -> NcValues] /\ ncTorn' \in BOOLEAN
    BY <1>1, <1>6, Zenon DEF NcRecover
  <2>3. NcClean' /\ (~ncTorn' => ncUp' /\ ncLoaded' = ncFiles')
    BY <1>2, <1>6, <2>1, Zenon DEF NcRecover, NcClean
  <2> QED  BY <1>1, <1>4, <2>1, <2>2, <2>3, Zenon
<1> QED  BY <1>5, <1>6, Zenon

\* A command ends, one way or another.
LEMMA NcEnding ==
    ASSUME NcInv, NEW p \in NcProcs, NcFail(p) \/ NcSucceed(p) \/ NcCrash(p)
    PROVE  NcInv'
<1> DEFINE b == ncProc[p]
<1>1. /\ ncLock = p /\ b \in NcRecs /\ NcKnows(b) /\ NcIdle \in NcRecs \cup {NcIdle}
      /\ ncFiles \in [NcItems -> NcValues] /\ ncLoaded \in [NcItems -> NcValues]
      /\ ncAcked \in [NcItems -> NcValues] /\ ncUp \in BOOLEAN /\ ncTorn \in BOOLEAN
  BY NcInside, Zenon DEF NcFail, NcSucceed, NcCrash, NcAt
<1>2. NcReturn(p) /\ ncFiles' = ncFiles /\ ncLoaded' = ncLoaded /\ ncUp' = ncUp
  BY Zenon DEF NcFail, NcSucceed, NcCrash, ncDisk, ncService
<1>3. CASE NcFail(p)
  <2>1. ncAcked' = ncAcked /\ ncTorn' = ncTorn /\ NcClean
    BY <1>1, <1>3, Zenon DEF NcFail, NcAt, NcKnows, ncDisk
  <2>2. NcClean'
    BY <1>2, <2>1, Zenon DEF NcClean
  <2> QED  BY <1>1, <1>2, <2>1, <2>2, NcHolder, Zenon DEF NcReturn
<1>4. CASE NcCrash(p)
  <2>1. ncAcked' = ncAcked /\ ncTorn' = TRUE
    BY <1>4, Zenon DEF NcCrash
  <2>2. NcClean'
    BY <2>1, Zenon DEF NcClean
  <2> QED  BY <1>1, <1>2, <2>1, <2>2, NcHolder, Zenon DEF NcReturn
<1>5. CASE NcSucceed(p)
  <2>1. b.item \in NcItems /\ b.value \in NcValues /\ b.old \in NcValues
    BY <1>1 DEF NcRecs
  <2>2. NcWritten(b) /\ ncTorn' = ncTorn /\ ncAcked' = IF b.set THEN [ncAcked EXCEPT ![b.item] = b.value] ELSE ncAcked
    BY <1>1, <1>5, Zenon DEF NcSucceed, NcAt, NcKnows
  <2>3. ncAcked' \in [NcItems -> NcValues]
    BY <1>1, <2>1, <2>2, Zenon
  <2>4. NcClean'
    <3> SUFFICES ASSUME ~ncTorn PROVE ncFiles = ncAcked'
      BY <1>2, <2>2, Zenon DEF NcClean
    <3>1. CASE b.changed
      <4>1. ncFiles[b.item] = b.value /\ [ncFiles EXCEPT ![b.item] = b.old] = ncAcked /\ b.set
        BY <2>2, <3>1, Zenon DEF NcWritten
      <4>2. [[ncFiles EXCEPT ![b.item] = b.old] EXCEPT ![b.item] = ncFiles[b.item]] = ncFiles
        BY <1>1, <2>1
      <4> QED  BY <2>2, <4>1, <4>2, Zenon
    <3>2. CASE ~b.changed
      <4>1. ncFiles = ncAcked /\ (b.set => ncFiles[b.item] = b.value)
        BY <2>2, <3>2, Zenon DEF NcWritten, NcClean
      <4>2. [ncFiles EXCEPT ![b.item] = ncFiles[b.item]] = ncFiles
        BY <1>1, <2>1
      <4> QED  BY <2>2, <4>1, <4>2, Zenon
    <3> QED  BY <3>1, <3>2, Zenon
  <2> QED  BY <1>1, <1>2, <2>2, <2>3, <2>4, NcHolder, Zenon DEF NcReturn
<1> QED  BY <1>3, <1>4, <1>5, Zenon

LEMMA NcInvNext == NcInv /\ [NcNext]_ncVars => NcInv'
<1> SUFFICES ASSUME NcInv, [NcNext]_ncVars PROVE NcInv'
  OBVIOUS
<1>1. CASE UNCHANGED ncVars
  BY <1>1, Zenon DEF ncVars, NcInv, NcTypeOK, NcLocked, NcKnows, NcWritten, NcClean
<1>2. CASE NcSupervisor
  <2>1. /\ ncUp /\ ncLoaded' = ncFiles
        /\ ncFiles' = ncFiles /\ ncAcked' = ncAcked /\ ncTorn' = ncTorn /\ ncUp' = ncUp /\ ncLock' = ncLock /\ ncProc' = ncProc
    BY <1>2, Zenon DEF NcSupervisor, ncDisk
  <2>2. NcTypeOK'
    BY <2>1, Zenon DEF NcInv, NcTypeOK
  <2>3. ASSUME NEW p \in NcProcs PROVE NcKnows(ncProc[p])'
    <3>1. NcKnows(ncProc[p])
      BY Zenon DEF NcInv
    <3> QED  BY <2>1, <3>1, Zenon DEF NcKnows, NcWritten, NcClean
  <2> QED  BY <2>1, <2>2, <2>3, Zenon DEF NcInv, NcLocked, NcClean
<1> QED  BY <1>1, <1>2, NcEntering, NcWriting, NcApplying, NcReverting, NcEnding, Zenon DEF NcNext

\* Whichever commands run, fail, are refused or die, and whenever the service
\* manager restarts the node: the files hold what was acknowledged, an applied
\* change is loaded, and a rejected one is not.
THEOREM ConfigurationIsKept == NcSpec => []NcPromise
<1>1. NcInit => NcInv
  <2> SUFFICES ASSUME NcInit PROVE NcInv
    OBVIOUS
  <2>1. PICK v \in NcValues : ncFiles = [i \in NcItems |-> v] /\ ncLoaded = ncFiles /\ ncAcked = ncFiles
    BY Zenon DEF NcInit
  <2>2. \A p \in NcProcs : ncProc[p] = NcIdle /\ ncProc[p].pc = "idle" /\ p # "free"
    BY NcAssumption, Zenon DEF NcInit, NcIdle
  <2>3. NcTypeOK
    BY <2>1, Zenon DEF NcInit, NcTypeOK
  <2>4. \A p \in NcProcs : NcKnows(ncProc[p]) /\ ~NcLocked(ncProc[p])
    BY <2>2, Zenon DEF NcKnows, NcLocked
  <2> QED  BY <2>1, <2>2, <2>3, <2>4, Zenon DEF NcInv, NcInit, NcClean
<1>2. NcInv => NcPromise
  BY Zenon DEF NcInv, NcKnows, NcClean, NcAt, NcPromise, NcAcknowledgedKept, NcAppliedIsLoaded, NcFailureReverts
<1> QED  BY <1>1, <1>2, NcInvNext, PTL DEF NcSpec

(* Generations and the bundle cache *)

\* Trees, packs and records that are told apart.
LEMMA BsShapes ==
    /\ BsNoTree \in BsTrees /\ ~BsValid(BsNoTree) /\ BsNoTree["extra"] = "none"
    /\ \A v \in Releases :
        /\ BsTree(v) \in BsTrees /\ BsValid(BsTree(v)) /\ BsTree(v) # BsNoTree
        /\ \A n \in BsFiles \cup {"manifest"} : BsTree(v)[n] = v
    /\ \A v \in Releases : v \notin {"none", "junk"}
    /\ BsFiles \cup {"manifest"} \subseteq BsNames /\ "extra" \in BsNames /\ "manifest" \in BsNames
<1>1. BsFiles \cup {"manifest"} \subseteq BsNames /\ "extra" \in BsNames /\ "manifest" \in BsNames
  BY DEF BsNames, BsFiles
<1>2. \A v \in Releases : v # "none" /\ v # "junk"
  BY BsAssumption
<1>3. BsNoTree \in BsTrees /\ BsNoTree["manifest"] = "none" /\ BsNoTree["extra"] = "none"
  BY <1>1 DEF BsNoTree, BsTrees
<1>4. ASSUME NEW v \in Releases
      PROVE  /\ BsTree(v) \in BsTrees /\ BsTree(v)["extra"] = "none" /\ BsTree(v)["manifest"] = v
             /\ \A n \in BsFiles \cup {"manifest"} : BsTree(v)[n] = v
  BY <1>1 DEF BsTree, BsTrees, BsFiles, BsNames
<1>5. ~BsValid(BsNoTree)
  BY <1>2, <1>3, Zenon DEF BsValid
<1>6. ASSUME NEW v \in Releases PROVE BsValid(BsTree(v)) /\ BsTree(v) # BsNoTree
  BY <1>2, <1>3, <1>4, <1>6, Zenon DEF BsValid
<1> QED  BY <1>1, <1>2, <1>3, <1>4, <1>5, <1>6

LEMMA BsPackShapes ==
    /\ BsNoPack \in BsPacks /\ BsJunk \in BsPacks /\ BsNoPack # BsJunk
    /\ \A v \in Releases, how \in {"packed", "released"} :
        /\ BsPack(how, v) \in BsPacks /\ BsPack(how, v) \notin {BsNoPack, BsJunk} /\ BsPack(how, v).release = v
    /\ BsNoRecord \notin BsRecords
<1>1. BsNoPack # BsJunk
  BY DEF BsNoPack, BsJunk
<1>2. ASSUME NEW v \in Releases, NEW how \in {"packed", "released"}
      PROVE  BsPack(how, v) # BsNoPack /\ BsPack(how, v) # BsJunk /\ BsPack(how, v).release = v
  BY DEF BsPack, BsNoPack, BsJunk
<1>3. BsNoRecord.id = "none"
  BY DEF BsNoRecord
<1>4. BsNoRecord \notin BsRecords
  BY <1>3, BsAssumption DEF BsRecords
<1>5. \A v \in Releases, how \in {"packed", "released"} : BsPack(how, v) \in BsPacks
  BY Zenon DEF BsPacks, BsPack
<1>6. BsNoPack \in BsPacks /\ BsJunk \in BsPacks
  BY Zenon DEF BsPacks
<1> QED  BY <1>1, <1>2, <1>4, <1>5, <1>6

\* A valid tree of a release is all of it, and a filed one is the release it is
\* filed under.
LEMMA BsWhole ==
    ASSUME NEW tree \in BsTrees, BsValid(tree)
    PROVE  tree = BsTree(tree["manifest"])
<1>1. \A n \in BsNames : tree[n] = BsTree(tree["manifest"])[n]
  BY DEF BsValid, BsTree, BsNames, BsFiles
<1>2. tree = [n \in BsNames |-> tree[n]] /\ BsTree(tree["manifest"]) = [n \in BsNames |-> BsTree(tree["manifest"])[n]]
  BY DEF BsTrees, BsTree
<1> QED  BY <1>1, <1>2

LEMMA BsFiledWhole ==
    ASSUME BsTypeOK, BsFiled, NEW v \in Releases, BsValid(bsGen[v])
    PROVE  bsGen[v] = BsTree(v)
<1>1. bsGen[v] \in BsTrees /\ bsGen[v] # BsNoTree
  BY BsShapes, Zenon DEF BsTypeOK
<1>2. bsGen[v]["manifest"] = v
  BY <1>1, Zenon DEF BsFiled
<1> QED  BY <1>1, <1>2, BsWhole, Zenon

\* The commands: an idle one is none, and what a step to another place keeps.
LEMMA BsIdleIsNone == BsIdle \notin BsCommands /\ BsIdle.pc = "idle" /\ \A op \in BsCommands : op.pc # "idle"
<1>1. BsIdle.pc = "idle"
  BY DEF BsIdle
<1>2. \A op \in BsCommands : op.pc # "idle"
  BY DEF BsCommands
<1> QED  BY <1>1, <1>2, Zenon

LEMMA BsMoves ==
    ASSUME NEW op \in BsCommands, NEW pc \in {"readFile", "cache", "pack", "copy", "stage", "record", "refused",
                                             "inspect", "remove", "recache", "rebuild"}
    PROVE  /\ [op EXCEPT !.pc = pc] \in BsCommands /\ [op EXCEPT !.pc = pc].pc = pc
           /\ [op EXCEPT !.pc = pc].repair = op.repair /\ [op EXCEPT !.pc = pc].id = op.id
           /\ [op EXCEPT !.pc = pc].root = op.root /\ [op EXCEPT !.pc = pc].bundle = op.bundle
           /\ [op EXCEPT !.pc = pc].todo = op.todo /\ [op EXCEPT !.pc = pc].stage = op.stage
           /\ [op EXCEPT !.pc = pc].again = op.again /\ [op EXCEPT !.pc = pc].mixed = op.mixed
           /\ [op EXCEPT !.pc = pc].cached = op.cached /\ [op EXCEPT !.pc = pc].made = op.made
BY DEF BsCommands

\* A command at work.
LEMMA BsAtWork ==
    ASSUME BsInv, bsOp # BsIdle
    PROVE  /\ bsOp \in BsCommands /\ BsKnows(bsOp) /\ bsOp.repair \in BOOLEAN /\ bsOp.root \in BOOLEAN
           /\ bsOp.id \in Releases => BsKey(bsOp) \in BsKeys /\ BsKey(bsOp)[2] = bsOp.id
           /\ bsOp.again \in BOOLEAN /\ bsOp.cached \in BOOLEAN /\ bsOp.made \in BOOLEAN /\ bsOp.todo \subseteq BsNames
           /\ bsOp.bundle \in BsTrees /\ bsOp.stage \in BsTrees
<1>1. bsOp \in BsCommands /\ BsKnows(bsOp)
  BY Zenon DEF BsInv, BsTypeOK
<1>2. /\ bsOp.repair \in BOOLEAN /\ bsOp.root \in BOOLEAN /\ bsOp.again \in BOOLEAN /\ bsOp.cached \in BOOLEAN
      /\ bsOp.made \in BOOLEAN /\ bsOp.todo \subseteq BsNames /\ bsOp.bundle \in BsTrees /\ bsOp.stage \in BsTrees
  BY <1>1 DEF BsCommands
<1>3. bsOp.id \in Releases => BsKey(bsOp) \in BsKeys /\ BsKey(bsOp)[2] = bsOp.id
  BY DEF BsKey, BsKeys
<1> QED  BY <1>1, <1>2, <1>3, Zenon

\* The record, when there is one.
LEMMA BsCommitted ==
    ASSUME BsInv, bsRec # BsNoRecord
    PROVE  /\ bsRec.id \in Releases /\ bsRec.key \in BsKeys /\ bsRec.key[2] = bsRec.id /\ BsSafe(bsRec.id, bsRec.key)
           /\ bsRots \in Nat
<1>1. bsRec \in BsRecords
  BY Zenon DEF BsInv, BsTypeOK
<1> QED  BY <1>1, Zenon DEF BsRecords, BsInv, BsRecordSafe, BsTypeOK

\* A step that leaves the store alone keeps the invariant if the command, when
\* there still is one, knows what it should.
LEMMA BsQuiet ==
    ASSUME BsInv, UNCHANGED <<bsStore, bsRots>>, bsRoot' \in BsTrees, bsArchive' \in Releases \cup {"junk"},
           \/ bsOp' = BsIdle
           \/ bsOp' \in BsCommands /\ BsKnows(bsOp')
    PROVE  BsInv'
<1>1. BsTypeOK'
  BY Zenon DEF BsInv, BsTypeOK, bsStore
<1>2. bsGen' = bsGen /\ bsCache' = bsCache /\ bsRec' = bsRec /\ bsRots' = bsRots
  BY Zenon DEF bsStore
<1>3. BsFiled'
  BY <1>2, Zenon DEF BsInv, BsFiled, BsVisibleIntact, BsCacheIntact
<1>4. \A k : (BsCacheOpens(k)' <=> BsCacheOpens(k)) /\ (BsOnlyJunk(k)' <=> BsOnlyJunk(k)) /\ (BsKept(k)' <=> BsKept(k))
  BY <1>2, Zenon DEF BsCacheOpens, BsOnlyJunk, BsKept
<1>5. \A id, k : (BsSafe(id, k)' <=> BsSafe(id, k)) /\ (BsSpare(id, k)' <=> BsSpare(id, k))
  BY <1>2, <1>4, Zenon DEF BsSafe, BsSpare
<1>6. BsRecordSafe'
  BY <1>2, <1>5, Zenon DEF BsInv, BsRecordSafe
<1>7. bsOp' # BsIdle => BsKnows(bsOp)'
  BY <1>2, <1>4, <1>5 DEF BsKnows, BsFiling, BsLooked, BsRepairs, BsHas
<1> QED  BY <1>1, <1>3, <1>6, <1>7, Zenon DEF BsInv

\* The step ends the command, or gives up.
LEMMA BsEnds ==
    ASSUME BsInv, BsEnd, UNCHANGED <<bsStore, bsRots>>, bsRoot' = bsRoot, bsArchive' = bsArchive
    PROVE  BsInv'
BY BsQuiet, Zenon DEF BsEnd, BsInv, BsTypeOK

\* The command moves to another place; what holds there depends on the place.
LEMMA BsGoing ==
    ASSUME BsInv, bsOp # BsIdle, BsStays, UNCHANGED <<bsRots>>,
           NEW pc \in {"cache", "inspect", "copy", "record", "refused", "rebuild"}, BsGo(pc),
           BsKnows([bsOp EXCEPT !.pc = pc])
    PROVE  BsInv'
<1>1. bsOp \in BsCommands
  BY BsAtWork, Zenon
<1>2. [bsOp EXCEPT !.pc = pc] \in BsCommands
  BY <1>1, BsMoves, Zenon
<1> QED  BY <1>2, BsQuiet, Zenon DEF BsGo, BsStays, bsOutside, bsStore, BsInv, BsTypeOK

\* A command begins.
LEMMA BsBeginning ==
    ASSUME BsInv, BsBegin
    PROVE  BsInv'
<1>1. PICK repair \in BOOLEAN, from \in {"root", "archive", "server", "nothing"}, want \in Releases :
         /\ from = "nothing" => repair
         /\ repair => bsRec # BsNoRecord
         /\ bsOp' = [pc |-> CASE from = "root" -> "readManifest"
                              [] from \in {"archive", "server"} -> from
                              [] OTHER -> "inspect",
                     repair |-> repair, want |-> want, id |-> "none", root |-> FALSE,
                     bundle |-> BsNoTree, todo |-> {}, stage |-> BsNoTree, again |-> FALSE, mixed |-> FALSE,
                     cached |-> FALSE, made |-> FALSE]
  BY Zenon DEF BsBegin
<1>2. PICK pc : pc = CASE from = "root" -> "readManifest"
                       [] from \in {"archive", "server"} -> from
                       [] OTHER -> "inspect"
  BY Zenon
<1>3. pc \in {"readManifest", "archive", "server", "inspect"} /\ (pc = "inspect" => repair)
  BY <1>1, <1>2
<1>4. bsOp' \in BsCommands
  BY <1>1, <1>2, <1>3, BsShapes DEF BsCommands
<1>5. /\ bsOp'.pc = pc /\ bsOp'.repair = repair /\ bsOp'.id = "none" /\ ~bsOp'.again /\ ~bsOp'.mixed /\ ~bsOp'.made
  BY <1>1, <1>2
<1>6. BsKnows(bsOp')
  BY <1>1, <1>3, <1>5 DEF BsKnows
<1> QED  BY <1>4, <1>6, BsQuiet, Zenon DEF BsBegin, bsOutside, bsStore, BsInv, BsTypeOK

\* Opening a bundle root.
LEMMA BsReading ==
    ASSUME BsInv, BsReadManifest \/ BsReadFile
    PROVE  BsInv'
<1>1. /\ bsOp # BsIdle /\ BsStays /\ bsRoot' = bsRoot /\ bsArchive' = bsArchive /\ bsRots' = bsRots
      /\ UNCHANGED bsStore
  BY BsIdleIsNone DEF BsReadManifest, BsReadFile, BsAt, BsStays, bsOutside
<1>2. bsOp \in BsCommands /\ BsKnows(bsOp) /\ bsRoot \in BsTrees /\ bsArchive \in Releases \cup {"junk"}
  BY <1>1, BsAtWork, Zenon DEF BsInv, BsTypeOK
<1>3. CASE BsEnd
  BY <1>1, <1>3, BsEnds, Zenon
<1>4. CASE BsReadManifest /\ ~BsEnd
  <2>1. /\ bsOp' = [bsOp EXCEPT !.pc = "readFile", !.id = bsRoot["manifest"], !.root = TRUE,
                                !.todo = BsNames \ {"manifest"}]
        /\ bsRoot["manifest"] \in Releases /\ bsOp.pc = "readManifest"
    BY <1>4, Zenon DEF BsReadManifest, BsAt
  <2>2. /\ bsOp' \in BsCommands /\ bsOp'.pc = "readFile" /\ bsOp'.id \in Releases /\ bsOp'.root
        /\ bsOp'.mixed = bsOp.mixed /\ bsOp'.again = bsOp.again /\ bsOp'.repair = bsOp.repair /\ bsOp'.made = bsOp.made
    BY <1>2, <2>1 DEF BsCommands
  <2>3. ~bsOp.mixed /\ (bsOp.repair => bsRec # BsNoRecord) /\ ~bsOp.again /\ ~bsOp.made
    BY <1>2, <2>1 DEF BsKnows
  <2>4. BsKnows(bsOp')
    BY <2>2, <2>3 DEF BsKnows
  <2> QED  BY <1>1, <1>2, <2>2, <2>4, BsQuiet, Zenon
<1>5. CASE BsReadFile /\ ~BsEnd
  <2>1. bsOp.pc = "readFile" /\ (BsGo(BsOpened) \/ \E n \in bsOp.todo : bsOp' = [bsOp EXCEPT !.todo = @ \ {n}])
    BY <1>5, Zenon DEF BsReadFile, BsAt
  <2>2. /\ ~bsOp.mixed /\ (bsOp.repair => bsRec # BsNoRecord) /\ ~bsOp.again /\ bsOp.root /\ bsOp.id \in Releases
        /\ ~bsOp.made
    BY <1>2, <2>1 DEF BsKnows
  <2>3. CASE \E n \in bsOp.todo : bsOp' = [bsOp EXCEPT !.todo = @ \ {n}]
    <3>1. /\ bsOp' \in BsCommands /\ bsOp'.pc = "readFile" /\ bsOp'.id = bsOp.id /\ bsOp'.root = bsOp.root
          /\ bsOp'.mixed = bsOp.mixed /\ bsOp'.again = bsOp.again /\ bsOp'.repair = bsOp.repair /\ bsOp'.made = bsOp.made
      BY <1>2, <2>1, <2>3 DEF BsCommands
    <3>2. BsKnows(bsOp')
      BY <2>2, <3>1 DEF BsKnows
    <3> QED  BY <1>1, <1>2, <3>1, <3>2, BsQuiet, Zenon
  <2>4. CASE BsGo(BsOpened)
    <3>1. PICK pc : pc = BsOpened
      BY Zenon
    <3>2. pc \in {"cache", "inspect"} /\ (pc = "cache" <=> ~bsOp.repair)
      BY <3>1 DEF BsOpened
    <3>3. BsKnows([bsOp EXCEPT !.pc = pc])
      BY <1>2, <2>2, <3>2, BsMoves DEF BsKnows, BsHas
    <3> QED  BY <1>1, <2>4, <3>1, <3>2, <3>3, BsGoing, Zenon
  <2> QED  BY <2>1, <2>3, <2>4, Zenon
<1> QED  BY <1>3, <1>4, <1>5, Zenon

\* Opening an archive: the snapshot is a release.
LEMMA BsOpening ==
    ASSUME BsInv, BsOpenArchive \/ BsDownload
    PROVE  BsInv'
<1>1. /\ bsOp # BsIdle /\ bsRoot' = bsRoot /\ bsArchive' = bsArchive /\ bsRots' = bsRots
      /\ UNCHANGED bsStore /\ bsOp.pc \in {"archive", "server"} /\ (BsSnapshot(bsArchive) \/ BsEnd)
  BY BsIdleIsNone DEF BsOpenArchive, BsDownload, BsAt, BsStays, bsOutside
<1>2. bsOp \in BsCommands /\ BsKnows(bsOp) /\ bsRoot \in BsTrees /\ bsArchive \in Releases \cup {"junk"}
  BY <1>1, BsAtWork, Zenon DEF BsInv, BsTypeOK
<1>3. CASE BsEnd
  BY <1>1, <1>3, BsEnds, Zenon
<1>4. CASE ~BsEnd
  <2>1. /\ bsArchive \in Releases
        /\ bsOp' = [bsOp EXCEPT !.pc = BsOpened, !.id = bsArchive, !.bundle = BsTree(bsArchive)]
    BY <1>1, <1>2, <1>4, Zenon DEF BsSnapshot
  <2>2. PICK pc : pc = BsOpened
    BY Zenon
  <2>3. pc \in {"cache", "inspect"} /\ (pc = "cache" <=> ~bsOp.repair)
    BY <2>2 DEF BsOpened
  <2>4. BsTree(bsArchive) \in BsTrees
    BY <2>1, BsShapes, Zenon
  <2>5. /\ bsOp' \in BsCommands /\ bsOp'.pc = pc /\ bsOp'.id = bsArchive /\ bsOp'.bundle = BsTree(bsArchive)
        /\ bsOp'.mixed = bsOp.mixed /\ bsOp'.again = bsOp.again /\ bsOp'.repair = bsOp.repair /\ bsOp'.made = bsOp.made
    BY <1>2, <2>1, <2>2, <2>3, <2>4 DEF BsCommands
  <2>6. ~bsOp.mixed /\ (bsOp.repair => bsRec # BsNoRecord) /\ ~bsOp.again /\ ~bsOp.made
    BY <1>1, <1>2 DEF BsKnows
  <2>7. BsKnows(bsOp')
    BY <2>1, <2>3, <2>5, <2>6 DEF BsKnows, BsHas
  <2> QED  BY <1>1, <1>2, <2>5, <2>7, BsQuiet, Zenon
<1> QED  BY <1>3, <1>4, Zenon

\* A cache file that opens holds the release it is filed under; one that does not
\* is missing or junk.
LEMMA BsOpens ==
    ASSUME BsInv, NEW key \in BsKeys
    PROVE  /\ BsCacheOpens(key) => bsCache[key].release = key[2]
           /\ ~BsCacheOpens(key) => bsCache[key] \in {BsNoPack, BsJunk}
           /\ BsCacheOpens(key) /\ key[1] = "digest" => bsCache[key] = BsPack("released", key[2])
<1>1. key[1] \in {"identity", "digest"} /\ key[2] \in Releases
  BY DEF BsKeys
<1>2. \/ bsCache[key] \in {BsNoPack, BsJunk, BsPack("released", key[2])}
      \/ key[1] = "identity" /\ bsCache[key] = BsPack("packed", key[2])
  BY Zenon DEF BsInv, BsFiled
<1> QED  BY <1>1, <1>2, BsPackShapes DEF BsCacheOpens

\* A cache file that is missing is not what the record relies on.
LEMMA BsRelies ==
    ASSUME BsInv, NEW id, NEW key \in BsKeys, BsSafe(id, key), ~BsCacheOpens(key)
    PROVE  BsSpare(id, key)
BY Zenon DEF BsSpare, BsSafe

\* A new cache file, filed under the release it holds, keeps the store sound: it
\* replaces none that is relied on.
LEMMA BsCaching ==
    ASSUME BsInv, NEW key \in BsKeys, NEW pack \in {BsPack("packed", key[2]), BsPack("released", key[2])},
           pack = BsPack("packed", key[2]) => key[1] = "identity",
           bsCache' = [bsCache EXCEPT ![key] = pack], UNCHANGED <<bsGen, bsRec, bsRots>>,
           bsRoot' = bsRoot, bsArchive' = bsArchive, bsOp' \in BsCommands, BsKnows(bsOp)'
    PROVE  BsInv'
<1>1. key[2] \in Releases /\ bsCache \in [BsKeys -> BsPacks]
  BY DEF BsKeys, BsInv, BsTypeOK
<1>2. pack \in BsPacks /\ pack \notin {BsNoPack, BsJunk}
  BY <1>1, BsPackShapes
<1>3. bsCache' \in [BsKeys -> BsPacks] /\ bsCache'[key] = pack /\ \A k \in BsKeys : k # key => bsCache'[k] = bsCache[k]
  BY <1>1, <1>2, Zenon
<1>4. BsTypeOK'
  BY <1>3, Zenon DEF BsInv, BsTypeOK
<1>5. BsFiled'
  BY <1>3, Zenon DEF BsInv, BsFiled, BsVisibleIntact, BsCacheIntact
<1>6. \A k \in BsKeys : (BsCacheOpens(k) => BsCacheOpens(k)') /\ (BsOnlyJunk(k) => BsOnlyJunk(k)')
  BY <1>2, <1>3, Zenon DEF BsCacheOpens, BsOnlyJunk
<1>7. \A id, k : k \in BsKeys /\ BsSafe(id, k) => BsSafe(id, k)'
  BY <1>6, Zenon DEF BsSafe
<1>8. BsRecordSafe'
  <2> SUFFICES ASSUME bsRec' # BsNoRecord PROVE bsRec'.key[2] = bsRec'.id /\ BsSafe(bsRec.id, bsRec.key)'
    BY Zenon DEF BsRecordSafe
  <2>1. PICK id, k : id = bsRec.id /\ k = bsRec.key
    BY Zenon
  <2>2. k \in BsKeys /\ bsRec.key[2] = bsRec.id /\ BsSafe(id, k)
    BY <2>1, BsCommitted, Zenon
  <2>3. BsSafe(id, k)'
    BY <1>7, <2>2, Zenon
  <2> QED  BY <2>1, <2>2, <2>3, Zenon
<1> QED  BY <1>4, <1>5, <1>8, BsIdleIsNone, Zenon DEF BsInv

\* A cache file is removed that the record does not rely on.
LEMMA BsUncaching ==
    ASSUME BsInv, NEW key \in BsKeys,
           bsRec # BsNoRecord /\ bsRec.key = key => BsSpare(bsRec.id, key),
           bsCache' = [bsCache EXCEPT ![key] = BsNoPack], UNCHANGED <<bsGen, bsRec, bsRots>>,
           bsRoot' = bsRoot, bsArchive' = bsArchive, bsOp' \in BsCommands, BsKnows(bsOp)'
    PROVE  BsInv'
<1>1. bsCache \in [BsKeys -> BsPacks]
  BY DEF BsInv, BsTypeOK
<1>2. bsCache' \in [BsKeys -> BsPacks] /\ bsCache'[key] = BsNoPack /\ \A k \in BsKeys : k # key => bsCache'[k] = bsCache[k]
  BY <1>1, BsPackShapes, Zenon
<1>3. BsTypeOK'
  BY <1>2, Zenon DEF BsInv, BsTypeOK
<1>4. BsFiled'
  BY <1>2, Zenon DEF BsInv, BsFiled, BsVisibleIntact, BsCacheIntact
<1>5. \A k \in BsKeys : (k # key /\ BsCacheOpens(k) => BsCacheOpens(k)') /\ (BsOnlyJunk(k) => BsOnlyJunk(k)')
  BY <1>2, BsPackShapes, Zenon DEF BsCacheOpens, BsOnlyJunk
<1>6. \A id, k : k \in BsKeys /\ k # key /\ BsSafe(id, k) => BsSafe(id, k)'
  BY <1>5, Zenon DEF BsSafe
<1>7. \A id : BsSpare(id, key) => BsSafe(id, key)'
  BY <1>5, Zenon DEF BsSafe, BsSpare
<1>8. BsRecordSafe'
  <2> SUFFICES ASSUME bsRec' # BsNoRecord PROVE bsRec'.key[2] = bsRec'.id /\ BsSafe(bsRec.id, bsRec.key)'
    BY Zenon DEF BsRecordSafe
  <2>1. PICK id, k : id = bsRec.id /\ k = bsRec.key
    BY Zenon
  <2>2. k \in BsKeys /\ bsRec.key[2] = bsRec.id /\ BsSafe(id, k)
    BY <2>1, BsCommitted, Zenon
  <2>3. BsSafe(id, k)'
    BY <1>6, <1>7, <2>1, <2>2, Zenon
  <2> QED  BY <2>1, <2>2, <2>3, Zenon
<1> QED  BY <1>3, <1>4, <1>8, BsIdleIsNone, Zenon DEF BsInv

\* Giving up, with the cache file the command had made taken back.
LEMMA BsRefusing ==
    ASSUME BsInv, bsOp # BsIdle, BsRefused, UNCHANGED <<bsOutside, bsGen, bsRec>>, bsOp.id \in Releases,
           bsOp.made /\ ~bsOp.repair /\ bsRec # BsNoRecord /\ bsRec.key = BsKey(bsOp) => BsSpare(bsRec.id, bsRec.key),
           bsRots < (IF bsOp.repair THEN 2 ELSE 1) => bsOp.root /\ ~bsOp.again
    PROVE  BsInv'
<1>1. /\ bsOp \in BsCommands /\ BsKnows(bsOp) /\ BsKey(bsOp) \in BsKeys /\ bsOp' = [bsOp EXCEPT !.pc = "refused"]
      /\ bsRoot' = bsRoot /\ bsArchive' = bsArchive /\ bsRots' = bsRots
  BY BsAtWork, Zenon DEF BsRefused, BsGo, bsOutside
<1>2. /\ bsOp' \in BsCommands /\ bsOp'.pc = "refused" /\ bsOp'.mixed = bsOp.mixed /\ bsOp'.again = bsOp.again
      /\ bsOp'.repair = bsOp.repair /\ bsOp'.root = bsOp.root
  BY <1>1, BsMoves, Zenon
<1>3. ~bsOp.mixed /\ (bsOp.repair => bsRec # BsNoRecord) /\ (bsOp.again => bsOp.root /\ bsOp.repair)
  BY <1>1, Zenon DEF BsKnows
<1>4. BsKnows(bsOp') /\ BsKnows(bsOp)'
  BY <1>1, <1>2, <1>3 DEF BsKnows
<1>5. CASE bsCache' = bsCache
  BY <1>1, <1>2, <1>4, <1>5, BsQuiet, Zenon DEF bsStore, BsInv, BsTypeOK
<1>6. CASE bsCache' # bsCache
  <2>1. PICK key : key = BsKey(bsOp)
    BY Zenon
  <2>2. bsCache' = [bsCache EXCEPT ![key] = BsNoPack] /\ bsOp.made /\ ~bsOp.repair
    BY <1>6, <2>1, Zenon DEF BsRefused
  <2>3. key \in BsKeys /\ (bsRec # BsNoRecord /\ bsRec.key = key => BsSpare(bsRec.id, key))
    BY <1>1, <2>1, <2>2, Zenon
  <2> QED  BY <1>1, <1>2, <1>4, <2>2, <2>3, BsUncaching, Zenon
<1> QED  BY <1>5, <1>6, Zenon

\* Filing the archive: an existing file is used or refused, a missing one is made.
LEMMA BsUsing ==
    ASSUME BsInv, bsOp # BsIdle, NEW pc \in {"copy", "record"}, bsOp.id \in Releases, BsUseCache(pc),
           UNCHANGED <<bsOutside, bsGen, bsRec>>,
           bsOp.made /\ ~bsOp.repair /\ bsRec # BsNoRecord /\ bsRec.key = BsKey(bsOp) => BsSpare(bsRec.id, bsRec.key),
           bsRots < (IF bsOp.repair THEN 2 ELSE 1) => bsCache[BsKey(bsOp)] # BsJunk,
           BsCacheOpens(BsKey(bsOp)) => BsKnows([bsOp EXCEPT !.pc = pc])
    PROVE  BsInv'
<1>1. bsOp \in BsCommands /\ BsKey(bsOp) \in BsKeys
  BY BsAtWork, Zenon
<1>2. CASE BsCacheMatches(bsOp)
  <2>1. bsOp' = [bsOp EXCEPT !.pc = pc] /\ bsCache' = bsCache /\ BsCacheOpens(BsKey(bsOp))
    BY <1>2, Zenon DEF BsUseCache, BsGo, BsCacheMatches
  <2>2. [bsOp EXCEPT !.pc = pc] \in BsCommands
    BY <1>1, BsMoves, Zenon
  <2> QED  BY <2>1, <2>2, BsQuiet, Zenon DEF bsOutside, bsStore, BsInv, BsTypeOK
<1>3. CASE ~BsCacheMatches(bsOp)
  <2>1. BsRefused /\ bsCache[BsKey(bsOp)] # BsNoPack
    BY <1>3, Zenon DEF BsUseCache
  <2>2. bsCache[BsKey(bsOp)] = BsJunk
    <3>1. ~bsOp.root => BsKey(bsOp)[1] = "digest" /\ BsKey(bsOp)[2] = bsOp.id
      BY DEF BsKey
    <3>2. BsCacheOpens(BsKey(bsOp)) => BsCacheMatches(bsOp)
      BY <1>1, <3>1, BsOpens, Zenon DEF BsCacheMatches
    <3> QED  BY <1>1, <1>3, <2>1, <3>2, BsOpens, Zenon
  <2> QED  BY <2>1, <2>2, BsRefusing, Zenon
<1> QED  BY <1>2, <1>3, Zenon

\* The archive is copied into the cache.
LEMMA BsFilingArchive ==
    ASSUME BsInv, bsOp # BsIdle, NEW pc \in {"copy", "record"}, bsOp.id \in Releases, BsCopyArchive(pc),
           UNCHANGED <<bsOutside, bsGen, bsRec>>, bsOp.pc \in {"cache", "rebuild"},
           pc = "copy" => ~bsOp.repair /\ BsHas(bsOp),
           pc = "record" => bsOp.repair /\ bsRots # 0
    PROVE  BsInv'
<1>1. bsOp \in BsCommands /\ BsKnows(bsOp) /\ BsKey(bsOp) \in BsKeys /\ BsKey(bsOp)[2] = bsOp.id /\ bsOp.id \in Releases
  BY BsAtWork, Zenon
<1>2. PICK key : key = BsKey(bsOp)
  BY Zenon
<1>3. /\ bsCache[key] = BsNoPack /\ ~bsOp.root /\ bsCache' = [bsCache EXCEPT ![key] = BsPack("released", key[2])]
      /\ bsOp' = [bsOp EXCEPT !.pc = pc, !.made = TRUE]
  BY <1>1, <1>2, Zenon DEF BsCopyArchive
<1>4. /\ bsOp' \in BsCommands /\ bsOp'.pc = pc /\ bsOp'.id = bsOp.id /\ bsOp'.bundle = bsOp.bundle
      /\ bsOp'.mixed = bsOp.mixed /\ bsOp'.again = bsOp.again /\ bsOp'.repair = bsOp.repair /\ bsOp'.root = bsOp.root
  BY <1>1, <1>3 DEF BsCommands
<1>5. ~bsOp.mixed /\ (bsOp.repair => bsRec # BsNoRecord) /\ ~bsOp.again
  BY <1>1, <1>3, Zenon DEF BsKnows
<1>6. BsKey(bsOp)' = key
  BY <1>2, <1>4 DEF BsKey
<1>7. BsCacheOpens(key)'
  <2>1. BsPack("released", key[2]) \notin {BsNoPack, BsJunk}
    BY <1>1, <1>2, BsPackShapes, Zenon
  <2>2. bsCache'[key] = BsPack("released", key[2])
    BY <1>1, <1>2, <1>3, Zenon DEF BsInv, BsTypeOK
  <2> QED  BY <2>1, <2>2, Zenon DEF BsCacheOpens
<1>8. bsGen' = bsGen /\ bsRec' = bsRec /\ bsRots' = bsRots /\ bsRoot' = bsRoot /\ bsArchive' = bsArchive
  BY DEF bsOutside
<1>9. bsRec # BsNoRecord /\ bsRec.key = key => BsSpare(bsRec.id, key)
  BY <1>1, <1>2, <1>3, BsCommitted, BsRelies, Zenon DEF BsCacheOpens
<1>10. bsRec' # BsNoRecord /\ bsRec'.key = key => BsSpare(bsRec.id, key)'
  <2>1. \A k \in BsKeys : bsCache'[k] = BsJunk => bsCache[k] = BsJunk
    BY <1>1, <1>2, <1>3, BsPackShapes, Zenon DEF BsInv, BsTypeOK
  <2>2. BsOnlyJunk(key) => BsOnlyJunk(key)'
    BY <2>1, Zenon DEF BsOnlyJunk
  <2> QED  BY <1>8, <1>9, <2>2, Zenon DEF BsSpare
<1>11. BsKnows(bsOp)'
  <2>1. CASE pc = "copy"
    <3>1. ~bsOp'.repair /\ ~bsOp'.again /\ ~bsOp'.mixed
      BY <1>4, <1>5, <2>1
    <3>2. BsHas(bsOp)' /\ BsKept(BsKey(bsOp))'
      BY <1>4, <1>6, <1>7, <2>1 DEF BsHas, BsKept
    <3>3. BsFiling(bsOp)'
      BY <1>6, <1>10, <3>1, <3>2, Zenon DEF BsFiling
    <3> QED  BY <1>4, <3>1, <3>3, <2>1 DEF BsKnows
  <2>2. CASE pc = "record"
    <3>1. BsSafe(bsOp.id, BsKey(bsOp))'
      BY <1>6, <1>7, <1>8, <2>2, Zenon DEF BsSafe
    <3> QED  BY <1>1, <1>4, <1>5, <1>8, <2>2, <3>1 DEF BsKnows
  <2> QED  BY <2>1, <2>2
<1>12. PICK pack : pack = BsPack("released", key[2])
  BY Zenon
<1>13. pack # BsPack("packed", key[2])
  BY <1>12 DEF BsPack
<1> QED  BY <1>1, <1>2, <1>3, <1>4, <1>8, <1>11, <1>12, <1>13, BsCaching, Zenon

\* A bundle root is to be packed.
LEMMA BsPacking ==
    ASSUME BsInv, bsOp # BsIdle, bsOp.id \in Releases, BsPackRoot, UNCHANGED <<bsOutside, bsGen, bsRec>>,
           bsOp.repair => BsRepairs(bsOp) /\ bsCache[bsRec.key] = BsNoPack
    PROVE  BsInv'
<1>1. bsOp \in BsCommands /\ BsKnows(bsOp)
  BY BsAtWork, Zenon
<1>2. /\ bsCache[BsKey(bsOp)] = BsNoPack /\ bsOp.root /\ bsCache' = bsCache
      /\ bsOp' = [bsOp EXCEPT !.pc = "pack", !.todo = BsFiles \cup {"manifest"}]
  BY Zenon DEF BsPackRoot
<1>3. /\ bsOp' \in BsCommands /\ bsOp'.pc = "pack" /\ bsOp'.id = bsOp.id /\ bsOp'.todo = BsFiles \cup {"manifest"}
      /\ bsOp'.mixed = bsOp.mixed /\ bsOp'.again = bsOp.again /\ bsOp'.repair = bsOp.repair /\ bsOp'.root = bsOp.root
  BY <1>1, <1>2, BsShapes DEF BsCommands
<1>4. ~bsOp.mixed /\ (bsOp.repair => bsRec # BsNoRecord) /\ (bsOp.again => bsOp.root /\ bsOp.repair)
  BY <1>1, Zenon DEF BsKnows
<1>5. BsKey(bsOp') = BsKey(bsOp) /\ (BsRepairs(bsOp) => BsRepairs(bsOp'))
  BY <1>3 DEF BsKey, BsRepairs
<1>6. BsKnows(bsOp')
  BY <1>2, <1>3, <1>4, <1>5 DEF BsKnows
<1> QED  BY <1>2, <1>3, <1>6, BsQuiet, Zenon DEF bsOutside, bsStore, BsInv, BsTypeOK

\* A command files its archive.
LEMMA BsCachingBundle ==
    ASSUME BsInv, BsCacheBundle
    PROVE  BsInv'
<1>1. bsOp # BsIdle /\ bsOp.pc = "cache" /\ UNCHANGED <<bsOutside, bsGen, bsRec>>
  BY BsIdleIsNone, Zenon DEF BsCacheBundle, BsAt
<1>2. bsOp \in BsCommands /\ BsKnows(bsOp) /\ bsRots \in Nat
  BY <1>1, BsAtWork, Zenon DEF BsInv, BsTypeOK
<1>3. ~bsOp.repair /\ BsHas(bsOp) /\ ~bsOp.made /\ ~bsOp.again /\ ~bsOp.mixed /\ bsOp.id \in Releases
  BY <1>1, <1>2 DEF BsKnows, BsHas
<1>4. CASE BsUseCache("copy")
  <2>1. PICK op : op = [bsOp EXCEPT !.pc = "copy"]
    BY Zenon
  <2>2. /\ op.pc = "copy" /\ op.repair = bsOp.repair /\ op.id = bsOp.id /\ op.root = bsOp.root /\ op.bundle = bsOp.bundle
        /\ op.again = bsOp.again /\ op.mixed = bsOp.mixed /\ op.made = bsOp.made
    BY <1>2, <2>1, BsMoves, Zenon
  <2>3. BsHas(op) /\ BsKey(op) = BsKey(bsOp)
    BY <1>3, <2>2 DEF BsHas, BsKey
  <2>4. BsCacheOpens(BsKey(bsOp)) => BsFiling(op)
    BY <1>3, <2>2, <2>3 DEF BsFiling, BsKept
  <2>5. BsCacheOpens(BsKey(bsOp)) => BsKnows(op)
    BY <1>3, <2>2, <2>4 DEF BsKnows
  <2>6. bsRots < 1 => bsCache[BsKey(bsOp)] # BsJunk
    <3>1. BsKey(bsOp) \in BsKeys /\ BsKey(bsOp)[2] \in Releases
      BY <1>1, <1>3, BsAtWork, Zenon
    <3>2. bsRots < 1 => bsRots = 0
      BY <1>2
    <3>3. PICK key : key = BsKey(bsOp)
      BY Zenon
    <3>4. bsRots = 0 => bsCache[key] \in {BsNoPack, BsPack("packed", key[2]), BsPack("released", key[2])}
      BY <3>1, <3>3, Zenon DEF BsInv, BsFiled, BsCacheIntact
    <3>5. BsPack("packed", key[2]) # BsJunk /\ BsPack("released", key[2]) # BsJunk /\ BsNoPack # BsJunk
      BY <3>1, <3>3, BsPackShapes
    <3> QED  BY <3>2, <3>3, <3>4, <3>5, Zenon
  <2> QED  BY <1>1, <1>3, <1>4, <2>1, <2>5, <2>6, BsUsing
<1>5. CASE BsCopyArchive("copy")
  BY <1>1, <1>3, <1>5, BsFilingArchive, Zenon
<1>6. CASE BsPackRoot
  BY <1>1, <1>3, <1>6, BsPacking, Zenon
<1> QED  BY <1>4, <1>5, <1>6, Zenon DEF BsCacheBundle

\* Repair looks for the record's cache file and finds it gone: at most one damage
\* was done, and not to the generation.
LEMMA BsGone ==
    ASSUME BsInv, bsRec # BsNoRecord, bsCache[bsRec.key] = BsNoPack
    PROVE  /\ bsRots # 0
           /\ bsRots < 2 => BsValid(bsGen[bsRec.id]) /\ \A k \in BsKeys : bsCache[k] # BsJunk
<1>1. bsRec.key \in BsKeys /\ BsSafe(bsRec.id, bsRec.key) /\ ~BsCacheOpens(bsRec.key)
  BY BsCommitted, Zenon DEF BsCacheOpens
<1> QED  BY <1>1, BsPackShapes, Zenon DEF BsSafe, BsOnlyJunk

\* Repair files the record's archive again.
LEMMA BsRebuilding ==
    ASSUME BsInv, BsRebuild
    PROVE  BsInv'
<1>1. bsOp # BsIdle /\ bsOp.pc = "rebuild" /\ UNCHANGED <<bsOutside, bsGen, bsRec>>
  BY BsIdleIsNone, Zenon DEF BsRebuild, BsAt
<1>2. bsOp \in BsCommands /\ BsKnows(bsOp) /\ bsRots \in Nat
  BY <1>1, BsAtWork, Zenon DEF BsInv, BsTypeOK
<1>3. /\ BsRepairs(bsOp) /\ bsOp.repair /\ bsOp.id \in Releases /\ bsCache[bsRec.key] = BsNoPack /\ bsRec # BsNoRecord
      /\ ~bsOp.mixed /\ (bsOp.again => bsOp.root)
  BY <1>1, <1>2 DEF BsKnows, BsRepairs
<1>4. bsRots # 0 /\ (bsRots < 2 => \A k \in BsKeys : bsCache[k] # BsJunk)
  BY <1>3, BsGone, Zenon
<1>5. BsKey(bsOp) \in BsKeys
  BY <1>1, <1>3, BsAtWork, Zenon
<1>6. CASE BsUseCache("record")
  <2>1. PICK op : op = [bsOp EXCEPT !.pc = "record"]
    BY Zenon
  <2>2. /\ op.pc = "record" /\ op.repair = bsOp.repair /\ op.id = bsOp.id /\ op.root = bsOp.root
        /\ op.again = bsOp.again /\ op.mixed = bsOp.mixed
    BY <1>2, <2>1, BsMoves, Zenon
  <2>3. BsKey(op) = BsKey(bsOp)
    BY <2>2 DEF BsKey
  <2>4. BsCacheOpens(BsKey(bsOp)) => BsSafe(op.id, BsKey(op))
    BY <1>4, <2>3, Zenon DEF BsSafe
  <2>5. BsCacheOpens(BsKey(bsOp)) => BsKnows(op)
    BY <1>3, <2>2, <2>4 DEF BsKnows
  <2> QED  BY <1>1, <1>3, <1>4, <1>5, <1>6, <2>1, <2>5, BsUsing
<1>7. CASE BsCopyArchive("record")
  BY <1>1, <1>3, <1>4, <1>7, BsFilingArchive
<1>8. CASE BsPackRoot
  BY <1>1, <1>3, <1>8, BsPacking, Zenon
<1> QED  BY <1>6, <1>7, <1>8, Zenon DEF BsRebuild

\* Packing: no file is taken that is not the release's, and repair finds the whole
\* generation.
LEMMA BsPackingFile ==
    ASSUME BsInv, BsPackFile
    PROVE  BsInv'
<1>1. /\ bsOp # BsIdle /\ bsOp.pc = "pack" /\ bsGen' = bsGen /\ bsRec' = bsRec /\ bsRots' = bsRots
      /\ bsRoot' = bsRoot /\ bsArchive' = bsArchive
  BY BsIdleIsNone, Zenon DEF BsPackFile, BsAt, bsOutside
<1>2. bsOp \in BsCommands /\ BsKnows(bsOp) /\ bsRots \in Nat /\ bsRoot \in BsTrees /\ bsArchive \in Releases \cup {"junk"}
  BY <1>1, BsAtWork, Zenon DEF BsInv, BsTypeOK
<1>3. /\ bsOp.id \in Releases /\ bsOp.root /\ bsOp.todo \subseteq BsFiles \cup {"manifest"} /\ ~bsOp.mixed
      /\ bsCache[BsKey(bsOp)] = BsNoPack /\ (bsOp.again => bsOp.repair)
      /\ bsOp.repair => BsRepairs(bsOp) /\ bsCache[bsRec.key] = BsNoPack /\ bsRec # BsNoRecord
  BY <1>1, <1>2, Zenon DEF BsKnows
<1>4. BsKey(bsOp) \in BsKeys /\ BsKey(bsOp)[2] = bsOp.id
  BY <1>1, <1>3, BsAtWork, Zenon
<1>5. bsOp.repair => bsOp.id = bsRec.id /\ bsRots # 0 /\ (bsRots < 2 => BsValid(bsGen[bsRec.id]))
  BY <1>3, BsGone, Zenon DEF BsRepairs
<1>6. ASSUME NEW n \in bsOp.todo, BsReadTree[n] = bsOp.id, bsCache' = bsCache,
             bsOp' = [bsOp EXCEPT !.todo = @ \ {n}, !.mixed = @ \/ BsReadTree[n] # bsOp.id]
      PROVE  BsInv'
  <2>1. /\ bsOp' \in BsCommands /\ bsOp'.pc = "pack" /\ bsOp'.id = bsOp.id /\ bsOp'.todo \subseteq bsOp.todo
        /\ ~bsOp'.mixed /\ bsOp'.again = bsOp.again /\ bsOp'.repair = bsOp.repair /\ bsOp'.root = bsOp.root
    BY <1>1, <1>2, <1>3, <1>6 DEF BsCommands
  <2>2. BsKey(bsOp') = BsKey(bsOp) /\ (BsRepairs(bsOp) => BsRepairs(bsOp'))
    BY <2>1 DEF BsKey, BsRepairs
  <2>3. BsKnows(bsOp')
    BY <1>3, <2>1, <2>2 DEF BsKnows
  <2> QED  BY <1>1, <1>2, <1>6, <2>1, <2>3, BsQuiet, Zenon DEF bsStore
<1>7. ASSUME NEW n \in bsOp.todo, BsReadTree[n] # bsOp.id, BsGo("refused"), bsCache' = bsCache
      PROVE  BsInv'
  <2>1. bsOp' \in BsCommands /\ bsOp' = [bsOp EXCEPT !.pc = "refused"]
    BY <1>2, <1>7, BsMoves, Zenon DEF BsGo
  <2>2. /\ bsOp'.pc = "refused" /\ bsOp'.mixed = bsOp.mixed /\ bsOp'.again = bsOp.again
        /\ bsOp'.repair = bsOp.repair /\ bsOp'.root = bsOp.root
    BY <1>2, <2>1 DEF BsCommands
  <2>3. bsOp.again => ~(bsRots < 2)
    <3> SUFFICES ASSUME bsOp.again, bsRots < 2 PROVE FALSE
      BY Zenon
    <3>1. bsGen[bsOp.id] = BsTree(bsOp.id)
      BY <1>3, <1>5, BsFiledWhole, Zenon DEF BsInv
    <3>2. BsReadTree[n] = BsTree(bsOp.id)[n]
      BY <3>1, Zenon DEF BsReadTree
    <3> QED  BY <1>3, <1>7, <3>2, BsShapes, Zenon
  <2>4. BsKnows(bsOp')
    BY <1>3, <2>2, <2>3 DEF BsKnows
  <2> QED  BY <1>1, <1>2, <1>7, <2>1, <2>4, BsQuiet, Zenon DEF bsStore
<1>8. ASSUME bsCache' = [bsCache EXCEPT ![BsKey(bsOp)] = IF bsOp.mixed THEN BsJunk ELSE BsPack("packed", bsOp.id)],
             bsOp' = [bsOp EXCEPT !.pc = IF bsOp.repair THEN "record" ELSE "copy", !.made = TRUE]
      PROVE  BsInv'
  <2>1. PICK key, pack : key = BsKey(bsOp) /\ pack = BsPack("packed", key[2])
    BY Zenon
  <2>2. bsCache' = [bsCache EXCEPT ![key] = pack]
    BY <1>3, <1>4, <1>8, <2>1, Zenon
  <2>3. /\ bsOp' \in BsCommands /\ bsOp'.id = bsOp.id /\ bsOp'.mixed = bsOp.mixed /\ bsOp'.again = bsOp.again
        /\ bsOp'.repair = bsOp.repair /\ bsOp'.root = bsOp.root
        /\ bsOp.repair => bsOp'.pc = "record"
        /\ ~bsOp.repair => bsOp'.pc = "copy"
    BY <1>2, <1>8 DEF BsCommands
  <2>4. BsKey(bsOp)' = key /\ key[1] = "identity"
    BY <1>3, <2>1, <2>3 DEF BsKey
  <2>5. key \in BsKeys /\ bsCache'[key] = pack /\ (\A k \in BsKeys : k # key => bsCache'[k] = bsCache[k])
    BY <1>4, <2>1, <2>2, Zenon DEF BsInv, BsTypeOK
  <2>6. BsCacheOpens(key)'
    <3>1. key[2] \in Releases
      BY <1>3, <1>4, <2>1, Zenon
    <3>2. pack # BsNoPack /\ pack # BsJunk
      BY <2>1, <3>1, BsPackShapes
    <3> QED  BY <2>5, <3>2, Zenon DEF BsCacheOpens
  <2>7. bsRec # BsNoRecord /\ bsRec.key = key => BsSpare(bsRec.id, key)
    BY <1>3, <2>1, <2>5, BsCommitted, BsRelies, Zenon DEF BsCacheOpens
  <2>8. BsOnlyJunk(key) => BsOnlyJunk(key)'
    BY <2>5, Zenon DEF BsOnlyJunk
  <2>9. bsRec' # BsNoRecord /\ bsRec'.key = key => BsSpare(bsRec.id, key)'
    BY <1>1, <2>7, <2>8, Zenon DEF BsSpare
  <2>10. BsKnows(bsOp)'
    <3>1. CASE ~bsOp.repair
      <4>1. ~bsOp'.repair /\ ~bsOp'.again /\ ~bsOp'.mixed /\ bsOp'.pc = "copy" /\ bsOp'.root
        BY <1>3, <2>3, <3>1
      <4>2. BsHas(bsOp)' /\ BsKept(BsKey(bsOp))'
        BY <1>3, <2>3, <2>4, <2>6, <4>1 DEF BsHas, BsKept
      <4>3. BsFiling(bsOp)'
        BY <2>4, <2>9, <4>1, <4>2, Zenon DEF BsFiling
      <4> QED  BY <4>1, <4>3 DEF BsKnows
    <3>2. CASE bsOp.repair
      <4>1. BsSafe(bsOp.id, BsKey(bsOp))'
        BY <1>1, <1>5, <2>4, <2>6, <3>2, Zenon DEF BsSafe
      <4> QED  BY <1>1, <1>3, <2>3, <3>2, <4>1 DEF BsKnows
    <3> QED  BY <3>1, <3>2, Zenon
  <2> QED  BY <1>1, <2>1, <2>2, <2>3, <2>4, <2>5, <2>10, BsCaching, Zenon
<1>9. \/ \E n \in bsOp.todo :
           IF BsReadTree[n] = bsOp.id
           THEN bsOp' = [bsOp EXCEPT !.todo = @ \ {n}, !.mixed = @ \/ BsReadTree[n] # bsOp.id] /\ bsCache' = bsCache
           ELSE BsGo("refused") /\ bsCache' = bsCache
      \/ /\ bsCache' = [bsCache EXCEPT ![BsKey(bsOp)] = IF bsOp.mixed THEN BsJunk ELSE BsPack("packed", bsOp.id)]
         /\ bsOp' = [bsOp EXCEPT !.pc = IF bsOp.repair THEN "record" ELSE "copy", !.made = TRUE]
  BY Zenon DEF BsPackFile, BsUnchangedSince
<1> QED  BY <1>6, <1>7, <1>8, <1>9, Zenon

\* A step that only changes what the command holds.
LEMMA BsHolding ==
    ASSUME BsInv, UNCHANGED <<bsOutside, bsGen, bsRec, bsCache>>, bsOp' \in BsCommands, BsKnows(bsOp')
    PROVE  BsInv'
BY BsQuiet, Zenon DEF bsOutside, bsStore, BsInv, BsTypeOK

\* What a command at copy or stage knows.
LEMMA BsFilingNow ==
    ASSUME BsInv, bsOp # BsIdle, bsOp.pc \in {"copy", "stage"}
    PROVE  /\ BsFiling(bsOp) /\ BsHas(bsOp) /\ bsOp.id \in Releases /\ ~bsOp.again /\ ~bsOp.mixed
           /\ bsOp.repair => bsRec # BsNoRecord /\ BsRepairs(bsOp) /\ BsLooked(bsOp) /\ bsGen[bsOp.id] = BsNoTree
           /\ ~bsOp.repair => BsKept(BsKey(bsOp))
           /\ (bsOp.made /\ ~bsOp.repair /\ bsRec # BsNoRecord /\ bsRec.key = BsKey(bsOp)) => BsSpare(bsRec.id, bsRec.key)
           /\ BsKey(bsOp) \in BsKeys /\ BsKey(bsOp)[2] = bsOp.id /\ bsOp \in BsCommands /\ BsKnows(bsOp) /\ bsRots \in Nat
<1>1. bsOp \in BsCommands /\ BsKnows(bsOp) /\ bsRots \in Nat
  BY BsAtWork, Zenon DEF BsInv, BsTypeOK
<1>2. BsFiling(bsOp) /\ ~bsOp.mixed /\ (bsOp.repair => bsRec # BsNoRecord)
  BY <1>1, Zenon DEF BsKnows
<1>3. bsOp.id \in Releases
  BY <1>2, Zenon DEF BsFiling, BsHas
<1>4. BsKey(bsOp) \in BsKeys /\ BsKey(bsOp)[2] = bsOp.id
  BY <1>3, BsAtWork, Zenon
<1> QED  BY <1>1, <1>2, <1>3, <1>4, Zenon DEF BsFiling

\* A generation that is already there is used; otherwise the copy begins.
LEMMA BsCopying ==
    ASSUME BsInv, BsCopy
    PROVE  BsInv'
<1>1. bsOp # BsIdle /\ bsOp.pc = "copy" /\ UNCHANGED <<bsOutside, bsGen, bsRec>>
  BY BsIdleIsNone, Zenon DEF BsCopy, BsAt
<1>2. /\ BsFiling(bsOp) /\ bsOp.id \in Releases /\ ~bsOp.again /\ ~bsOp.mixed /\ bsRots \in Nat
      /\ (bsOp.repair => bsGen[bsOp.id] = BsNoTree /\ bsRec # BsNoRecord) /\ (~bsOp.repair => BsKept(BsKey(bsOp)))
      /\ bsOp \in BsCommands
  BY <1>1, BsFilingNow, Zenon
<1>3. CASE bsGen[bsOp.id] # BsNoTree /\ BsValid(bsGen[bsOp.id]) /\ BsGo("record") /\ bsCache' = bsCache
  <2>1. /\ bsOp' \in BsCommands /\ bsOp'.pc = "record" /\ bsOp'.repair = bsOp.repair /\ bsOp'.id = bsOp.id
        /\ bsOp'.root = bsOp.root /\ bsOp'.again = bsOp.again /\ bsOp'.mixed = bsOp.mixed
    BY <1>2, <1>3 DEF BsCommands, BsGo
  <2>2. BsKey(bsOp') = BsKey(bsOp)
    BY <2>1 DEF BsKey
  <2>3. ~bsOp.repair /\ BsSafe(bsOp'.id, BsKey(bsOp'))
    BY <1>2, <1>3, <2>1, <2>2, Zenon DEF BsSafe, BsKept
  <2>4. BsKnows(bsOp')
    BY <1>2, <2>1, <2>3 DEF BsKnows
  <2> QED  BY <1>1, <1>3, <2>1, <2>4, BsHolding, Zenon
<1>4. CASE bsGen[bsOp.id] # BsNoTree /\ ~BsValid(bsGen[bsOp.id]) /\ BsRefused
  <2>1. bsGen[bsOp.id] # BsTree(bsOp.id) /\ ~bsOp.repair
    BY <1>2, <1>4, BsShapes
  <2>2. bsRots # 0
    BY <1>2, <1>4, <2>1, Zenon DEF BsInv, BsFiled, BsVisibleIntact
  <2>3. ~(bsRots < (IF bsOp.repair THEN 2 ELSE 1))
    BY <1>2, <2>1, <2>2
  <2> QED  BY <1>1, <1>2, <1>4, <2>3, BsFilingNow, BsRefusing, Zenon
<1>5. CASE /\ bsOp' = [bsOp EXCEPT !.pc = "stage", !.todo = BsFiles \cup {"manifest"}, !.stage = BsNoTree]
           /\ bsCache' = bsCache
  <2>1. /\ bsOp' \in BsCommands /\ bsOp'.pc = "stage" /\ bsOp'.repair = bsOp.repair /\ bsOp'.id = bsOp.id
        /\ bsOp'.root = bsOp.root /\ bsOp'.again = bsOp.again /\ bsOp'.mixed = bsOp.mixed /\ bsOp'.bundle = bsOp.bundle
        /\ bsOp'.made = bsOp.made /\ bsOp'.cached = bsOp.cached /\ bsOp'.todo = BsFiles \cup {"manifest"}
        /\ bsOp'.stage = BsNoTree
    BY <1>2, <1>5, BsShapes DEF BsCommands
  <2>2. BsKey(bsOp') = BsKey(bsOp)
    BY <2>1 DEF BsKey
  <2>3. BsFiling(bsOp')
    BY <1>2, <2>1, <2>2 DEF BsFiling, BsHas, BsRepairs, BsLooked
  <2>4. bsOp'.stage["extra"] = "none" /\ (BsFiles \cup {"manifest"}) \ bsOp'.todo = {}
    BY <2>1, BsShapes
  <2>5. BsKnows(bsOp')
    BY <1>2, <2>1, <2>3, <2>4 DEF BsKnows
  <2> QED  BY <1>1, <1>5, <2>1, <2>5, BsHolding, Zenon
<1> QED  BY <1>3, <1>4, <1>5, Zenon DEF BsCopy

\* A file is copied into the stage.
LEMMA BsStaging ==
    ASSUME BsInv, BsStageFile
    PROVE  BsInv'
<1>1. bsOp # BsIdle /\ bsOp.pc = "stage" /\ UNCHANGED <<bsOutside, bsGen, bsRec>>
  BY BsIdleIsNone, Zenon DEF BsStageFile, BsAt
<1>2. /\ BsFiling(bsOp) /\ BsHas(bsOp) /\ bsOp.id \in Releases /\ ~bsOp.again /\ ~bsOp.mixed
      /\ (bsOp.repair => bsRec # BsNoRecord) /\ bsOp \in BsCommands /\ BsKnows(bsOp)
  BY <1>1, BsFilingNow, Zenon
<1>3. /\ bsOp.todo \subseteq BsFiles \cup {"manifest"} /\ bsOp.stage["extra"] = "none"
      /\ ~bsOp.root => \A n \in (BsFiles \cup {"manifest"}) \ bsOp.todo : bsOp.stage[n] = bsOp.id
  BY <1>1, <1>2, Zenon DEF BsKnows
<1> DEFINE source(n) == (IF bsOp.root THEN bsRoot ELSE bsOp.bundle)[n]
<1>t. PICK n \in bsOp.todo :
        IF source(n) = "none" THEN BsRefused
        ELSE /\ bsOp' = [bsOp EXCEPT !.todo = @ \ {n}, !.stage = [@ EXCEPT ![n] = source(n)]]
             /\ bsCache' = bsCache
  BY Zenon DEF BsStageFile
<1>f. PICK found : found = source(n)
  BY Zenon
<1>4. /\ n \in bsOp.todo /\ found = (IF bsOp.root THEN bsRoot ELSE bsOp.bundle)[n]
      /\ IF found = "none" THEN BsRefused
         ELSE /\ bsOp' = [bsOp EXCEPT !.todo = @ \ {n}, !.stage = [@ EXCEPT ![n] = found]]
              /\ bsCache' = bsCache
  BY <1>t, <1>f, Zenon
<1> HIDE DEF source
<1>5. ~bsOp.root => found = bsOp.id
  BY <1>2, <1>3, <1>4, BsShapes, Zenon DEF BsHas
<1>6. CASE found = "none"
  <2>1. bsOp.root
    BY <1>2, <1>5, <1>6, BsShapes, Zenon
  <2> QED  BY <1>1, <1>2, <1>4, <1>6, <2>1, BsFilingNow, BsRefusing, Zenon
<1>7. CASE found # "none"
  <2>1. bsOp.stage \in BsTrees /\ bsRoot \in BsTrees /\ bsOp.bundle \in BsTrees /\ n \in BsNames /\ n # "extra"
    BY <1>1, <1>3, <1>4, BsAtWork, BsShapes DEF BsInv, BsTypeOK, BsFiles
  <2>2. found \in Releases \cup {"none", "junk"}
    BY <1>4, <2>1 DEF BsTrees
  <2>3. PICK stage : stage = [bsOp.stage EXCEPT ![n] = found]
    BY Zenon
  <2>4. /\ stage \in BsTrees /\ stage[n] = found /\ stage["extra"] = bsOp.stage["extra"]
        /\ \A m \in BsNames : m # n => stage[m] = bsOp.stage[m]
    BY <2>1, <2>2, <2>3, BsShapes DEF BsTrees
  <2>5. bsOp' = [bsOp EXCEPT !.todo = bsOp.todo \ {n}, !.stage = stage] /\ bsCache' = bsCache
    BY <1>2, <1>4, <1>7, <2>3 DEF BsCommands
  <2>6. /\ bsOp' \in BsCommands /\ bsOp'.pc = "stage" /\ bsOp'.repair = bsOp.repair /\ bsOp'.id = bsOp.id
        /\ bsOp'.root = bsOp.root /\ bsOp'.again = bsOp.again /\ bsOp'.mixed = bsOp.mixed /\ bsOp'.bundle = bsOp.bundle
        /\ bsOp'.made = bsOp.made /\ bsOp'.cached = bsOp.cached /\ bsOp'.todo = bsOp.todo \ {n} /\ bsOp'.stage = stage
    BY <1>1, <1>2, <2>4, <2>5 DEF BsCommands
  <2>7. BsKey(bsOp') = BsKey(bsOp)
    BY <2>6 DEF BsKey
  <2>8. BsFiling(bsOp')
    BY <1>2, <2>6, <2>7 DEF BsFiling, BsHas, BsRepairs, BsLooked
  <2>9. ~bsOp.root => \A m \in (BsFiles \cup {"manifest"}) \ (bsOp.todo \ {n}) : stage[m] = bsOp.id
    BY <1>3, <1>5, <2>4, BsShapes
  <2>10. BsKnows(bsOp')
    BY <1>2, <1>3, <2>4, <2>6, <2>8, <2>9 DEF BsKnows
  <2> QED  BY <1>1, <2>5, <2>6, <2>10, BsHolding, Zenon
<1> QED  BY <1>6, <1>7, Zenon

\* A generation is replaced: by the whole release, or, damaged, by nothing.
LEMMA BsReplacing ==
    ASSUME BsInv, NEW v \in Releases, NEW tree \in {BsTree(v), BsNoTree},
           tree = BsNoTree => ~BsValid(bsGen[v]),
           bsGen' = [bsGen EXCEPT ![v] = tree], UNCHANGED <<bsCache, bsRec, bsRots>>,
           bsRoot' = bsRoot, bsArchive' = bsArchive, bsOp' \in BsCommands, BsKnows(bsOp)'
    PROVE  BsInv'
<1>1. bsGen \in [Releases -> BsTrees] /\ tree \in BsTrees
  BY BsShapes, Zenon DEF BsInv, BsTypeOK
<1>2. bsGen' \in [Releases -> BsTrees] /\ bsGen'[v] = tree /\ \A w \in Releases : w # v => bsGen'[w] = bsGen[w]
  BY <1>1, Zenon
<1>3. BsTypeOK'
  BY <1>2, Zenon DEF BsInv, BsTypeOK
<1>4. BsFiled'
  <2>1. \/ bsGen'[v] = BsNoTree
        \/ /\ bsGen'[v]["manifest"] = v /\ bsGen'[v]["extra"] = "none"
           /\ \A f \in BsFiles : bsGen'[v][f] \in {v, "junk"}
    BY <1>2, BsShapes DEF BsValid
  <2>2. \A w \in Releases : bsRots = 0 => bsGen'[w] \in {BsNoTree, BsTree(w)}
    BY <1>2, Zenon DEF BsInv, BsFiled, BsVisibleIntact
  <2> QED  BY <1>2, <2>1, <2>2, Zenon DEF BsInv, BsFiled, BsVisibleIntact, BsCacheIntact
<1>5. \A w \in Releases : BsValid(bsGen[w]) => BsValid(bsGen'[w])
  BY <1>2, BsShapes, Zenon
<1>6. \A k : (BsCacheOpens(k)' <=> BsCacheOpens(k)) /\ (BsOnlyJunk(k)' <=> BsOnlyJunk(k))
  BY Zenon DEF BsCacheOpens, BsOnlyJunk
<1>7. \A w \in Releases, k \in BsKeys : BsSafe(w, k) => BsSafe(w, k)'
  BY <1>5, <1>6, Zenon DEF BsSafe, BsValid
<1>8. BsRecordSafe'
  <2> SUFFICES ASSUME bsRec' # BsNoRecord PROVE bsRec'.key[2] = bsRec'.id /\ BsSafe(bsRec.id, bsRec.key)'
    BY Zenon DEF BsRecordSafe
  <2>1. PICK id, k : id = bsRec.id /\ k = bsRec.key
    BY Zenon
  <2>2. id \in Releases /\ k \in BsKeys /\ bsRec.key[2] = bsRec.id /\ BsSafe(id, k)
    BY <2>1, BsCommitted, Zenon
  <2>3. BsSafe(id, k)'
    BY <1>7, <2>2, Zenon
  <2> QED  BY <2>1, <2>2, <2>3, Zenon
<1> QED  BY <1>3, <1>4, <1>8, BsIdleIsNone, Zenon DEF BsInv

\* The stage is published when it is the whole release.
LEMMA BsPublishing ==
    ASSUME BsInv, BsPublish
    PROVE  BsInv'
<1>1. /\ bsOp # BsIdle /\ bsOp.pc = "stage" /\ bsOp.todo = {} /\ bsRec' = bsRec /\ bsRots' = bsRots
      /\ bsRoot' = bsRoot /\ bsArchive' = bsArchive /\ UNCHANGED bsOutside
  BY BsIdleIsNone, Zenon DEF BsPublish, BsAt, bsOutside
<1>2. /\ BsFiling(bsOp) /\ BsHas(bsOp) /\ bsOp.id \in Releases /\ ~bsOp.again /\ ~bsOp.mixed
      /\ (bsOp.repair => bsRec # BsNoRecord /\ BsRepairs(bsOp) /\ BsLooked(bsOp)) /\ (~bsOp.repair => BsKept(BsKey(bsOp)))
      /\ bsOp \in BsCommands /\ BsKnows(bsOp) /\ BsKey(bsOp) \in BsKeys
  BY <1>1, BsFilingNow, Zenon
<1>3. /\ bsOp.stage["extra"] = "none" /\ bsOp.stage \in BsTrees
      /\ ~bsOp.root => \A n \in BsFiles \cup {"manifest"} : bsOp.stage[n] = bsOp.id
  BY <1>1, <1>2, BsAtWork DEF BsKnows
<1>4. CASE ~BsRevalidated(bsOp.stage, bsOp.id)
  <2>1. bsOp.root
    BY <1>2, <1>3, <1>4, Zenon DEF BsRevalidated, BsValid
  <2>2. BsRefused /\ bsGen' = bsGen
    BY <1>4, Zenon DEF BsPublish
  <2> QED  BY <1>1, <1>2, <2>1, <2>2, BsFilingNow, BsRefusing, Zenon
<1>5. CASE BsRevalidated(bsOp.stage, bsOp.id)
  <2>1. /\ bsGen' = [bsGen EXCEPT ![bsOp.id] = bsOp.stage] /\ bsCache' = bsCache
        /\ bsOp' = [bsOp EXCEPT !.pc = IF bsOp.repair THEN "recache" ELSE "record"]
    BY <1>5, Zenon DEF BsPublish
  <2>2. PICK v, key : v = bsOp.id /\ key = BsKey(bsOp)
    BY Zenon
  <2>3. bsGen' = [bsGen EXCEPT ![v] = BsTree(v)] /\ v \in Releases /\ key \in BsKeys
    BY <1>2, <1>3, <1>5, <2>1, <2>2, BsWhole, Zenon DEF BsRevalidated
  <2>4. /\ bsOp' \in BsCommands /\ bsOp'.id = bsOp.id /\ bsOp'.mixed = bsOp.mixed /\ bsOp'.again = bsOp.again
        /\ bsOp'.repair = bsOp.repair /\ bsOp'.root = bsOp.root /\ bsOp'.cached = bsOp.cached
        /\ bsOp.repair => bsOp'.pc = "recache"
        /\ ~bsOp.repair => bsOp'.pc = "record"
    BY <1>2, <2>1 DEF BsCommands
  <2>5. BsKey(bsOp)' = key
    BY <2>2, <2>4 DEF BsKey
  <2>6. BsValid(bsGen[v])'
    <3>1. bsGen'[v] = BsTree(v)
      BY <2>3, Zenon DEF BsInv, BsTypeOK
    <3>2. BsValid(BsTree(v))
      BY <2>3, BsShapes, Zenon
    <3> QED  BY <3>1, <3>2, Zenon DEF BsValid
  <2>7. BsKnows(bsOp)'
    <3>1. CASE bsOp.repair
      <4>1. BsRepairs(bsOp)' /\ BsLooked(bsOp)'
        BY <1>1, <1>2, <2>1, <2>4, <3>1 DEF BsRepairs, BsLooked, BsCacheOpens
      <4> QED  BY <1>1, <1>2, <2>4, <3>1, <4>1 DEF BsKnows
    <3>2. CASE ~bsOp.repair
      <4>1. BsKept(key)'
        BY <1>1, <1>2, <2>1, <2>2, <3>2, Zenon DEF BsKept, BsCacheOpens, BsOnlyJunk
      <4>2. BsSafe(v, key)'
        BY <2>6, <4>1, Zenon DEF BsSafe, BsKept
      <4>3. BsSafe(bsOp.id, BsKey(bsOp))'
        BY <2>2, <2>4, <2>5, <4>2, Zenon
      <4> QED  BY <1>1, <1>2, <2>4, <3>2, <4>3 DEF BsKnows
    <3> QED  BY <3>1, <3>2, Zenon
  <2>8. BsTree(v) # BsNoTree
    BY <2>3, BsShapes, Zenon
  <2>9. PICK tree : tree = BsTree(v)
    BY Zenon
  <2> QED  BY <1>1, <2>1, <2>3, <2>4, <2>7, <2>8, <2>9, BsReplacing, Zenon
<1> QED  BY <1>4, <1>5, Zenon

\* The record names what was filed.
LEMMA BsRecording ==
    ASSUME BsInv, BsRecord
    PROVE  BsInv'
<1>1. /\ bsOp # BsIdle /\ bsOp.pc = "record" /\ bsGen' = bsGen /\ bsCache' = bsCache /\ bsRots' = bsRots
      /\ bsRoot' = bsRoot /\ bsArchive' = bsArchive /\ bsOp' = BsIdle /\ bsRec' = [id |-> bsOp.id, key |-> BsKey(bsOp)]
  BY BsIdleIsNone, Zenon DEF BsRecord, BsAt, BsEnd, bsOutside
<1>2. bsOp.id \in Releases /\ BsSafe(bsOp.id, BsKey(bsOp)) /\ BsKey(bsOp) \in BsKeys /\ BsKey(bsOp)[2] = bsOp.id
  BY <1>1, BsAtWork, Zenon DEF BsKnows
<1>3. bsRec' \in BsRecords /\ bsRec'.id = bsOp.id /\ bsRec'.key = BsKey(bsOp)
  BY <1>1, <1>2 DEF BsRecords
<1>4. BsTypeOK'
  BY <1>1, <1>3, Zenon DEF BsInv, BsTypeOK
<1>5. BsFiled'
  BY <1>1, Zenon DEF BsInv, BsFiled, BsVisibleIntact, BsCacheIntact
<1>6. BsSafe(bsRec.id, bsRec.key)'
  BY <1>1, <1>2, <1>3, Zenon DEF BsSafe, BsCacheOpens, BsOnlyJunk
<1>7. BsRecordSafe'
  BY <1>2, <1>3, <1>6, Zenon DEF BsRecordSafe
<1> QED  BY <1>1, <1>4, <1>5, <1>7, Zenon DEF BsInv

\* Repair looks at what it has: one of generation, cache and supplied bundle is
\* good as long as at most one file was damaged.
LEMMA BsInspecting ==
    ASSUME BsInv, BsInspect
    PROVE  BsInv'
<1>1. bsOp # BsIdle /\ bsOp.pc = "inspect" /\ UNCHANGED <<bsOutside, bsGen, bsRec, bsCache>>
  BY BsIdleIsNone, Zenon DEF BsInspect, BsAt, BsStays, bsStore
<1>2. bsOp \in BsCommands /\ BsKnows(bsOp)
  BY <1>1, BsAtWork, Zenon
<1>3. /\ bsOp.repair /\ (bsOp.id = "none" \/ BsHas(bsOp)) /\ bsRec # BsNoRecord /\ ~bsOp.again /\ ~bsOp.mixed
  BY <1>1, <1>2, Zenon DEF BsKnows
<1>4. /\ bsRec.id \in Releases /\ bsRec.id # "none" /\ bsRec.key \in BsKeys /\ bsRec.key[2] = bsRec.id
      /\ BsSafe(bsRec.id, bsRec.key)
  BY <1>3, BsCommitted, BsShapes
<1>5. PICK cached \in BOOLEAN : cached <=> BsCacheOpens(bsRec.key)
  BY DEF BsCacheOpens
<1>6. PICK supplied \in BOOLEAN : supplied <=> bsOp.id = bsRec.id
  BY Zenon
<1>7. PICK bundle : bundle = IF cached THEN BsTree(bsCache[bsRec.key].release) ELSE BsNoTree
  BY Zenon
<1>8. bundle \in BsTrees /\ (cached => bundle = BsTree(bsRec.id))
  BY <1>4, <1>5, <1>7, BsOpens, BsShapes
<1>9. PICK op : op = IF supplied THEN [bsOp EXCEPT !.cached = cached]
                     ELSE [bsOp EXCEPT !.cached = cached, !.id = bsRec.id, !.root = FALSE, !.bundle = bundle]
  BY Zenon
<1>10. /\ op \in BsCommands /\ op.repair = bsOp.repair /\ op.again = bsOp.again /\ op.mixed = bsOp.mixed
       /\ op.cached = cached /\ op.id = bsRec.id
       /\ supplied => op.root = bsOp.root /\ op.bundle = bsOp.bundle
       /\ ~supplied => ~op.root /\ op.bundle = bundle
  BY <1>2, <1>4, <1>6, <1>8, <1>9 DEF BsCommands
<1>11. CASE BsValid(bsGen[bsRec.id]) /\ bsOp' = [op EXCEPT !.pc = "recache", !.again = ~supplied, !.root = @ \/ ~supplied]
  <2>1. /\ bsOp' \in BsCommands /\ bsOp'.pc = "recache" /\ bsOp'.repair = op.repair /\ bsOp'.id = op.id
        /\ bsOp'.mixed = op.mixed /\ bsOp'.cached = op.cached /\ (bsOp'.again => bsOp'.root)
    BY <1>10, <1>11 DEF BsCommands
  <2>2. BsRepairs(bsOp') /\ BsLooked(bsOp')
    BY <1>3, <1>4, <1>5, <1>10, <2>1 DEF BsRepairs, BsLooked
  <2>3. BsKnows(bsOp')
    BY <1>3, <1>10, <2>1, <2>2 DEF BsKnows
  <2> QED  BY <1>1, <2>1, <2>3, BsHolding, Zenon
<1>12. CASE ~BsValid(bsGen[bsRec.id]) /\ (supplied \/ cached) /\ bsOp' = [op EXCEPT !.pc = "remove"]
  <2>1. /\ bsOp' \in BsCommands /\ bsOp'.pc = "remove" /\ bsOp'.repair = op.repair /\ bsOp'.id = op.id
        /\ bsOp'.mixed = op.mixed /\ bsOp'.cached = op.cached /\ bsOp'.again = op.again /\ bsOp'.root = op.root
        /\ bsOp'.bundle = op.bundle
    BY <1>10, <1>12 DEF BsCommands
  <2>2. BsRepairs(bsOp') /\ BsLooked(bsOp')
    BY <1>3, <1>4, <1>5, <1>10, <2>1 DEF BsRepairs, BsLooked
  <2>3. BsHas(bsOp')
    BY <1>3, <1>4, <1>6, <1>8, <1>10, <1>12, <2>1 DEF BsHas
  <2>4. ~BsValid(bsGen[bsOp'.id])
    BY <1>10, <1>12, <2>1, Zenon
  <2>5. BsKnows(bsOp')
    BY <1>3, <1>10, <2>1, <2>2, <2>3, <2>4 DEF BsKnows
  <2> QED  BY <1>1, <2>1, <2>5, BsHolding, Zenon
<1>13. CASE ~BsValid(bsGen[bsRec.id]) /\ ~cached /\ BsGo("refused")
  <2>1. /\ bsOp' \in BsCommands /\ bsOp'.pc = "refused" /\ bsOp'.repair = bsOp.repair /\ bsOp'.mixed = bsOp.mixed
        /\ bsOp'.again = bsOp.again /\ bsOp'.root = bsOp.root
    BY <1>2, <1>13 DEF BsCommands, BsGo
  <2>2. ~(bsRots < 2)
    BY <1>4, <1>5, <1>13, Zenon DEF BsSafe
  <2>3. BsKnows(bsOp')
    BY <1>3, <2>1, <2>2 DEF BsKnows
  <2> QED  BY <1>1, <2>1, <2>3, BsHolding, Zenon
<1>14. \/ BsValid(bsGen[bsRec.id]) /\ bsOp' = [op EXCEPT !.pc = "recache", !.again = ~supplied, !.root = @ \/ ~supplied]
       \/ ~BsValid(bsGen[bsRec.id]) /\ (supplied \/ cached) /\ bsOp' = [op EXCEPT !.pc = "remove"]
       \/ ~BsValid(bsGen[bsRec.id]) /\ ~cached /\ BsGo("refused")
  <2>1. (bsOp.id = bsRec.id) = supplied /\ BsCacheOpens(bsRec.key) = cached
    BY <1>5, <1>6 DEF BsCacheOpens
  <2> QED  BY <1>7, <1>9, <2>1 DEF BsInspect
<1> QED  BY <1>11, <1>12, <1>13, <1>14, Zenon

\* The damaged generation is removed.
LEMMA BsRemoving ==
    ASSUME BsInv, BsRemoveGeneration
    PROVE  BsInv'
<1>1. /\ bsOp # BsIdle /\ bsOp.pc = "remove" /\ bsCache' = bsCache /\ bsRec' = bsRec /\ bsRots' = bsRots
      /\ bsRoot' = bsRoot /\ bsArchive' = bsArchive /\ bsGen' = [bsGen EXCEPT ![bsOp.id] = BsNoTree] /\ BsGo("copy")
  BY BsIdleIsNone, Zenon DEF BsRemoveGeneration, BsRemoveKeeps, BsAt, bsOutside
<1>2. bsOp \in BsCommands /\ BsKnows(bsOp)
  BY <1>1, BsAtWork, Zenon
<1>3. /\ BsRepairs(bsOp) /\ BsHas(bsOp) /\ ~bsOp.again /\ ~bsOp.mixed /\ BsLooked(bsOp) /\ ~BsValid(bsGen[bsOp.id])
      /\ bsOp.repair /\ bsRec # BsNoRecord /\ bsOp.id \in Releases
  BY <1>1, <1>2, Zenon DEF BsKnows, BsRepairs
<1>4. /\ bsOp' \in BsCommands /\ bsOp'.pc = "copy" /\ bsOp'.repair = bsOp.repair /\ bsOp'.id = bsOp.id
      /\ bsOp'.root = bsOp.root /\ bsOp'.again = bsOp.again /\ bsOp'.mixed = bsOp.mixed /\ bsOp'.bundle = bsOp.bundle
      /\ bsOp'.cached = bsOp.cached
  BY <1>1, <1>2 DEF BsCommands, BsGo
<1>5. PICK v : v = bsOp.id
  BY Zenon
<1>6. bsGen' = [bsGen EXCEPT ![v] = BsNoTree] /\ v \in Releases /\ bsGen'[v] = BsNoTree
  BY <1>1, <1>3, <1>5, Zenon DEF BsInv, BsTypeOK
<1>7. BsHas(bsOp)' /\ BsRepairs(bsOp)' /\ BsLooked(bsOp)' /\ bsGen'[bsOp'.id] = BsNoTree
  BY <1>1, <1>3, <1>4, <1>5, <1>6 DEF BsHas, BsRepairs, BsLooked, BsCacheOpens
<1>8. BsFiling(bsOp)'
  BY <1>3, <1>4, <1>7 DEF BsFiling
<1>9. BsKnows(bsOp)'
  BY <1>1, <1>3, <1>4, <1>8 DEF BsKnows
<1>10. PICK tree : tree = BsNoTree
  BY Zenon
<1> QED  BY <1>1, <1>3, <1>4, <1>5, <1>6, <1>9, <1>10, BsReplacing, Zenon

\* The cache file that does not open is removed.
LEMMA BsRecaching ==
    ASSUME BsInv, BsRecache
    PROVE  BsInv'
<1>1. /\ bsOp # BsIdle /\ bsOp.pc = "recache" /\ bsGen' = bsGen /\ bsRec' = bsRec /\ bsRots' = bsRots
      /\ bsRoot' = bsRoot /\ bsArchive' = bsArchive
  BY BsIdleIsNone, Zenon DEF BsRecache, BsAt, bsOutside
<1>2. bsOp \in BsCommands /\ BsKnows(bsOp)
  BY <1>1, BsAtWork, Zenon
<1>3. /\ BsRepairs(bsOp) /\ BsLooked(bsOp) /\ bsRec # BsNoRecord /\ ~bsOp.mixed /\ (bsOp.again => bsOp.root)
      /\ bsOp.repair
  BY <1>1, <1>2, Zenon DEF BsKnows, BsRepairs
<1>4. CASE bsOp.cached
  BY <1>1, <1>4, BsEnds, Zenon DEF BsRecache, bsStore
<1>5. CASE ~bsOp.cached
  <2>1. PICK key : key = bsRec.key
    BY Zenon
  <2>2. BsGo("rebuild") /\ bsCache' = [bsCache EXCEPT ![key] = BsNoPack]
    BY <1>5, <2>1, Zenon DEF BsRecache
  <2>3. key \in BsKeys /\ BsSpare(bsRec.id, key)
    BY <1>3, <1>5, <2>1, BsCommitted, BsRelies, Zenon DEF BsLooked
  <2>4. bsCache'[bsRec'.key] = BsNoPack
    BY <1>1, <2>1, <2>2, <2>3, Zenon DEF BsInv, BsTypeOK
  <2>5. /\ bsOp' \in BsCommands /\ bsOp'.pc = "rebuild" /\ bsOp'.repair = bsOp.repair /\ bsOp'.id = bsOp.id
        /\ bsOp'.root = bsOp.root /\ bsOp'.again = bsOp.again /\ bsOp'.mixed = bsOp.mixed
    BY <1>2, <2>2 DEF BsCommands, BsGo
  <2>6. BsRepairs(bsOp)'
    BY <1>1, <1>3, <2>5 DEF BsRepairs
  <2>7. BsKnows(bsOp)'
    BY <1>1, <1>3, <2>4, <2>5, <2>6 DEF BsKnows
  <2> QED  BY <1>1, <2>2, <2>3, <2>5, <2>7, BsUncaching, Zenon
<1> QED  BY <1>4, <1>5, Zenon

\* A stored file is damaged.  Before the first damage everything was whole, so
\* what was relied on is whole or the one thing damaged; nothing is promised any
\* more after the second.
LEMMA BsRotting ==
    ASSUME BsInv, BsRot
    PROVE  BsInv'
<1>1. /\ bsRots' = bsRots + 1 /\ bsRots \in Nat /\ bsRoot' = bsRoot /\ bsArchive' = bsArchive /\ bsRec' = bsRec
      /\ bsOp' = bsOp
  BY Zenon DEF BsRot, BsInv, BsTypeOK
<1>2. bsRots' \in Nat /\ bsRots' # 0 /\ (bsRots' < 2 => bsRots = 0) /\ (bsRots' < 1 => FALSE)
  BY <1>1
<1>3. bsGen \in [Releases -> BsTrees] /\ bsCache \in [BsKeys -> BsPacks]
  BY Zenon DEF BsInv, BsTypeOK
<1>4. \/ /\ bsCache' = bsCache
         /\ \E v \in Releases, f \in BsFiles :
              bsGen[v] # BsNoTree /\ bsGen' = [bsGen EXCEPT ![v] = [bsGen[v] EXCEPT ![f] = "junk"]]
      \/ /\ bsGen' = bsGen
         /\ \E k \in BsKeys : BsCacheOpens(k) /\ bsCache' = [bsCache EXCEPT ![k] = BsJunk]
  BY <1>3 DEF BsRot
<1> DEFINE Damage ==
      /\ bsGen' \in [Releases -> BsTrees] /\ bsCache' \in [BsKeys -> BsPacks]
      /\ \A v \in Releases :
          /\ bsGen[v] = BsNoTree => bsGen'[v] = BsNoTree
          /\ ~BsValid(bsGen[v]) => ~BsValid(bsGen'[v])
          /\ \/ bsGen'[v] = BsNoTree
             \/ /\ bsGen'[v]["manifest"] = v /\ bsGen'[v]["extra"] = "none"
                /\ \A f \in BsFiles : bsGen'[v][f] \in {v, "junk"}
      /\ \A k \in BsKeys : bsCache'[k] = bsCache[k] \/ (bsCache'[k] = BsJunk /\ bsCache[k] # BsNoPack)
      /\ bsGen' = bsGen \/ bsCache' = bsCache
      /\ \E k \in BsKeys : \A l \in BsKeys : l # k => bsCache'[l] = bsCache[l]
<1>5. Damage
  <2>1. ASSUME NEW v \in Releases, NEW f \in BsFiles, bsGen[v] # BsNoTree, bsCache' = bsCache,
               bsGen' = [bsGen EXCEPT ![v] = [bsGen[v] EXCEPT ![f] = "junk"]]
        PROVE  Damage
    <3>1. PICK tree : tree = [bsGen[v] EXCEPT ![f] = "junk"]
      BY Zenon
    <3>2. f \in BsNames /\ f # "manifest" /\ f # "extra" /\ bsGen[v] \in BsTrees
      BY <1>3 DEF BsFiles, BsNames
    <3>3. tree \in BsTrees /\ tree[f] = "junk" /\ \A n \in BsNames : n # f => tree[n] = bsGen[v][n]
      BY <3>1, <3>2 DEF BsTrees
    <3>4. bsGen' \in [Releases -> BsTrees] /\ bsGen'[v] = tree /\ \A w \in Releases : w # v => bsGen'[w] = bsGen[w]
      BY <1>3, <2>1, <3>1, <3>3, Zenon
    <3>5. /\ bsGen[v]["manifest"] = v /\ bsGen[v]["extra"] = "none" /\ \A g \in BsFiles : bsGen[v][g] \in {v, "junk"}
      BY <2>1, Zenon DEF BsInv, BsFiled
    <3>6. /\ tree["manifest"] = v /\ tree["extra"] = "none" /\ \A g \in BsFiles : tree[g] \in {v, "junk"}
      BY <3>2, <3>3, <3>5, BsShapes
    <3>7. ~BsValid(tree)
      BY <3>3, <3>6, BsShapes DEF BsValid
    <3>8. \A w \in Releases :
            \/ bsGen'[w] = BsNoTree
            \/ /\ bsGen'[w]["manifest"] = w /\ bsGen'[w]["extra"] = "none"
               /\ \A g \in BsFiles : bsGen'[w][g] \in {w, "junk"}
      <4> SUFFICES ASSUME NEW w \in Releases
                   PROVE  \/ bsGen'[w] = BsNoTree
                          \/ /\ bsGen'[w]["manifest"] = w /\ bsGen'[w]["extra"] = "none"
                             /\ \A g \in BsFiles : bsGen'[w][g] \in {w, "junk"}
        BY Zenon
      <4>1. CASE w = v
        BY <3>4, <3>6, <4>1
      <4>2. CASE w # v
        BY <3>4, <4>2, Zenon DEF BsInv, BsFiled
      <4> QED  BY <4>1, <4>2, Zenon
    <3>9. \A w \in Releases : (bsGen[w] = BsNoTree => bsGen'[w] = BsNoTree) /\ (~BsValid(bsGen[w]) => ~BsValid(bsGen'[w]))
      BY <2>1, <3>4, <3>7, Zenon
    <3>10. <<"digest", v>> \in BsKeys
      BY DEF BsKeys
    <3> QED  BY <1>3, <2>1, <3>4, <3>8, <3>9, <3>10, Zenon
  <2>2. ASSUME NEW k \in BsKeys, BsCacheOpens(k), bsGen' = bsGen, bsCache' = [bsCache EXCEPT ![k] = BsJunk]
        PROVE  Damage
    <3>1. bsCache' \in [BsKeys -> BsPacks] /\ bsCache'[k] = BsJunk /\ \A l \in BsKeys : l # k => bsCache'[l] = bsCache[l]
      BY <1>3, <2>2, BsPackShapes, Zenon
    <3>2. \A l \in BsKeys : bsCache'[l] = bsCache[l] \/ (bsCache'[l] = BsJunk /\ bsCache[l] # BsNoPack)
      BY <2>2, <3>1, Zenon DEF BsCacheOpens
    <3>3. \A w \in Releases :
            \/ bsGen'[w] = BsNoTree
            \/ /\ bsGen'[w]["manifest"] = w /\ bsGen'[w]["extra"] = "none"
               /\ \A g \in BsFiles : bsGen'[w][g] \in {w, "junk"}
      BY <2>2, Zenon DEF BsInv, BsFiled
    <3> QED  BY <1>3, <2>2, <3>1, <3>2, <3>3, Zenon
  <2> QED  BY <1>4, <2>1, <2>2, Zenon
<1>6. BsTypeOK'
  BY <1>1, <1>2, <1>5, Zenon DEF BsInv, BsTypeOK
<1>7. BsFiled'
  <2>1. \A k \in BsKeys : \/ bsCache'[k] \in {BsNoPack, BsJunk, BsPack("released", k[2])}
                          \/ k[1] = "identity" /\ bsCache'[k] = BsPack("packed", k[2])
    BY <1>5, Zenon DEF BsInv, BsFiled
  <2>2. BsVisibleIntact' /\ BsCacheIntact'
    BY <1>2, Zenon DEF BsVisibleIntact, BsCacheIntact
  <2> QED  BY <1>5, <2>1, <2>2, Zenon DEF BsFiled
<1>8. bsRots = 0 => \A k \in BsKeys : bsCache[k] # BsJunk
  <2>1. \A k \in BsKeys : k[2] \in Releases
    BY DEF BsKeys
  <2>2. \A k \in BsKeys : BsPack("packed", k[2]) # BsJunk /\ BsPack("released", k[2]) # BsJunk /\ BsNoPack # BsJunk
    BY <2>1, BsPackShapes
  <2>3. bsRots = 0 =>
          \A k \in BsKeys : bsCache[k] \in {BsNoPack, BsPack("packed", k[2]), BsPack("released", k[2])}
    BY Zenon DEF BsInv, BsFiled, BsCacheIntact
  <2> QED  BY <2>2, <2>3
<1>9. \A k \in BsKeys : (~BsCacheOpens(k) => ~BsCacheOpens(k)') /\ (bsCache[k] = BsNoPack => bsCache'[k] = BsNoPack)
  BY <1>5, Zenon DEF BsCacheOpens
<1>10. \A k \in BsKeys : bsRots = 0 /\ BsCacheOpens(k) => BsCacheOpens(k)' \/ (BsOnlyJunk(k)' /\ bsGen' = bsGen)
  <2> SUFFICES ASSUME NEW k \in BsKeys, bsRots = 0, BsCacheOpens(k), ~BsCacheOpens(k)'
               PROVE  BsOnlyJunk(k)' /\ bsGen' = bsGen
    BY Zenon
  <2>1. bsCache'[k] # bsCache[k]
    BY Zenon DEF BsCacheOpens
  <2>2. \A l \in BsKeys : l # k => bsCache'[l] = bsCache[l]
    BY <1>5, <2>1, Zenon
  <2> QED  BY <1>5, <1>8, <2>1, <2>2, Zenon DEF BsOnlyJunk
<1>11. \A k \in BsKeys : BsKept(k) => BsKept(k)'
  BY <1>2, <1>10, Zenon DEF BsKept
<1>12. \A v \in Releases, k \in BsKeys : BsSafe(v, k) => BsSafe(v, k)'
  BY <1>2, <1>10, Zenon DEF BsSafe
<1>13. \A v, k : BsSpare(v, k) => BsSpare(v, k)'
  BY <1>2, Zenon DEF BsSpare
<1>14. BsRecordSafe'
  <2> SUFFICES ASSUME bsRec' # BsNoRecord PROVE bsRec'.key[2] = bsRec'.id /\ BsSafe(bsRec.id, bsRec.key)'
    BY Zenon DEF BsRecordSafe
  <2>1. PICK id, k : id = bsRec.id /\ k = bsRec.key
    BY Zenon
  <2>2. id \in Releases /\ k \in BsKeys /\ bsRec.key[2] = bsRec.id /\ BsSafe(id, k)
    BY <1>1, <2>1, BsCommitted, Zenon
  <2>3. BsSafe(id, k)'
    BY <1>12, <2>2, Zenon
  <2> QED  BY <1>1, <2>1, <2>2, <2>3, Zenon
<1>15. ASSUME bsOp' # BsIdle PROVE BsKnows(bsOp)'
  <2>1. PICK op, rec, key : op = bsOp /\ rec = bsRec /\ key = BsKey(bsOp)
    BY Zenon
  <2>2. op \in BsCommands /\ BsKnows(op) /\ bsOp' = op /\ bsRec' = rec /\ BsKey(op) = key /\ (op.id \in Releases => key \in BsKeys)
    BY <1>1, <1>15, <2>1, BsAtWork, Zenon
  <2>3. rec # BsNoRecord => rec.id \in Releases /\ rec.key \in BsKeys
    BY <2>1, BsCommitted, Zenon
  <2>4. (BsHas(op) <=> BsHas(bsOp)') /\ (BsRepairs(op) <=> BsRepairs(bsOp)')
    BY <2>1, <2>2, Zenon DEF BsHas, BsRepairs
  <2>5. rec # BsNoRecord /\ BsLooked(op) => BsLooked(bsOp)'
    BY <1>9, <2>1, <2>2, <2>3, Zenon DEF BsLooked
  <2>6. (op.repair => rec # BsNoRecord) /\ BsFiling(op) => BsFiling(bsOp)'
    <3> SUFFICES ASSUME op.repair => rec # BsNoRecord, BsFiling(op) PROVE BsFiling(bsOp)'
      BY Zenon
    <3>1. op.id \in Releases /\ BsHas(op) /\ ~op.again
      BY Zenon DEF BsFiling, BsHas
    <3>2. op.repair => BsRepairs(bsOp)' /\ BsLooked(bsOp)' /\ bsGen'[op.id] = BsNoTree
      BY <1>5, <2>4, <2>5, <3>1, Zenon DEF BsFiling
    <3>3. ~op.repair => BsKept(key)'
      BY <1>11, <2>2, <3>1, Zenon DEF BsFiling
    <3>4. ~op.repair /\ op.made /\ rec # BsNoRecord /\ rec.key = key => BsSpare(rec.id, rec.key)'
      BY <1>13, <2>1, <2>2, Zenon DEF BsFiling
    <3> QED  BY <2>2, <2>4, <3>1, <3>2, <3>3, <3>4, Zenon DEF BsFiling
  <2>7. op.id \in Releases =>
          /\ bsCache[key] = BsNoPack => bsCache'[key] = BsNoPack
          /\ BsSafe(op.id, key) => BsSafe(op.id, key)'
          /\ ~BsValid(bsGen[op.id]) => ~BsValid(bsGen'[op.id])
    BY <1>5, <1>9, <1>12, <2>2, Zenon
  <2>8. rec # BsNoRecord /\ bsCache[rec.key] = BsNoPack => bsCache'[rec.key] = BsNoPack
    BY <1>9, <2>3
  <2>9. ~(bsRots < (IF op.repair THEN 2 ELSE 1)) => ~(bsRots' < (IF op.repair THEN 2 ELSE 1))
    BY <1>1
  <2>10. BsRepairs(op) => op.id \in Releases /\ op.repair
    BY Zenon DEF BsRepairs
  <2> QED  BY <2>1, <2>2, <2>4, <2>5, <2>6, <2>7, <2>8, <2>9, <2>10 DEF BsKnows
<1> QED  BY <1>6, <1>7, <1>14, <1>15, Zenon DEF BsInv

\* The owner changes what is theirs.
LEMMA BsEditing ==
    ASSUME BsInv, BsEdit
    PROVE  BsInv'
<1>1. bsRoot \in BsTrees /\ bsArchive \in Releases \cup {"junk"} /\ bsOp \in BsCommands \cup {BsIdle}
  BY Zenon DEF BsInv, BsTypeOK
<1>2. bsRoot' \in BsTrees /\ bsArchive' \in Releases \cup {"junk"}
  BY <1>1 DEF BsEdit, BsTrees
<1>3. UNCHANGED <<bsStore, bsRots>> /\ bsOp' = bsOp
  BY Zenon DEF BsEdit
<1>4. bsOp' = BsIdle \/ (bsOp' \in BsCommands /\ BsKnows(bsOp'))
  BY <1>1, <1>3, BsAtWork, Zenon
<1> QED  BY <1>2, <1>3, <1>4, BsQuiet, Zenon

\* BsInv is an inductive invariant of the store.
LEMMA BsInitially == BsInit => BsInv
<1> SUFFICES ASSUME BsInit PROVE BsInv
  OBVIOUS
<1>1. BsTypeOK
  BY BsShapes, BsPackShapes, Zenon DEF BsInit, BsTypeOK
<1>2. \A v \in Releases : bsGen[v] = BsNoTree
  BY Zenon DEF BsInit
<1>3. \A k \in BsKeys : bsCache[k] = BsNoPack
  BY Zenon DEF BsInit
<1>4. BsFiled
  BY <1>2, <1>3, Zenon DEF BsFiled, BsVisibleIntact, BsCacheIntact
<1> QED  BY <1>1, <1>4, Zenon DEF BsInit, BsInv, BsRecordSafe

LEMMA BsInductive == BsInv /\ [BsNext]_bsVars => BsInv'
<1> SUFFICES ASSUME BsInv, [BsNext]_bsVars PROVE BsInv'
  BY Zenon
<1>1. CASE UNCHANGED bsVars
  <2>1. bsRoot' = bsRoot /\ bsArchive' = bsArchive /\ UNCHANGED <<bsStore, bsRots>> /\ bsOp' = bsOp
    BY <1>1, Zenon DEF bsVars, bsStore
  <2> QED  BY <2>1, BsAtWork, BsQuiet, Zenon DEF BsInv, BsTypeOK
<1>2. CASE BsGiveUp \/ BsCrash
  BY <1>2, BsEnds, Zenon DEF BsGiveUp, BsCrash, BsStays, bsOutside
<1> QED  BY <1>1, <1>2, BsBeginning, BsReading, BsOpening, BsCachingBundle, BsPackingFile, BsCopying, BsStaging, BsPublishing,
           BsRecording, BsInspecting, BsRemoving, BsRecaching, BsRebuilding, BsEditing, BsRotting, Zenon DEF BsNext

\* The invariant says what the promise asks of each state.
LEMMA BsHolds == BsInv => BsVisibleIntact /\ BsCacheIntact /\ BsOneCopyLeft /\ BsNeverWedged
<1> SUFFICES ASSUME BsInv PROVE BsVisibleIntact /\ BsCacheIntact /\ BsOneCopyLeft /\ BsNeverWedged
  BY Zenon
<1>1. BsOneCopyLeft
  BY BsCommitted, Zenon DEF BsOneCopyLeft, BsSafe
<1>2. BsNeverWedged
  BY BsAtWork, BsIdleIsNone DEF BsNeverWedged, BsAt, BsKnows
<1> QED  BY <1>1, <1>2, Zenon DEF BsInv, BsFiled

\* Only a download goes from the server to the cache, and it is bound to the
\* version asked for.
LEMMA BsBinds ==
    BsInv /\ [BsNext]_bsVars => [(bsOp.pc = "server" /\ bsOp'.pc = "cache") => bsOp'.id = bsOp.want]_bsVars
<1> SUFFICES ASSUME BsInv, BsNext, bsOp.pc = "server", bsOp'.pc = "cache" PROVE bsOp'.id = bsOp.want
  BY Zenon
<1>1. bsOp \in BsCommands
  BY BsIdleIsNone, Zenon DEF BsInv, BsTypeOK
<1>2. CASE BsDownload
  <2>1. ~BsEnd
    BY BsIdleIsNone DEF BsEnd
  <2>2. bsArchive = bsOp.want /\ bsOp' = [bsOp EXCEPT !.pc = BsOpened, !.id = bsArchive, !.bundle = BsTree(bsArchive)]
    BY <1>2, <2>1, Zenon DEF BsDownload, BsBound, BsSnapshot
  <2> QED  BY <1>1, <2>2 DEF BsCommands
<1>3. CASE BsCrash \/ BsEdit \/ BsRot
  BY <1>3, BsIdleIsNone DEF BsCrash, BsEnd, BsEdit, BsRot
<1> QED
  BY <1>2, <1>3 DEF BsNext, BsAt, BsBegin, BsReadManifest, BsReadFile, BsOpenArchive, BsCacheBundle, BsPackFile, BsCopy,
     BsStageFile, BsPublish, BsRecord, BsGiveUp, BsInspect, BsRemoveGeneration, BsRecache, BsRebuild

\* Whatever the sizes, edits and crashes: what is filed is what it is named, the
\* committed release stays available until a second file is damaged, no leftover
\* blocks a command, and an upgrade records the version it was asked for
\* (cacheBundle, copyBundleToGeneration, repairGeneration).
THEOREM StoreKeepsReleases == BsSpec => BsPromise
<1>1. BsInit => BsInv
  BY BsInitially
<1>2. BsInv /\ [BsNext]_bsVars => BsInv'
  BY BsInductive
<1>3. BsInv => BsVisibleIntact /\ BsCacheIntact /\ BsOneCopyLeft /\ BsNeverWedged
  BY BsHolds
<1>4. BsInv /\ [BsNext]_bsVars => [(bsOp.pc = "server" /\ bsOp'.pc = "cache") => bsOp'.id = bsOp.want]_bsVars
  BY BsBinds
<1> QED  BY <1>1, <1>2, <1>3, <1>4, PTL DEF BsSpec, BsPromise, BsVersionIsBound

=============================================================================
