---------------------------- MODULE LogRotation -----------------------------
(***************************************************************************)
(* The bounded logs (internal/xray/logrotate.go): a log, its one archive   *)
(* and the fixed staging file between them, with I/O errors and crashes    *)
(* between any two steps.  In mode "capped" the writer owns the log and    *)
(* rotates before a write crosses the limit; in mode "periodic" the OpenRC *)
(* supervisor writes and a ticker rotates.                                 *)
(*                                                                         *)
(* A file is the sequence of the byte numbers it holds; bytes are numbered *)
(* in the order they were accepted.                                        *)
(***************************************************************************)
EXTENDS Naturals, Sequences, Functions

CONSTANTS MaxSize,     \* maxLogSize, in bytes
          MaxByte      \* bound: bytes ever written

ASSUME LrAssumption == MaxSize \in Nat \ {0} /\ MaxByte \in Nat

VARIABLES lrMode,
          lrLog, lrOld,         \* the log and its archive (path and path.1)
          lrTmp, lrStaged,      \* the staging file: content, existence
          lrNext,               \* number of the next byte
          lrPc, lrCont,         \* step of the rotation; what follows it
          lrPending,            \* bytes of the write that waits for it
          lrOpen,               \* the capped writer has its file
          lrFault               \* an I/O error has happened

lrVars == <<lrMode, lrLog, lrOld, lrTmp, lrStaged, lrNext, lrPc, lrCont, lrPending, lrOpen, lrFault>>
lrFiles == <<lrLog, lrOld, lrTmp, lrStaged>>

LrBytes(a, n) == [i \in 1..n |-> a + i - 1]
LrTail(s) == SubSeq(s, Len(s) - (IF Len(s) < MaxSize THEN Len(s) ELSE MaxSize) + 1, Len(s))

\* Files of an earlier version may be over the limit.
LrInit ==
    /\ lrMode \in {"capped", "periodic"}
    /\ \E k, m \in 0..MaxSize + 1 :
        lrOld = LrBytes(1, k) /\ lrLog = LrBytes(k + 1, m) /\ lrNext = k + m + 1
    /\ lrTmp = <<>> /\ lrStaged = FALSE
    /\ lrPc = "idle" /\ lrCont = "none" /\ lrPending = 0 /\ lrOpen = FALSE /\ lrFault = FALSE

LrGo(pc, cont) == lrPc' = pc /\ lrCont' = cont
LrRest == UNCHANGED <<lrMode, lrNext, lrPending>>

-----------------------------------------------------------------------------
\* rotateLogIfNeeded: at open (capped) or on a tick (periodic).  The archive
\* is bounded first.
LrBegin ==
    /\ lrPc = "idle" /\ ~lrOpen
    /\ IF Len(lrOld) > MaxSize THEN LrGo("stage", "bound") ELSE LrGo("check", "none")
    /\ LrRest /\ UNCHANGED <<lrFiles, lrOpen, lrFault>>

LrCheck ==
    /\ lrPc = "check"
    /\ IF Len(lrLog) >= MaxSize THEN LrGo("stage", "rotate") ELSE LrGo("opening", "none")
    /\ LrRest /\ UNCHANGED <<lrFiles, lrOpen, lrFault>>

\* archiveLogTail: remove a staging file a crash left, then create it with
\* O_EXCL and fill it with the source's tail.
\* Mutant: the leftover is not removed.
LrStageFree == ~lrStaged

LrStageReady == TRUE

LrStage ==
    /\ lrPc = "stage"
    /\ IF LrStageReady
       THEN /\ lrStaged' = TRUE /\ lrPc' = "rename"
            /\ lrTmp' = LrTail(IF lrCont = "bound" THEN lrOld ELSE lrLog)
       ELSE lrPc' = "unarchived" /\ UNCHANGED <<lrStaged, lrTmp>>
    /\ LrRest /\ UNCHANGED <<lrLog, lrOld, lrCont, lrOpen, lrFault>>

\* Rename over the archive.
LrRename ==
    /\ lrPc = "rename"
    /\ lrOld' = lrTmp /\ lrTmp' = <<>> /\ lrStaged' = FALSE
    /\ lrPc' = IF lrCont = "bound" THEN "check" ELSE "truncate"
    /\ LrRest /\ UNCHANGED <<lrLog, lrCont, lrOpen, lrFault>>

\* An I/O error of archiveLogTail: the deferred close and remove.
LrArchiveFails ==
    /\ lrPc \in {"stage", "rename"}
    /\ lrFault' = TRUE /\ lrPc' = "unarchived" /\ lrTmp' = <<>> /\ lrStaged' = FALSE
    /\ LrRest /\ UNCHANGED <<lrLog, lrOld, lrCont, lrOpen>>

\* Without an archive the log is truncated all the same; an oversized archive
\* is cut in place, which keeps its head.
LrUnarchived ==
    /\ lrPc = "unarchived"
    /\ IF lrCont = "bound" THEN lrOld' = SubSeq(lrOld, 1, MaxSize) /\ lrPc' = "check"
       ELSE lrPc' = "truncate" /\ UNCHANGED lrOld
    /\ LrRest /\ UNCHANGED <<lrLog, lrTmp, lrStaged, lrCont, lrOpen, lrFault>>

LrTruncate ==
    /\ lrPc = "truncate"
    /\ lrLog' = <<>>
    /\ LrGo(IF lrCont = "write" THEN "append" ELSE "opening", "none")
    /\ LrRest /\ UNCHANGED <<lrOld, lrTmp, lrStaged, lrOpen, lrFault>>

\* The truncation fails: a write is refused, an open sees the old log.
LrTruncateFails ==
    /\ lrPc = "truncate"
    /\ lrFault' = TRUE /\ lrPending' = 0
    /\ LrGo(IF lrCont = "write" THEN "idle" ELSE "opening", "none")
    /\ UNCHANGED <<lrMode, lrNext, lrFiles, lrOpen>>

\* openCappedLogWriter opens the log and refuses one still over the limit.
LrOpening ==
    /\ lrPc = "opening"
    /\ LrGo("idle", "none")
    /\ lrOpen' = (lrMode = "capped" /\ Len(lrLog) <= MaxSize /\ Len(lrOld) <= MaxSize)
    /\ LrRest /\ UNCHANGED <<lrFiles, lrFault>>

LrFits(n) == Len(lrLog) + n <= MaxSize

\* cappedLogWriter.Write of n bytes; of a payload over the limit only the
\* last maxSize bytes are accepted.
LrWrite ==
    /\ lrPc = "idle" /\ lrOpen
    /\ \E n \in 1..MaxSize :
        /\ lrNext + n <= MaxByte + 1
        /\ lrPending' = n
        /\ IF LrFits(n) THEN LrGo("append", "none") ELSE LrGo("stage", "write")
    /\ UNCHANGED <<lrMode, lrNext, lrFiles, lrOpen, lrFault>>

\* The write itself, which an I/O error may cut short.
LrAppend ==
    /\ lrPc = "append"
    /\ \E n \in 0..lrPending : lrLog' = lrLog \o LrBytes(lrNext, n) /\ lrNext' = lrNext + n
    /\ lrPending' = 0 /\ LrGo("idle", "none")
    /\ UNCHANGED <<lrMode, lrOld, lrTmp, lrStaged, lrOpen, lrFault>>

\* The supervisor appends whenever it likes.
LrSupervisorWrites ==
    /\ lrMode = "periodic" /\ lrNext <= MaxByte
    /\ lrLog' = Append(lrLog, lrNext) /\ lrNext' = lrNext + 1
    /\ UNCHANGED <<lrMode, lrOld, lrTmp, lrStaged, lrPc, lrCont, lrPending, lrOpen, lrFault>>

\* The node dies; the files stay.
LrCrash ==
    /\ lrPc # "idle" \/ lrOpen
    /\ LrGo("idle", "none") /\ lrPending' = 0 /\ lrOpen' = FALSE
    /\ UNCHANGED <<lrMode, lrNext, lrFiles, lrFault>>

LrNext == LrBegin \/ LrCheck \/ LrStage \/ LrRename \/ LrArchiveFails \/ LrUnarchived
          \/ LrTruncate \/ LrTruncateFails
          \/ LrOpening \/ LrWrite \/ LrAppend \/ LrSupervisorWrites \/ LrCrash

LrSpec == LrInit /\ [][LrNext]_lrVars

-----------------------------------------------------------------------------
\* The hard cap: while the capped writer is open neither file is over the
\* limit, and a rotated archive never is.
LrBounded == /\ lrOpen => Len(lrLog) <= MaxSize /\ Len(lrOld) <= MaxSize
             /\ Len(lrTmp) <= MaxSize

\* Unless an I/O error costs an archive, the two files of the capped writer
\* hold the newest bytes without a hole between them, whatever crash
\* interrupted a rotation and whatever staging file it left.
LrNoHole ==
    lrMode = "capped" /\ ~lrFault =>
        LET held == Range(lrOld) \cup Range(lrLog) IN
        \A b \in held : \A c \in b..(lrNext - 1) : c \in held

\* What the capped writer promises: a bounded log without holes.
LrPromise ==
    /\ LrBounded
    /\ LrNoHole

-----------------------------------------------------------------------------
(* The inductive invariant behind LrPromise *)

LrTypeOK ==
    /\ lrMode \in {"capped", "periodic"}
    /\ lrLog \in Seq(Nat) /\ lrOld \in Seq(Nat) /\ lrTmp \in Seq(Nat)
    /\ lrNext \in Nat \ {0} /\ lrPending \in 0..MaxSize /\ lrOpen \in BOOLEAN /\ lrFault \in BOOLEAN
    /\ lrPc \in {"idle", "check", "stage", "rename", "unarchived", "truncate", "opening", "append"}
    /\ lrCont \in {"none", "bound", "rotate", "write"}

\* What the writer has established at each step of a rotation.
LrSteps ==
    /\ lrOpen => lrMode = "capped"
    /\ lrPc = "append" \/ lrCont = "write" => lrOpen
    /\ lrPc = "append" => Len(lrLog) + lrPending <= MaxSize
    /\ lrPc = "unarchived" => lrFault
    /\ lrPc \in {"stage", "rename", "unarchived"} /\ lrCont = "bound" => Len(lrOld) > MaxSize

\* A file of consecutive bytes that ends at most `gap' bytes before the next one.
LrReaches(s, gap) ==
    \A i \in 1..Len(s) : s[i] + (Len(s) - i) = s[Len(s)] /\ s[Len(s)] + 1 + gap >= lrNext

\* The log ends with the newest byte; the archive reaches back to it, and,
\* before the log may be truncated, to the newest byte as well.
LrWhole ==
    /\ \A i \in 1..Len(lrLog) : lrLog[i] + Len(lrLog) + 1 = lrNext + i
    /\ LrReaches(lrOld, Len(lrLog))
    /\ lrPc = "rename" => LrReaches(lrTmp, IF lrCont = "bound" THEN Len(lrLog) ELSE 0)
    /\ lrPc = "truncate" => LrReaches(lrOld, 0)

LrInv ==
    /\ LrTypeOK /\ LrBounded /\ LrSteps
    /\ lrMode = "capped" /\ ~lrFault => LrWhole
=============================================================================
