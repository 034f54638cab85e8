---------------------------- MODULE PluginProofs ----------------------------
(***************************************************************************)
(* What the Panel selects for the node.  About PluginService: its          *)
(* inductive invariant PluginInv, and from it SnapshotHolds and            *)
(* KernelKeepsRules, for every number of requests, closers, addresses and  *)
(* configurations.  About RuntimeAssets: the Core and the GeoData that a   *)
(* Start prepares are whole, for every set of files, digests and requests. *)
(*                                                                         *)
(* One lemma per conjunct of PluginInv goes through the actions.  A        *)
(* request's steps are under the gate, so only its own transaction moves   *)
(* while it is inside; what the others may do meanwhile (a start, the end  *)
(* of the core, tables that vanish, arrivals) touches neither active nor   *)
(* the transaction: such a step is called Outside.                         *)
(***************************************************************************)
EXTENDS PluginService, RuntimeAssets, TLAPS

\* The records that stand for nothing are of the types around them, and nil is
\* not one of the things it stands in for.
LEMMA Nothing ==
    /\ NoTxn \in Txns /\ ClearTxn \in Txns
    /\ None \notin Snapshots /\ None \notin Requests /\ Start \notin Requests
    /\ None # Start /\ None \notin BOOLEAN
    /\ NoOp.kind = "none"
<1>1. NoTxn \in Txns /\ ClearTxn \in Txns
  BY Zenon DEF NoTxn, ClearTxn, Txns
<1>2. None \notin Snapshots
  BY NoneAssumption, Zenon DEF Snapshots
<1>3. NoOp.kind = "none"
  BY Zenon DEF NoOp
<1> QED  BY <1>1, <1>2, <1>3, CallersAssumption, NoneAssumption, Zenon

\* What degrading, recreating and planning return are snapshots and transactions.
LEMMA SnapshotTypes ==
    ASSUME NEW s \in Snapshots \cup {None}
    PROVE  /\ Degraded(s) \in Snapshots \cup {None}
           /\ Recreated(s) \in Snapshots \cup {None}
           /\ SnapshotFirewall(s) \in SUBSET IPs
           /\ EffectiveTorrentEnabled(s) \in BOOLEAN
BY SourcesAssumption, Zenon DEF Degraded, Recreated, SnapshotFirewall, EffectiveTorrentEnabled, Snapshots

LEMMA TxnTypes ==
    ASSUME TypeOK, NEW o \in Ops, o.kind \notin Unleased
    PROVE  TxnOf(o) \in Txns
<1>1. CASE o.kind = "sync"
  <2>1. o.source \in Sources
    BY <1>1, Zenon DEF Ops
  <2>2. [source |-> o.source, ready |-> healthy] \in Snapshots
    BY <2>1, Zenon DEF TypeOK, TypeKernel, Snapshots
  <2> QED  BY <1>1, <2>2, SnapshotTypes, Zenon DEF TxnOf, NoTxn, Txns, TypeOK
<1>2. CASE o.kind \in {"clear", "invalid"}
  BY <1>2, Nothing, Zenon DEF TxnOf
<1>3. CASE o.kind = "recreate"
  BY <1>3, SnapshotTypes, Zenon DEF TxnOf, NoTxn, Txns, TypeOK
<1>4. CASE o.kind = "reset"
  BY <1>4, Nothing, Zenon DEF TxnOf
<1> QED  BY <1>1, <1>2, <1>3, <1>4, Zenon DEF Ops, Unleased

-----------------------------------------------------------------------------
(* Types *)

\* What a step leaves alone keeps its type.
LEMMA TypeFrame ==
    ASSUME TypeOK
    PROVE  /\ UNCHANGED active => (active \in Snapshots \cup {None})'
           /\ UNCHANGED fenceVars => TypeFences'
           /\ UNCHANGED <<nftVars, kernelVars>> => TypeKernel'
           /\ UNCHANGED <<coreVars, startRead>> => TypeCore'
           /\ UNCHANGED <<gate, lease, callVars>> => TypeCalls'
BY Zenon DEF TypeOK, TypeFences, TypeKernel, TypeCore, TypeCalls, fenceVars, nftVars, kernelVars, coreVars, callVars

\* A run of nft leaves Booleans and sets of addresses.
LEMMA NftTypes ==
    ASSUME TypeKernel, NEW rules \in SUBSET IPs, NEW ok \in BOOLEAN,
           NftApply(rules, ok) \/ NftReset(rules, ok) \/ NftClose(ok)
    PROVE  TypeKernel'
<1> USE DEF TypeKernel, nftVars, kernelVars
<1>1. CASE NftApply(rules, ok)   BY <1>1, Zenon DEF NftApply, UpdateSets
<1>2. CASE NftReset(rules, ok)   BY <1>2, Zenon DEF NftReset
<1>3. CASE NftClose(ok)          BY <1>3, Zenon DEF NftClose
<1> QED  BY <1>1, <1>2, <1>3, Zenon

LEMMA BlockTypes ==
    ASSUME TypeKernel, NEW ip \in IPs, NEW ok \in BOOLEAN, NftBlock(ip, ok) \/ NftUnblock(ip, ok)
    PROVE  TypeKernel'
BY Zenon DEF TypeKernel, kernelVars, NftBlock, NftUnblock

\* A call to the core leaves a core.
LEMMA CoreCallTypes ==
    ASSUME TypeCore, NEW call, NEW ok, RunCoreCall(call, ok), UNCHANGED startRead
    PROVE  TypeCore'
<1>1. NoCore \in [blocker : {"none", "installed", "removed"}, tags : BOOLEAN]
  BY Zenon DEF NoCore
<1>2. [core EXCEPT !.blocker = "removed"] \in [blocker : {"none", "installed", "removed"}, tags : BOOLEAN]
  BY Zenon DEF TypeCore
<1>3. /\ UNCHANGED core \/ core' = NoCore \/ core' = [core EXCEPT !.blocker = "removed"]
      /\ coreOnline' = coreOnline \/ coreOnline' = FALSE
  BY Zenon DEF RunCoreCall, coreVars
<1> QED  BY <1>1, <1>2, <1>3, Zenon DEF TypeCore

\* Moving one caller moves no other.
LEMMA Moves ==
    ASSUME TypeOK, NEW x \in Requests \cup Closers, NEW to, Goto(x, to)
    PROVE  pc'[x] = to /\ \A y \in Requests \cup Closers : y # x => pc'[y] = pc[y]
BY Zenon DEF TypeOK, TypeCalls, Goto

\* A handler's return.
LEMMA Returns ==
    ASSUME TypeOK, NEW r \in Requests, Return(r)
    PROVE  /\ TypeCalls'
           /\ gate' = None /\ lease' = (IF lease = r THEN None ELSE lease)
           /\ pc'[r] = "idle" /\ \A y \in Requests \cup Closers : y # r => pc'[y] = pc[y]
           /\ op'[r] = NoOp /\ \A y \in Requests : y # r => op'[y] = op[y]
<1>1. TypeCalls'
  BY Nothing, CallersAssumption, Zenon DEF TypeOK, TypeCalls, Return, Goto, RequestPcs, ClosePcs
<1> QED  BY <1>1, Zenon DEF TypeOK, TypeCalls, Return, Goto

\* A request's other moves, and a closer's.
LEMMA RequestMoves ==
    ASSUME TypeOK, NEW r \in Requests, NEW to \in RequestPcs, Goto(r, to),
           gate' \in Requests \cup {None}, lease' \in Requests \cup {None, Start},
           op' \in [Requests -> Ops \cup {NoOp}], txn' \in Txns
    PROVE  TypeCalls'
BY CallersAssumption, Zenon DEF TypeOK, TypeCalls, Goto

LEMMA CloserMoves ==
    ASSUME TypeOK, NEW c \in Closers, NEW to \in ClosePcs, Goto(c, to), UNCHANGED <<gate, lease, op, txn>>
    PROVE  TypeCalls' /\ \A r \in Requests : pc'[r] = pc[r]
BY CallersAssumption, Zenon DEF TypeOK, TypeCalls, Goto

LEMMA TypeNext == TypeOK /\ LeaseInv /\ [Next]_vars => TypeOK'
<1> SUFFICES ASSUME TypeOK, LeaseInv, [Next]_vars PROVE TypeOK'
  OBVIOUS
<1>0. /\ active \in Snapshots \cup {None} /\ txn.next \in Snapshots \cup {None}
      /\ TypeFences /\ TypeKernel /\ TypeCore /\ TypeCalls
  BY Zenon DEF TypeOK, TypeCalls, Txns
<1>1. CASE Initialize
  <2>1. PICK ok \in BOOLEAN, cancelled \in BOOLEAN : NftReset({}, ok) /\ initialized' = (ok \/ ~cancelled)
    BY <1>1, Zenon DEF Initialize
  <2>2. TypeKernel'
    BY <1>0, <2>1, NftTypes, Zenon
  <2>3. TypeFences'
    BY <1>0, <1>1, <2>1, Zenon DEF Initialize, TypeFences
  <2> QED  BY <1>1, <2>2, <2>3, TypeFrame, Zenon DEF Initialize, TypeOK
<1>2. CASE StartReadsEnabled
  <2>1. TypeCore' /\ TypeCalls'
    BY <1>0, <1>2, Zenon DEF StartReadsEnabled, NoRead, TypeCore, TypeCalls, coreVars, callVars
  <2> QED  BY <1>2, <2>1, TypeFrame, Zenon DEF StartReadsEnabled, TypeOK
<1>3. CASE StartReadsTags
  <2>1. (EffectiveTorrentEnabled(active) /\ active.source.tags) \in BOOLEAN
    OBVIOUS
  <2>2. TypeCore'
    BY <1>0, <1>3, <2>1, Zenon DEF StartReadsTags, TypeCore, coreVars
  <2> QED  BY <1>3, <2>2, TypeFrame, Zenon DEF StartReadsTags, TypeOK
<1>4. CASE StartEnds
  <2>1. startRead \in [blocker : {"none", "installed", "removed"}, tags : BOOLEAN]
    BY <1>0, <1>4, Zenon DEF StartEnds, TypeCore
  <2>2. TypeCore'
    <3>1. /\ coreOnline' \in {TRUE, FALSE, coreOnline} /\ core' \in {startRead, NoCore, core}
          /\ startRead' = NoRead
      BY <1>4, Zenon DEF StartEnds, coreVars
    <3>2. NoCore \in [blocker : {"none", "installed", "removed"}, tags : BOOLEAN]
      BY Zenon DEF NoCore
    <3>3. NoRead \in [blocker : {"none", "installed"}, tags : BOOLEAN \cup {None}]
      BY Zenon DEF NoRead
    <3> QED  BY <1>0, <2>1, <3>1, <3>2, <3>3, Zenon DEF TypeCore
  <2>3. TypeCalls'
    BY <1>0, <1>4, Zenon DEF StartEnds, TypeCalls, callVars
  <2> QED  BY <1>4, <2>2, <2>3, TypeFrame, Zenon DEF StartEnds, TypeOK
<1>5. CASE CoreExits
  <2>1. TypeCore'
    BY <1>0, <1>5, Zenon DEF CoreExits, NoCore, TypeCore
  <2> QED  BY <1>5, <2>1, TypeFrame, Zenon DEF CoreExits, TypeOK
<1>6. CASE TablesVanish
  <2>1. TypeKernel'
    BY <1>0, <1>6, Zenon DEF TablesVanish, TypeKernel, nftVars
  <2> QED  BY <1>6, <2>1, TypeFrame, Zenon DEF TablesVanish, TypeOK
<1>7. ASSUME NEW r \in Requests, NEW o \in Ops, Arrive(r, o) PROVE TypeOK'
  <2>1. TypeCalls'
    BY <1>0, <1>7, RequestMoves, Zenon DEF Arrive, RequestPcs, TypeCalls
  <2> QED  BY <1>7, <2>1, TypeFrame, Zenon DEF Arrive, TypeOK
<1>8. ASSUME NEW r \in Requests, Acquire(r) PROVE TypeOK'
  <2>1. TypeCalls'
    BY <1>0, <1>8, Returns, RequestMoves, Zenon DEF Acquire, RequestPcs, TypeCalls
  <2> QED  BY <1>8, <2>1, TypeFrame, Zenon DEF Acquire, TypeOK
<1>9. ASSUME NEW r \in Requests, GiveUp(r) PROVE TypeOK'
  <2>1. TypeCalls'
    BY <1>0, <1>9, RequestMoves, Zenon DEF GiveUp, RequestPcs, TypeCalls
  <2> QED  BY <1>9, <2>1, TypeFrame, Zenon DEF GiveUp, TypeOK
<1>10. ASSUME NEW r \in Requests, StopCore(r) PROVE TypeOK'
  <2>1. TypeCalls'
    BY <1>0, <1>10, RequestMoves, Zenon DEF StopCore, RequestPcs, TypeCalls
  <2>2. TypeCore'
    BY <1>0, <1>10, CoreCallTypes, Zenon DEF StopCore
  <2> QED  BY <1>10, <2>1, <2>2, TypeFrame, Zenon DEF StopCore, TypeOK
<1>11. ASSUME NEW r \in Requests, Handle(r) PROVE TypeOK'
  <2>1. TypeCalls'
    <3>1. CASE Return(r)
      BY <3>1, Returns, Zenon
    <3>2. CASE txn' = TxnOf(op[r]) /\ Goto(r, IF txn'.first THEN "reconcileFirst" ELSE "apply")
                   /\ UNCHANGED <<op, gate, lease>>
      <4>1. op[r] \in Ops /\ op[r].kind \notin Unleased
        BY <1>11, Zenon DEF Handle, LeaseInv
      <4> QED  BY <1>0, <3>2, <4>1, RequestMoves, TxnTypes, Zenon DEF RequestPcs, TypeCalls
    <3> QED  BY <1>11, <3>1, <3>2, Zenon DEF Handle
  <2> QED  BY <1>11, <2>1, TypeFrame, Zenon DEF Handle, TypeOK
<1>12. ASSUME NEW r \in Requests, Mutate(r) PROVE TypeOK'
  <2>1. op[r].ip \in IPs
    BY <1>12, Zenon DEF Mutate, LeaseInv, Ops, Unleased
  <2>2. TypeKernel'
    BY <1>0, <1>12, <2>1, BlockTypes, TypeFrame, Zenon DEF Mutate
  <2>3. active' \in Snapshots \cup {None}
    BY <1>0, <1>12, SnapshotTypes, Zenon DEF Mutate, PublishHealth
  <2> QED  BY <1>12, <2>2, <2>3, Returns, TypeFrame, Zenon DEF Mutate, TypeOK
<1>13. ASSUME NEW r \in Requests, ReconcileFirst(r) PROVE TypeOK'
  <2>1. TypeCore'
    BY <1>0, <1>13, CoreCallTypes, TypeFrame, Zenon DEF ReconcileFirst
  <2>2. TypeCalls'
    BY <1>0, <1>13, Returns, RequestMoves, Zenon DEF ReconcileFirst, RequestPcs, TypeCalls
  <2> QED  BY <1>13, <2>1, <2>2, TypeFrame, Zenon DEF ReconcileFirst, TypeOK
<1>14. ASSUME NEW r \in Requests, ApplyFirewall(r) PROVE TypeOK'
  <2>1. TypeKernel'
    BY <1>0, <1>14, NftTypes, SnapshotTypes, TypeFrame, Zenon DEF ApplyFirewall
  <2>2. active' \in Snapshots \cup {None}
    BY <1>0, <1>14, SnapshotTypes, Zenon DEF ApplyFirewall, PublishHealth
  <2>3. [txn EXCEPT !.applied = TRUE] \in Txns
    BY <1>0, Zenon DEF TypeCalls, Txns
  <2>4. TypeCalls'
    BY <1>0, <1>14, <2>3, Returns, RequestMoves, Zenon DEF ApplyFirewall, RequestPcs, TypeCalls
  <2> QED  BY <1>14, <2>1, <2>2, <2>4, TypeFrame, Zenon DEF ApplyFirewall, TypeOK
<1>15. ASSUME NEW r \in Requests, Rollback(r) PROVE TypeOK'
  <2>1. TypeKernel'
    BY <1>0, <1>15, NftTypes, SnapshotTypes, Zenon DEF Rollback
  <2>2. active' \in Snapshots \cup {None}
    BY <1>0, <1>15, SnapshotTypes, Zenon DEF Rollback, PublishHealth
  <2> QED  BY <1>15, <2>1, <2>2, Returns, TypeFrame, Zenon DEF Rollback, TypeOK
<1>16. ASSUME NEW r \in Requests, FinishApply(r) PROVE TypeOK'
  <2>1. TypeCore'
    BY <1>0, <1>16, CoreCallTypes, TypeFrame, Zenon DEF FinishApply
  <2>2. active' \in Snapshots \cup {None}
    BY <1>0, <1>16, Zenon DEF FinishApply, Commit, Abort
  <2>3. TypeCalls'
    BY <1>0, <1>16, Returns, RequestMoves, Zenon DEF FinishApply, Commit, Abort, RequestPcs, TypeCalls
  <2> QED  BY <1>16, <2>1, <2>2, <2>3, TypeFrame, Zenon DEF FinishApply, TypeOK
<1>17. ASSUME NEW ip \in IPs, WorkerBlocks(ip) PROVE TypeOK'
  <2>1. TypeKernel'
    BY <1>0, <1>17, BlockTypes, Zenon DEF WorkerBlocks
  <2>2. active' \in Snapshots \cup {None}
    BY <1>0, <1>17, SnapshotTypes, Zenon DEF WorkerBlocks, PublishHealth
  <2> QED  BY <1>17, <2>1, <2>2, TypeFrame, Zenon DEF WorkerBlocks, TypeOK
<1>18. ASSUME NEW c \in Closers, BeginClose(c) PROVE TypeOK'
  <2>1. TypeFences' /\ TypeCalls'
    BY <1>0, <1>18, CloserMoves, Zenon DEF BeginClose, ClosePcs, TypeFences
  <2> QED  BY <1>18, <2>1, TypeFrame, Zenon DEF BeginClose, TypeOK
<1>19. ASSUME NEW c \in Closers, SignalWebhookStop(c) PROVE TypeOK'
  <2>1. TypeFences' /\ TypeCalls'
    BY <1>0, <1>19, CloserMoves, Zenon DEF SignalWebhookStop, ClosePcs, TypeFences
  <2> QED  BY <1>19, <2>1, TypeFrame, Zenon DEF SignalWebhookStop, TypeOK
<1>20. ASSUME NEW c \in Closers, Close(c) PROVE TypeOK'
  <2>1. TypeCalls' /\ TypeFences' /\ active' \in Snapshots \cup {None}
    BY <1>0, <1>20, CloserMoves, Zenon DEF Close, ClosePcs, TypeFences
  <2>2. TypeKernel'
    BY <1>0, <1>20, NftTypes, TypeFrame, Zenon DEF Close
  <2> QED  BY <1>20, <2>1, <2>2, TypeFrame, Zenon DEF Close, TypeOK
<1>21. ASSUME NEW c \in Closers, CloseTimesOut(c) PROVE TypeOK'
  <2>1. TypeCalls'
    BY <1>21, CloserMoves, Zenon DEF CloseTimesOut, ClosePcs
  <2> QED  BY <1>21, <2>1, TypeFrame, Zenon DEF CloseTimesOut, TypeOK
<1>22. CASE UNCHANGED vars
  BY <1>22, TypeFrame, Zenon DEF vars, TypeOK
<1> QED
  BY <1>1, <1>2, <1>3, <1>4, <1>5, <1>6, <1>7, <1>8, <1>9, <1>10, <1>11, <1>12, <1>13, <1>14, <1>15,
     <1>16, <1>17, <1>18, <1>19, <1>20, <1>21, <1>22, Zenon DEF Next, RequestStep

-----------------------------------------------------------------------------
(* The gate *)

\* The backend is healthy only in the hands of the process, and Close alone
\* gives it up, with the tables.
LEMMA NftOwnership ==
    ASSUME healthy => owned /\ capable, TablesAreOwned, NEW rules, NEW ip, NEW ok \in BOOLEAN,
           \/ NftApply(rules, ok) \/ NftReset(rules, ok) \/ NftBlock(ip, ok) \/ NftUnblock(ip, ok)
           \/ NftClose(ok)
    PROVE  /\ healthy' => owned' /\ capable'
           /\ tables' /\ capable' /\ initialized => owned'
<1> USE DEF nftVars, kernelVars, TablesAreOwned
<1>1. CASE NftApply(rules, ok)   BY <1>1, Zenon DEF NftApply, UpdateSets
<1>2. CASE NftReset(rules, ok)   BY <1>2, Zenon DEF NftReset
<1>3. CASE NftClose(ok)          BY <1>3, Zenon DEF NftClose
<1>4. CASE NftBlock(ip, ok) \/ NftUnblock(ip, ok)
  <2>1. (healthy' = healthy \/ healthy' = FALSE) /\ UNCHANGED <<capable, owned, tables>>
    BY <1>4, Zenon DEF NftBlock, NftUnblock
  <2> QED  BY <2>1
<1> QED  BY <1>1, <1>2, <1>3, <1>4, Zenon

\* Who is under the gate: its holder, and nobody after the holder's return.
LEMMA Inside ==
    ASSUME FenceInv, NEW r \in Requests, pc[r] \in UnderGate
    PROVE  gate = r /\ \A x \in Requests : x # r => pc[x] \notin UnderGate
BY Zenon DEF FenceInv

LEMMA NobodyInside ==
    ASSUME FenceInv, gate = None
    PROVE  \A x \in Requests : pc[x] \notin UnderGate
BY Nothing, Zenon DEF FenceInv

LEMMA HolderReturns ==
    ASSUME TypeOK, FenceInv, NEW r \in Requests, gate = r \/ gate = None, Return(r)
    PROVE  \A x \in Requests : pc'[x] \notin UnderGate
<1>1. \A x \in Requests : x # r => pc[x] \notin UnderGate
  BY Nothing, Zenon DEF FenceInv
<1> QED  BY <1>1, Returns, Zenon DEF UnderGate, InTransaction

\* A step of the request that holds the gate: it stays under the gate, or returns.
LEMMA FenceHolder ==
    ASSUME TypeOK, FenceInv, NEW r \in Requests, pc[r] \in UnderGate, UNCHANGED fenceVars,
           healthy' => owned' /\ capable',
           Return(r) \/ (UNCHANGED gate /\ \E p \in InTransaction : Goto(r, p))
    PROVE  FenceInv' /\ ClosedIsClean'
<1>1. /\ gate = r /\ r # None /\ (\A x \in Requests : x # r => pc[x] \notin UnderGate)
      /\ initialized /\ ~closed /\ ~closeDone
  BY Inside, Nothing, Zenon DEF FenceInv, UnderGate, InTransaction
<1>2. UNCHANGED <<initialized, closing, closed, closeDone>>
  BY Zenon DEF fenceVars
<1>3. \A c \in Closers : pc'[c] = pc[c]
  BY Returns, Moves, CallersAssumption, Zenon
<1>4. \A x \in Requests : pc'[x] \in UnderGate <=> gate' = x
  <2>1. CASE Return(r)
    BY <2>1, <1>1, HolderReturns, Nothing, Zenon DEF Return
  <2>2. CASE UNCHANGED gate /\ \E p \in InTransaction : Goto(r, p)
    BY <2>2, <1>1, Moves, Zenon DEF UnderGate
  <2> QED  BY <2>1, <2>2, Zenon
<1> QED  BY <1>1, <1>2, <1>3, <1>4, Zenon DEF FenceInv, ClosedIsClean

\* The fences, the gate and the ownership of the backend.
LEMMA FenceNext ==
    TypeOK /\ FenceInv /\ TablesAreOwned /\ ClosedIsClean /\ [Next]_vars =>
        (FenceInv /\ TablesAreOwned /\ ClosedIsClean)'
<1> SUFFICES ASSUME TypeOK, FenceInv, TablesAreOwned, ClosedIsClean, [Next]_vars
             PROVE  (FenceInv /\ TablesAreOwned /\ ClosedIsClean)'
  OBVIOUS
<1>0. None \notin Requests /\ \A r \in Requests, c \in Closers : r # c
  BY Nothing, CallersAssumption, Zenon
<1>1. CASE Initialize
  BY <1>0, <1>1, Zenon DEF Initialize, NftReset, FenceInv, TablesAreOwned, ClosedIsClean, fenceVars, nftVars, kernelVars, callVars
<1>2. CASE StartReadsEnabled
  BY <1>0, <1>2, Zenon DEF StartReadsEnabled, FenceInv, TablesAreOwned, ClosedIsClean, fenceVars, nftVars, kernelVars, callVars
<1>3. CASE StartReadsTags
  BY <1>0, <1>3, Zenon DEF StartReadsTags, FenceInv, TablesAreOwned, ClosedIsClean, fenceVars, nftVars, kernelVars, callVars
<1>4. CASE StartEnds
  BY <1>0, <1>4, Zenon DEF StartEnds, FenceInv, TablesAreOwned, ClosedIsClean, fenceVars, nftVars, kernelVars, callVars
<1>5. CASE CoreExits
  BY <1>0, <1>5, Zenon DEF CoreExits, FenceInv, TablesAreOwned, ClosedIsClean, fenceVars, nftVars, kernelVars, callVars
<1>6. CASE TablesVanish
  BY <1>0, <1>6, Zenon DEF TablesVanish, FenceInv, TablesAreOwned, ClosedIsClean, fenceVars, nftVars, kernelVars, callVars
<1>7. ASSUME NEW r \in Requests, NEW o \in Ops, Arrive(r, o) PROVE (FenceInv /\ TablesAreOwned /\ ClosedIsClean)'
  BY <1>0, <1>7, Moves DEF Arrive, UnderGate, InTransaction, FenceInv, TablesAreOwned, ClosedIsClean, fenceVars, nftVars, kernelVars, callVars
<1>8. ASSUME NEW r \in Requests, Acquire(r) PROVE (FenceInv /\ TablesAreOwned /\ ClosedIsClean)'
  BY <1>0, <1>8, Returns, Moves DEF Acquire, UnderGate, InTransaction, FenceInv, TablesAreOwned, ClosedIsClean, fenceVars, nftVars, kernelVars, callVars
<1>9. ASSUME NEW r \in Requests, GiveUp(r) PROVE (FenceInv /\ TablesAreOwned /\ ClosedIsClean)'
  BY <1>0, <1>9, Moves, Zenon DEF GiveUp, UnderGate, InTransaction, FenceInv, TablesAreOwned, ClosedIsClean, fenceVars, nftVars, kernelVars, callVars
<1>10. ASSUME NEW r \in Requests, StopCore(r) PROVE (FenceInv /\ TablesAreOwned /\ ClosedIsClean)'
  BY <1>0, <1>10, Moves DEF StopCore, UnderGate, InTransaction, FenceInv, TablesAreOwned, ClosedIsClean, fenceVars, nftVars, kernelVars, callVars
<1>11. ASSUME NEW r \in Requests, Handle(r) PROVE (FenceInv /\ TablesAreOwned /\ ClosedIsClean)'
  <2>1. /\ pc[r] \in UnderGate /\ UNCHANGED <<fenceVars, capable, owned, healthy, tables, initialized>>
        /\ Return(r) \/ (UNCHANGED gate /\ \E p \in InTransaction : Goto(r, p))
    BY <1>11, Zenon DEF Handle, UnderGate, InTransaction, fenceVars, nftVars, kernelVars
  <2>2. healthy' => owned' /\ capable'
    BY <2>1, Zenon DEF FenceInv
  <2> QED  BY <2>1, <2>2, FenceHolder, Zenon DEF TablesAreOwned
<1>12. ASSUME NEW r \in Requests, Mutate(r) PROVE (FenceInv /\ TablesAreOwned /\ ClosedIsClean)'
  <2>1. /\ pc[r] \in UnderGate /\ UNCHANGED <<fenceVars, initialized>>
        /\ Return(r) \/ (UNCHANGED gate /\ \E p \in InTransaction : Goto(r, p))
    BY <1>12, Zenon DEF Mutate, UnderGate, InTransaction, fenceVars
  <2>2. (healthy' => owned' /\ capable') /\ TablesAreOwned'
    BY <1>12, <2>1, NftOwnership, Zenon DEF Mutate, FenceInv, TablesAreOwned, nftVars, kernelVars
  <2> QED  BY <2>1, <2>2, FenceHolder, Zenon
<1>13. ASSUME NEW r \in Requests, ReconcileFirst(r) PROVE (FenceInv /\ TablesAreOwned /\ ClosedIsClean)'
  <2>1. /\ pc[r] \in UnderGate /\ UNCHANGED <<fenceVars, capable, owned, healthy, tables, initialized>>
        /\ Return(r) \/ (UNCHANGED gate /\ \E p \in InTransaction : Goto(r, p))
    BY <1>13, Zenon DEF ReconcileFirst, UnderGate, InTransaction, fenceVars, nftVars, kernelVars
  <2>2. healthy' => owned' /\ capable'
    BY <2>1, Zenon DEF FenceInv
  <2> QED  BY <2>1, <2>2, FenceHolder, Zenon DEF TablesAreOwned
<1>14. ASSUME NEW r \in Requests, ApplyFirewall(r) PROVE (FenceInv /\ TablesAreOwned /\ ClosedIsClean)'
  <2>1. /\ pc[r] \in UnderGate /\ UNCHANGED <<fenceVars, initialized>>
        /\ Return(r) \/ (UNCHANGED gate /\ \E p \in InTransaction : Goto(r, p))
    BY <1>14, Zenon DEF ApplyFirewall, UnderGate, InTransaction, fenceVars
  <2>2. (healthy' => owned' /\ capable') /\ TablesAreOwned'
    BY <1>14, <2>1, NftOwnership DEF ApplyFirewall, FenceInv, TablesAreOwned, nftVars, kernelVars
  <2> QED  BY <2>1, <2>2, FenceHolder, Zenon
<1>15. ASSUME NEW r \in Requests, Rollback(r) PROVE (FenceInv /\ TablesAreOwned /\ ClosedIsClean)'
  <2>1. /\ pc[r] \in UnderGate /\ UNCHANGED <<fenceVars, initialized>>
        /\ Return(r) \/ (UNCHANGED gate /\ \E p \in InTransaction : Goto(r, p))
    BY <1>15, Zenon DEF Rollback, UnderGate, InTransaction, fenceVars
  <2>2. (healthy' => owned' /\ capable') /\ TablesAreOwned'
    BY <1>15, <2>1, NftOwnership, Zenon DEF Rollback, FenceInv, TablesAreOwned, nftVars, kernelVars
  <2> QED  BY <2>1, <2>2, FenceHolder, Zenon
<1>16. ASSUME NEW r \in Requests, FinishApply(r) PROVE (FenceInv /\ TablesAreOwned /\ ClosedIsClean)'
  <2>1. /\ pc[r] \in UnderGate /\ UNCHANGED <<fenceVars, capable, owned, healthy, tables, initialized>>
        /\ Return(r) \/ (UNCHANGED gate /\ \E p \in InTransaction : Goto(r, p))
    BY <1>16, Zenon DEF FinishApply, Commit, Abort, UnderGate, InTransaction, fenceVars, nftVars, kernelVars
  <2>2. healthy' => owned' /\ capable'
    BY <2>1, Zenon DEF FenceInv
  <2> QED  BY <2>1, <2>2, FenceHolder, Zenon DEF TablesAreOwned
<1>17. ASSUME NEW ip \in IPs, WorkerBlocks(ip) PROVE (FenceInv /\ TablesAreOwned /\ ClosedIsClean)'
  BY <1>0, <1>17, NftOwnership, Zenon DEF WorkerBlocks, Ready, FenceInv, TablesAreOwned, ClosedIsClean, fenceVars, nftVars, kernelVars, callVars
<1>18. ASSUME NEW c \in Closers, BeginClose(c) PROVE (FenceInv /\ TablesAreOwned /\ ClosedIsClean)'
  BY <1>0, <1>18, Moves, Zenon DEF BeginClose, FenceInv, TablesAreOwned, ClosedIsClean, fenceVars, nftVars, kernelVars, callVars
<1>19. ASSUME NEW c \in Closers, SignalWebhookStop(c) PROVE (FenceInv /\ TablesAreOwned /\ ClosedIsClean)'
  BY <1>0, <1>19, Moves, Zenon DEF SignalWebhookStop, FenceInv, TablesAreOwned, ClosedIsClean, fenceVars, nftVars, kernelVars, callVars
<1>20. ASSUME NEW c \in Closers, Close(c) PROVE (FenceInv /\ TablesAreOwned /\ ClosedIsClean)'
  BY <1>0, <1>20, Moves, Zenon DEF Close, NftClose, FenceInv, TablesAreOwned, ClosedIsClean, fenceVars, nftVars, kernelVars, callVars
<1>21. ASSUME NEW c \in Closers, CloseTimesOut(c) PROVE (FenceInv /\ TablesAreOwned /\ ClosedIsClean)'
  BY <1>0, <1>21, Moves, Zenon DEF CloseTimesOut, FenceInv, TablesAreOwned, ClosedIsClean, fenceVars, nftVars, kernelVars, callVars
<1>22. CASE UNCHANGED vars
  BY <1>22, Zenon DEF vars, FenceInv, TablesAreOwned, ClosedIsClean, fenceVars, nftVars, kernelVars, callVars
<1> QED
  BY <1>1, <1>2, <1>3, <1>4, <1>5, <1>6, <1>7, <1>8, <1>9, <1>10, <1>11, <1>12, <1>13, <1>14, <1>15,
     <1>16, <1>17, <1>18, <1>19, <1>20, <1>21, <1>22, Zenon DEF Next, RequestStep

\* Who holds the lease, and that the core a leased request has stopped stays so.
LEMMA LeaseNext == TypeOK /\ LeaseInv /\ PlanInv /\ [Next]_vars => LeaseInv'
<1> SUFFICES ASSUME TypeOK, LeaseInv, PlanInv, [Next]_vars PROVE LeaseInv'
  OBVIOUS
<1>0. /\ None \notin Requests /\ Start \notin Requests /\ \A r \in Requests, c \in Closers : r # c
      /\ op \in [Requests -> Ops \cup {NoOp}]
  BY Nothing, CallersAssumption, Zenon DEF TypeOK, TypeCalls
<1>1. CASE Initialize
  BY <1>0, <1>1, Zenon DEF Initialize, LeaseInv, coreVars, callVars
<1>2. CASE StartReadsEnabled
  BY <1>0, <1>2, Zenon DEF StartReadsEnabled, LeaseInv, coreVars, callVars
<1>3. CASE StartReadsTags
  BY <1>0, <1>3, Zenon DEF StartReadsTags, LeaseInv, coreVars, callVars
<1>4. CASE StartEnds
  <2>1. \A r \in Requests : pc[r] # "idle" => op[r].kind \in Unleased
    BY <1>0, <1>4, Zenon DEF StartEnds, LeaseInv
  <2> QED  BY <1>4, <2>1, Zenon DEF StartEnds, Unleased, LeaseInv, callVars, InTransaction
<1>5. CASE CoreExits
  BY <1>0, <1>5, Zenon DEF CoreExits, LeaseInv, coreVars, callVars
<1>6. CASE TablesVanish
  BY <1>0, <1>6, Zenon DEF TablesVanish, LeaseInv, coreVars, callVars
<1>7. ASSUME NEW r \in Requests, NEW o \in Ops, Arrive(r, o) PROVE LeaseInv'
  BY <1>0, <1>7, Moves DEF Arrive, InTransaction, LeaseInv, coreVars, callVars
<1>8. ASSUME NEW r \in Requests, Acquire(r) PROVE LeaseInv'
  BY <1>0, <1>8, Returns, Moves DEF Acquire, InTransaction, LeaseInv, coreVars, callVars
<1>9. ASSUME NEW r \in Requests, GiveUp(r) PROVE LeaseInv'
  BY <1>0, <1>9, Moves DEF GiveUp, InTransaction, LeaseInv, coreVars, callVars
<1>10. ASSUME NEW r \in Requests, StopCore(r) PROVE LeaseInv'
  BY <1>0, <1>10, Moves DEF StopCore, RunCoreCall, InTransaction, Unleased, LeaseInv, coreVars, callVars
<1>11. ASSUME NEW r \in Requests, Handle(r) PROVE LeaseInv'
  <2>1. CASE Return(r)
    BY <1>0, <1>11, <2>1, Returns, Zenon DEF Handle, InTransaction, LeaseInv, coreVars
  <2>2. CASE txn' = TxnOf(op[r]) /\ Goto(r, IF txn'.first THEN "reconcileFirst" ELSE "apply")
                 /\ UNCHANGED <<op, gate, lease>>
    <3>1. op[r].kind \in {"clear", "invalid"} => txn'.first
      BY <2>2, Zenon DEF TxnOf, ClearTxn, NoTxn
    <3> QED  BY <1>0, <1>11, <2>2, <3>1, Moves DEF Handle, InTransaction, LeaseInv, coreVars
  <2> QED  BY <1>11, <2>1, <2>2, Zenon DEF Handle
<1>12. ASSUME NEW r \in Requests, Mutate(r) PROVE LeaseInv'
  BY <1>0, <1>12, Returns, Zenon DEF Mutate, InTransaction, LeaseInv, coreVars, callVars
<1>13. ASSUME NEW r \in Requests, ReconcileFirst(r) PROVE LeaseInv'
  BY <1>0, <1>13, Returns, Moves DEF ReconcileFirst, PlanInv, Plan, CoreCall, RunCoreCall, InTransaction, LeaseInv, coreVars, callVars
<1>14. ASSUME NEW r \in Requests, ApplyFirewall(r) PROVE LeaseInv'
  BY <1>0, <1>14, Returns, Moves DEF ApplyFirewall, InTransaction, LeaseInv, coreVars, callVars
<1>15. ASSUME NEW r \in Requests, Rollback(r) PROVE LeaseInv'
  BY <1>0, <1>15, Returns, Zenon DEF Rollback, InTransaction, LeaseInv, coreVars, callVars
<1>16. ASSUME NEW r \in Requests, FinishApply(r) PROVE LeaseInv'
  BY <1>0, <1>16, Returns, Moves DEF FinishApply, Commit, Abort, RunCoreCall, InTransaction, LeaseInv, coreVars, callVars
<1>17. ASSUME NEW ip \in IPs, WorkerBlocks(ip) PROVE LeaseInv'
  BY <1>0, <1>17, Zenon DEF WorkerBlocks, LeaseInv, coreVars, callVars
<1>18. ASSUME NEW c \in Closers, BeginClose(c) PROVE LeaseInv'
  BY <1>0, <1>18, Moves, Zenon DEF BeginClose, LeaseInv, coreVars, callVars
<1>19. ASSUME NEW c \in Closers, SignalWebhookStop(c) PROVE LeaseInv'
  BY <1>0, <1>19, Moves, Zenon DEF SignalWebhookStop, LeaseInv, coreVars, callVars
<1>20. ASSUME NEW c \in Closers, Close(c) PROVE LeaseInv'
  BY <1>0, <1>20, Moves, Zenon DEF Close, LeaseInv, coreVars, callVars
<1>21. ASSUME NEW c \in Closers, CloseTimesOut(c) PROVE LeaseInv'
  BY <1>0, <1>21, Moves, Zenon DEF CloseTimesOut, LeaseInv, coreVars, callVars
<1>22. CASE UNCHANGED vars
  BY <1>22, Zenon DEF vars, LeaseInv, coreVars, callVars
<1> QED
  BY <1>1, <1>2, <1>3, <1>4, <1>5, <1>6, <1>7, <1>8, <1>9, <1>10, <1>11, <1>12, <1>13, <1>14, <1>15,
     <1>16, <1>17, <1>18, <1>19, <1>20, <1>21, <1>22, Zenon DEF Next, RequestStep

-----------------------------------------------------------------------------
(* Transactions *)

\* A step that is not a transaction's: nothing is published, the backend stays,
\* tables can only vanish, and whoever is in a transaction stays where it is.
Outside ==
    /\ UNCHANGED <<active, closed, nftVars>>
    /\ tables' => tables /\ UNCHANGED <<static, unblocked>>
    /\ gate' = None => gate = None
    /\ \A x \in Requests :
        /\ pc'[x] \in InTransaction => pc'[x] = pc[x] /\ op'[x] = op[x] /\ txn' = txn
        /\ pc'[x] = "admitted" => pc[x] = "admitted" \/ (gate = None /\ ~closed)

\* The steps of the transactions, of the worker and of Close; all others are
\* outside.
Transacts ==
    \/ Initialize
    \/ \E r \in Requests : Handle(r) \/ Mutate(r) \/ ReconcileFirst(r) \/ ApplyFirewall(r)
                               \/ Rollback(r) \/ FinishApply(r)
    \/ \E ip \in IPs : WorkerBlocks(ip)
    \/ \E c \in Closers : Close(c)

LEMMA Steps == TypeOK /\ FenceInv /\ [Next]_vars => Outside \/ Transacts
<1> SUFFICES ASSUME TypeOK, FenceInv, [Next]_vars, ~Transacts PROVE Outside
  OBVIOUS
<1>0. /\ None \notin Requests /\ \A r \in Requests, c \in Closers : r # c
      /\ op \in [Requests -> Ops \cup {NoOp}]
  BY Nothing, CallersAssumption, Zenon DEF TypeOK, TypeCalls
<1>1. CASE StartReadsEnabled \/ StartReadsTags \/ StartEnds \/ CoreExits
  BY <1>1 DEF StartReadsEnabled, StartReadsTags, StartEnds, CoreExits, Outside, fenceVars, kernelVars, callVars
<1>2. CASE TablesVanish
  BY <1>2, Zenon DEF TablesVanish, Outside, fenceVars, callVars
<1>3. ASSUME NEW r \in Requests, NEW o \in Ops, Arrive(r, o) PROVE Outside
  BY <1>0, <1>3, Moves DEF Arrive, Outside, fenceVars, kernelVars, InTransaction
<1>4. ASSUME NEW r \in Requests, Acquire(r) PROVE Outside
  <2>1. CASE closing
    <3>1. Return(r) /\ gate = None /\ UNCHANGED <<fenceVars, active, nftVars, kernelVars>>
      BY <1>4, <2>1, Zenon DEF Acquire
    <3>2. \A x \in Requests : pc'[x] \notin UnderGate
      BY <3>1, HolderReturns, Zenon
    <3> QED  BY <3>1, <3>2, Zenon DEF Outside, fenceVars, kernelVars, UnderGate
  <2>2. CASE ~closing
    <3>1. ~closed
      BY <2>2, Zenon DEF FenceInv
    <3> QED  BY <1>0, <1>4, <2>2, <3>1, Moves, Zenon DEF Acquire, Outside, fenceVars, kernelVars, InTransaction
  <2> QED  BY <2>1, <2>2, Zenon
<1>5. ASSUME NEW r \in Requests, GiveUp(r) PROVE Outside
  BY <1>0, <1>5, Moves DEF GiveUp, Outside, fenceVars, kernelVars, InTransaction
<1>6. ASSUME NEW r \in Requests, StopCore(r) PROVE Outside
  BY <1>0, <1>6, Moves DEF StopCore, Outside, fenceVars, kernelVars, InTransaction
<1>7. ASSUME NEW c \in Closers, BeginClose(c) \/ SignalWebhookStop(c) \/ CloseTimesOut(c) PROVE Outside
  BY <1>0, <1>7, Moves DEF BeginClose, SignalWebhookStop, CloseTimesOut, Outside, fenceVars, kernelVars
<1>8. CASE UNCHANGED vars
  BY <1>8, Zenon DEF vars, Outside, fenceVars, kernelVars, callVars
<1> QED  BY <1>1, <1>2, <1>3, <1>4, <1>5, <1>6, <1>7, <1>8, Zenon DEF Next, RequestStep, Transacts

\* What a transaction is about does not change under it.
LEMMA PlanNext == TypeOK /\ FenceInv /\ LeaseInv /\ PlanInv /\ [Next]_vars => PlanInv'
<1> SUFFICES ASSUME TypeOK, FenceInv, LeaseInv, PlanInv, [Next]_vars PROVE PlanInv'
  OBVIOUS
<1>1. CASE Outside
  <2>1. UNCHANGED <<active, healthy>>
    BY <1>1, Zenon DEF Outside, nftVars
  <2> QED  BY <1>1, <2>1, Zenon DEF Outside, PlanInv, Plan
<1>2. CASE \A x \in Requests : pc'[x] \notin UnderGate
  BY <1>2, Zenon DEF PlanInv, UnderGate
<1>3. CASE gate = None /\ UNCHANGED pc
  BY <1>2, <1>3, NobodyInside, Zenon
<1>4. ASSUME NEW r \in Requests, Handle(r) PROVE PlanInv'
  <2>1. gate = r /\ \A x \in Requests : x # r => pc[x] \notin UnderGate
    BY <1>4, Inside, Zenon DEF Handle, UnderGate
  <2>2. CASE Return(r)
    BY <1>2, <2>1, <2>2, HolderReturns, Zenon
  <2>3. CASE /\ txn' = TxnOf(op[r]) /\ Goto(r, IF txn'.first THEN "reconcileFirst" ELSE "apply")
             /\ UNCHANGED <<op, gate, lease>>
    <3>1. op[r] \in Ops /\ op[r].kind \notin Unleased /\ UNCHANGED <<active, healthy, op>>
      BY <1>4, <2>3, Zenon DEF Handle, LeaseInv, nftVars
    <3>2. ~txn'.applied
      BY <2>3, <3>1, Zenon DEF TxnOf, ClearTxn, NoTxn, Ops, Unleased
    <3>3. op[r].kind = "sync" => txn'.next.ready = healthy
      BY <2>3, Zenon DEF TxnOf, NoTxn
    <3>4. Plan(r)'
      <4>1. CASE op[r].kind = "sync"
        <5>1. [source |-> op[r].source, ready |-> healthy] # None
          BY <3>1, <4>1, NoneAssumption, Zenon DEF Ops, TypeOK, TypeKernel
        <5> QED  BY <2>3, <3>1, <4>1, <5>1, Zenon DEF TxnOf, NoTxn, Plan
      <4>2. CASE op[r].kind \in {"clear", "invalid"}
        BY <2>3, <3>1, <4>2, Zenon DEF TxnOf, ClearTxn, NoTxn, Plan
      <4>3. CASE op[r].kind = "recreate"
        BY <2>3, <3>1, <4>3, Zenon DEF TxnOf, NoTxn, Plan
      <4>4. CASE op[r].kind = "reset"
        BY <2>3, <3>1, <4>4, Zenon DEF TxnOf, NoTxn, Plan
      <4> QED  BY <3>1, <4>1, <4>2, <4>3, <4>4, Zenon DEF Ops, Unleased
    <3>5. /\ pc'[r] = IF txn'.first THEN "reconcileFirst" ELSE "apply"
          /\ \A x \in Requests : x # r => pc'[x] \notin InTransaction
      BY <2>1, <2>3, Moves, Zenon DEF UnderGate
    <3> QED  BY <3>1, <3>2, <3>3, <3>4, <3>5, Zenon DEF PlanInv
  <2> QED  BY <1>4, <2>2, <2>3, Zenon DEF Handle
<1>5. ASSUME NEW r \in Requests, ReconcileFirst(r) \/ ApplyFirewall(r) \/ FinishApply(r) PROVE PlanInv'
  <2>1. gate = r /\ \A x \in Requests : x # r => pc[x] \notin UnderGate
    BY <1>5, Inside, Zenon DEF ReconcileFirst, ApplyFirewall, FinishApply, UnderGate, InTransaction
  <2>2. CASE Return(r)
    BY <1>2, <2>1, <2>2, HolderReturns, Zenon
  <2>3. CASE ~Return(r)
    <3>1. /\ pc[r] \in InTransaction /\ UNCHANGED <<op, active>>
          /\ txn' = txn \/ txn' = [txn EXCEPT !.applied = TRUE]
      BY <1>5, <2>3, Zenon DEF ReconcileFirst, ApplyFirewall, FinishApply, Commit, Abort, InTransaction
    <3>2. \/ Goto(r, "applied") \/ Goto(r, "rollback")
          \/ Goto(r, "apply") /\ pc[r] = "reconcileFirst" /\ UNCHANGED <<txn, healthy>>
      BY <1>5, <2>3, Zenon DEF ReconcileFirst, ApplyFirewall, FinishApply, Commit, Abort, nftVars
    <3>3. Plan(r)'
      BY <3>1, Zenon DEF PlanInv, Plan, TypeOK, TypeCalls, Txns
    <3>4. /\ \/ pc'[r] \in {"applied", "rollback"}
             \/ pc'[r] = "apply" /\ pc[r] = "reconcileFirst" /\ UNCHANGED <<txn, healthy>>
          /\ \A x \in Requests : x # r => pc'[x] \notin InTransaction
      BY <2>1, <3>2, Moves, Zenon DEF UnderGate
    <3> QED  BY <3>1, <3>3, <3>4, Zenon DEF PlanInv, InTransaction
  <2> QED  BY <2>2, <2>3, Zenon
<1>6. ASSUME NEW r \in Requests, Mutate(r) \/ Rollback(r) PROVE PlanInv'
  <2>1. gate = r /\ Return(r)
    BY <1>6, Inside, Zenon DEF Mutate, Rollback, UnderGate, InTransaction
  <2> QED  BY <1>2, <2>1, HolderReturns, Zenon
<1>7. CASE Initialize \/ \E ip \in IPs : WorkerBlocks(ip)
  BY <1>3, <1>7, Zenon DEF Initialize, WorkerBlocks, callVars
<1>8. ASSUME NEW c \in Closers, Close(c) PROVE PlanInv'
  <2>1. gate = None /\ \A x \in Requests : pc'[x] = pc[x]
    BY <1>8, Moves, CallersAssumption, Zenon DEF Close
  <2> QED  BY <1>2, <2>1, NobodyInside, Zenon
<1> QED  BY <1>1, <1>4, <1>5, <1>6, <1>7, <1>8, Steps, Zenon DEF Transacts

-----------------------------------------------------------------------------
(* The kernel *)

\* A handler that returns leaves nobody under the gate.
LEMMA TruthReturn ==
    ASSUME TypeOK, FenceInv, NEW r \in Requests, gate = r, Return(r), Describes(active)'
    PROVE  TruthInv'
<1>1. \A x \in Requests : pc'[x] \notin UnderGate
  BY HolderReturns, Zenon
<1> QED  BY <1>1, Zenon DEF TruthInv, UnderGate, InTransaction

\* A degraded snapshot tells the truth about an unhealthy backend.
LEMMA DegradedIsTrue ==
    ASSUME NEW s \in Snapshots \cup {None}, healthy' = FALSE, active' = Degraded(s)
    PROVE  Describes(active)'
<1>1. active' # None => active'.ready = FALSE
  BY Zenon DEF Degraded
<1> QED  BY <1>1, Zenon DEF Describes

\* Blocking and unblocking keep the published snapshot true.
LEMMA MutationKeepsTruth ==
    ASSUME TypeOK, Describes(active), healthy, NEW ip, NEW ok \in BOOLEAN,
           NftBlock(ip, ok) \/ NftUnblock(ip, ok), PublishHealth(active)
    PROVE  Describes(active)'
<1>1. CASE healthy' = FALSE
  BY <1>1, DegradedIsTrue, Zenon DEF PublishHealth, TypeOK
<1>2. CASE healthy'
  <2>1. active' = active
    BY <1>2, Zenon DEF PublishHealth
  <2>2. /\ UNCHANGED tables
        /\ \/ UNCHANGED <<static, unblocked>>
           \/ static' = static \ {ip} /\ unblocked' = unblocked \cup {ip}
    BY <1>2, Zenon DEF NftBlock, NftUnblock, kernelVars
  <2>3. healthy' = healthy
    BY <1>2, Zenon DEF NftBlock, NftUnblock
  <2> QED  BY <2>1, <2>2, <2>3, Zenon DEF Describes
<1>3. healthy' = FALSE \/ healthy'
  BY Zenon DEF NftBlock, NftUnblock, TypeOK, TypeKernel
<1> QED  BY <1>1, <1>2, <1>3, Zenon

\* A transaction enters the firewall with the published snapshot true, and leaves
\* it with the next one true, or returns, or has to roll back.
LEMMA ApplyKeepsTruth ==
    ASSUME TypeOK, FenceInv, PlanInv, TruthInv, NEW r \in Requests, ApplyFirewall(r)
    PROVE  TruthInv'
<1>1. /\ gate = r /\ Describes(active) /\ Plan(r) /\ ~txn.applied
      /\ op[r].kind = "sync" => txn.next.ready = healthy
      /\ healthy => owned /\ capable
  BY Inside, Zenon DEF ApplyFirewall, PlanInv, TruthInv, FenceInv, UnderGate, InTransaction
<1>2. /\ txn.next \in Snapshots \cup {None} /\ txn \in Txns
      /\ active = None \/ active.ready \in BOOLEAN
      /\ healthy \in BOOLEAN
  BY Zenon DEF TypeOK, TypeCalls, TypeKernel, Txns, Snapshots
<1>3. \A x \in Requests : x # r => pc[x] \notin UnderGate
  BY Inside, Zenon DEF ApplyFirewall, UnderGate, InTransaction
<1>4. CASE Return(r) /\ UNCHANGED <<active, nftVars, kernelVars>>
  <2>1. Describes(active)'
    BY <1>1, <1>4, Zenon DEF Describes, nftVars, kernelVars
  <2> QED  BY <1>1, <1>4, <2>1, TruthReturn, Zenon
<1>5. CASE /\ ~MutateFirewall(txn) \/ ~(healthy \/ ResetFirewall(txn))
           /\ Goto(r, "applied")
           /\ UNCHANGED <<active, op, txn, gate, lease, nftVars, kernelVars>>
  <2>1. ~ResetFirewall(txn) /\ op[r].kind = "sync" /\ txn.next # None
    BY <1>1, <1>5, Zenon DEF MutateFirewall, ResetFirewall, Plan
  <2>2. Describes(txn.next)
    BY <1>1, <1>5, <2>1, Zenon DEF MutateFirewall, Describes
  <2>3. Describes(active)' /\ Describes(txn.next)'
    BY <1>1, <1>5, <2>2, Zenon DEF Describes, nftVars, kernelVars
  <2>4. ~ResetFirewall(txn)'
    BY <1>5, <2>1, Zenon DEF ResetFirewall
  <2>5. pc'[r] = "applied" /\ \A x \in Requests : x # r => pc'[x] \notin UnderGate
    BY <1>3, <1>5, Moves, Zenon
  <2> QED  BY <1>1, <1>5, <2>3, <2>4, <2>5, Nothing, Zenon DEF TruthInv, UnderGate, InTransaction
<1>6. ASSUME NEW ok \in BOOLEAN, MutateFirewall(txn), healthy \/ ResetFirewall(txn),
             IF ResetFirewall(txn) THEN NftReset(SnapshotFirewall(txn.next), ok)
             ELSE NftApply(SnapshotFirewall(txn.next), ok),
             \/ /\ ok
                /\ txn' = [txn EXCEPT !.applied = TRUE]
                /\ Goto(r, "applied")
                /\ UNCHANGED <<active, op, gate, lease>>
             \/ /\ ~ok /\ ResetFirewall(txn)
                /\ PublishHealth(IF txn.next # None THEN txn.next ELSE active)
                /\ Return(r)
             \/ /\ ~ok /\ ~ResetFirewall(txn)
                /\ Goto(r, "rollback")
                /\ UNCHANGED <<active, op, txn, gate, lease>>
      PROVE  TruthInv'
  <2>1. CASE ok
    <3>1. /\ txn' = [txn EXCEPT !.applied = TRUE] /\ Goto(r, "applied")
          /\ UNCHANGED <<active, op, gate, lease>>
      BY <1>6, <2>1, Zenon
    <3>2. txn'.next = txn.next /\ txn'.applied /\ txn'.force = txn.force
      BY <1>2, <3>1, Zenon DEF Txns
    <3>3. /\ healthy' = TRUE /\ owned' /\ capable'
          /\ static' = SnapshotFirewall(txn.next) /\ unblocked' = {}
      BY <1>1, <1>6, <2>1, Zenon DEF NftReset, NftApply, UpdateSets
    <3>4. txn.next # None => txn.next.ready = TRUE
      <4>1. CASE op[r].kind = "sync"
        <5>1. healthy = TRUE
          BY <1>1, <1>2, <1>6, <4>1, Nothing, Zenon DEF Plan, ResetFirewall, EffectiveTorrentEnabled, Describes
        <5> QED  BY <1>1, <4>1, <5>1, Zenon
      <4>2. CASE op[r].kind # "sync"
        BY <1>1, <4>2 DEF Plan, Recreated
      <4> QED  BY <4>1, <4>2, Zenon
    <3>5. Describes(txn.next)'
      BY <3>2, <3>3, <3>4, Zenon DEF Describes
    <3>6. ResetFirewall(txn)' \/ active' = None \/ active'.ready
      BY <1>1, <1>6, <3>1, <3>2, Zenon DEF ResetFirewall, Describes
    <3>7. pc'[r] = "applied" /\ \A x \in Requests : x # r => pc'[x] \notin UnderGate
      BY <1>3, <3>1, Moves, Zenon
    <3> QED  BY <1>1, <3>1, <3>2, <3>3, <3>5, <3>6, <3>7, Nothing, Zenon DEF TruthInv, UnderGate, InTransaction
  <2>2. CASE ~ok /\ ResetFirewall(txn)
    <3>1. healthy' = FALSE
      BY <1>1, <1>2, <1>6, <2>2, Zenon DEF NftReset, nftVars
    <3>2. active' = Degraded(IF txn.next # None THEN txn.next ELSE active) /\ Return(r)
      BY <1>6, <2>2, <3>1, Zenon DEF PublishHealth
    <3>3. Describes(active)'
      BY <1>2, <3>1, <3>2, DegradedIsTrue, Zenon DEF TypeOK
    <3> QED  BY <1>1, <3>2, <3>3, TruthReturn, Zenon
  <2>3. CASE ~ok /\ ~ResetFirewall(txn)
    <3>1. owned' /\ capable' /\ (active' = None \/ active'.ready)
      BY <1>1, <1>2, <1>6, <2>3, Zenon DEF NftApply, Describes
    <3>2. pc'[r] = "rollback" /\ (\A x \in Requests : x # r => pc'[x] \notin UnderGate) /\ gate' = gate
      BY <1>3, <1>6, <2>3, Moves, Zenon
    <3> QED  BY <1>1, <3>1, <3>2, Nothing, Zenon DEF TruthInv, UnderGate, InTransaction
  <2> QED  BY <1>6, <2>1, <2>2, <2>3, Zenon
<1> QED  BY <1>4, <1>5, <1>6, Zenon DEF ApplyFirewall

\* Committing, or aborting, what was applied.
LEMMA FinishKeepsTruth ==
    ASSUME TypeOK, FenceInv, PlanInv, TruthInv, NEW r \in Requests, FinishApply(r)
    PROVE  TruthInv'
<1>1. /\ gate = r /\ Describes(txn.next) /\ Plan(r)
      /\ ~txn.applied => Describes(active)
      /\ txn.applied => owned /\ capable /\ (ResetFirewall(txn) \/ active = None \/ active.ready)
  BY Inside, Zenon DEF FinishApply, PlanInv, TruthInv, UnderGate, InTransaction
<1>2. UNCHANGED <<healthy, owned, capable, tables, static, unblocked>>
  BY Zenon DEF FinishApply, nftVars, kernelVars
<1>3. \A x \in Requests : x # r => pc[x] \notin UnderGate
  BY Inside, Zenon DEF FinishApply, UnderGate, InTransaction
<1>4. CASE Commit(r)
  <2>1. Describes(active)'
    BY <1>1, <1>2, <1>4, Zenon DEF Commit, Describes
  <2> QED  BY <1>1, <1>4, <2>1, TruthReturn, Zenon DEF Commit
<1>5. CASE Abort(r) /\ ~(txn.applied /\ ResetFirewall(txn))
  <2>1. CASE txn.applied
    <3>1. UNCHANGED <<active, gate>> /\ Goto(r, "rollback")
      BY <1>5, <2>1, Zenon DEF Abort
    <3>2. pc'[r] = "rollback" /\ \A x \in Requests : x # r => pc'[x] \notin UnderGate
      BY <1>3, <3>1, Moves, Zenon
    <3> QED  BY <1>1, <1>2, <1>5, <2>1, <3>1, <3>2, Nothing, Zenon DEF TruthInv, UnderGate, InTransaction
  <2>2. CASE ~txn.applied
    <3>1. UNCHANGED active /\ Return(r)
      BY <1>5, <2>2, Zenon DEF Abort
    <3>2. Describes(active)'
      BY <1>1, <1>2, <2>2, <3>1, Zenon DEF Describes
    <3> QED  BY <1>1, <3>1, <3>2, TruthReturn, Zenon
  <2> QED  BY <2>1, <2>2, Zenon
<1>6. ~txn.first /\ txn.reconcile # "none" => ~ResetFirewall(txn)
  BY <1>1, Zenon DEF Plan, ResetFirewall
<1> QED  BY <1>4, <1>5, <1>6, Zenon DEF FinishApply

\* Which snapshot the kernel agrees with.
LEMMA TruthNext == TypeOK /\ FenceInv /\ PlanInv /\ TruthInv /\ [Next]_vars => TruthInv'
<1> SUFFICES ASSUME TypeOK, FenceInv, PlanInv, TruthInv, [Next]_vars PROVE TruthInv'
  OBVIOUS
<1>1. CASE Outside
  <2>1. UNCHANGED <<active, closed, healthy, owned, capable>>
    BY <1>1, Zenon DEF Outside, nftVars
  <2>2. Describes(active) => Describes(active)'
    BY <1>1, <2>1, Zenon DEF Describes, Outside
  <2>3. txn' = txn => (Describes(txn.next) => Describes(txn.next)')
    BY <1>1, <2>1, Zenon DEF Describes, Outside
  <2>4. txn' = txn => ResetFirewall(txn)' = ResetFirewall(txn)
    BY <2>1, Zenon DEF ResetFirewall
  <2>5. gate' = None /\ ~closed' => Describes(active)'
    BY <1>1, <2>1, <2>2 DEF TruthInv, Outside
  <2>6. ASSUME NEW x \in Requests, pc'[x] \in {"admitted", "reconcileFirst", "apply"} PROVE Describes(active)'
    BY <1>1, <2>2, <2>6, Zenon DEF TruthInv, Outside, InTransaction
  <2>7. ASSUME NEW x \in Requests, pc'[x] \in {"applied", "rollback"} PROVE pc[x] = pc'[x] /\ txn' = txn
    BY <1>1, <2>7, Zenon DEF Outside, InTransaction
  <2>8. ASSUME NEW x \in Requests, pc'[x] = "applied"
        PROVE  /\ Describes(txn.next)'
               /\ ~txn'.applied => Describes(active)' /\ ~ResetFirewall(txn)'
               /\ txn'.applied => owned' /\ capable' /\ (ResetFirewall(txn)' \/ active' = None \/ active'.ready)
    BY <2>1, <2>2, <2>3, <2>4, <2>7, <2>8, Zenon DEF TruthInv
  <2>9. ASSUME NEW x \in Requests, pc'[x] = "rollback"
        PROVE  owned' /\ capable' /\ (active' = None \/ active'.ready)
    BY <2>1, <2>7, <2>9, Zenon DEF TruthInv
  <2> QED  BY <2>5, <2>6, <2>8, <2>9, Zenon DEF TruthInv
<1>2. CASE Initialize
  <2>1. Describes(active)'
    BY <1>2, Zenon DEF Initialize, NftReset, SnapshotFirewall, FenceInv, Describes, nftVars
  <2>2. \A x \in Requests : pc'[x] \notin UnderGate
    BY <1>2, NobodyInside, Zenon DEF Initialize, callVars
  <2> QED  BY <2>1, <2>2, Zenon DEF TruthInv, UnderGate, InTransaction
<1>3. ASSUME NEW r \in Requests, Handle(r) PROVE TruthInv'
  <2>1. gate = r /\ Describes(active) /\ \A x \in Requests : x # r => pc[x] \notin UnderGate
    BY <1>3, Inside, Zenon DEF Handle, TruthInv, UnderGate
  <2>2. Describes(active)'
    BY <1>3, <2>1, Zenon DEF Handle, Describes, nftVars, kernelVars
  <2>3. CASE Return(r)
    BY <2>1, <2>2, <2>3, TruthReturn, Zenon
  <2>4. CASE ~Return(r)
    <3>1. /\ pc'[r] \in {"reconcileFirst", "apply"} /\ gate' = r
          /\ \A x \in Requests : x # r => pc'[x] \notin UnderGate
      BY <1>3, <2>1, <2>4, Moves, Zenon DEF Handle
    <3> QED  BY <2>2, <3>1, Nothing, Zenon DEF TruthInv, UnderGate, InTransaction
  <2> QED  BY <2>3, <2>4, Zenon
<1>4. ASSUME NEW r \in Requests, Mutate(r) PROVE TruthInv'
  <2>1. gate = r /\ Describes(active)
    BY <1>4, Inside, Zenon DEF Mutate, TruthInv, UnderGate
  <2>2. Describes(active)'
    <3>1. CASE Ready /\ healthy
      BY <1>4, <2>1, <3>1, MutationKeepsTruth, Zenon DEF Mutate
    <3>2. CASE ~(Ready /\ healthy)
      BY <1>4, <2>1, <3>2, Zenon DEF Mutate, Describes, nftVars, kernelVars
    <3> QED  BY <3>1, <3>2, Zenon
  <2> QED  BY <1>4, <2>1, <2>2, TruthReturn, Zenon DEF Mutate
<1>5. ASSUME NEW r \in Requests, ReconcileFirst(r) PROVE TruthInv'
  <2>1. gate = r /\ Describes(active) /\ \A x \in Requests : x # r => pc[x] \notin UnderGate
    BY <1>5, Inside, Zenon DEF ReconcileFirst, TruthInv, UnderGate, InTransaction
  <2>2. Describes(active)'
    BY <1>5, <2>1, Zenon DEF ReconcileFirst, Describes, nftVars, kernelVars
  <2>3. CASE Return(r)
    BY <2>1, <2>2, <2>3, TruthReturn, Zenon
  <2>4. CASE ~Return(r)
    <3>1. /\ pc'[r] = "apply" /\ gate' = r
          /\ \A x \in Requests : x # r => pc'[x] \notin UnderGate
      BY <1>5, <2>1, <2>4, Moves, Zenon DEF ReconcileFirst
    <3> QED  BY <2>2, <3>1, Nothing, Zenon DEF TruthInv, UnderGate, InTransaction
  <2> QED  BY <2>3, <2>4, Zenon
<1>6. ASSUME NEW r \in Requests, Rollback(r) PROVE TruthInv'
  <2>1. /\ gate = r /\ owned /\ capable /\ (active = None \/ active.ready)
        /\ active = None \/ active.ready \in BOOLEAN
    BY <1>6, Inside, Zenon DEF Rollback, TruthInv, UnderGate, InTransaction, TypeOK, Snapshots
  <2>2. Describes(active)'
    <3>1. PICK ok \in BOOLEAN : NftApply(SnapshotFirewall(active), ok)
      BY <1>6, Zenon DEF Rollback
    <3>2. CASE ok
      <4>1. healthy' = TRUE /\ static' = SnapshotFirewall(active) /\ unblocked' = {} /\ active' = active
        BY <1>6, <2>1, <3>1, <3>2, Zenon DEF NftApply, UpdateSets, Rollback, PublishHealth
      <4> QED  BY <2>1, <4>1, Zenon DEF Describes
    <3>3. CASE ~ok
      <4>1. healthy' = FALSE /\ active' = Degraded(active)
        BY <1>6, <2>1, <3>1, <3>3, Zenon DEF NftApply, Rollback, PublishHealth
      <4> QED  BY <4>1, DegradedIsTrue, Zenon DEF TypeOK
    <3> QED  BY <3>2, <3>3, Zenon
  <2> QED  BY <1>6, <2>1, <2>2, TruthReturn, Zenon DEF Rollback
<1>7. ASSUME NEW ip \in IPs, WorkerBlocks(ip) PROVE TruthInv'
  <2>1. Describes(active)'
    BY <1>7, MutationKeepsTruth, Zenon DEF WorkerBlocks, Ready, TruthInv
  <2>2. \A x \in Requests : pc'[x] \notin UnderGate
    BY <1>7, NobodyInside, Zenon DEF WorkerBlocks, callVars
  <2> QED  BY <2>1, <2>2, Zenon DEF TruthInv, UnderGate, InTransaction
<1>8. ASSUME NEW c \in Closers, Close(c) PROVE TruthInv'
  <2>1. \A x \in Requests : pc'[x] \notin UnderGate
    BY <1>8, NobodyInside, Moves, CallersAssumption, Zenon DEF Close
  <2>2. closed'
    BY <1>8, Zenon DEF Close, FenceInv
  <2> QED  BY <2>1, <2>2, Zenon DEF TruthInv, UnderGate, InTransaction
<1> QED
  BY <1>1, <1>2, <1>3, <1>4, <1>5, <1>6, <1>7, <1>8, Steps, ApplyKeepsTruth, FinishKeepsTruth, Zenon DEF Transacts

-----------------------------------------------------------------------------
(* The core *)

\* No call makes the core disagree with a snapshot it agreed with.
LEMMA CalledCore ==
    ASSUME TypeOK, NEW call, NEW ok, RunCoreCall(call, ok), CoreAgrees(active), UNCHANGED active
    PROVE  CoreAgrees(active)'
<1>1. \/ UNCHANGED <<coreOnline, core>>
      \/ coreOnline' = FALSE
      \/ coreOnline' = coreOnline /\ core' = [core EXCEPT !.blocker = "removed"]
  BY Zenon DEF RunCoreCall, coreVars
<1> QED  BY <1>1, Zenon DEF CoreAgrees, TypeOK, TypeCore

\* The call a transaction chooses makes the core agree with the next snapshot, and
\* takes the blocker out of a core whose snapshot gives it up.
LEMMA ReconciledCore ==
    ASSUME TypeOK, CoreAgrees(active), NEW r, Plan(r), RunCoreCall(CoreCall(txn), TRUE), op[r].kind # "reset"
    PROVE  /\ coreOnline' /\ EffectiveTorrentEnabled(txn.next) =>
                  core'.blocker # "none" /\ core'.tags = txn.next.source.tags
           /\ coreOnline' /\ EffectiveTorrentEnabled(active) /\ ~EffectiveTorrentEnabled(txn.next) =>
                  core'.blocker # "installed"
<1>1. CASE txn.reconcile = "stop"
  BY <1>1, Zenon DEF RunCoreCall, CoreCall
<1>2. CASE txn.reconcile = "torrent"
  <2>1. RunCoreCall(TorrentCall(active, txn.next), TRUE)
    BY <1>2, Zenon DEF CoreCall
  <2>2. CASE TorrentCall(active, txn.next) = "none"
    BY <2>1, <2>2, SnapshotTypes DEF TorrentCall, RunCoreCall, CoreAgrees, coreVars, TypeOK, TypeCalls, Txns
  <2>3. CASE TorrentCall(active, txn.next) = "stop"
    BY <2>1, <2>3, Zenon DEF RunCoreCall
  <2>4. CASE TorrentCall(active, txn.next) = "remove"
    <3>1. ~EffectiveTorrentEnabled(txn.next)
      BY <2>4, Zenon DEF TorrentCall
    <3>2. coreOnline' => core'.blocker # "installed"
      BY <2>1, <2>4, Zenon DEF RunCoreCall, TypeOK, TypeCore
    <3> QED  BY <3>1, <3>2, Zenon
  <2> QED  BY <2>2, <2>3, <2>4, Zenon DEF TorrentCall
<1> QED  BY <1>1, <1>2, Zenon DEF Plan

\* A step that leaves the core, the start and the transactions alone, and
\* publishes nothing new that is effective.
LEMMA CoreFrame ==
    ASSUME CoreInv, UNCHANGED <<coreOnline, core>>,
           EffectiveTorrentEnabled(active)' => active' = active,
           lease' = Start => lease = Start /\ startRead' = startRead,
           \A r \in Requests : pc'[r] \in {"apply", "applied"} =>
               pc[r] \in {"apply", "applied"} /\ txn'.next = txn.next /\ txn'.first = txn.first /\ active' = active
    PROVE  CoreInv'
<1>1. CoreAgrees(active)'
  BY Zenon DEF CoreInv, CoreAgrees
<1>2. lease' = Start /\ EffectiveTorrentEnabled(active)' =>
        /\ startRead'.blocker = "installed"
        /\ startRead'.tags # None => startRead'.tags = active'.source.tags
  BY Zenon DEF CoreInv
<1>3. \A r \in Requests : pc'[r] \in {"apply", "applied"} /\ txn'.first =>
        /\ CoreAgrees(txn.next)'
        /\ coreOnline' /\ EffectiveTorrentEnabled(active)' /\ ~EffectiveTorrentEnabled(txn.next)' =>
               core'.blocker # "installed"
  BY Zenon DEF CoreInv, CoreAgrees, EffectiveTorrentEnabled
<1> QED  BY <1>1, <1>2, <1>3, Zenon DEF CoreInv

\* A degraded snapshot blocks nobody, so losing health asks nothing of the core.
LEMMA HealthFrame ==
    ASSUME NEW desired, PublishHealth(desired), EffectiveTorrentEnabled(active)'
    PROVE  active' = active
BY Zenon DEF PublishHealth, EffectiveTorrentEnabled, Degraded

LEMMA CoreReconcileFirst ==
    ASSUME TypeOK, FenceInv, PlanInv, CoreInv, NEW r \in Requests, ReconcileFirst(r)
    PROVE  CoreInv'
<1>1. /\ gate = r /\ Plan(r) /\ txn.first /\ op[r].kind # "reset"
      /\ \A x \in Requests : x # r => pc[x] \notin UnderGate
  BY Inside, Zenon DEF ReconcileFirst, PlanInv, UnderGate, InTransaction, Plan
<1>2. /\ UNCHANGED <<active, startRead>> /\ CoreAgrees(active)
      /\ lease' = Start => lease = Start
  BY Nothing, CallersAssumption, Zenon DEF ReconcileFirst, CoreInv, Return
<1>3. \A x \in Requests : x # r => pc'[x] \notin {"apply", "applied"}
  BY <1>1, Moves, Returns DEF ReconcileFirst, UnderGate, InTransaction
<1>4. CoreAgrees(active)'
  <2>1. UNCHANGED coreVars \/ \E ok \in BOOLEAN : RunCoreCall(CoreCall(txn), ok)
    BY Zenon DEF ReconcileFirst
  <2>2. CASE UNCHANGED coreVars
    BY <1>2, <2>2, Zenon DEF CoreAgrees, coreVars
  <2> QED  BY <1>2, <2>1, <2>2, CalledCore, Zenon
<1>5. pc'[r] \in {"apply", "applied"} => RunCoreCall(CoreCall(txn), TRUE) /\ UNCHANGED txn
  BY Moves, Returns, Zenon DEF ReconcileFirst
<1>6. pc'[r] \in {"apply", "applied"} =>
        /\ CoreAgrees(txn.next)'
        /\ coreOnline' /\ EffectiveTorrentEnabled(active)' /\ ~EffectiveTorrentEnabled(txn.next)' =>
               core'.blocker # "installed"
  <2> SUFFICES ASSUME pc'[r] \in {"apply", "applied"}
               PROVE  /\ CoreAgrees(txn.next)'
                      /\ coreOnline' /\ EffectiveTorrentEnabled(active)' /\ ~EffectiveTorrentEnabled(txn.next)' =>
                             core'.blocker # "installed"
    OBVIOUS
  <2>1. /\ coreOnline' /\ EffectiveTorrentEnabled(txn.next) =>
               core'.blocker # "none" /\ core'.tags = txn.next.source.tags
        /\ coreOnline' /\ EffectiveTorrentEnabled(active) /\ ~EffectiveTorrentEnabled(txn.next) =>
               core'.blocker # "installed"
    BY <1>1, <1>2, <1>5, ReconciledCore, Zenon
  <2> QED  BY <1>2, <1>5, <2>1, Zenon DEF CoreAgrees, EffectiveTorrentEnabled
<1> QED  BY <1>2, <1>3, <1>4, <1>6, Zenon DEF CoreInv, EffectiveTorrentEnabled

LEMMA CoreApply ==
    ASSUME TypeOK, FenceInv, CoreInv, NEW r \in Requests, ApplyFirewall(r)
    PROVE  CoreInv'
<1>1. gate = r /\ \A x \in Requests : x # r => pc[x] \notin UnderGate
  BY Inside, Zenon DEF ApplyFirewall, UnderGate, InTransaction
<1>2. UNCHANGED <<coreOnline, core, startRead>> /\ pc[r] = "apply"
  BY Zenon DEF ApplyFirewall, coreVars
<1>3. CASE Return(r)
  <2>1. \A x \in Requests : pc'[x] \notin {"apply", "applied"}
    BY <1>1, <1>3, Returns, Zenon DEF UnderGate, InTransaction
  <2>2. EffectiveTorrentEnabled(active)' => active' = active
    <3>1. UNCHANGED active \/ \E desired : PublishHealth(desired)
      BY <1>3, Zenon DEF ApplyFirewall
    <3> QED  BY <3>1, HealthFrame, Zenon
  <2>3. lease' = Start => lease = Start
    BY <1>3, Nothing, CallersAssumption, Zenon DEF Return
  <2> QED  BY <1>2, <2>1, <2>2, <2>3, CoreFrame, Zenon
<1>4. CASE ~Return(r)
  <2>1. /\ \A x \in Requests : x # r => pc'[x] = pc[x]
        /\ UNCHANGED <<active, lease>> /\ txn'.next = txn.next /\ txn'.first = txn.first
    BY <1>4, Moves, Zenon DEF ApplyFirewall, TypeOK, TypeCalls, Txns
  <2> QED  BY <1>2, <2>1, CoreFrame, Zenon
<1> QED  BY <1>3, <1>4, Zenon

LEMMA CoreFinish ==
    ASSUME TypeOK, FenceInv, LeaseInv, PlanInv, CoreInv, NEW r \in Requests, FinishApply(r)
    PROVE  CoreInv'
<1>1. /\ gate = r /\ Plan(r) /\ CoreAgrees(active) /\ pc[r] = "applied"
      /\ \A x \in Requests : x # r => pc[x] \notin UnderGate
  BY Inside, Zenon DEF FinishApply, PlanInv, CoreInv, UnderGate, InTransaction
<1>2. lease = r /\ UNCHANGED startRead
  BY <1>1, Zenon DEF FinishApply, LeaseInv, Plan, Unleased
<1>3. lease' # Start /\ \A x \in Requests : pc'[x] \notin {"apply", "applied"}
  <2>1. Return(r) \/ (Goto(r, "rollback") /\ UNCHANGED lease)
    BY Zenon DEF FinishApply, Commit, Abort
  <2>2. CASE Return(r)
    BY <1>1, <1>2, <2>2, Returns, Nothing, CallersAssumption, Zenon DEF Return, UnderGate, InTransaction
  <2>3. CASE Goto(r, "rollback") /\ UNCHANGED lease
    BY <1>1, <1>2, <2>3, Moves, CallersAssumption DEF UnderGate, InTransaction
  <2> QED  BY <2>1, <2>2, <2>3, Zenon
<1>4. SUFFICES CoreAgrees(active)'
  BY <1>3, Zenon DEF CoreInv
<1>5. CASE UNCHANGED coreVars /\ Commit(r) /\ (txn.first \/ ResetFirewall(txn) \/ txn.reconcile = "none")
  <2>1. active' = txn.next /\ UNCHANGED <<coreOnline, core>>
    BY <1>5, Zenon DEF Commit, coreVars
  <2>2. txn.first \/ txn.next = None
    BY <1>1, <1>5, Zenon DEF Plan, ResetFirewall
  <2>3. CASE txn.first
    BY <1>1, <2>1, <2>3, Zenon DEF CoreInv, CoreAgrees
  <2>4. CASE txn.next = None
    BY <2>1, <2>4, Zenon DEF CoreAgrees, EffectiveTorrentEnabled
  <2> QED  BY <2>2, <2>3, <2>4, Zenon
<1>6. CASE UNCHANGED coreVars /\ Abort(r)
  BY <1>1, <1>6, Zenon DEF Abort, coreVars, CoreAgrees
<1>7. ASSUME ~txn.first, txn.reconcile # "none", NEW ok \in BOOLEAN,
             RunCoreCall(CoreCall(txn), ok), IF ok THEN Commit(r) ELSE Abort(r)
      PROVE  CoreAgrees(active)'
  <2>1. CASE ok
    <3>1. RunCoreCall(CoreCall(txn), TRUE) /\ active' = txn.next /\ op[r].kind # "reset"
      BY <1>1, <1>7, <2>1, Zenon DEF Commit, Plan
    <3> QED  BY <1>1, <3>1, ReconciledCore, Zenon DEF CoreAgrees
  <2>2. CASE ~ok
    BY <1>1, <1>7, <2>2, CalledCore, Zenon DEF Abort
  <2> QED  BY <2>1, <2>2, Zenon
<1> QED  BY <1>5, <1>6, <1>7, Zenon DEF FinishApply

\* The core agrees with the published snapshot.
LEMMA CoreNext == TypeOK /\ FenceInv /\ LeaseInv /\ PlanInv /\ CoreInv /\ [Next]_vars => CoreInv'
<1> SUFFICES ASSUME TypeOK, FenceInv, LeaseInv, PlanInv, CoreInv, [Next]_vars PROVE CoreInv'
  OBVIOUS
<1>0. /\ \A r \in Requests : r # Start /\ r # None
      /\ \A c \in Closers : c # Start
      /\ \A r \in Requests, c \in Closers : r # c
      /\ None # Start
  BY Nothing, CallersAssumption, Zenon
<1>1. CASE Initialize
  BY <1>1, CoreFrame, Zenon DEF Initialize, coreVars, callVars
<1>2. CASE StartReadsEnabled
  BY <1>2, Zenon DEF StartReadsEnabled, NoRead, CoreInv, CoreAgrees, fenceVars, nftVars, kernelVars, coreVars, callVars
<1>3. CASE StartReadsTags
  <2>1. EffectiveTorrentEnabled(active) => active.source.tags \in BOOLEAN
    BY SourcesAssumption, Zenon DEF EffectiveTorrentEnabled, Snapshots, TypeOK
  <2>2. /\ startRead'.blocker = startRead.blocker
        /\ startRead'.tags = (EffectiveTorrentEnabled(active) /\ active.source.tags)
    BY <1>3, Zenon DEF StartReadsTags, TypeOK, TypeCore
  <2>3. EffectiveTorrentEnabled(active) => startRead'.tags = active.source.tags
    BY <2>1, <2>2, Zenon
  <2>4. lease = Start /\ UNCHANGED <<active, coreOnline, core, lease, pc, txn>>
    BY <1>3, Zenon DEF StartReadsTags, fenceVars, coreVars, callVars
  <2> QED  BY <2>2, <2>3, <2>4, Zenon DEF CoreInv, CoreAgrees
<1>4. CASE StartEnds
  <2>1. UNCHANGED <<active, pc, txn>> /\ lease = Start /\ lease' = None
    BY <1>4, Zenon DEF StartEnds, callVars
  <2>2. CoreAgrees(active)'
    <3>1. CASE coreOnline' = TRUE /\ core' = startRead
      BY <1>4, <2>1, <3>1, Zenon DEF StartEnds, CoreInv, CoreAgrees
    <3>2. CASE coreOnline' = FALSE \/ UNCHANGED coreVars
      BY <2>1, <3>2, Zenon DEF CoreInv, CoreAgrees, coreVars
    <3> QED  BY <1>4, <3>1, <3>2, Zenon DEF StartEnds
  <2>3. \A r \in Requests : pc[r] \notin {"apply", "applied"}
    BY <1>0, <2>1, Zenon DEF LeaseInv, PlanInv, Plan, Unleased, InTransaction
  <2> QED  BY <1>0, <2>1, <2>2, <2>3, Zenon DEF CoreInv
<1>5. CASE CoreExits
  <2>1. coreOnline' = FALSE /\ UNCHANGED <<active, lease, startRead>>
    BY <1>5, Zenon DEF CoreExits, fenceVars
  <2> QED  BY <2>1, Zenon DEF CoreInv, CoreAgrees
<1>6. CASE TablesVanish
  BY <1>6, CoreFrame, Zenon DEF TablesVanish, fenceVars, coreVars, callVars
<1>7. ASSUME NEW r \in Requests, NEW o \in Ops, Arrive(r, o) PROVE CoreInv'
  BY <1>0, <1>7, CoreFrame, Moves DEF Arrive, coreVars
<1>8. ASSUME NEW r \in Requests, Acquire(r) PROVE CoreInv'
  <2>1. /\ UNCHANGED <<coreOnline, core, active, startRead>> /\ (lease' = Start => lease = Start)
    BY <1>0, <1>8, Zenon DEF Acquire, coreVars, Return
  <2>2. \A x \in Requests : pc'[x] \notin {"apply", "applied"}
    <3>1. \A x \in Requests : pc[x] \notin UnderGate
      BY <1>8, NobodyInside, Zenon DEF Acquire
    <3> QED  BY <1>8, <3>1, Moves, Returns DEF Acquire, UnderGate, InTransaction
  <2> QED  BY <2>1, <2>2, CoreFrame, Zenon
<1>9. ASSUME NEW r \in Requests, GiveUp(r) PROVE CoreInv'
  BY <1>0, <1>9, CoreFrame, Moves, Zenon DEF GiveUp, coreVars
<1>10. ASSUME NEW r \in Requests, StopCore(r) PROVE CoreInv'
  <2>1. coreOnline' = FALSE \/ UNCHANGED <<coreOnline, core>>
    BY <1>10, Zenon DEF StopCore, RunCoreCall, coreVars
  <2>2. /\ UNCHANGED <<active, startRead, txn>> /\ (lease' = Start => lease = Start)
        /\ \A x \in Requests : pc'[x] \in {"apply", "applied"} => pc[x] \in {"apply", "applied"}
    BY <1>0, <1>10, Moves DEF StopCore
  <2>3. CASE coreOnline' = FALSE
    BY <2>2, <2>3, Zenon DEF CoreInv, CoreAgrees
  <2> QED  BY <2>1, <2>2, <2>3, CoreFrame, Zenon
<1>11. ASSUME NEW r \in Requests, Handle(r) PROVE CoreInv'
  <2>1. /\ UNCHANGED <<coreOnline, core, active, startRead>> /\ (lease' = Start => lease = Start)
        /\ \A x \in Requests : x # r => pc[x] \notin UnderGate
    BY <1>0, <1>11, Inside, Zenon DEF Handle, coreVars, Return, UnderGate
  <2>2. \A x \in Requests : pc'[x] \in {"apply", "applied"} => x = r /\ ~txn'.first
    BY <1>11, <2>1, Moves, Returns, Zenon DEF Handle, UnderGate, InTransaction
  <2> QED  BY <2>1, <2>2, Zenon DEF CoreInv, CoreAgrees
<1>12. ASSUME NEW r \in Requests, Mutate(r) PROVE CoreInv'
  <2>1. UNCHANGED <<coreOnline, core, startRead>> /\ (lease' = Start => lease = Start)
    BY <1>0, <1>12, Zenon DEF Mutate, coreVars, Return
  <2>2. \A x \in Requests : pc'[x] \notin {"apply", "applied"}
    BY <1>12, Inside, Returns, Zenon DEF Mutate, UnderGate, InTransaction
  <2>3. EffectiveTorrentEnabled(active)' => active' = active
    <3>1. UNCHANGED active \/ PublishHealth(active)
      BY <1>12, Zenon DEF Mutate
    <3> QED  BY <3>1, HealthFrame, Zenon
  <2> QED  BY <2>1, <2>2, <2>3, CoreFrame, Zenon
<1>13. ASSUME NEW r \in Requests, Rollback(r) PROVE CoreInv'
  <2>1. UNCHANGED <<coreOnline, core, startRead>> /\ (lease' = Start => lease = Start)
    BY <1>0, <1>13, Zenon DEF Rollback, coreVars, Return
  <2>2. \A x \in Requests : pc'[x] \notin {"apply", "applied"}
    BY <1>13, Inside, Returns, Zenon DEF Rollback, UnderGate, InTransaction
  <2>3. EffectiveTorrentEnabled(active)' => active' = active
    <3>1. UNCHANGED active \/ PublishHealth(active)
      BY <1>13, Zenon DEF Rollback
    <3> QED  BY <3>1, HealthFrame, Zenon
  <2> QED  BY <2>1, <2>2, <2>3, CoreFrame, Zenon
<1>14. ASSUME NEW ip \in IPs, WorkerBlocks(ip) PROVE CoreInv'
  <2>1. EffectiveTorrentEnabled(active)' => active' = active
    <3>1. UNCHANGED active \/ PublishHealth(active)
      BY <1>14, Zenon DEF WorkerBlocks
    <3> QED  BY <3>1, HealthFrame, Zenon
  <2>2. \A x \in Requests : pc'[x] \notin {"apply", "applied"}
    BY <1>14, NobodyInside, Zenon DEF WorkerBlocks, callVars, UnderGate, InTransaction
  <2> QED  BY <1>14, <2>1, <2>2, CoreFrame, Zenon DEF WorkerBlocks, coreVars, callVars
<1>15. ASSUME NEW c \in Closers, BeginClose(c) \/ SignalWebhookStop(c) \/ CloseTimesOut(c) PROVE CoreInv'
  BY <1>0, <1>15, CoreFrame, Moves, Zenon DEF BeginClose, SignalWebhookStop, CloseTimesOut, coreVars
<1>16. ASSUME NEW c \in Closers, Close(c) PROVE CoreInv'
  <2>1. active' \in {active, None}
    BY <1>16, Zenon DEF Close
  <2>2. \A x \in Requests : pc'[x] \notin {"apply", "applied"}
    BY <1>0, <1>16, NobodyInside, Moves, Zenon DEF Close, UnderGate, InTransaction
  <2>3. EffectiveTorrentEnabled(active)' => active' = active
    BY <2>1, Zenon DEF EffectiveTorrentEnabled
  <2> QED  BY <1>16, <2>2, <2>3, CoreFrame, Zenon DEF Close, coreVars
<1>17. CASE UNCHANGED vars
  BY <1>17, CoreFrame, Zenon DEF vars, fenceVars, coreVars, callVars
<1> QED
  BY <1>1, <1>2, <1>3, <1>4, <1>5, <1>6, <1>7, <1>8, <1>9, <1>10, <1>11, <1>12, <1>13, <1>14, <1>15,
     <1>16, <1>17, CoreReconcileFirst, CoreApply, CoreFinish, Zenon DEF Next, RequestStep

-----------------------------------------------------------------------------
(* The theorems *)

LEMMA PluginInit == Init => PluginInv
<1> SUFFICES ASSUME Init PROVE PluginInv
  OBVIOUS
<1>1. TypeOK
  <2>1. TypeFences /\ TypeKernel /\ active \in Snapshots \cup {None}
    BY Zenon DEF Init, TypeFences, TypeKernel
  <2>2. TypeCore
    BY Nothing, Zenon DEF Init, TypeCore, NoCore, NoRead
  <2>3. TypeCalls
    BY Nothing, Zenon DEF Init, TypeCalls, RequestPcs, ClosePcs
  <2> QED  BY <2>1, <2>2, <2>3, Zenon DEF TypeOK
<1>2. TablesAreOwned /\ ClosedIsClean /\ FenceInv /\ LeaseInv /\ PlanInv
  BY Nothing, CallersAssumption, Zenon
     DEF Init, TablesAreOwned, ClosedIsClean, FenceInv, LeaseInv, PlanInv, UnderGate, InTransaction
<1>3. TruthInv
  BY Zenon DEF Init, TruthInv, Describes
<1>4. CoreInv
  BY Nothing, Zenon DEF Init, CoreInv, CoreAgrees
<1> QED  BY <1>1, <1>2, <1>3, <1>4, Zenon DEF PluginInv

\* PluginInv holds in every state: at each place of each handler it says which
\* snapshot the kernel and the core agree with, whatever fails, is cancelled or
\* happens meanwhile.
THEOREM PluginInvariant == Spec => []PluginInv
<1>1. PluginInv /\ [Next]_vars => PluginInv'
  BY TypeNext, FenceNext, LeaseNext, PlanNext, TruthNext, CoreNext, Zenon DEF PluginInv
<1> QED  BY PluginInit, <1>1, PTL DEF Spec

\* Between operations the published snapshot is what the kernel filters and what
\* a running core blocks (service.go: publish, degrade, roll back, reconcile).
THEOREM SnapshotIsHeld == Spec => []SnapshotHolds
<1>1. PluginInv => SnapshotHolds
  BY Zenon DEF PluginInv, TruthInv, CoreInv, SnapshotHolds, SnapshotIsTruth, BlockerIsInstalled, Describes, CoreAgrees
<1> QED  BY <1>1, PluginInvariant, PTL

\* Before a transaction writes the rules, the core that could still need the old
\* ones has been stopped, or told.
LEMMA ReconciledFirst ==
    ASSUME TypeOK, LeaseInv, PlanInv, CoreInv, NEW r \in Requests, pc[r] = "apply", coreOnline
    PROVE  /\ txn.next = None => active = None
           /\ EffectiveTorrentEnabled(active) /\ ~EffectiveTorrentEnabled(txn.next) => core.blocker # "installed"
<1>1. Plan(r)
  BY Zenon DEF PlanInv, InTransaction
<1>2. op[r].kind \notin {"clear", "invalid", "reset"}
  BY Zenon DEF LeaseInv, InTransaction
<1>3. ASSUME txn.next = Recreated(active), txn.next = None PROVE active = None
  <2>1. active \in Snapshots => [source |-> active.source, ready |-> TRUE] \in Snapshots
    BY Zenon DEF Snapshots
  <2> QED  BY <1>3, <2>1, Nothing, Zenon DEF Recreated, TypeOK
<1>4. EffectiveTorrentEnabled(active) /\ ~EffectiveTorrentEnabled(txn.next) => txn.first
  BY <1>1, <1>2, Zenon DEF Plan
<1>5. txn.next = None => active = None
  BY <1>1, <1>2, <1>3, Zenon DEF Plan
<1> QED  BY <1>4, <1>5, Zenon DEF CoreInv

\* The torrent set loses nothing while a sync that keeps the blocker is under way.
LEMMA BlocksNext ==
    ASSUME FenceInv, PlanInv, [Next]_vars, NEW r \in Requests, gate = r, op[r].kind = "sync", txn.next # None,
           EffectiveTorrentEnabled(active), EffectiveTorrentEnabled(txn.next), tables'
    PROVE  dynamic \subseteq dynamic'
<1>1. gate # None /\ \A x \in Requests : pc[x] \in UnderGate => x = r
  BY Nothing, Zenon DEF FenceInv
<1>2. CASE StartReadsEnabled \/ StartReadsTags \/ StartEnds \/ CoreExits \/ TablesVanish
  BY <1>2, Zenon DEF StartReadsEnabled, StartReadsTags, StartEnds, CoreExits, TablesVanish, kernelVars
<1>3. ASSUME NEW x \in Requests, NEW o \in Ops, Arrive(x, o) PROVE dynamic \subseteq dynamic'
  BY <1>3, Zenon DEF Arrive, kernelVars
<1>4. ASSUME NEW x \in Requests,
             \/ Acquire(x) \/ GiveUp(x) \/ StopCore(x) \/ Handle(x) \/ ReconcileFirst(x) \/ FinishApply(x)
      PROVE  dynamic \subseteq dynamic'
  BY <1>4, Zenon DEF Acquire, GiveUp, StopCore, Handle, ReconcileFirst, FinishApply, kernelVars
<1>5. ASSUME NEW x \in Requests PROVE ~Mutate(x)
  BY <1>1, Zenon DEF Mutate, Unleased, UnderGate
<1>6. ASSUME NEW x \in Requests, ApplyFirewall(x) PROVE dynamic \subseteq dynamic'
  <2>1. x = r /\ ~txn.force
    BY <1>1, <1>6, Zenon DEF ApplyFirewall, UnderGate, InTransaction, PlanInv, Plan
  <2>2. ~ResetFirewall(txn)
    BY <2>1, Zenon DEF ResetFirewall
  <2> QED  BY <1>6, <2>2, Zenon DEF ApplyFirewall, NftApply, UpdateSets, kernelVars
<1>7. ASSUME NEW x \in Requests, Rollback(x) PROVE dynamic \subseteq dynamic'
  BY <1>7, Zenon DEF Rollback, NftApply, UpdateSets, kernelVars
<1>8. CASE Initialize \/ (\E ip \in IPs : WorkerBlocks(ip)) \/ (\E c \in Closers : Close(c))
  BY <1>1, <1>8, Zenon DEF Initialize, WorkerBlocks, Close
<1>9. ASSUME NEW c \in Closers, BeginClose(c) \/ SignalWebhookStop(c) \/ CloseTimesOut(c)
      PROVE  dynamic \subseteq dynamic'
  BY <1>9, Zenon DEF BeginClose, SignalWebhookStop, CloseTimesOut, kernelVars
<1>10. CASE UNCHANGED vars
  BY <1>10, Zenon DEF vars, kernelVars
<1> QED  BY <1>2, <1>3, <1>4, <1>5, <1>6, <1>7, <1>8, <1>9, <1>10, Zenon DEF Next, RequestStep

\* What the kernel holds is there as long as it should be: nothing lifts a filter
\* under a core that needs it, no sync loses a blocked address, and Close can
\* delete, and has deleted, all that was put there (service.go
\* applySnapshotWithOrderLocked and CloseContext, nft_linux.go).
THEOREM RulesAreKept == Spec => KernelKeepsRules
<1>1. PluginInv => TypeOK /\ TablesAreOwned /\ ClosedIsClean
  BY Zenon DEF PluginInv
<1>2. PluginInv /\ [Next]_vars =>
        [\A r \in Requests :
          pc[r] = "apply" /\ pc'[r] # "apply" /\ <<static, dynamic>>' # <<static, dynamic>> /\ coreOnline =>
             /\ txn.next = None => active = None
             /\ EffectiveTorrentEnabled(active) /\ ~EffectiveTorrentEnabled(txn.next) => core.blocker # "installed"]_vars
  BY ReconciledFirst, Zenon DEF PluginInv
<1>3. PluginInv /\ [Next]_vars =>
        [\A r \in Requests :
          gate = r /\ op[r].kind = "sync" /\ txn.next # None
            /\ EffectiveTorrentEnabled(active) /\ EffectiveTorrentEnabled(txn.next) /\ tables'
          => dynamic \subseteq dynamic']_vars
  BY BlocksNext, Zenon DEF PluginInv
<1> QED
  BY <1>1, <1>2, <1>3, PluginInvariant, PTL DEF Spec, KernelKeepsRules, RulesOutliveCore, BlocksSurviveSync

(* The Core and the GeoData a Start prepares *)

\* The records of downloads.
LEMMA RaDownloadTypes ==
    /\ RaNoDownload \in RaDownloads /\ RaNoDownload.stage = "idle"
    /\ \A d \in RaFiles \cup RaDigests : [RaNoDownload EXCEPT !.stage = "ask", !.dest = d] \in RaDownloads
    /\ \A x \in RaDownloads :
        /\ [x EXCEPT !.cut = TRUE] \in RaDownloads /\ [x EXCEPT !.cut = TRUE].stage = x.stage
        /\ \A n \in 0 .. MaxBody + 1, right \in BOOLEAN :
            [[x EXCEPT !.stage = "body"] EXCEPT !.size = n, !.right = right] \in RaDownloads
        /\ x.got < x.size => [x EXCEPT !.got = @ + 1] \in RaDownloads /\ [x EXCEPT !.got = @ + 1].stage = x.stage
<1>1. RaNoDownload \in RaDownloads /\ RaNoDownload.stage = "idle"
  BY RaAssumption DEF RaDownloads, RaNoDownload
<1>2. ASSUME NEW d \in RaFiles \cup RaDigests
      PROVE  [RaNoDownload EXCEPT !.stage = "ask", !.dest = d] \in RaDownloads
  BY <1>1 DEF RaDownloads
<1>3. ASSUME NEW x \in RaDownloads
      PROVE  /\ [x EXCEPT !.cut = TRUE] \in RaDownloads /\ [x EXCEPT !.cut = TRUE].stage = x.stage
             /\ \A n \in 0 .. MaxBody + 1, right \in BOOLEAN :
                 [[x EXCEPT !.stage = "body"] EXCEPT !.size = n, !.right = right] \in RaDownloads
  BY DEF RaDownloads
<1>4. ASSUME NEW x \in RaDownloads, x.got < x.size
      PROVE  [x EXCEPT !.got = @ + 1] \in RaDownloads /\ [x EXCEPT !.got = @ + 1].stage = x.stage
  <2>1. x.got + 1 \in 0 .. MaxBody + 1
    BY <1>4, RaAssumption DEF RaDownloads
  <2> QED  BY <2>1 DEF RaDownloads
<1> QED  BY <1>1, <1>2, <1>3, <1>4, Zenon

\* A custom Core is asked for by a digest.
LEMMA RaAsksForDigest ==
    ASSUME NEW q \in RaRequests \cup {RaNoRequest}
    PROVE  /\ RaMode(q) = "custom" => q.core \in RaDigests
           /\ q.assets \in Seq(RaFiles)
<1>1. CASE q \in RaRequests
  <2>1. /\ q.shape \in {"absent", "malformed", "object"} /\ q.core \in RaDigests \cup {"none", "invalid"}
        /\ q.assets \in Seq(RaFiles)
    BY <1>1, RaAssumption, Zenon
  <2> QED  BY <2>1 DEF RaMode
<1>2. CASE q = RaNoRequest
  BY <1>2 DEF RaMode, RaNoRequest
<1> QED  BY <1>1, <1>2

\* A step of a download: whose it is, and what it leaves alone.
RaLoads(w) == RaTimer(w) \/ RaRespond(w) \/ RaCopy(w)

LEMMA RaLoading ==
    ASSUME RaTypeOK, NEW w \in RaWorkers \cup {RaSelf}, RaLoads(w)
    PROVE  /\ raDl' \in [RaWorkers \cup {RaSelf} -> RaDownloads]
           /\ \A v \in RaWorkers \cup {RaSelf} : raDl'[v].stage # "idle" => raDl[v].stage # "idle"
           /\ UNCHANGED <<RaDisk, RaProcess, RaStart, raPc, raChosen, raFailed, raJobs>>
<1>1. raDl \in [RaWorkers \cup {RaSelf} -> RaDownloads] /\ raDl[w] \in RaDownloads
  BY Zenon DEF RaTypeOK
<1>2. ASSUME NEW x \in RaDownloads, raDl' = [raDl EXCEPT ![w] = x], raDl[w].stage # "idle"
      PROVE  /\ raDl' \in [RaWorkers \cup {RaSelf} -> RaDownloads]
             /\ \A v \in RaWorkers \cup {RaSelf} : raDl'[v].stage # "idle" => raDl[v].stage # "idle"
  BY <1>1, <1>2, Zenon
<1>3. CASE RaTimer(w)
  <2>1. raDl' = [raDl EXCEPT ![w] = [raDl[w] EXCEPT !.cut = TRUE]]
    BY <1>1, <1>3 DEF RaTimer
  <2> QED  BY <1>1, <1>2, <1>3, <2>1, RaDownloadTypes, Zenon DEF RaTimer
<1>4. CASE RaRespond(w)
  <2>1. PICK n \in 0 .. MaxBody + 1, right \in BOOLEAN :
           raDl' = [raDl EXCEPT ![w].stage = "body", ![w].size = n, ![w].right = right]
    BY <1>4, Zenon DEF RaRespond
  <2>2. raDl' = [raDl EXCEPT ![w] = [[raDl[w] EXCEPT !.stage = "body"] EXCEPT !.size = n, !.right = right]]
    BY <1>1, <2>1
  <2>3. raDl[w].stage # "idle"
    BY <1>4 DEF RaRespond
  <2> QED  BY <1>1, <1>2, <1>4, <2>2, <2>3, RaDownloadTypes, Zenon DEF RaRespond
<1>5. CASE RaCopy(w)
  <2>1. raDl' = [raDl EXCEPT ![w] = [raDl[w] EXCEPT !.got = @ + 1]]
    BY <1>1, <1>5 DEF RaCopy
  <2>2. raDl[w].stage # "idle"
    BY <1>5 DEF RaCopy
  <2> QED  BY <1>1, <1>2, <1>5, <2>1, <2>2, RaDownloadTypes, Zenon DEF RaCopy
<1> QED  BY <1>3, <1>4, <1>5, Zenon DEF RaLoads

\* Only a worker's stage is compared: what the others do leaves it, or clears it.
RaIdles(w) == raDl' = [raDl EXCEPT ![w] = RaNoDownload]

LEMMA RaIdling ==
    ASSUME RaTypeOK, NEW w \in RaWorkers \cup {RaSelf}, RaIdles(w)
    PROVE  /\ raDl' \in [RaWorkers \cup {RaSelf} -> RaDownloads]
           /\ \A v \in RaWorkers \cup {RaSelf} : raDl'[v].stage # "idle" => raDl[v].stage # "idle"
<1>1. raDl \in [RaWorkers \cup {RaSelf} -> RaDownloads]
  BY Zenon DEF RaTypeOK
<1> QED  BY <1>1, RaDownloadTypes, Zenon DEF RaIdles

\* A death of the node clears everything but the disk.
LEMMA RaDying ==
    ASSUME RaTypeOK, RaDies
    PROVE  raDl' \in [RaWorkers \cup {RaSelf} -> RaDownloads] /\ \A v \in RaWorkers \cup {RaSelf} : raDl'[v].stage = "idle"
<1>1. DOMAIN raDl = RaWorkers \cup {RaSelf}
  BY Zenon DEF RaTypeOK
<1> QED  BY <1>1, RaDownloadTypes, Zenon DEF RaDies

\* What arrives whole is stored whole: a transfer that was cut is not accepted.
LEMMA RaArrivesWhole ==
    ASSUME NEW w, RaCopied(w), RaAccepts(w)
    PROVE  RaBodyHeld(w)
BY Zenon DEF RaCopied, RaAccepts, RaBodyHeld

\* The types, and that a Core is fetched by its digest.
LEMMA RaTypedNext ==
    ASSUME RaInv, RaNext
    PROVE  RaTyped'
<1>1. /\ RaTyped /\ RaTypeOK /\ raReq \in RaRequests \cup {RaNoRequest} /\ raJobs \in Seq(RaFiles)
      /\ raCores \in [RaDigests -> {"none", "whole", "bad"}]
      /\ raAssets \in [RaFiles -> {"none", "link", "stub", "whole", "torn", "lost"}]
      /\ raCore \in RaDigests \cup {"bundled", "none"} /\ raPc \in RaPhases
      /\ raDl \in [RaWorkers \cup {RaSelf} -> RaDownloads]
  BY Zenon DEF RaInv, RaTyped, RaTypeOK
<1>2. ASSUME NEW w \in RaWorkers \cup {RaSelf}, RaLoads(w) PROVE RaTyped'
  BY <1>1, <1>2, RaLoading, Zenon DEF RaTyped, RaTypeOK, RaDisk, RaProcess, RaStart
<1>3. ASSUME NEW q \in RaRequests, RaBegin(q) PROVE RaTyped'
  <2>1. raPc' \in RaPhases /\ raPc' \notin {"coreGet", "coreCheck"}
    BY <1>3, Zenon DEF RaBegin, RaPhases
  <2> QED  BY <1>1, <1>3, <2>1, Zenon DEF RaBegin, RaTyped, RaTypeOK, RaDisk, RaProcess
<1>4. CASE RaCancel
  BY <1>1, <1>4, Zenon DEF RaCancel, RaTyped, RaTypeOK, RaDisk, RaProcess
<1>5. CASE RaSelectCore
  <2>1. /\ raPc' \in RaPhases
        /\ raPc' = "coreCheck" => FALSE
        /\ raPc' = "coreGet" => RaMode(raReq) = "custom"
        /\ raDl' = raDl \/ RaMode(raReq) = "custom"
    BY <1>5 DEF RaSelectCore, RaChooses, RaGivesUp, RaPhases
  <2>2. raDl' \in [RaWorkers \cup {RaSelf} -> RaDownloads]
    <3>1. CASE raDl' = raDl
      BY <1>1, <3>1, Zenon
    <3>2. CASE raDl' # raDl
      <4>1. /\ raDl' = [raDl EXCEPT ![RaSelf] = [RaNoDownload EXCEPT !.stage = "ask", !.dest = raReq.core]]
            /\ RaMode(raReq) = "custom"
        BY <1>5, <3>2, Zenon DEF RaSelectCore
      <4>2. [RaNoDownload EXCEPT !.stage = "ask", !.dest = raReq.core] \in RaDownloads
        BY <1>1, <4>1, RaAsksForDigest, RaDownloadTypes, Zenon
      <4> QED  BY <1>1, <4>1, <4>2, Zenon
    <3> QED  BY <3>1, <3>2, Zenon
  <2> QED  BY <1>1, <1>5, <2>1, <2>2, RaAsksForDigest, Zenon
           DEF RaSelectCore, RaTyped, RaTypeOK, RaDisk, RaProcess, RaStart
<1>6. CASE RaCoreArrives
  <2>1. raCores' \in [RaDigests -> {"none", "whole", "bad"}]
    BY <1>1, <1>6, Zenon DEF RaCoreArrives
  <2>2. raDl' \in [RaWorkers \cup {RaSelf} -> RaDownloads]
    BY <1>1, <1>6, RaIdling, Zenon DEF RaCoreArrives, RaIdles
  <2>3. raPc' \in RaPhases /\ raReq.core \in RaDigests
    BY <1>1, <1>6, Zenon DEF RaCoreArrives, RaPhases, RaTyped
  <2> QED  BY <1>1, <1>6, <2>1, <2>2, <2>3, Zenon DEF RaCoreArrives, RaTyped, RaTypeOK, RaProcess, RaStart
<1>7. CASE RaCoreFails
  <2>1. raDl' \in [RaWorkers \cup {RaSelf} -> RaDownloads]
    BY <1>1, <1>7, RaIdling, Zenon DEF RaCoreFails, RaIdles
  <2>2. raPc' \in {"geo", "idle"}
    BY <1>7, Zenon DEF RaCoreFails, RaChooses, RaGivesUp
  <2>3. raPc' \in RaPhases /\ raPc' \notin {"coreGet", "coreCheck"}
    BY <2>2 DEF RaPhases
  <2> QED  BY <1>1, <1>7, <2>1, <2>3, Zenon DEF RaCoreFails, RaTyped, RaTypeOK, RaDisk, RaProcess, RaStart
<1>8. CASE RaCheckCore
  <2>1. raCores' \in [RaDigests -> {"none", "whole", "bad"}]
    BY <1>1, <1>8, Zenon DEF RaCheckCore
  <2>2. raPc' \in {"geo", "idle"}
    BY <1>8, Zenon DEF RaCheckCore, RaChooses, RaGivesUp
  <2>3. raPc' \in RaPhases /\ raPc' \notin {"coreGet", "coreCheck"}
    BY <2>2 DEF RaPhases
  <2> QED  BY <1>1, <1>8, <2>1, <2>3, Zenon DEF RaCheckCore, RaTyped, RaTypeOK, RaProcess, RaStart
<1>9. CASE RaGeo
  <2>1. raPc' \in {"switch", "idle", "geoGet"} /\ (raJobs' = raJobs \/ raJobs' = raReq.assets)
    BY <1>9, Zenon DEF RaGeo
  <2>2. raPc' \in RaPhases /\ raPc' \notin {"coreGet", "coreCheck"}
    BY <2>1 DEF RaPhases
  <2>3. raAssets' \in [RaFiles -> {"none", "link", "stub", "whole", "torn", "lost"}]
    <3>1. RaSeeded(raAssets) \in [RaFiles -> {"none", "link", "stub", "whole", "torn", "lost"}]
      BY <1>1, Zenon DEF RaSeeded
    <3> QED  BY <1>1, <1>9, <3>1, Zenon DEF RaGeo
  <2> QED  BY <1>1, <1>9, <2>1, <2>2, <2>3, RaAsksForDigest, Zenon DEF RaGeo, RaTyped, RaTypeOK, RaProcess, RaStart
<1>10. CASE RaUndelivered
  <2>1. <<>> \in Seq(RaFiles)
    OBVIOUS
  <2> QED  BY <1>1, <1>10, <2>1, Zenon DEF RaUndelivered, RaTyped, RaTypeOK, RaDisk, RaProcess, RaStart
<1>11. CASE RaGeoDone
  <2>1. raPc' \in RaPhases /\ raPc' \notin {"coreGet", "coreCheck"}
    BY <1>11 DEF RaGeoDone, RaPhases
  <2> QED  BY <1>1, <1>11, <2>1, Zenon DEF RaGeoDone, RaTyped, RaTypeOK, RaDisk, RaProcess, RaStart
<1>12. ASSUME NEW w \in RaWorkers, RaTake(w) PROVE RaTyped'
  <2>1. Head(raJobs) \in RaFiles /\ Tail(raJobs) \in Seq(RaFiles)
    BY <1>1, <1>12 DEF RaTake
  <2>2. [RaNoDownload EXCEPT !.stage = "ask", !.dest = Head(raJobs)] \in RaDownloads
    BY <2>1, RaDownloadTypes, Zenon
  <2>3. raDl' \in [RaWorkers \cup {RaSelf} -> RaDownloads]
    BY <1>1, <1>12, <2>2, Zenon DEF RaTake
  <2> QED  BY <1>1, <1>12, <2>1, <2>3, Zenon DEF RaTake, RaTyped, RaTypeOK, RaDisk, RaProcess, RaStart
<1>13. ASSUME NEW w \in RaWorkers, RaAssetArrives(w) \/ RaAssetFails(w) PROVE RaTyped'
  <2>1. RaIdles(w) /\ UNCHANGED <<raCores, RaProcess, RaStart, raPc, raJobs>>
    BY <1>13, Zenon DEF RaAssetArrives, RaAssetFails, RaIdles
  <2>2. raAssets' \in [RaFiles -> {"none", "link", "stub", "whole", "torn", "lost"}]
    BY <1>1, <1>13, Zenon DEF RaAssetArrives, RaAssetFails
  <2> QED  BY <1>1, <2>1, <2>2, RaIdling, Zenon DEF RaTyped, RaTypeOK, RaProcess, RaStart
<1>14. CASE RaSwitch
  <2>1. raPc' \in {"idle", "launch"} /\ (raCore' = raCore \/ raCore' = "none")
    BY <1>14, Zenon DEF RaSwitch, RaProcess
  <2>2. raPc' \in RaPhases /\ raPc' \notin {"coreGet", "coreCheck"}
    BY <2>1 DEF RaPhases
  <2> QED  BY <1>1, <1>14, <2>1, <2>2, Zenon DEF RaSwitch, RaTyped, RaTypeOK, RaDisk, RaStart
<1>15. CASE RaLaunch
  <2>1. raPc' \in {"idle", "ready"} /\ (raCore' = raCore \/ raCore' = raChosen)
    BY <1>15, Zenon DEF RaLaunch, RaProcess
  <2>2. raPc' \in RaPhases /\ raPc' \notin {"coreGet", "coreCheck"}
    BY <2>1 DEF RaPhases
  <2>3. raChosen \in RaDigests \cup {"bundled", "none"}
    BY <1>15, Zenon DEF RaLaunch, RaInv, RaCoreSound
  <2> QED  BY <1>1, <1>15, <2>1, <2>2, <2>3, Zenon DEF RaLaunch, RaTyped, RaTypeOK, RaDisk, RaStart
<1>16. CASE RaReady
  <2>1. raPc' \in RaPhases /\ raPc' \notin {"coreGet", "coreCheck"}
    BY <1>16 DEF RaReady, RaPhases
  <2>2. raCore' = raCore \/ raCore' = "none"
    BY <1>16, Zenon DEF RaReady, RaProcess
  <2>3. raCores' \in [RaDigests -> {"none", "whole", "bad"}]
    BY <1>1, <1>16, Zenon DEF RaReady
  <2> QED  BY <1>1, <1>16, <2>1, <2>2, <2>3, Zenon DEF RaReady, RaTyped, RaTypeOK, RaStart
<1>17. CASE RaStop
  BY <1>1, <1>17, Zenon DEF RaStop, RaTyped, RaTypeOK, RaDisk, RaStart
<1>18. CASE RaCrash \/ RaPowerLoss
  <2>1. RaDies
    BY <1>18, Zenon DEF RaCrash, RaPowerLoss
  <2>2. raPc' \in RaPhases /\ raPc' \notin {"coreGet", "coreCheck"}
    BY <2>1 DEF RaDies, RaPhases
  <2>3. raCores' \in [RaDigests -> {"none", "whole", "bad"}]
    BY <1>1, <1>18, Zenon DEF RaCrash, RaPowerLoss, RaDisk
  <2>4. raAssets' \in [RaFiles -> {"none", "link", "stub", "whole", "torn", "lost"}]
    BY <1>1, <1>18, Zenon DEF RaCrash, RaPowerLoss, RaDisk
  <2>5. <<>> \in Seq(RaFiles)
    OBVIOUS
  <2> QED  BY <1>1, <2>1, <2>2, <2>3, <2>4, <2>5, RaDying, Zenon DEF RaDies, RaTyped, RaTypeOK, RaStart
<1> QED  BY <1>2, <1>3, <1>4, <1>5, <1>6, <1>7, <1>8, <1>9, <1>10, <1>11, <1>12, <1>13, <1>14, <1>15, <1>16, <1>17,
            <1>18, Zenon DEF RaNext, RaLoads

\* What is running, or was chosen to run, was verified.
LEMMA RaCoreNext ==
    ASSUME RaInv, RaNext
    PROVE  RaCoreSound'
<1>1. /\ raCores \in [RaDigests -> {"none", "whole", "bad"}] /\ raCore \in RaDigests \cup {"bundled", "none"}
      /\ RaRunsWhatItVerified /\ RaSound(raCore)
      /\ raReq \in RaRequests \cup {RaNoRequest}
      /\ raPc \in {"geo", "geoGet", "switch", "launch"} =>
           raChosen \in RaDigests \cup {"bundled"} /\ RaSound(raChosen)
  BY Zenon DEF RaInv, RaTyped, RaTypeOK, RaCoreSound
<1>2. RaSound("bundled") /\ RaSound("none") /\ RaSound("bundled")' /\ RaSound("none")'
  BY RaAssumption, Zenon DEF RaSound
<1>3. RaFallback \in RaDigests \cup {"bundled"} /\ RaSound(RaFallback)
  BY <1>1, <1>2, Zenon DEF RaFallback
<1>4. ASSUME RaProcess' = RaProcess, raCores' = raCores, raPc' \notin {"geo", "geoGet", "switch", "launch"}
      PROVE  RaCoreSound'
  BY <1>1, <1>4 DEF RaCoreSound, RaSound, RaRunsWhatItVerified, RaProcess
<1>5. ASSUME RaProcess' = RaProcess, raCores' = raCores, raChosen' = raChosen,
             raPc \in {"geo", "geoGet", "switch", "launch"} \/ raPc' = raPc
      PROVE  RaCoreSound'
  BY <1>1, <1>5 DEF RaCoreSound, RaSound, RaRunsWhatItVerified, RaProcess
<1>6. ASSUME RaProcess' = RaProcess, raCores' = raCores, NEW b, RaChooses(b), b \in RaDigests \cup {"bundled"}, RaSound(b)
      PROVE  RaCoreSound'
  BY <1>1, <1>6 DEF RaCoreSound, RaSound, RaRunsWhatItVerified, RaProcess, RaChooses
<1>7. ASSUME raCore' = "none", raPc' \notin {"geo", "geoGet", "switch", "launch"}
      PROVE  RaCoreSound'
  <2>1. raCore' \notin RaDigests
    BY <1>7, RaAssumption, Zenon
  <2> QED  BY <1>7, <2>1, Zenon DEF RaCoreSound, RaSound, RaRunsWhatItVerified
<1>8. ASSUME NEW answered \in BOOLEAN, RaValid(raReq.core, answered), raReq.core \in RaDigests
      PROVE  RaSound(raReq.core)
  BY <1>8 DEF RaValid, RaSound
<1>9. CASE \/ \E w \in RaWorkers \cup {RaSelf} : RaLoads(w)
           \/ \E w \in RaWorkers : RaTake(w) \/ RaAssetArrives(w) \/ RaAssetFails(w)
           \/ RaCancel \/ RaUndelivered
  <2>1. RaProcess' = RaProcess /\ raCores' = raCores /\ raChosen' = raChosen /\ raPc' = raPc
    <3>1. CASE \E w \in RaWorkers \cup {RaSelf} : RaLoads(w)
      BY <3>1, Zenon DEF RaLoads, RaTimer, RaRespond, RaCopy, RaDisk
    <3>2. CASE \E w \in RaWorkers : RaTake(w) \/ RaAssetArrives(w) \/ RaAssetFails(w)
      BY <3>2, Zenon DEF RaTake, RaAssetArrives, RaAssetFails, RaDisk
    <3> QED  BY <1>9, <3>1, <3>2, Zenon DEF RaCancel, RaUndelivered, RaDisk
  <2> QED  BY <1>5, <2>1, Zenon
<1>10. CASE \E q \in RaRequests : RaBegin(q)
  BY <1>4, <1>10 DEF RaBegin, RaDisk
<1>11. CASE RaSelectCore
  <2>1. RaProcess' = RaProcess /\ raCores' = raCores
    BY <1>11, Zenon DEF RaSelectCore, RaDisk
  <2>2. RaMode(raReq) = "custom" => raReq.core \in RaDigests
    BY <1>1, RaAsksForDigest, Zenon
  <2>3. \/ RaChooses("bundled") \/ RaChooses(RaFallback)
        \/ RaMode(raReq) = "custom" /\ RaChooses(raReq.core) /\ \E answered \in BOOLEAN : RaValid(raReq.core, answered)
        \/ RaGivesUp \/ raPc' = "coreGet"
    BY <1>11, Zenon DEF RaSelectCore
  <2>4. CASE RaGivesUp \/ raPc' = "coreGet"
    BY <1>4, <2>1, <2>4 DEF RaGivesUp
  <2> QED  BY <1>2, <1>3, <1>6, <1>8, <2>1, <2>2, <2>3, <2>4, Zenon
<1>12. CASE RaCoreArrives
  <2>1. RaProcess' = RaProcess /\ raPc' = "coreCheck" /\ raCores' = [raCores EXCEPT ![raReq.core] = "whole"]
    BY <1>12, RaArrivesWhole, Zenon DEF RaCoreArrives
  <2> QED  BY <1>1, <2>1 DEF RaCoreSound, RaSound, RaRunsWhatItVerified, RaProcess
<1>13. CASE RaCoreFails
  <2>1. RaProcess' = RaProcess /\ raCores' = raCores /\ (RaGivesUp \/ RaChooses(RaFallback))
    BY <1>13, Zenon DEF RaCoreFails, RaDisk
  <2>2. CASE RaGivesUp
    BY <1>4, <2>1, <2>2 DEF RaGivesUp
  <2> QED  BY <1>3, <1>6, <2>1, <2>2, Zenon
<1>14. CASE RaCheckCore
  <2>1. RaProcess' = RaProcess /\ raReq.core \in RaDigests
    BY <1>14, Zenon DEF RaCheckCore, RaInv, RaTyped
  <2>2. \/ raCores' = raCores /\ RaChooses(raReq.core) /\ \E answered \in BOOLEAN : RaValid(raReq.core, answered)
        \/ raCores' = raCores /\ RaGivesUp
        \/ raCores' = [raCores EXCEPT ![raReq.core] = "none"] /\ RaChooses(RaFallback)
    BY <1>14, Zenon DEF RaCheckCore
  <2>3. CASE raCores' = raCores /\ RaGivesUp
    BY <1>4, <2>1, <2>3 DEF RaGivesUp
  <2>4. CASE raCores' = [raCores EXCEPT ![raReq.core] = "none"] /\ RaChooses(RaFallback)
    BY <1>1, <1>3, <2>1, <2>4 DEF RaCoreSound, RaSound, RaRunsWhatItVerified, RaProcess, RaChooses
  <2> QED  BY <1>6, <1>8, <2>1, <2>2, <2>3, <2>4, Zenon
<1>15. CASE RaGeo
  BY <1>5, <1>15, Zenon DEF RaGeo
<1>16. CASE RaGeoDone
  BY <1>5, <1>16, Zenon DEF RaGeoDone, RaDisk
<1>17. CASE RaSwitch
  <2>1. CASE RaProcess' = RaProcess
    BY <1>5, <1>17, <2>1, Zenon DEF RaSwitch, RaDisk
  <2>2. CASE raCore' = "none"
    <3>1. raCore' \notin RaDigests
      BY <2>2, RaAssumption, Zenon
    <3>2. raChosen' = raChosen /\ raCores' = raCores /\ raPc = "switch"
      BY <1>17, Zenon DEF RaSwitch, RaDisk
    <3> QED  BY <1>1, <3>1, <3>2 DEF RaCoreSound, RaSound, RaRunsWhatItVerified
  <2> QED  BY <1>17, <2>1, <2>2, Zenon DEF RaSwitch
<1>18. CASE RaLaunch
  <2>1. CASE RaProcess' = RaProcess
    BY <1>5, <1>18, <2>1, Zenon DEF RaLaunch, RaDisk
  <2>2. CASE raPc' = "ready" /\ raCore' = raChosen /\ raRan' = RaHeld(raChosen) /\ RaHeld(raChosen) # "none"
    <3>1. RaSound(raChosen) /\ raCores' = raCores /\ raChosen \in RaDigests \cup {"bundled"}
      BY <1>1, <1>18, Zenon DEF RaLaunch, RaDisk
    <3>2. raChosen \in RaDigests => raRan' = raCores[raChosen]
      BY <2>2, RaAssumption, Zenon DEF RaHeld
    <3>3. raChosen \in RaDigests => raRan' = "whole"
      BY <1>1, <2>2, <3>1, <3>2, Zenon DEF RaSound
    <3> QED  BY <2>2, <3>1, <3>3 DEF RaCoreSound, RaSound, RaRunsWhatItVerified
  <2> QED  BY <1>18, <2>1, <2>2, Zenon DEF RaLaunch
<1>19. CASE RaReady
  <2>1. CASE RaProcess' = RaProcess /\ raCores' = [d \in RaDigests |-> IF d = raCore THEN raCores[d] ELSE "none"]
    BY <1>1, <1>19, <2>1 DEF RaReady, RaCoreSound, RaSound, RaRunsWhatItVerified, RaProcess
  <2>2. CASE raCore' = "none"
    BY <1>7, <1>19, <2>2 DEF RaReady
  <2> QED  BY <1>19, <2>1, <2>2, Zenon DEF RaReady
<1>20. CASE RaStop
  BY <1>7, <1>20 DEF RaStop
<1>21. CASE RaCrash \/ RaPowerLoss
  <2>1. RaDies
    BY <1>21, Zenon DEF RaCrash, RaPowerLoss
  <2> QED  BY <1>7, <2>1 DEF RaDies
<1> QED  BY <1>9, <1>10, <1>11, <1>12, <1>13, <1>14, <1>15, <1>16, <1>17, <1>18, <1>19, <1>20, <1>21, Zenon
         DEF RaNext, RaLoads

\* What the overlay holds.
LEMMA RaOverlayNext ==
    ASSUME RaInv, RaNext
    PROVE  RaOverlay'
<1> DEFINE After == {"geoGet", "switch", "launch", "ready"}
<1>1. /\ RaTypeOK /\ RaAssetsWhole /\ raAssets \in [RaFiles -> {"none", "link", "stub", "whole", "torn", "lost"}]
      /\ \A f \in RaDefaults : raAssets[f] # "stub" /\ f \in RaFiles
      /\ raPc = "geoGet" => raReq.shape = "object"
      /\ raPc \in After /\ raReq.shape = "object" => \A f \in RaDefaults : raAssets[f] # "none"
      /\ \A w \in RaWorkers : raDl[w].stage # "idle" => raPc = "geoGet"
      /\ raDl \in [RaWorkers \cup {RaSelf} -> RaDownloads]
  BY RaAssumption, Zenon DEF RaInv, RaTyped, RaTypeOK, RaOverlay
<1>2. ASSUME raAssets' = raAssets, raReq' = raReq, raPc' = raPc,
             \A w \in RaWorkers : raDl'[w].stage # "idle" => raDl[w].stage # "idle"
      PROVE  RaOverlay'
  BY <1>1, <1>2, Zenon DEF RaOverlay, RaAssetsWhole
<1>3. ASSUME raAssets' = raAssets, raPc' \notin After, raPc # "geoGet", \A w \in RaWorkers : raDl'[w] = raDl[w]
      PROVE  RaOverlay'
  BY <1>1, <1>3, Zenon DEF RaOverlay, RaAssetsWhole
<1>4. ASSUME raAssets' = raAssets, raReq' = raReq, raPc \in After, raPc' \in After \cup {"idle"}, raPc' # "geoGet",
             \A w \in RaWorkers : raDl'[w].stage = "idle"
      PROVE  RaOverlay'
  BY <1>1, <1>4 DEF RaOverlay, RaAssetsWhole
<1>5. \A w \in RaWorkers : w # RaSelf
  BY RaAssumption, Zenon DEF RaSelf
<1>6. ASSUME NEW w \in RaWorkers \cup {RaSelf}, RaLoads(w) PROVE RaOverlay'
  BY <1>1, <1>2, <1>6, RaLoading, Zenon DEF RaDisk, RaStart
<1>7. CASE \E q \in RaRequests : RaBegin(q)
  BY <1>3, <1>7 DEF RaBegin, RaDisk
<1>8. CASE RaCancel \/ RaUndelivered
  BY <1>2, <1>8, Zenon DEF RaCancel, RaUndelivered, RaDisk, RaStart
<1>9. CASE RaSelectCore
  <2>1. raAssets' = raAssets /\ raPc = "core" /\ raPc' \in {"geo", "idle", "coreGet"}
    BY <1>9, Zenon DEF RaSelectCore, RaDisk, RaChooses, RaGivesUp
  <2>2. \A w \in RaWorkers : raDl'[w] = raDl[w]
    BY <1>1, <1>5, <1>9, Zenon DEF RaSelectCore
  <2> QED  BY <1>3, <2>1, <2>2
<1>10. CASE RaCoreArrives \/ RaCoreFails
  <2>1. raAssets' = raAssets /\ raPc = "coreGet" /\ raPc' \in {"coreCheck", "geo", "idle"}
    BY <1>10, Zenon DEF RaCoreArrives, RaCoreFails, RaDisk, RaChooses, RaGivesUp
  <2>2. \A w \in RaWorkers : raDl'[w] = raDl[w]
    BY <1>1, <1>5, <1>10, Zenon DEF RaCoreArrives, RaCoreFails
  <2> QED  BY <1>3, <2>1, <2>2
<1>11. CASE RaCheckCore
  <2>1. raAssets' = raAssets /\ raPc = "coreCheck" /\ raPc' \in {"geo", "idle"} /\ raDl' = raDl
    BY <1>11, Zenon DEF RaCheckCore, RaDisk, RaChooses, RaGivesUp
  <2> QED  BY <1>3, <2>1
<1>12. CASE RaGeo
  <2>1. raPc = "geo" /\ raReq' = raReq /\ raDl' = raDl
    BY <1>12, Zenon DEF RaGeo, RaStart
  <2>2. CASE raAssets' = raAssets /\ raPc' = "switch" /\ raReq.shape # "object"
    BY <1>1, <2>1, <2>2 DEF RaOverlay, RaAssetsWhole
  <2>3. CASE raAssets' = raAssets /\ raPc' = "idle"
    BY <1>3, <2>1, <2>3
  <2>4. CASE raAssets' = RaSeeded(raAssets) /\ raReq.shape = "object"
    <3>1. \A f \in RaFiles : raAssets'[f] = IF f \in RaDefaults /\ raAssets[f] = "none" THEN "link" ELSE raAssets[f]
      BY <2>4, Zenon DEF RaSeeded
    <3>2. RaAssetsWhole' /\ \A f \in RaDefaults : raAssets'[f] # "stub" /\ raAssets'[f] # "none"
      BY <1>1, <3>1 DEF RaAssetsWhole
    <3>3. \A w \in RaWorkers : raDl'[w].stage = "idle"
      BY <1>1, <2>1
    <3> QED  BY <2>1, <2>4, <3>2, <3>3, Zenon DEF RaOverlay
  <2> QED  BY <1>12, <2>2, <2>3, <2>4, Zenon DEF RaGeo
<1>13. ASSUME NEW w \in RaWorkers, RaTake(w) PROVE RaOverlay'
  BY <1>1, <1>13, Zenon DEF RaTake, RaOverlay, RaAssetsWhole, RaDisk, RaStart
<1>14. ASSUME NEW w \in RaWorkers, RaAssetArrives(w) PROVE RaOverlay'
  <2>1. raAssets' = [raAssets EXCEPT ![raDl[w].dest] = "whole"]
    BY <1>14, RaArrivesWhole, Zenon DEF RaAssetArrives
  <2>2. \A f \in RaFiles : raAssets'[f] = raAssets[f] \/ raAssets'[f] = "whole"
    BY <1>1, <2>1, Zenon
  <2>3. RaAssetsWhole' /\ \A f \in RaDefaults : raAssets'[f] # "stub" /\ (raAssets'[f] = "none" => raAssets[f] = "none")
    BY <1>1, <2>2 DEF RaAssetsWhole
  <2>4. \A v \in RaWorkers : raDl'[v].stage # "idle" => raDl[v].stage # "idle"
    BY <1>1, <1>14, RaIdling, Zenon DEF RaAssetArrives, RaIdles
  <2> QED  BY <1>1, <1>14, <2>3, <2>4, Zenon DEF RaAssetArrives, RaOverlay, RaStart
<1>15. ASSUME NEW w \in RaWorkers, RaAssetFails(w) PROVE RaOverlay'
  <2>1. raPc = "geoGet" /\ raPc' = raPc /\ raReq' = raReq
    BY <1>1, <1>15, Zenon DEF RaAssetFails, RaStart
  <2>2. \A v \in RaWorkers : raDl'[v].stage # "idle" => raDl[v].stage # "idle"
    BY <1>1, <1>15, RaIdling, Zenon DEF RaAssetFails, RaIdles
  <2>3. CASE raAssets' = raAssets
    BY <1>2, <2>1, <2>2, <2>3, Zenon
  <2>4. CASE raAssets' = [raAssets EXCEPT ![raDl[w].dest] = IF @ = "none" THEN "stub" ELSE @]
    <3>1. \A f \in RaFiles : raAssets'[f] = raAssets[f] \/ (raAssets[f] = "none" /\ raAssets'[f] = "stub")
      BY <1>1, <2>4, Zenon
    <3>2. \A f \in RaDefaults : raAssets[f] # "none"
      BY <1>1, <2>1
    <3>3. RaAssetsWhole' /\ \A f \in RaDefaults : raAssets'[f] = raAssets[f]
      BY <1>1, <3>1, <3>2 DEF RaAssetsWhole
    <3> QED  BY <1>1, <2>1, <2>2, <3>3, Zenon DEF RaOverlay
  <2> QED  BY <1>15, <2>3, <2>4, Zenon DEF RaAssetFails
<1>16. CASE RaGeoDone
  <2>1. raPc' \in {"idle", "switch"}
    BY <1>16, Zenon DEF RaGeoDone
  <2> QED  BY <1>4, <1>16, <2>1 DEF RaGeoDone, RaDisk, RaStart
<1>17. CASE RaSwitch \/ RaLaunch \/ RaReady
  <2>1. /\ raPc \in {"switch", "launch", "ready"} /\ raPc' \in {"idle", "launch", "ready"}
        /\ raAssets' = raAssets /\ raReq' = raReq /\ raDl' = raDl
    BY <1>17, Zenon DEF RaSwitch, RaLaunch, RaReady, RaDisk, RaStart
  <2>2. \A w \in RaWorkers : raDl'[w].stage = "idle"
    BY <1>1, <2>1
  <2> QED  BY <1>4, <2>1, <2>2
<1>18. CASE RaStop
  BY <1>2, <1>18, Zenon DEF RaStop, RaDisk, RaStart
<1>19. CASE RaCrash \/ RaPowerLoss
  <2>1. RaDies /\ raPc' \notin After /\ raPc' # "geoGet" /\ \A w \in RaWorkers : raDl'[w].stage = "idle"
    <3>1. RaDies
      BY <1>19, Zenon DEF RaCrash, RaPowerLoss
    <3>2. raPc' = "idle"
      BY <3>1, Zenon DEF RaDies
    <3> QED  BY <1>1, <3>1, <3>2, RaDying
  <2>2. \A f \in RaFiles : raAssets'[f] = raAssets[f] \/ raAssets'[f] = "lost"
    BY <1>1, <1>19, Zenon DEF RaCrash, RaPowerLoss, RaDisk
  <2>3. RaAssetsWhole' /\ \A f \in RaDefaults : raAssets'[f] # "stub"
    BY <1>1, <2>2 DEF RaAssetsWhole
  <2> QED  BY <2>1, <2>3, Zenon DEF RaOverlay
<1> QED  BY <1>6, <1>7, <1>8, <1>9, <1>10, <1>11, <1>12, <1>13, <1>14, <1>15, <1>16, <1>17, <1>18, <1>19, Zenon
         DEF RaNext, RaLoads

\* What a Start prepares is what the loaders promise: a custom Core that runs was
\* verified as it was spawned, no torn asset is published, and the default GeoData
\* are there for every Core that is launched on the overlay.
THEOREM PreparedIsWhole == RaSpec => []RaPromise
<1>1. RaInit => RaInv
  <2> SUFFICES ASSUME RaInit PROVE RaInv
    BY Zenon
  <2>1. RaTyped
    <3>1. raPc \in RaPhases /\ raPc \notin {"coreGet", "coreCheck"} /\ raJobs \in Seq(RaFiles)
      BY DEF RaInit, RaPhases
    <3> QED  BY <3>1, RaDownloadTypes, Zenon DEF RaInit, RaTyped, RaTypeOK
  <2>2. RaCoreSound
    <3>1. raCore \notin RaDigests /\ raPc \notin {"geo", "geoGet", "switch", "launch"}
      BY RaAssumption DEF RaInit
    <3> QED  BY <3>1, Zenon DEF RaCoreSound, RaSound, RaRunsWhatItVerified
  <2>3. RaOverlay
    <3>1. raPc \notin {"geoGet", "switch", "launch", "ready"} /\ raPc # "geoGet"
      BY DEF RaInit
    <3>2. \A f \in RaFiles : raAssets[f] \notin {"torn", "stub"}
      BY DEF RaInit
    <3>3. \A w \in RaWorkers : raDl[w].stage = "idle"
      BY RaDownloadTypes, Zenon DEF RaInit
    <3> QED  BY <3>1, <3>2, <3>3, RaAssumption, Zenon DEF RaOverlay, RaAssetsWhole
  <2> QED  BY <2>1, <2>2, <2>3, Zenon DEF RaInv
<1>2. RaInv /\ [RaNext]_raVars => RaInv'
  <2>1. ASSUME RaInv, RaNext PROVE RaInv'
    BY <2>1, RaTypedNext, RaCoreNext, RaOverlayNext, Zenon DEF RaInv
  <2>2. ASSUME RaInv, UNCHANGED raVars PROVE RaInv'
    BY <2>2, Zenon DEF raVars, RaInv, RaTyped, RaTypeOK, RaCoreSound, RaSound, RaRunsWhatItVerified, RaOverlay,
       RaAssetsWhole
  <2> QED  BY <2>1, <2>2, Zenon
<1>3. RaInv => RaPromise
  BY Zenon DEF RaInv, RaCoreSound, RaOverlay, RaPromise, RaDefaultsThere
<1> QED  BY <1>1, <1>2, <1>3, PTL DEF RaSpec

=============================================================================
