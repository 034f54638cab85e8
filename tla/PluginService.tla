---------------------------- MODULE PluginService ----------------------------
(***************************************************************************)
(* plugin.Service: the one published snapshot, the nftables rules behind   *)
(* it and the running core that must agree with it                         *)
(* (internal/plugin/service.go, nft_linux.go, the worker's half of         *)
(* torrent.go).                                                            *)
(*                                                                         *)
(* The operation gate admits one holder at a time.  A handler that makes   *)
(* one call of nft is one action; applySnapshotWithOrderLocked is one      *)
(* action per call it makes, to the core or to nft, since a call may fail  *)
(* and the request's context may end between any two.                      *)
(***************************************************************************)
EXTENDS FiniteSets

CONSTANTS
    Requests,   \* concurrent panel requests to the plugin routes
    Closers,    \* callers of Close: the shutdown and its retry
    IPs,        \* addresses of filters and torrent blocks
    Sources,    \* the configurations the panel sends
    None, Start \* Go's nil; the start that holds the shared HTTP lease

\* A configuration: its filter rules, whether it enables the torrent blocker, and
\* whether the blocker has rule tags.
ASSUME SourcesAssumption == Sources \subseteq [fw : SUBSET IPs, torrent : BOOLEAN, tags : BOOLEAN]
ASSUME CallersAssumption ==
    /\ Requests \cap Closers = {}
    /\ None # Start
    /\ {None, Start} \cap (Requests \cup Closers) = {}
\* nil is neither a snapshot nor an option that was read.
ASSUME NoneAssumption ==
    /\ \A source \in Sources, ready \in BOOLEAN : None # [source |-> source, ready |-> ready]
    /\ None \notin BOOLEAN

VARIABLES
    initialized, closing, closed, closeDone, webhookStopped,
    active,                     \* State.active
    gate,                       \* operationGate: its holder
    lease,                      \* the HTTP lease: an exclusive request, or a start
    capable, owned, healthy,    \* nftManager; capable: CAP_NET_ADMIN
    tables, static, dynamic,    \* the kernel: tables exist, filter sets, torrent sets
    unblocked,                  \* addresses UnblockIPs took out of the filter sets
    coreOnline, core,           \* Manager is running, and with which blocker
    startRead,                  \* torrentBlockerOptions as the start in progress read them
    pc, op, txn                 \* requests, what they ask, the transaction under the gate

fenceVars  == <<initialized, closing, closed, closeDone, webhookStopped>>
nftVars    == <<capable, owned, healthy>>
kernelVars == <<tables, static, dynamic, unblocked>>
coreVars   == <<coreOnline, core>>
callVars   == <<pc, op, txn>>
vars == <<fenceVars, active, gate, lease, nftVars, kernelVars, coreVars, startRead, callVars>>

Snapshots == [source : Sources, ready : BOOLEAN]
NoOp      == [kind |-> "none", source |-> None, ip |-> None]
Ops       == [kind : {"sync"}, source : Sources, ip : {None}]
             \cup [kind : {"clear", "invalid", "recreate", "reset"}, source : {None}, ip : {None}]
             \cup [kind : {"block", "unblock"}, source : {None}, ip : IPs]
\* next: the snapshot to commit; reconcile: the function passed for the core;
\* first, force: reconcileFirst, forceReset; applied: firewallApplied.
Txns      == [next : Snapshots \cup {None}, reconcile : {"torrent", "stop", "none"},
              first : BOOLEAN, force : BOOLEAN, applied : BOOLEAN]
NoTxn     == [next |-> None, reconcile |-> "none", first |-> FALSE, force |-> FALSE, applied |-> FALSE]
RequestPcs == {"idle", "stopCore", "waiting", "admitted", "reconcileFirst", "apply", "rollback", "applied"}
ClosePcs  == {"idle", "signal", "acquire"}
NoCore    == [blocker |-> "none", tags |-> FALSE]
NoRead    == [blocker |-> "none", tags |-> None]

Init ==
    /\ initialized = FALSE /\ closing = FALSE /\ closed = FALSE /\ closeDone = FALSE
    /\ webhookStopped = FALSE
    /\ active = None /\ gate = None /\ lease = None
    /\ capable \in BOOLEAN /\ owned = FALSE /\ healthy = FALSE
    /\ tables \in BOOLEAN /\ unblocked = {}   \* the tables of a process that was killed
    /\ static = (IF tables THEN IPs ELSE {}) /\ dynamic = static
    /\ coreOnline = FALSE /\ core = NoCore /\ startRead = NoRead
    /\ pc = [r \in Requests \cup Closers |-> "idle"]
    /\ op = [r \in Requests |-> NoOp]
    /\ txn = NoTxn

Goto(r, to) == pc' = [pc EXCEPT ![r] = to]

\* A plausible bug: a return path without releaseOperation.
ReturnHoldingGate(r) ==
    /\ Goto(r, "idle")
    /\ op' = [op EXCEPT ![r] = NoOp]
    /\ txn' = NoTxn
    /\ lease' = IF lease = r THEN None ELSE lease
    /\ UNCHANGED gate

\* The handler returns: its deferred releases of the gate and of the lease.
Return(r) ==
    /\ Goto(r, "idle")
    /\ op' = [op EXCEPT ![r] = NoOp]
    /\ txn' = NoTxn
    /\ gate' = None
    /\ lease' = IF lease = r THEN None ELSE lease

-----------------------------------------------------------------------------
(* Snapshots *)

\* snapshotFirewall: the static rules a snapshot promises.
SnapshotFirewall(s) == IF s = None \/ ~s.ready THEN {} ELSE s.source.fw
SnapshotFirewallReady(s) == s # None /\ s.ready
EffectiveTorrentEnabled(s) == s # None /\ s.ready /\ s.source.torrent

\* A plausible bug: the degraded snapshot still claims its firewall.
DegradedInName(s) == s

\* publishDegradedSnapshotLocked
Degraded(s) == IF s = None THEN None ELSE [source |-> s.source, ready |-> FALSE]

-----------------------------------------------------------------------------
(* nftManager.  A run of nft commits its script or does nothing; one that is *)
(* killed by its timeout may have committed it and still report an error.    *)

\* A static update needs the sets to exist; it leaves the torrent sets alone.
UpdateSets(rules) ==
    tables /\ static' = rules /\ unblocked' = {} /\ UNCHANGED <<tables, dynamic>>

\* Apply(ctx, rules); ok says whether it returned nil.
NftApply(rules, ok) ==
    IF ~owned \/ ~capable
    THEN ~ok /\ UNCHANGED <<nftVars, kernelVars>>
    ELSE /\ UpdateSets(rules) \/ (~ok /\ UNCHANGED kernelVars)
         /\ healthy' = ok /\ UNCHANGED <<capable, owned>>

\* Reset(ctx, rules), and Initialize with no rules.
NftReset(rules, ok) ==
    IF ~capable
    THEN ~ok /\ UNCHANGED <<nftVars, kernelVars>>
    ELSE /\ \/ tables' = TRUE /\ static' = rules /\ dynamic' = {} /\ unblocked' = {}
            \/ ~ok /\ UNCHANGED kernelVars
         /\ owned' = TRUE /\ healthy' = ok /\ UNCHANGED capable

\* BlockIPs: an error that may mean a missing table makes the backend unhealthy.
NftBlock(ip, ok) ==
    /\ \/ tables /\ dynamic' = dynamic \cup {ip} /\ UNCHANGED <<tables, static, unblocked, healthy>>
       \/ ~ok /\ healthy' \in {healthy, FALSE} /\ UNCHANGED kernelVars
    /\ UNCHANGED <<capable, owned>>

\* UnblockIPs takes the address out of the torrent set, then out of the filter
\* set, in two runs; without the tables it fails its structure probe.
NftUnblock(ip, ok) ==
    /\ IF tables
       THEN /\ dynamic' \in IF ok THEN {dynamic \ {ip}} ELSE {dynamic, dynamic \ {ip}}
            /\ static' \in IF ok THEN {static \ {ip}}
                           ELSE IF dynamic' = dynamic \ {ip} THEN {static, static \ {ip}} ELSE {static}
            /\ unblocked' = IF static' # static THEN unblocked \cup {ip} ELSE unblocked
            /\ UNCHANGED tables
       ELSE ~ok /\ UNCHANGED kernelVars
    /\ healthy' \in IF ok THEN {healthy} ELSE {healthy, FALSE}
    /\ UNCHANGED <<capable, owned>>

\* Close(ctx): deletes the tables this process owns, one nft transaction.
NftClose(ok) ==
    IF ~owned
    THEN ok /\ UNCHANGED <<nftVars, kernelVars>>
    ELSE /\ \/ tables' = FALSE /\ static' = {} /\ dynamic' = {} /\ unblocked' = {}
            \/ ~ok /\ UNCHANGED kernelVars
         /\ healthy' = FALSE /\ owned' = ~ok /\ UNCHANGED capable

\* What Service publishes after a call that may have left the backend unhealthy.
PublishHealth(desired) == active' = IF healthy' THEN active ELSE Degraded(desired)

-----------------------------------------------------------------------------
(* The running core *)

\* reconcileTorrentLocked: the call it makes.
TorrentCall(previous, next) ==
    LET was == EffectiveTorrentEnabled(previous)
        now == EffectiveTorrentEnabled(next)
    IN IF was /\ ~now /\ (next = None \/ ~next.source.tags) THEN "remove"
       ELSE IF was # now \/ (was /\ now /\ previous.source.tags # next.source.tags) THEN "stop"
       ELSE "none"

\* The call the reconcile function of a transaction makes (stopXrayLocked: "stop").
CoreCall(t) == IF t.reconcile = "torrent" THEN TorrentCall(active, t.next) ELSE t.reconcile

\* RemoveTorrentBlockerOutbound needs a running core; StopIfOnline a stoppable one.
RunCoreCall(call, ok) ==
    \/ call = "none" /\ ok /\ UNCHANGED coreVars
    \/ /\ call = "remove"
       /\ \/ UNCHANGED core /\ (ok => ~coreOnline \/ core.blocker # "installed")
          \/ coreOnline /\ core.blocker = "installed" /\ core' = [core EXCEPT !.blocker = "removed"]
       /\ UNCHANGED coreOnline
    \/ /\ call = "stop"
       /\ \/ coreOnline' = FALSE /\ core' = NoCore
          \/ ~ok /\ UNCHANGED coreVars

\* torrentBlockerOptions reads the snapshot through one getter after the other,
\* under the shared lease but not under the gate.
StartReadsEnabled ==
    /\ initialized /\ lease = None
    /\ lease' = Start
    /\ startRead' = [NoRead EXCEPT !.blocker = IF EffectiveTorrentEnabled(active) THEN "installed" ELSE "none"]
    /\ UNCHANGED <<fenceVars, active, gate, nftVars, kernelVars, coreVars, callVars>>

StartReadsTags ==
    /\ lease = Start /\ startRead.tags = None
    /\ startRead' = [startRead EXCEPT !.tags = EffectiveTorrentEnabled(active) /\ active.source.tags]
    /\ UNCHANGED <<fenceVars, active, gate, lease, nftVars, kernelVars, coreVars, callVars>>

\* It puts a new core online, leaves the old one (unchanged), or fails.
StartEnds ==
    /\ lease = Start /\ startRead.tags # None
    /\ \/ coreOnline' = TRUE /\ core' = startRead
       \/ coreOnline' = FALSE /\ core' = NoCore
       \/ UNCHANGED coreVars
    /\ lease' = None /\ startRead' = NoRead
    /\ UNCHANGED <<fenceVars, active, gate, nftVars, kernelVars, callVars>>

\* rw-core exits on its own.
CoreExits ==
    /\ coreOnline
    /\ coreOnline' = FALSE /\ core' = NoCore
    /\ UNCHANGED <<fenceVars, active, gate, lease, startRead, nftVars, kernelVars, callVars>>

\* Somebody else flushes the ruleset.
TablesVanish ==
    /\ tables
    /\ tables' = FALSE /\ static' = {} /\ dynamic' = {} /\ unblocked' = {}
    /\ UNCHANGED <<fenceVars, active, gate, lease, startRead, nftVars, coreVars, callVars>>

-----------------------------------------------------------------------------
(* Admission *)

Unleased == {"block", "unblock"}    \* routes that take no HTTP lease

\* A route reaches the service; the stop route stops the core first.
Arrive(r, o) ==
    /\ initialized /\ pc[r] = "idle"
    /\ o.kind \in Unleased \/ lease = None
    /\ lease' = IF o.kind \in Unleased THEN lease ELSE r
    /\ op' = [op EXCEPT ![r] = o]
    /\ Goto(r, IF o.kind = "reset" THEN "stopCore" ELSE "waiting")
    /\ UNCHANGED <<fenceVars, active, gate, nftVars, kernelVars, coreVars, startRead, txn>>

\* Manager.Stop; the plugins are reset only when it has stopped.
StopCore(r) ==
    /\ pc[r] = "stopCore"
    /\ \E ok \in BOOLEAN :
           /\ RunCoreCall("stop", ok)
           /\ IF ok THEN Goto(r, "waiting") /\ UNCHANGED <<op, lease>>
              ELSE /\ Goto(r, "idle")
                   /\ op' = [op EXCEPT ![r] = NoOp]
                   /\ lease' = None
    /\ UNCHANGED <<fenceVars, active, gate, nftVars, kernelVars, startRead, txn>>

\* acquireMutation: the gate, with the fence checked again behind it.
Acquire(r) ==
    /\ r \in Requests /\ pc[r] = "waiting" /\ gate = None
    /\ IF closing THEN Return(r)
       ELSE gate' = r /\ Goto(r, "admitted") /\ UNCHANGED <<op, txn, lease>>
    /\ UNCHANGED <<fenceVars, active, nftVars, kernelVars, coreVars, startRead>>

\* The fence is up, or the request's context ends, before it has the gate.
GiveUp(r) ==
    /\ r \in Requests /\ pc[r] = "waiting"
    /\ Goto(r, "idle")
    /\ op' = [op EXCEPT ![r] = NoOp]
    /\ lease' = IF lease = r THEN None ELSE lease
    /\ UNCHANGED <<fenceVars, active, gate, nftVars, kernelVars, coreVars, startRead, txn>>

-----------------------------------------------------------------------------
(* The handlers, under the gate *)

Ready == ~closed /\ initialized     \* readyLocked

\* RecreateTablesContext's next snapshot.
Recreated(s) == IF s = None THEN None ELSE [source |-> s.source, ready |-> TRUE]

\* A plausible bug: the rules of an invalid configuration go before the core does.
ClearsRulesFirst == [NoTxn EXCEPT !.reconcile = "stop"]

\* The transaction of clearPluginLocked and of an invalid configuration.
ClearTxn == [NoTxn EXCEPT !.reconcile = "stop", !.first = TRUE]

\* The transaction an admitted request asks for.
TxnOf(o) ==
    CASE o.kind = "sync" ->
           LET next == [source |-> o.source, ready |-> healthy]
           IN [NoTxn EXCEPT !.next = next, !.reconcile = "torrent",
                            !.first = EffectiveTorrentEnabled(active) /\ ~EffectiveTorrentEnabled(next)]
      [] o.kind \in {"clear", "invalid"} -> ClearTxn
      [] o.kind = "recreate" ->
           [NoTxn EXCEPT !.next = Recreated(active), !.reconcile = "torrent", !.first = TRUE, !.force = TRUE]
      [] o.kind = "reset" -> NoTxn

\* SyncContext's fast paths: the published snapshot already behaves as asked.
Unchanged(o) == o.kind = "sync" /\ active = [source |-> o.source, ready |-> healthy]

\* A handler rejects, has nothing to do, or begins its transaction.
Handle(r) ==
    /\ pc[r] = "admitted" /\ op[r].kind \notin Unleased
    /\ \/ /\ ~Ready \/ Unchanged(op[r]) \/ (op[r].kind = "clear" /\ active = None)
          /\ Return(r)
       \/ \* buildPluginPlanContext was cancelled
          op[r].kind \in {"sync", "invalid"} /\ Return(r)
       \/ /\ Ready /\ ~Unchanged(op[r]) /\ (op[r].kind = "clear" => active # None)
          /\ txn' = TxnOf(op[r])
          /\ Goto(r, IF txn'.first THEN "reconcileFirst" ELSE "apply")
          /\ UNCHANGED <<op, gate, lease>>
    /\ UNCHANGED <<fenceVars, active, nftVars, kernelVars, coreVars, startRead>>

\* BlockIPsContext, UnblockIPsContext.
Mutate(r) ==
    /\ pc[r] = "admitted" /\ op[r].kind \in Unleased
    /\ IF Ready /\ healthy
       THEN /\ \E ok \in BOOLEAN : IF op[r].kind = "block" THEN NftBlock(op[r].ip, ok)
                                   ELSE NftUnblock(op[r].ip, ok)
            /\ PublishHealth(active)
       ELSE UNCHANGED <<active, nftVars, kernelVars>>
    /\ Return(r)
    /\ UNCHANGED <<fenceVars, coreVars, startRead>>

\* processXrayWebhookLocked: the worker blocks an address between two handlers.
WorkerBlocks(ip) ==
    /\ gate = None /\ ~webhookStopped
    /\ Ready /\ EffectiveTorrentEnabled(active) /\ healthy
    /\ \E ok \in BOOLEAN : NftBlock(ip, ok)
    /\ PublishHealth(active)
    /\ UNCHANGED <<fenceVars, gate, lease, coreVars, startRead, callVars>>

-----------------------------------------------------------------------------
(* applySnapshotWithOrderLocked: one action per call it makes.  active is the *)
(* previous snapshot until the commit.                                        *)

ResetFirewall(t) ==
    t.force \/ t.next = None \/ (EffectiveTorrentEnabled(active) /\ ~EffectiveTorrentEnabled(t.next))

MutateFirewall(t) ==
    \/ ResetFirewall(t) \/ active = None
    \/ SnapshotFirewallReady(active) # SnapshotFirewallReady(t.next)
    \/ SnapshotFirewall(active) # SnapshotFirewall(t.next)

\* Entered by a transaction that reconciles first; its context may have ended.
ReconcileFirst(r) ==
    /\ pc[r] = "reconcileFirst"
    /\ \/ Return(r) /\ UNCHANGED coreVars
       \/ \E ok \in BOOLEAN :
              /\ RunCoreCall(CoreCall(txn), ok)
              /\ IF ok THEN Goto(r, "apply") /\ UNCHANGED <<op, txn, gate, lease>> ELSE Return(r)
    /\ UNCHANGED <<fenceVars, active, nftVars, kernelVars, startRead>>

\* applyFirewallLocked.  A failed Reset cannot be rolled back: it degrades what
\* it was about to publish.
ApplyFirewall(r) ==
    /\ pc[r] = "apply"
    /\ \/ Return(r) /\ UNCHANGED <<active, nftVars, kernelVars>>
       \/ /\ ~MutateFirewall(txn) \/ ~(healthy \/ ResetFirewall(txn))
          /\ Goto(r, "applied")
          /\ UNCHANGED <<active, op, txn, gate, lease, nftVars, kernelVars>>
       \/ /\ MutateFirewall(txn) /\ (healthy \/ ResetFirewall(txn))
          /\ \E ok \in BOOLEAN :
               /\ IF ResetFirewall(txn) THEN NftReset(SnapshotFirewall(txn.next), ok)
                  ELSE NftApply(SnapshotFirewall(txn.next), ok)
               /\ \/ /\ ok
                     /\ txn' = [txn EXCEPT !.applied = TRUE]
                     /\ Goto(r, "applied")
                     /\ UNCHANGED <<active, op, gate, lease>>
                  \/ /\ ~ok /\ ResetFirewall(txn)
                     /\ PublishHealth(IF txn.next # None THEN txn.next ELSE active)
                     /\ Return(r)
                  \/ /\ ~ok /\ ~ResetFirewall(txn)
                     /\ Goto(r, "rollback")
                     /\ UNCHANGED <<active, op, txn, gate, lease>>
    /\ UNCHANGED <<fenceVars, coreVars, startRead>>

\* restoreFirewallLocked, under a context of its own.
Rollback(r) ==
    /\ pc[r] = "rollback"
    /\ \E ok \in BOOLEAN : NftApply(SnapshotFirewall(active), ok)
    /\ PublishHealth(active)
    /\ Return(r)
    /\ UNCHANGED <<fenceVars, coreVars, startRead>>

Commit(r) == active' = txn.next /\ Return(r)

\* The transaction cannot go on: an applied static plan is rolled back.
Abort(r) ==
    /\ UNCHANGED active
    /\ IF txn.applied /\ ~ResetFirewall(txn)
       THEN Goto(r, "rollback") /\ UNCHANGED <<op, txn, gate, lease>>
       ELSE Return(r)

\* After the firewall: the context check, the reconcile that follows it, the commit.
FinishApply(r) ==
    /\ pc[r] = "applied"
    /\ \/ \* the context has ended: a Reset is published all the same
          /\ IF txn.applied /\ ResetFirewall(txn) THEN Commit(r) ELSE Abort(r)
          /\ UNCHANGED coreVars
       \/ (txn.first \/ txn.reconcile = "none") /\ Commit(r) /\ UNCHANGED coreVars
       \/ /\ ~txn.first /\ txn.reconcile # "none"
          /\ \E ok \in BOOLEAN : RunCoreCall(CoreCall(txn), ok) /\ IF ok THEN Commit(r) ELSE Abort(r)
    /\ UNCHANGED <<fenceVars, nftVars, kernelVars, startRead>>

-----------------------------------------------------------------------------
(* InitializeContext and CloseContext *)

\* Startup; a cancelled one is not retried, the process shuts down.
Initialize ==
    /\ ~initialized /\ ~owned /\ ~closing /\ gate = None
    /\ \E ok, cancelled \in BOOLEAN :
           NftReset({}, ok) /\ initialized' = (ok \/ ~cancelled)
    /\ UNCHANGED <<closing, closed, closeDone, webhookStopped, active, gate, lease, coreVars, startRead, callVars>>

BeginClose(c) ==
    /\ pc[c] = "idle"
    /\ closing' = TRUE
    /\ Goto(c, "signal")
    /\ UNCHANGED <<initialized, closed, closeDone, webhookStopped, active, gate, lease, nftVars,
                   kernelVars, coreVars, startRead, op, txn>>

SignalWebhookStop(c) ==
    /\ pc[c] = "signal"
    /\ webhookStopped' = TRUE
    /\ Goto(c, "acquire")
    /\ UNCHANGED <<initialized, closing, closed, closeDone, active, gate, lease, nftVars, kernelVars,
                   coreVars, startRead, op, txn>>

\* With the gate: nft.Close, and the snapshot goes once the tables are gone.
Close(c) ==
    /\ pc[c] = "acquire" /\ gate = None
    /\ IF closeDone THEN UNCHANGED <<closed, closeDone, active, nftVars, kernelVars>>
       ELSE /\ closed' = TRUE
            /\ \E ok \in BOOLEAN :
                 /\ NftClose(ok)
                 /\ IF ok THEN active' = None /\ closeDone' = TRUE
                    ELSE UNCHANGED <<active, closeDone>>
    /\ Goto(c, "idle")
    /\ UNCHANGED <<initialized, closing, webhookStopped, gate, lease, coreVars, startRead, op, txn>>

\* The cleanup deadline passes while another operation holds the gate.
CloseTimesOut(c) ==
    /\ pc[c] = "acquire"
    /\ Goto(c, "idle")
    /\ UNCHANGED <<fenceVars, active, gate, lease, nftVars, kernelVars, coreVars, startRead, op, txn>>

-----------------------------------------------------------------------------
RequestStep(r) ==
    \/ StopCore(r) \/ Handle(r) \/ Mutate(r) \/ ReconcileFirst(r) \/ ApplyFirewall(r) \/ Rollback(r)
    \/ FinishApply(r)

Next ==
    \/ Initialize \/ StartReadsEnabled \/ StartReadsTags \/ StartEnds \/ CoreExits \/ TablesVanish
    \/ \E r \in Requests : (\E o \in Ops : Arrive(r, o)) \/ Acquire(r) \/ GiveUp(r) \/ RequestStep(r)
    \/ \E ip \in IPs : WorkerBlocks(ip)
    \/ \E c \in Closers : BeginClose(c) \/ SignalWebhookStop(c) \/ Close(c) \/ CloseTimesOut(c)

Spec == Init /\ [][Next]_vars

\* Every call to nft and to the core is bounded by a deadline; senders blocked on
\* a Go channel are served in turn, so a waiter that keeps finding the gate free
\* gets it.
Fairness ==
    /\ \A r \in Requests : WF_vars(RequestStep(r)) /\ SF_vars(Acquire(r))
    /\ \A c \in Closers : WF_vars(SignalWebhookStop(c)) /\ SF_vars(Close(c))
FairSpec == Spec /\ Fairness

-----------------------------------------------------------------------------
TypeFences == {initialized, closing, closed, closeDone, webhookStopped} \subseteq BOOLEAN
TypeKernel ==
    /\ {capable, owned, healthy, tables} \subseteq BOOLEAN
    /\ static \subseteq IPs /\ dynamic \subseteq IPs /\ unblocked \subseteq IPs
TypeCore ==
    /\ coreOnline \in BOOLEAN
    /\ core \in [blocker : {"none", "installed", "removed"}, tags : BOOLEAN]
    /\ startRead \in [blocker : {"none", "installed"}, tags : BOOLEAN \cup {None}]
TypeCalls ==
    /\ gate \in Requests \cup {None}
    /\ lease \in Requests \cup {None, Start}
    /\ pc \in [Requests \cup Closers -> RequestPcs \cup ClosePcs]
    /\ \A r \in Requests : pc[r] \in RequestPcs
    /\ \A c \in Closers : pc[c] \in ClosePcs
    /\ op \in [Requests -> Ops \cup {NoOp}]
    /\ txn \in Txns

\* Every variable holds a value of its Go type.
TypeOK ==
    /\ active \in Snapshots \cup {None}
    /\ TypeFences /\ TypeKernel /\ TypeCore /\ TypeCalls

\* Between operations the published snapshot tells the truth about the kernel:
\* it claims its firewall exactly while the backend is healthy, and then the
\* filter sets hold its rules, less the addresses a panel unblocked since they
\* were written.  Failed and cancelled transactions, rollbacks that fail in turn
\* and blocks that find the tables gone all lead back here.
SnapshotIsTruth ==
    gate = None /\ ~closed =>
        /\ active # None => active.ready = healthy
        /\ healthy /\ tables => static = SnapshotFirewall(active) \ unblocked

\* "Disabling Torrent, cleanup, or a destructive reset coordinates or stops Xray
\* first and then resets the firewall" (docs/architecture.md section 8.1): what a
\* published configuration put into the kernel is cleared for good only when no
\* core runs, and an effective blocker's set is given up only by a core that no
\* longer routes to the blocker.
RulesOutliveCore ==
    [][\A r \in Requests :
          pc[r] = "apply" /\ pc'[r] # "apply" /\ <<static, dynamic>>' # <<static, dynamic>> /\ coreOnline =>
             /\ txn.next = None => active = None
             /\ EffectiveTorrentEnabled(active) /\ ~EffectiveTorrentEnabled(txn.next) => core.blocker # "installed"]_vars

\* A running core has the blocker the snapshot says is effective, with its rule
\* tags, although Start reads the snapshot in pieces while the worker may degrade
\* it, and although recreate brings a degraded blocker back.  (A sync cancelled
\* after it hot-removed the outbound leaves it "removed".)
BlockerIsInstalled ==
    gate = None /\ lease # Start /\ coreOnline /\ EffectiveTorrentEnabled(active) =>
        core.blocker # "none" /\ core.tags = active.source.tags

\* A sync under which the blocker stays effective loses no blocked address.
BlocksSurviveSync ==
    [][\A r \in Requests :
          gate = r /\ op[r].kind = "sync" /\ txn.next # None
            /\ EffectiveTorrentEnabled(active) /\ EffectiveTorrentEnabled(txn.next) /\ tables'
          => dynamic \subseteq dynamic']_vars

\* The kernel never holds tables this process would not delete: neither when nft
\* was killed after it committed, nor those a killed process left behind.
TablesAreOwned == tables /\ capable /\ initialized => owned

\* Once Close has reported the cleanup done nothing is left, and no operation
\* admitted earlier or waiting at the gate brings anything back.
ClosedIsClean ==
    closeDone /\ capable /\ initialized => active = None /\ ~tables /\ ~healthy /\ gate = None

\* Every request is answered.
RequestReturns == \A r \in Requests : pc[r] # "idle" ~> pc[r] = "idle"

\* The published snapshot is what the kernel filters and what the core blocks.
SnapshotHolds == SnapshotIsTruth /\ BlockerIsInstalled

\* What the kernel holds is there as long as it should be.  No operation lifts a
\* filter that still protects somebody: rules outlive the core behind them, and
\* blocked addresses outlive a sync of the blocker.  Close can delete what this
\* process, or a killed one before it, put there, and leaves nothing.
KernelKeepsRules ==
    /\ [](TypeOK /\ TablesAreOwned /\ ClosedIsClean)
    /\ RulesOutliveCore
    /\ BlocksSurviveSync

-----------------------------------------------------------------------------
(* The inductive invariant behind SnapshotHolds and KernelKeepsRules *)

\* Places that are under the gate; those of a transaction.
InTransaction == {"reconcileFirst", "apply", "applied", "rollback"}
UnderGate     == InTransaction \cup {"admitted"}

\* The fences of Close, the holder of the gate, and ownership of the backend.
FenceInv ==
    /\ closeDone => closed
    /\ closed => closing
    /\ \A c \in Closers : pc[c] # "idle" => closing
    /\ \A r \in Requests : pc[r] \in UnderGate <=> gate = r
    /\ gate # None => ~closed
    /\ ~initialized => active = None /\ \A r \in Requests : pc[r] = "idle"
    /\ healthy => owned /\ capable

\* A leased request holds the lease until it returns, and the request that
\* stopped the core keeps it stopped.
LeaseInv ==
    \A r \in Requests :
        /\ pc[r] # "idle" => op[r] \in Ops
        /\ pc[r] # "idle" /\ op[r].kind \notin Unleased => lease = r
        /\ pc[r] = "stopCore" => op[r].kind = "reset"
        /\ pc[r] \in {"waiting", "admitted"} \cup InTransaction /\ op[r].kind = "reset" => ~coreOnline
        /\ pc[r] \in {"apply", "applied", "rollback"} /\ op[r].kind \in {"clear", "invalid"} => ~coreOnline

\* What TxnOf built is still what it would build: the snapshot it started from
\* is published until the transaction ends.
Plan(r) ==
    \/ /\ op[r].kind = "sync" /\ txn.next # None /\ txn.reconcile = "torrent" /\ ~txn.force
       /\ txn.first = (EffectiveTorrentEnabled(active) /\ ~EffectiveTorrentEnabled(txn.next))
    \/ op[r].kind \in {"clear", "invalid"} /\ txn.next = None /\ txn.reconcile = "stop" /\ txn.first
    \/ /\ op[r].kind = "recreate" /\ txn.next = Recreated(active) /\ txn.reconcile = "torrent"
       /\ txn.first /\ txn.force
    \/ op[r].kind = "reset" /\ txn.next = None /\ txn.reconcile = "none" /\ ~txn.first
PlanInv ==
    \A r \in Requests : pc[r] \in InTransaction =>
        /\ Plan(r)
        /\ pc[r] = "reconcileFirst" => txn.first
        /\ pc[r] \in {"reconcileFirst", "apply"} =>
               /\ ~txn.applied
               /\ op[r].kind = "sync" => txn.next.ready = healthy

\* What SnapshotIsTruth says, of any snapshot.
Describes(s) ==
    /\ s # None => s.ready = healthy
    /\ healthy /\ tables => static = SnapshotFirewall(s) \ unblocked

\* Which snapshot the kernel agrees with at each place: the published one, then
\* both, or only the next once its rules are written.
TruthInv ==
    /\ gate = None /\ ~closed => Describes(active)
    /\ \A r \in Requests :
        /\ pc[r] \in {"admitted", "reconcileFirst", "apply"} => Describes(active)
        /\ pc[r] = "applied" =>
            /\ Describes(txn.next)
            /\ ~txn.applied => Describes(active) /\ ~ResetFirewall(txn)
            /\ txn.applied => owned /\ capable /\ (ResetFirewall(txn) \/ active = None \/ active.ready)
        /\ pc[r] = "rollback" => owned /\ capable /\ (active = None \/ active.ready)

\* What BlockerIsInstalled says, of any snapshot.
CoreAgrees(s) ==
    coreOnline /\ EffectiveTorrentEnabled(s) => core.blocker # "none" /\ core.tags = s.source.tags

\* The core agrees with the published snapshot, and with the next one once the
\* transaction has reconciled; what a start has read still covers the snapshot.
CoreInv ==
    /\ CoreAgrees(active)
    /\ lease = Start /\ EffectiveTorrentEnabled(active) =>
           /\ startRead.blocker = "installed"
           /\ startRead.tags # None => startRead.tags = active.source.tags
    /\ \A r \in Requests : pc[r] \in {"apply", "applied"} /\ txn.first =>
           /\ CoreAgrees(txn.next)
           /\ coreOnline /\ EffectiveTorrentEnabled(active) /\ ~EffectiveTorrentEnabled(txn.next) =>
                  core.blocker # "installed"

\* The inductive invariant of the plugin service.
PluginInv ==
    /\ TypeOK /\ TablesAreOwned /\ ClosedIsClean
    /\ FenceInv /\ LeaseInv /\ PlanInv /\ TruthInv /\ CoreInv
=============================================================================
