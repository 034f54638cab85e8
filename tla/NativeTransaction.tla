-------------------------- MODULE NativeTransaction --------------------------
(***************************************************************************)
(* The Native lifecycle engine of rnlctl (internal/rnlctl): install,       *)
(* activate, upgrade, rollback, repair, uninstall and service control as   *)
(* sequences of durable steps under the operation lock, with a journal     *)
(* that outlives the process.  Every step may return an error, with or     *)
(* without its effect (a rename is visible before the fsync of its         *)
(* directory fails; a cancelled service-manager client does not cancel the *)
(* job), and the process or the machine may stop between any two steps.    *)
(*                                                                         *)
(* An operation takes the lock, reads the disk, and works off `todo', the  *)
(* calls the handler makes in its order.  A step that fails replaces       *)
(* `todo' by what the handler's rollback closure does.  Directories,       *)
(* timestamps, progress output and file modes are left out; a generation   *)
(* and the archive that names it are one record <<generation, cache kind>>.*)
(***************************************************************************)
EXTENDS Naturals, Sequences, FiniteSets

CONSTANTS Procs, Gens, None,
          Torn,          \* steps whose error may hide a completed effect
          MaxFaults      \* bound on injected errors and crashes

VARIABLES disk,          \* everything that survives a crash
          proc,          \* the rnlctl processes
          faults         \* errors and crashes injected so far

vars == <<disk, proc, faults>>

Kinds == {"verified-archive", "root-snapshot"}
Records == Gens \X Kinds
Service == [enabled: BOOLEAN, active: BOOLEAN]
Off == [enabled |-> FALSE, active |-> FALSE]
On == [enabled |-> TRUE, active |-> TRUE]

GenOf(r) == r[1]

(***************************************************************************)
(* Reading the disk.                                                       *)
(***************************************************************************)
\* generationRecord of a recorded generation: its cache file follows its kind.
RecordOf(st, g) == <<g, st.kind[g]>>
Recorded(st) == DOMAIN st.kind
KeptCaches(st) == {RecordOf(st, g) : g \in Recorded(st)}

\* validateState, as loadState and saveState apply it.
StateValid(st) ==
  /\ st.prepared => st.desired = Off
  /\ Cardinality(Recorded(st)) \in 1 .. 2
  /\ st.current \in Recorded(st)
  /\ st.previous # None => st.previous # st.current /\ st.previous \in Recorded(st)
  /\ KeptCaches(st) \subseteq Records

\* validateJournal, as loadJournal and saveJournal apply it.
Phases(op) ==
  {"planned"} \cup CASE op = "install" -> {"payload-ready", "service-prepared", "state-committed"}
                     [] op = "upgrade" -> {"payload-ready", "service-restored", "state-committed"}
                     [] OTHER -> {}
JournalValid(j) ==
  /\ j.phase \in Phases(j.op)
  /\ j.purge => j.op = "uninstall"
  /\ j.restart => j.op = "activate"
  /\ j.target \in Records

\* validateManagedConfiguration: node.env and, unless prepared, the Secret.
ConfigValid(d, needSecret) == d.env /\ (needSecret => d.secret)

\* WaitHealthy: the node behind the managed link answers on its socket.
Healthy(d) ==
  /\ d.service.active /\ d.unit
  /\ d.node /\ d.current # None /\ d.payload[d.current] = "ok"
  /\ ConfigValid(d, TRUE)

\* checkSelectedLinks: links and the independent rnlctl follow the state.
LinksFollow(d) ==
  /\ d.current = d.state.current
  /\ d.previous = d.state.previous
  /\ d.node
  /\ d.control = d.state.current

\* Status: what `rnlctl status' reports of an installation.
Problems(d) ==
  {x \in {"links", "generation", "configuration", "service", "health", "cache"} :
     CASE x = "links" -> ~LinksFollow(d)
       [] x = "generation" -> d.payload[d.state.current] # "ok"
       [] x = "configuration" -> ~ConfigValid(d, ~d.state.prepared)
       [] x = "service" -> d.service # d.state.desired
       [] x = "health" -> d.state.desired.active /\ d.service.active /\ ~Healthy(d)
       [] x = "cache" -> RecordOf(d.state, d.state.current) \notin d.caches}

Deployment(d) ==
  IF d.journal # None THEN "recovery-required"
  ELSE IF d.state = None THEN "absent"
  ELSE IF Problems(d) # {} THEN "degraded"
  ELSE IF d.state.prepared THEN "prepared" ELSE "installed"

\* Doctor: every recorded generation verifies and can be rebuilt from cache.
DoctorFindsMaterial(d) ==
  \A g \in Recorded(d.state) :
    d.payload[g] = "ok" /\ RecordOf(d.state, g) \in d.caches

\* requireFreshInstallLayout
FreshLayout(d) ==
  d.current = None /\ d.previous = None /\ ~d.node /\ d.control = None

\* requireCleanState
CleanState(d) == d.state # None /\ d.journal = None

(***************************************************************************)
(* Steps.  `grp' names the steps that a failure of this one makes the      *)
(* handler skip while it is undoing, and, in an upgrade, whether the       *)
(* transition of the live service had started.                             *)
(***************************************************************************)
Step(do, arg) == [do |-> do, arg |-> arg, grp |-> do]
In(grp, steps) == [i \in DOMAIN steps |-> [steps[i] EXCEPT !.grp = grp]]
When(cond, steps) == IF cond THEN steps ELSE <<>>

\* selectGeneration
Select(cur, prev) ==
  <<Step("current", cur), Step("previous", prev), Step("node", TRUE), Step("control", cur)>>

\* applyServiceState
Apply(want) == <<Step("quiesce", want), Step("enable", want), Step("activate", want)>>

\* reassertServiceState: the previous intent is issued again and then checked.
Reassert(want) ==
  When(want.enabled, <<Step("assertEnabled", want)>>)
  \o <<Step("assertActive", want)>>
  \o When(~want.enabled, <<Step("assertEnabled", want)>>)
  \o <<Step("checkService", want)>>

Journal(l, phase) ==
  [op |-> l.jop, phase |-> phase, target |-> l.target, desired |-> l.desired,
   prepared |-> l.prepared, purge |-> l.purge, restart |-> l.restart,
   owned |-> l.owned, tx |-> l.tx]

\* transactionAccount: older journals and reconstructed ones have no TransactionAccount.
CreatedAccount(j) == IF j.tx = None THEN j.owned ELSE j.tx

\* The state an operation commits, with the account ownership merged by Prepare.
Committed(l) == [l.st EXCEPT !.owned = l.owned]

WithoutPayload(d, gs) == [d EXCEPT !.payload = [g \in Gens |-> IF g \in gs THEN "absent" ELSE @[g]]]
Spoiled(d, gs) ==
  [d EXCEPT !.payload = [g \in Gens |-> IF g \in gs /\ @[g] # "absent" THEN "damaged" ELSE @[g]]]

\* repairGeneration: rebuild the payload from the supplied bundle or the cache,
\* then the cache from the supplied bundle or the payload (a root snapshot).
RebuiltKind(d, l, g) ==
  IF RecordOf(l.st, g) \in d.caches THEN l.st.kind[g]
  ELSE IF l.supplied # None /\ GenOf(l.supplied) = g THEN l.supplied[2]
  ELSE "root-snapshot"

RepairedGeneration(d, l, g) ==
  [d EXCEPT !.payload[g] = "ok",
            !.caches = @ \cup {<<g, RebuiltKind(d, l, g)>>}]

\* What a step leaves on disk.
Effect(s, l, d) ==
  CASE s.do = "cache" -> [d EXCEPT !.caches = @ \cup {l.target}]
    [] s.do = "journal" -> [d EXCEPT !.journal = Journal(l, s.arg)]
    [] s.do = "clear" -> [d EXCEPT !.journal = None]
    [] s.do = "state" -> [d EXCEPT !.state = Committed(l)]
    [] s.do = "restoreState" -> [d EXCEPT !.state = s.arg]
    [] s.do = "rmState" -> [d EXCEPT !.state = None]
    [] s.do = "copy" -> [d EXCEPT !.payload[GenOf(l.target)] = "ok"]
    [] s.do = "repairGeneration" -> RepairedGeneration(d, l, s.arg)
    [] s.do = "rmPayload" -> WithoutPayload(d, s.arg)
    [] s.do = "rmCache" -> [d EXCEPT !.caches = @ \ s.arg]
    [] s.do = "gcCaches" -> [d EXCEPT !.caches = @ \cap KeptCaches(l.st)]
    [] s.do = "env" -> [d EXCEPT !.env = s.arg]
    [] s.do = "secret" -> [d EXCEPT !.secret = s.arg]
    [] s.do = "current" -> [d EXCEPT !.current = s.arg]
    [] s.do = "previous" -> [d EXCEPT !.previous = s.arg]
    [] s.do = "node" -> [d EXCEPT !.node = s.arg]
    [] s.do = "control" -> [d EXCEPT !.control = s.arg]
    [] s.do = "prepare" -> [d EXCEPT !.unit = TRUE, !.user = IF @ = "absent" THEN "ours" ELSE @]
    [] s.do = "rmUnit" -> [d EXCEPT !.unit = FALSE]
    [] s.do = "quiesce" -> [d EXCEPT !.service.active = @ /\ s.arg.active]
    [] s.do = "halt" -> [d EXCEPT !.service.active = FALSE]
    [] s.do \in {"enable", "assertEnabled"} -> [d EXCEPT !.service.enabled = s.arg.enabled]
    [] s.do \in {"activate", "assertActive"} -> [d EXCEPT !.service.active = s.arg.active]
    [] s.do = "restart" -> [d EXCEPT !.service.active = TRUE]
    [] s.do = "saveRetained" -> [d EXCEPT !.retained = [owned |-> l.owned]]
    [] s.do = "rmRetained" -> [d EXCEPT !.retained = None]
    [] s.do = "rmAccount" -> [d EXCEPT !.user = "absent"]
    [] OTHER -> d

\* What a step cannot do on this disk, whatever the host answers.
Possible(s, l, d) ==
  CASE s.do = "copy" -> d.payload[GenOf(l.target)] # "damaged"
    [] s.do \in {"control", "prepare"} -> s.arg # None => d.payload[s.arg] # "absent"
    [] s.do = "validate" -> d.payload[s.arg] = "ok"
    [] s.do = "verify" -> d.payload[s.arg.gen] = "ok" /\ (s.arg.want.active => Healthy(d))
    [] s.do = "health" -> Healthy(d)
    [] s.do = "config" -> ConfigValid(d, TRUE)
    [] s.do = "checkService" -> d.service = s.arg
    [] s.do \in {"activate", "assertActive"} -> s.arg.active => d.unit
    [] s.do = "repairGeneration" ->
         \/ d.payload[s.arg] = "ok"
         \/ RecordOf(l.st, s.arg) \in d.caches
         \/ l.supplied # None /\ GenOf(l.supplied) = s.arg
    [] OTHER -> TRUE

\* A damaged generation may or may not still hold the file the step copies.
Uncertain(s, d) == s.do \in {"control", "prepare"} /\ s.arg # None /\ d.payload[s.arg] = "damaged"

\* mergeAccountOwnership
MergeOwnership(l, made) == l.owned \/ l.inherit \/ made

\* What the handler remembers of a step that succeeded.
Learn(s, l, d) ==
  CASE s.do = "cache" -> [l EXCEPT !.cacheNew = l.target \notin d.caches]
    [] s.do = "copy" -> [l EXCEPT !.genNew = d.payload[GenOf(l.target)] = "absent"]
    [] s.do = "prepare" ->
         LET made == d.user = "absent"
         IN  [l EXCEPT !.served = TRUE,
                       !.tx = IF l.op = "install" THEN made ELSE @,
                       !.owned = MergeOwnership(l, made)]
    [] s.do = "repairGeneration" -> [l EXCEPT !.st.kind[s.arg] = RebuiltKind(d, l, s.arg)]
    [] OTHER -> l

\* Prepare returns the account it created even when a later host step fails.
LearnOnError(s, l, d) ==
  IF s.do = "prepare" /\ l.op = "install" THEN [l EXCEPT !.tx = d.user = "absent"] ELSE l

(***************************************************************************)
(* What each handler does under the lock, and what it undoes.              *)
(***************************************************************************)
Verify(g, want) == Step("verify", [gen |-> g, want |-> want])

InstallPlan(l, withSecret) ==
  LET g == GenOf(l.target)
  IN  <<Step("cache", None), Step("journal", "planned"), Step("copy", None),
        Step("journal", "payload-ready"), Step("env", TRUE)>>
      \o When(withSecret, <<Step("secret", TRUE)>>)
      \o Select(g, None)
      \o <<Step("prepare", g), Step("journal", "service-prepared")>>
      \o Apply(l.desired)
      \o <<Verify(g, l.desired), Step("state", None), Step("journal", "state-committed")>>
      \o In("after", <<Step("clear", None), Step("rmRetained", None)>>)

UnlinkAll ==
  <<Step("current", None), Step("previous", None), Step("node", FALSE), Step("control", None)>>

\* rollbackFailedInstall, then clearJournal when nothing failed.
UndoInstall(l) ==
  When(l.served, <<Step("halt", None), Step("enable", Off)>>)
  \o <<Step("rmUnit", None)>> \o UnlinkAll \o <<Step("rmState", None)>>
  \o When(l.genNew, <<Step("rmPayload", {GenOf(l.target)})>>)
  \o When(l.cacheNew, <<Step("rmCache", {l.target})>>)
  \o <<Step("env", l.begin.env), Step("secret", l.begin.secret)>>
  \o When(l.tx = TRUE, <<Step("rmAccount", None)>>)
  \o In("ifclean", <<Step("clear", None)>>)

ActivatePlan(l, withSecret) ==
  <<Step("journal", "planned")>>
  \o When(withSecret, <<Step("secret", TRUE)>>)
  \o <<Step("config", None), Step("prepare", l.st.current)>>
  \o Apply(l.desired)
  \o When(l.restart, <<Step("restart", None)>>)
  \o <<Verify(l.st.current, l.desired), Step("state", None)>>
  \o In("after", <<Step("clear", None)>>)

\* The rollback closure of Activate.
UndoActivate(l) ==
  <<Step("secret", l.begin.secret)>>
  \o Reassert(l.begin.service)
  \o In("ifclean", When(l.restart, <<Step("restart", None), Step("health", None)>>)
                   \o <<Step("clear", None)>>)

\* removeSuperseded
RemoveSuperseded(old, new) ==
  When(old.previous # None,
       When(old.previous \notin Recorded(new), <<Step("rmPayload", {old.previous})>>)
       \o When(RecordOf(old, old.previous) \notin KeptCaches(new),
               <<Step("rmCache", {RecordOf(old, old.previous)})>>))

UpgradePlan(l) ==
  LET g == GenOf(l.target)  old == l.begin.state
  IN  In("staged", <<Step("cache", None), Step("journal", "planned"), Step("copy", None),
                     Step("journal", "payload-ready"), Step("validate", g)>>)
      \o In("transition",
            When(l.begin.service.active, <<Step("halt", None)>>)
            \o Select(g, old.current) \o <<Step("prepare", g)>> \o Apply(l.desired)
            \o <<Verify(g, l.desired), Step("journal", "service-restored"),
                 Step("state", None), Step("journal", "state-committed")>>)
      \o In("after", <<Step("clear", None)>> \o RemoveSuperseded(old, l.st))

\* discardStagedUpgrade
DiscardStaged(l) ==
  When(l.genNew, <<Step("rmPayload", {GenOf(l.target)})>>)
  \o When(l.cacheNew, <<Step("rmCache", {l.target})>>)

\* rollbackTransition
RollbackTransition(l) ==
  LET old == l.begin.state
  IN  <<Step("halt", None)>>
      \o In("select", Select(old.current, old.previous) \o <<Step("prepare", old.current)>>)
      \o In("apply", Apply(l.desired) \o <<Verify(old.current, l.desired)>>)
      \o In("commit", <<Step("restoreState", old)>> \o DiscardStaged(l))

RollbackPlan(l) ==
  <<Step("journal", "planned")>>
  \o In("transition",
        When(l.begin.service.active, <<Step("halt", None)>>)
        \o Select(GenOf(l.target), l.begin.state.current)
        \o <<Step("prepare", GenOf(l.target))>> \o Apply(l.desired)
        \o <<Verify(GenOf(l.target), l.desired), Step("state", None)>>)
  \o In("after", <<Step("clear", None)>>)

\* controlService
ControlPlan(l) ==
  <<Step("journal", "planned")>>
  \o In("service",
        CASE l.op = "start" -> <<Step("activate", l.st.desired), Step("health", None)>>
          [] l.op = "stop" -> <<Step("halt", None)>>
          [] l.op = "restart" -> <<Step("restart", None), Step("health", None)>>)
  \o <<Step("state", None)>> \o In("after", <<Step("clear", None)>>)

UndoControl(l) ==
  Reassert(l.begin.service)
  \o In("ifclean", When(l.begin.service.active, <<Verify(l.st.current, l.begin.service)>>)
                   \o <<Step("clear", None)>>)

\* Mutant: gives up the intent before the last file is gone.
ClearsBeforeControl(l, removeService) ==
  When(removeService, Apply(Off) \o <<Step("rmUnit", None)>>)
  \o When(~l.purge, <<Step("saveRetained", None)>>)
  \o <<Step("node", FALSE), Step("current", None), Step("previous", None), Step("rmPayload", Gens)>>
  \o When(l.purge, <<Step("secret", FALSE), Step("env", FALSE)>>)
  \o When(l.purge /\ l.owned, <<Step("rmAccount", None)>>)
  \o <<Step("rmState", None), Step("rmCache", Records), Step("clear", None), Step("control", None)>>

\* finishUninstall with removeRuntimeFiles; it is idempotent, so it has no undo.
FinishUninstall(l, removeService) ==
  When(removeService, Apply(Off) \o <<Step("rmUnit", None)>>)
  \o When(~l.purge, <<Step("saveRetained", None)>>)
  \o <<Step("node", FALSE), Step("current", None), Step("previous", None),
       Step("rmPayload", Gens)>>
  \o When(l.purge, <<Step("secret", FALSE), Step("env", FALSE)>>)
  \o When(l.purge /\ l.owned, <<Step("rmAccount", None)>>)
  \o <<Step("rmState", None), Step("rmCache", Records)>>
  \o When(l.purge, <<Step("rmRetained", None)>>)
  \o <<Step("control", None), Step("clear", None)>>

\* cleanupInterruptedInstall: collects errors, and clears the journal only without any.
CleanupInstall(d) ==
  When(d.service.active, <<Step("halt", None)>>)
  \o When(d.service.enabled, <<Step("enable", Off)>>)
  \o <<Step("rmUnit", None)>> \o UnlinkAll
  \o <<Step("rmState", None), Step("rmPayload", {GenOf(d.journal.target)}),
       Step("rmCache", {d.journal.target})>>
  \o When(CreatedAccount(d.journal), <<Step("rmAccount", None)>>)
  \o In("ifclean", <<Step("clear", None)>>)

\* Mutant: does not ask whether the upgrade was committed.
RemoveTarget(l) ==
  When(l.jop = "upgrade", <<Step("rmPayload", {GenOf(l.target)})>>
                          \o When(l.target \notin KeptCaches(l.st), <<Step("rmCache", {l.target})>>))

\* removeUncommittedUpgrade
RemoveUncommitted(l) ==
  When(l.jop = "upgrade" /\ GenOf(l.target) \notin Recorded(l.st),
       <<Step("rmPayload", {GenOf(l.target)})>>
       \o When(l.target \notin KeptCaches(l.st), <<Step("rmCache", {l.target})>>))

\* Repair from the lock on; `order' is the order of Go's map iteration.
RepairPlan(l, order) ==
  When(l.begin.journal = None, <<Step("journal", "planned")>>)
  \o When(l.begin.service.active, <<Step("halt", None)>>)
  \o [i \in DOMAIN order |-> Step("repairGeneration", order[i])]
  \o Select(l.st.current, l.st.previous)
  \o RemoveUncommitted(l)
  \o <<Step("prepare", l.st.current)>>
  \o When(l.begin.state = None, <<Step("journal", "service-prepared")>>)
  \o Apply(l.st.desired)
  \o When(l.restart, <<Step("restart", None)>>)
  \o <<Verify(l.st.current, l.st.desired), Step("state", None), Step("clear", None),
       Step("gcCaches", None)>>

\* The rollback closure of each handler at the step that failed.
Undo(s, l, cancelled) ==
  CASE s.grp = "after" \/ s.do = "cache" -> <<>>
    [] s.do = "journal" /\ s.arg = "planned" ->
         When(l.cacheNew, <<Step("rmCache", {l.target})>>)
    [] l.op = "install" -> UndoInstall(l)
    [] l.op = "activate" -> UndoActivate(l)
    [] l.op = "upgrade" /\ s.grp = "staged" -> DiscardStaged(l) \o In("ifclean", <<Step("clear", None)>>)
    [] l.op \in {"upgrade", "rollback"} -> RollbackTransition(l) \o In("ifclean", <<Step("clear", None)>>)
    [] l.op \in {"start", "stop", "restart"} /\ s.grp = "service" /\ cancelled -> UndoControl(l)
    [] OTHER -> <<>>

\* Mutant: clears the journal although a compensation failed.
SkippingDependents(s, rest) ==
  LET gone == IF s.do \in {"rmPayload", "rmCache"} THEN {} ELSE {s.grp}
  IN  SelectSeq(rest, LAMBDA t : t.grp \notin gone)

\* Undoing goes on past an error, without the steps that depend on the failed one.
Skipping(s, rest) ==
  LET gone == IF s.do \in {"rmPayload", "rmCache"} THEN {"ifclean"} ELSE {s.grp, "ifclean"}
  IN  SelectSeq(rest, LAMBDA t : t.grp \notin gone)

(***************************************************************************)
(* The processes.                                                          *)
(***************************************************************************)
Idle == [stage |-> "idle"]
Lockable == \A q \in Procs : proc[q].stage \in {"idle", "reading"}

Run(stage, todo, l) == IF todo = <<>> THEN Idle ELSE [stage |-> stage, todo |-> todo, l |-> l]

Locals(op, d) ==
  [op |-> op, jop |-> op, target |-> None, desired |-> Off, prepared |-> FALSE, purge |-> FALSE,
   restart |-> FALSE, owned |-> FALSE, inherit |-> FALSE, tx |-> None, st |-> None,
   supplied |-> None, cacheNew |-> FALSE, genNew |-> FALSE, served |-> FALSE, begin |-> d]

\* An operation on an installation starts from its committed state.
OnState(op, d) ==
  [Locals(op, d) EXCEPT !.st = d.state, !.target = RecordOf(d.state, d.state.current),
                        !.owned = d.state.owned, !.desired = d.service]

Acquire(p, todo, l) ==
  /\ proc[p].stage = "idle" /\ Lockable
  /\ proc' = [proc EXCEPT ![p] = Run("doing", todo, l)]
  /\ UNCHANGED <<disk, faults>>

Install(p) ==
  \E b \in Records, prepareOnly \in BOOLEAN, secretFile \in BOOLEAN :
    LET want == IF prepareOnly THEN Off ELSE On
        st == [current |-> GenOf(b), previous |-> None, prepared |-> prepareOnly,
               desired |-> want, owned |-> FALSE, kind |-> [g \in {GenOf(b)} |-> b[2]]]
        l == [Locals("install", disk) EXCEPT
                !.target = b, !.desired = want, !.prepared = prepareOnly, !.st = st,
                !.inherit = disk.retained # None /\ disk.retained.owned]
        withSecret == secretFile \/ disk.secret
    IN  /\ disk.journal = None /\ disk.state = None
        /\ prepareOnly \/ withSecret
        /\ FreshLayout(disk)
        /\ Acquire(p, InstallPlan(l, withSecret), l)

Activate(p) ==
  \E secretFile, secretChanged \in BOOLEAN :
    LET l == [OnState("activate", disk) EXCEPT
                !.desired = On,
                !.st = [disk.state EXCEPT !.desired = On, !.prepared = FALSE],
                !.restart = secretFile /\ secretChanged /\ disk.service.active]
    IN  /\ CleanState(disk)
        /\ disk.payload[disk.state.current] = "ok"
        /\ secretFile \/ disk.secret
        /\ secretFile \/ disk.state.desired # On \/ disk.service # On
        /\ Acquire(p, ActivatePlan(l, secretFile), l)

\* The records of an upgraded state: the new generation and the one it replaces.
UpgradedRecords(old, b) ==
  [g \in {GenOf(b), old.current} |-> IF g = GenOf(b) THEN b[2] ELSE old.kind[g]]

\* prepareUpgradeCandidate and inspectUpgrade guard the upgrade.
Upgrade(p) ==
  \E b \in Records :
    LET old == disk.state
        l == [OnState("upgrade", disk) EXCEPT
                !.target = b,
                !.st = [old EXCEPT !.current = GenOf(b), !.previous = old.current,
                                   !.desired = disk.service, !.kind = UpgradedRecords(old, b)]]
    IN  /\ CleanState(disk) /\ LinksFollow(disk)
        /\ disk.payload[old.current] = "ok"
        /\ ConfigValid(disk, ~old.prepared)
        /\ old.prepared => disk.service = Off
        /\ GenOf(b) # old.current
        /\ Acquire(p, UpgradePlan(l), l)

Rollback(p) ==
  LET old == disk.state
      l == [OnState("rollback", disk) EXCEPT
              !.target = RecordOf(old, old.previous),
              !.st = [old EXCEPT !.current = old.previous, !.previous = old.current,
                                 !.desired = disk.service]]
  IN  /\ CleanState(disk) /\ old.previous # None
      /\ disk.payload[old.previous] = "ok"
      /\ Acquire(p, RollbackPlan(l), l)

Control(p, op) ==
  LET activating == op \in {"start", "restart"}
      st == [disk.state EXCEPT !.desired.active = IF op = "restart" THEN @ ELSE activating]
      l == [OnState(op, disk) EXCEPT !.desired = disk.state.desired, !.st = st,
                                     !.prepared = disk.state.prepared]
  IN  /\ CleanState(disk)
      /\ activating => ~disk.state.prepared /\ ConfigValid(disk, TRUE)
      /\ op = "start" => ~(disk.service.active /\ disk.state.desired.active)
      /\ op = "stop" => disk.service.active \/ disk.state.desired.active
      /\ op = "restart" => disk.service.active
      /\ Acquire(p, ControlPlan(l), l)

Uninstall(p) ==
  \E purge \in BOOLEAN :
    LET installed == disk.state # None
        l == IF installed
             THEN [OnState("uninstall", disk) EXCEPT
                     !.desired = Off, !.prepared = disk.state.prepared, !.purge = purge]
             ELSE [Locals("uninstall", disk) EXCEPT !.purge = purge, !.owned = disk.retained.owned]
    IN  /\ disk.journal = None
        /\ installed \/ (purge /\ disk.retained # None)
        /\ Acquire(p, When(installed, <<Step("journal", "planned")>>)
                      \o FinishUninstall(l, installed), l)

\* The service state a repair of this disk aims at, and whether its
\* configuration check, made before the lock, lets the repair go on.
RepairAim(d) ==
  IF d.state # None /\ ~(d.journal # None /\ d.journal.op = "activate")
  THEN d.state.desired ELSE d.journal.desired
RepairConfigInvalid(d) == ~ConfigValid(d, RepairAim(d).active)
RepairAdmits(d) ==
  \/ d.journal # None /\ d.journal.op = "uninstall"
  \/ d.state = None \/ ~RepairConfigInvalid(d)

\* Repair decides on an unlocked reading of state, journal and configuration.
RepairReads(p) ==
  /\ proc[p].stage = "idle"
  /\ disk.state # None \/ disk.journal # None
  /\ RepairAdmits(disk)
  /\ proc' = [proc EXCEPT ![p] =
       [stage |-> "reading", invalid |-> RepairConfigInvalid(disk), journal |-> disk.journal,
        uninstalling |-> disk.journal # None /\ disk.journal.op = "uninstall"]]
  /\ UNCHANGED <<disk, faults>>

\* repairInterruptedUninstall resumes the recorded intent.
ResumeUninstall(p) ==
  LET j == disk.journal
      l == [Locals("uninstall", disk) EXCEPT !.purge = j.purge, !.owned = j.owned]
  IN  /\ proc[p].stage = "reading" /\ proc[p].uninstalling /\ Lockable
      /\ proc' = [proc EXCEPT ![p] =
           IF j # None /\ j.op = "uninstall"
              /\ j.purge = proc[p].journal.purge /\ j.owned = proc[p].journal.owned
           THEN Run("doing", FinishUninstall(l, TRUE), l) ELSE Idle]
      /\ UNCHANGED <<disk, faults>>

\* The state Repair restores: the committed one, or one rebuilt from an install journal.
RepairState(d) ==
  LET j == d.journal
  IN  IF d.state = None
      THEN [current |-> GenOf(j.target), previous |-> None, prepared |-> j.prepared,
            desired |-> j.desired, owned |-> j.owned,
            kind |-> [g \in {GenOf(j.target)} |-> j.target[2]]]
      ELSE IF j # None /\ j.op = "activate"
      THEN [d.state EXCEPT !.desired = j.desired, !.prepared = FALSE]
      ELSE d.state

RepairLocals(d, supplied) ==
  LET j == d.journal  st == RepairState(d)
      base == [Locals("repair", d) EXCEPT
                 !.st = st, !.desired = st.desired, !.prepared = st.prepared, !.owned = st.owned,
                 !.target = RecordOf(st, st.current), !.supplied = supplied]
  IN  IF j = None THEN base
      ELSE [base EXCEPT !.jop = j.op, !.target = j.target, !.restart = j.restart,
                        !.tx = j.tx, !.desired = j.desired, !.prepared = j.prepared]

RepairOrders(st) ==
  {o \in [1 .. Cardinality(Recorded(st)) -> Recorded(st)] : \A i, k \in DOMAIN o : i # k => o[i] # o[k]}

Repair(p) ==
  /\ proc[p].stage = "reading" /\ ~proc[p].uninstalling /\ Lockable
  /\ IF disk.state = None /\ (disk.journal = None \/ disk.journal.op # "install")
     THEN proc' = [proc EXCEPT ![p] = Idle]
     ELSE IF disk.state = None /\ proc[p].invalid
     THEN proc' = [proc EXCEPT ![p] = Run("undoing", CleanupInstall(disk), Locals("repair", disk))]
     ELSE \E supplied \in Records \cup {None}, order \in RepairOrders(RepairState(disk)) :
            LET l == RepairLocals(disk, supplied)
            IN  /\ supplied # None => GenOf(supplied) \in Recorded(l.st)
                /\ proc' = [proc EXCEPT ![p] = Run("doing", RepairPlan(l, order), l)]
  /\ UNCHANGED <<disk, faults>>

Working(p) == proc[p].stage \in {"doing", "undoing"}

\* The next call of the handler succeeds.
Succeeds(p) ==
  /\ Working(p)
  /\ LET s == Head(proc[p].todo)  l == proc[p].l
     IN  /\ Possible(s, l, disk)
         /\ disk' = Effect(s, l, disk)
         /\ proc' = [proc EXCEPT ![p] = Run(@.stage, Tail(@.todo), Learn(s, l, disk))]
  /\ UNCHANGED faults

\* What an erring or interrupted call may leave: nothing, all of its effect, or,
\* for RemoveAll, a directory with some of its files gone.
Leaves(s, l) ==
  {disk} \cup (IF s.do \in Torn THEN {Effect(s, l, disk)} ELSE {})
  \cup (IF s.do = "rmPayload" THEN {Spoiled(disk, s.arg)} ELSE {})

\* The next call returns an error.
Errs(p) ==
  /\ Working(p)
  /\ LET s == Head(proc[p].todo)  l == proc[p].l
         forced == ~Possible(s, l, disk) \/ Uncertain(s, disk)
     IN  \E cancelled \in BOOLEAN, d \in IF forced THEN {disk} ELSE Leaves(s, l) :
           LET known == IF d # disk THEN LearnOnError(s, l, disk) ELSE l
           IN  /\ cancelled => ~forced
               /\ forced \/ faults < MaxFaults
               /\ faults' = IF forced THEN faults ELSE faults + 1
               /\ disk' = d
               /\ proc' = [proc EXCEPT ![p] =
                    IF @.stage = "undoing" THEN Run("undoing", Skipping(s, Tail(@.todo)), l)
                    ELSE Run("undoing", Undo(s, known, cancelled), known)]

\* Cancellation noticed after start, stop or restart had already succeeded.
CancelledAfterControl(p) ==
  /\ Working(p) /\ proc[p].l.op \in {"start", "stop", "restart"}
  /\ proc[p].stage = "doing" /\ Head(proc[p].todo).do = "state"
  /\ faults < MaxFaults /\ faults' = faults + 1
  /\ proc' = [proc EXCEPT ![p] = Run("undoing", UndoControl(@.l), @.l)]
  /\ UNCHANGED disk

\* The process, or the machine, stops; the lock goes with it.
Crash(p) ==
  /\ Working(p) /\ faults < MaxFaults
  /\ faults' = faults + 1
  /\ LET s == Head(proc[p].todo)
     IN  disk' \in {disk} \cup (IF s.do = "rmPayload" THEN {Spoiled(disk, s.arg)} ELSE {})
  /\ proc' = [proc EXCEPT ![p] = Idle]

Init ==
  /\ disk \in [state : {None}, journal : {None}, retained : {None},
               payload : {[g \in Gens |-> "absent"]}, caches : {{}},
               current : {None}, previous : {None}, node : {FALSE}, control : {None},
               env : {FALSE}, secret : {FALSE}, user : {"absent", "foreign"},
               unit : {FALSE}, service : {Off}]
  /\ proc = [p \in Procs |-> Idle]
  /\ faults = 0

Begins(p) ==
  \/ Install(p) \/ Activate(p) \/ Upgrade(p) \/ Rollback(p) \/ Uninstall(p)
  \/ \E op \in {"start", "stop", "restart"} : Control(p, op)
  \/ RepairReads(p) \/ ResumeUninstall(p) \/ Repair(p)

Next ==
  \E p \in Procs :
    Begins(p) \/ Succeeds(p) \/ Errs(p) \/ CancelledAfterControl(p) \/ Crash(p)

Spec == Init /\ [][Next]_vars

(***************************************************************************)
(* Properties.                                                             *)
(***************************************************************************)
\* Type correctness of the durable state.
TypeOK ==
  /\ disk.payload \in [Gens -> {"absent", "ok", "damaged"}]
  /\ disk.caches \subseteq Records
  /\ {disk.current, disk.previous, disk.control} \subseteq Gens \cup {None}
  /\ disk.service \in Service
  /\ disk.retained # None => disk.retained.owned \in BOOLEAN
  /\ disk.state # None => disk.state.owned \in BOOLEAN
  /\ {disk.env, disk.secret, disk.node, disk.unit} \subseteq BOOLEAN
  /\ disk.user \in {"absent", "foreign", "ours"}
  /\ faults \in 0 .. MaxFaults

\* Every command begins by loading state and journal, so metadata that the
\* validators refuse would end in an installation no command can touch.
MetadataLoads ==
  /\ disk.state # None => StateValid(disk.state)
  /\ disk.journal # None => JournalValid(disk.journal)

\* With no journal and no operation under way, `rnlctl status' finds either no
\* installation or one without problems, and doctor finds the material of every
\* recorded generation: a half-made transition is always behind a journal.
NoImplicitHalfInstall ==
  (Lockable /\ disk.journal = None) =>
    /\ Deployment(disk) \in {"absent", "prepared", "installed"}
    /\ disk.state # None => DoctorFindsMaterial(disk)

\* A repair that meets no new fault never comes to a call it cannot make.
RepairNeverStuck ==
  \A p \in Procs :
    (Working(p) /\ proc[p].stage = "doing" /\ proc[p].l.op \in {"repair", "uninstall"}) =>
      \/ Possible(Head(proc[p].todo), proc[p].l, disk)
      \/ /\ Head(proc[p].todo).do = "repairGeneration"
         /\ proc[p].l.jop = "install" /\ proc[p].l.supplied = None

SameInstallation(d, e) ==
  /\ d.state = e.state /\ d.service = e.service /\ d.unit = e.unit
  /\ d.current = e.current /\ d.previous = e.previous /\ d.node = e.node /\ d.control = e.control
  /\ d.env = e.env /\ d.secret = e.secret /\ d.user = e.user

\* An operation that undid itself and left no journal has changed nothing.
FailureRestores ==
  [][\A p \in Procs :
       (proc[p].stage = "undoing" /\ proc'[p] = Idle /\ disk'.journal = None /\ proc[p].l.op # "repair")
         => SameInstallation(disk', proc[p].l.begin)]_vars

\* An account that existed before rnlctl is never removed.
ForeignAccountKept == [][disk.user = "foreign" => disk'.user = "foreign"]_vars

\* Once planned, an uninstall is given up only when nothing of the installation is left.
UninstallIntentDurable ==
  [][(disk.journal # None /\ disk.journal.op = "uninstall" /\ disk'.journal # disk.journal) =>
       /\ disk'.journal = None /\ disk'.state = None /\ FreshLayout(disk')
       /\ ~disk'.unit /\ disk'.service = Off /\ disk'.caches = {}
       /\ \A g \in Gens : disk'.payload[g] = "absent"]_vars

\* A pending journal is never a dead end: `rnlctl repair', the only command that
\* accepts it, gets past its configuration check.
PendingIsRepairable ==
  (Lockable /\ disk.journal # None) => RepairAdmits(disk)

\* What is on disk, whoever crashed, is what some command can go on from: it
\* loads, and a half-made transition is always behind a journal.
InstallationSound ==
    /\ TypeOK
    /\ MetadataLoads
    /\ NoImplicitHalfInstall

\* What a command undoes or removes is what it should: one that failed restores
\* what it found, and an uninstall, however often it is interrupted, removes all
\* that is rnlctl's and nothing that is not.
UndoIsExact ==
    /\ FailureRestores
    /\ ForeignAccountKept
    /\ UninstallIntentDurable
=============================================================================
