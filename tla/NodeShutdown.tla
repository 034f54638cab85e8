---------------------------- MODULE NodeShutdown ----------------------------
(***************************************************************************)
(* The life of the node process: runNode (cmd/remnanode-lite/main.go) and  *)
(* the component cleanup it runs on every way out (shutdown.go).           *)
(*                                                                         *)
(* runNode builds the components one after the other, serves until a       *)
(* signal or until a server fails, cancels the root context and then, in   *)
(* parallel, cleans the components up and shuts the HTTPS server down.     *)
(* The cleanup itself runs two tasks: the manager's version recovery, and  *)
(* the ordered core -> firewall teardown.  Each action is tried twice.     *)
(***************************************************************************)
EXTENDS Naturals, FiniteSets

VARIABLES nsPc,        \* where runNode stands
          nsCtx,       \* the root context is cancelled
          nsBuilt,     \* components handed to the cleanup so far
          nsNet,       \* the network monitor samples
          nsMgr,       \* the manager's version recovery may still run
          nsCore,      \* rw-core: "off", "starting" (a Start request), "up"
          nsFw,        \* the node's nftables tables exist
          nsServers,   \* the server goroutines still running
          nsServeErrs, \* contents of serveErrors
          nsTask,      \* the cleanup's two tasks
          nsCleanup,   \* "idle", "running", "done"
          nsRuns,      \* times the cleanup ran (history)
          nsDeadline,  \* the shutdown context is done
          nsErrs       \* what runNode's error names

nsVars == <<nsPc, nsCtx, nsBuilt, nsNet, nsMgr, nsCore, nsFw, nsServers, nsServeErrs,
            nsTask, nsCleanup, nsRuns, nsDeadline, nsErrs>>

NsServers == {"unix", "https", "rotation"}
NsTasks == {"manager", "core", "plugin"}
NsTaskStates == {"idle", "first", "delay", "second", "ok", "failed"}
NsEnded == {"ok", "failed"}

NsInit ==
    /\ nsPc = "build"
    /\ nsCtx = FALSE
    /\ nsBuilt = {}
    /\ nsNet = TRUE
    /\ nsMgr = FALSE
    /\ nsCore = "off"
    /\ nsFw = FALSE
    /\ nsServers = {}
    /\ nsServeErrs = {}
    /\ nsTask = [t \in NsTasks |-> "idle"]
    /\ nsCleanup = "idle"
    /\ nsRuns = 0
    /\ nsDeadline = FALSE
    /\ nsErrs = {}

NsComponents == <<nsBuilt, nsNet, nsMgr, nsCore, nsFw>>
NsTeardown == <<nsTask, nsCleanup, nsRuns, nsDeadline>>

-----------------------------------------------------------------------------
\* Start-up: NewManager, NewService and InitializeContext, New.

NsBuildManager ==
    /\ nsPc = "build" /\ nsBuilt = {}
    /\ nsBuilt' = {"manager", "core"}
    /\ nsMgr' = TRUE
    /\ UNCHANGED <<nsPc, nsCtx, nsNet, nsCore, nsFw, nsServers, nsServeErrs, nsErrs, NsTeardown>>

\* closePlugin is registered before InitializeContext may create tables.
NsBuildPlugin ==
    /\ nsPc = "build" /\ nsBuilt = {"manager", "core"}
    /\ nsBuilt' = NsTasks
    /\ \E created \in BOOLEAN : nsFw' = created
    /\ UNCHANGED <<nsPc, nsCtx, nsNet, nsMgr, nsCore, nsServers, nsServeErrs, nsErrs, NsTeardown>>

NsServe ==
    /\ nsPc = "build" /\ nsBuilt = NsTasks
    /\ nsPc' = "serve"
    /\ nsServers' = NsServers
    /\ UNCHANGED <<nsCtx, nsServeErrs, nsErrs, NsComponents, NsTeardown>>

\* Any construction step may fail; InitializeContext's error is fatal only
\* when the root context is cancelled.
NsBuildFails ==
    /\ nsPc = "build"
    /\ nsPc' = "deferred"
    /\ nsErrs' = nsErrs \cup {"build"}
    /\ UNCHANGED <<nsCtx, nsServers, nsServeErrs, NsComponents, NsTeardown>>

NsSignal ==
    /\ ~nsCtx
    /\ nsCtx' = TRUE
    /\ UNCHANGED <<nsPc, nsServers, nsServeErrs, nsErrs, NsComponents, NsTeardown>>

-----------------------------------------------------------------------------
\* A Start request: its context descends from the root context, so none
\* begins once that is cancelled.  One that is already past its last check
\* may still commit, unless Stop takes the manager over first.

NsStartBegins ==
    /\ "https" \in nsServers /\ ~nsCtx /\ nsCore = "off"
    /\ nsCore' = "starting"
    /\ UNCHANGED <<nsPc, nsCtx, nsBuilt, nsNet, nsMgr, nsFw, nsServers, nsServeErrs, nsErrs, NsTeardown>>

NsStartEnds ==
    /\ nsCore = "starting"
    /\ \E core \in {"off", "up"} : nsCore' = core
    /\ UNCHANGED <<nsPc, nsCtx, nsBuilt, nsNet, nsMgr, nsFw, nsServers, nsServeErrs, nsErrs, NsTeardown>>

\* Servers fail, or end because the root context is cancelled (unix,
\* rotation) or because Shutdown was called (https).
NsServerFails(s) ==
    /\ s \in nsServers \ {"rotation"}
    /\ nsServers' = nsServers \ {s}
    /\ nsServeErrs' = nsServeErrs \cup {s}
    /\ UNCHANGED <<nsPc, nsCtx, nsErrs, NsComponents, NsTeardown>>

NsServerEnds(s) ==
    /\ s \in nsServers
    /\ IF s = "https" THEN nsPc \in {"servers", "join"} ELSE nsCtx
    /\ nsServers' = nsServers \ {s}
    /\ UNCHANGED <<nsPc, nsCtx, nsServeErrs, nsErrs, NsComponents, NsTeardown>>

-----------------------------------------------------------------------------
\* The way down.

\* Mutant: the servers' context is left alive during the shutdown.
NsLeavesRequestsAlive ==
    /\ nsPc = "serve"
    /\ nsCtx \/ nsServeErrs # {}
    /\ nsPc' = "http"
    /\ nsErrs' = nsErrs \cup {"serve" : s \in nsServeErrs}
    /\ nsServeErrs' = {}
    /\ nsCleanup' = "running" /\ nsRuns' = nsRuns + 1
    /\ nsTask' = [nsTask EXCEPT !["manager"] = "first", !["core"] = "first"]
    /\ nsNet' = FALSE
    /\ UNCHANGED <<nsCtx, nsBuilt, nsMgr, nsCore, nsFw, nsServers, nsDeadline>>

\* select on the context and serveErrors, stop(), then the cleanup goroutine.
NsStop ==
    /\ nsPc = "serve"
    /\ nsCtx \/ nsServeErrs # {}
    /\ nsCtx' = TRUE
    /\ nsPc' = "http"
    /\ nsErrs' = nsErrs \cup {"serve" : s \in nsServeErrs}
    /\ nsServeErrs' = {}
    /\ nsCleanup' = "running" /\ nsRuns' = nsRuns + 1
    /\ nsTask' = [nsTask EXCEPT !["manager"] = "first", !["core"] = "first"]
    /\ nsNet' = FALSE
    /\ UNCHANGED <<nsBuilt, nsMgr, nsCore, nsFw, nsServers, nsDeadline>>

\* The deferred cleanup of a run that never served.
NsDeferredCleanup ==
    /\ nsPc = "deferred" /\ nsCleanup = "idle"
    /\ nsCleanup' = "running" /\ nsRuns' = nsRuns + 1
    /\ nsTask' = [nsTask EXCEPT !["manager"] = "first", !["core"] = "first"]
    /\ nsNet' = FALSE
    /\ nsPc' = "join"
    /\ UNCHANGED <<nsCtx, nsBuilt, nsMgr, nsCore, nsFw, nsServers, nsServeErrs, nsDeadline, nsErrs>>

NsExpire ==
    /\ nsCleanup # "idle" /\ ~nsDeadline
    /\ nsDeadline' = TRUE
    /\ UNCHANGED <<nsPc, nsCtx, nsServers, nsServeErrs, nsErrs, NsComponents, nsTask, nsCleanup, nsRuns>>

\* server.Shutdown waits for the requests in flight, or is cut short.
NsHttpDown ==
    /\ nsPc = "http"
    /\ \/ nsCore # "starting" /\ UNCHANGED nsErrs
       \/ nsDeadline /\ nsErrs' = nsErrs \cup {"http"}
    /\ nsPc' = "servers"
    /\ UNCHANGED <<nsCtx, nsServers, nsServeErrs, NsComponents, NsTeardown>>

NsServersDown ==
    /\ nsPc = "servers"
    /\ \/ nsServers = {} /\ UNCHANGED nsErrs
       \/ nsDeadline /\ nsErrs' = nsErrs \cup {"servers"}
    /\ nsPc' = "join"
    /\ UNCHANGED <<nsCtx, nsServers, nsServeErrs, NsComponents, NsTeardown>>

NsReturn ==
    /\ nsPc = "join" /\ nsCleanup = "done"
    /\ nsPc' = "returned"
    /\ nsErrs' = nsErrs \cup {"serve" : s \in nsServeErrs}
    /\ nsServeErrs' = {}
    /\ UNCHANGED <<nsCtx, nsServers, NsComponents, NsTeardown>>

-----------------------------------------------------------------------------
\* The cleanup tasks.

\* What a successful attempt leaves behind.
NsTornDown(t) ==
    /\ nsMgr' = IF t = "manager" THEN FALSE ELSE nsMgr
    /\ nsCore' = IF t = "core" THEN "off" ELSE nsCore
    /\ nsFw' = IF t = "plugin" THEN FALSE ELSE nsFw

\* The plugin is closed once the core's task has succeeded.
NsAfter(t, task) ==
    IF t = "core" /\ task[t] = "ok" THEN [task EXCEPT !["plugin"] = "first"] ELSE task

NsSetTask(t, state) == nsTask' = NsAfter(t, [nsTask EXCEPT ![t] = state])

NsAttemptSucceeds(t) ==
    /\ nsTask[t] \in {"first", "second"}
    /\ NsSetTask(t, "ok")
    /\ IF t \in nsBuilt THEN NsTornDown(t) ELSE UNCHANGED <<nsMgr, nsCore, nsFw>>
    /\ UNCHANGED <<nsPc, nsCtx, nsBuilt, nsNet, nsServers, nsServeErrs, nsCleanup, nsRuns, nsDeadline, nsErrs>>

NsAttemptFails(t) ==
    /\ nsTask[t] \in {"first", "second"} /\ t \in nsBuilt
    /\ NsSetTask(t, IF nsTask[t] = "first" THEN "delay" ELSE "failed")
    /\ UNCHANGED <<nsPc, nsCtx, nsServers, nsServeErrs, nsCleanup, nsRuns, nsDeadline, nsErrs, NsComponents>>

\* The retry delay ends, or the deadline comes first.
NsRetry(t) ==
    /\ nsTask[t] = "delay"
    /\ \/ NsSetTask(t, "second")
       \/ nsDeadline /\ NsSetTask(t, "failed")
    /\ UNCHANGED <<nsPc, nsCtx, nsServers, nsServeErrs, nsCleanup, nsRuns, nsDeadline, nsErrs, NsComponents>>

NsCoreTaskEnded == nsTask["core"] = "failed" \/ nsTask["plugin"] \in NsEnded

NsTasksEnded == nsTask["manager"] \in NsEnded /\ NsCoreTaskEnded

NsCollect ==
    /\ nsCleanup = "running"
    /\ \/ NsTasksEnded /\ nsErrs' = nsErrs \cup {t \in NsTasks : nsTask[t] = "failed"}
       \/ nsDeadline /\ nsErrs' = nsErrs \cup {"deadline"}
    /\ nsCleanup' = "done"
    /\ UNCHANGED <<nsPc, nsCtx, nsServers, nsServeErrs, nsTask, nsRuns, nsDeadline, NsComponents>>

-----------------------------------------------------------------------------
NsRunNode == \/ NsBuildManager \/ NsBuildPlugin \/ NsServe \/ NsStop \/ NsDeferredCleanup
             \/ NsHttpDown \/ NsServersDown \/ NsReturn \/ NsCollect

NsNext ==
    \/ NsRunNode \/ NsBuildFails \/ NsSignal \/ NsStartBegins \/ NsStartEnds \/ NsExpire
    \/ \E s \in NsServers : NsServerFails(s) \/ NsServerEnds(s)
    \/ \E t \in NsTasks : NsAttemptSucceeds(t) \/ NsAttemptFails(t) \/ NsRetry(t)

\* runNode's own steps run and deadlines pass; no server, core, manager or
\* firewall is assumed to answer.
NsFairness == WF_nsVars(NsRunNode) /\ WF_nsVars(NsExpire)

NsSpec == NsInit /\ [][NsNext]_nsVars /\ NsFairness

-----------------------------------------------------------------------------
\* Type correctness.  The cleanup is entered at most once (sync.Once).
NsTypeOK ==
    /\ nsPc \in {"build", "deferred", "serve", "http", "servers", "join", "returned"}
    /\ nsBuilt \in {{}, {"manager", "core"}, NsTasks}
    /\ {nsCtx, nsNet, nsMgr, nsFw, nsDeadline} \subseteq BOOLEAN
    /\ nsCore \in {"off", "starting", "up"}
    /\ nsServers \subseteq NsServers /\ nsServeErrs \subseteq NsServers
    /\ nsTask \in [NsTasks -> NsTaskStates]
    /\ nsCleanup \in {"idle", "running", "done"} /\ nsRuns \in {0, 1}
    /\ nsErrs \subseteq NsTasks \cup {"build", "serve", "http", "servers", "deadline"}

\* The firewall is removed only after rw-core is confirmed stopped, and no
\* Start request brings a core up behind it ("Keep nft filtering active
\* until rw-core is confirmed stopped"; the root context is cancelled first).
NsFilterOutlivesCore == nsTask["plugin"] = "ok" /\ ~nsFw => nsCore = "off"

\* runNode never returns without having run the cleanup, and a nil error
\* means that the monitor, the version recovery, the core, the tables and
\* the servers are all gone.
NsCleanReturn ==
    nsPc = "returned" =>
        /\ nsRuns = 1 /\ nsCleanup = "done" /\ ~nsNet
        /\ nsErrs = {} => ~nsMgr /\ nsCore = "off" /\ ~nsFw /\ nsServers = {}

\* Once the node is told to stop runNode returns, whatever hangs.
NsReturns == nsCtx ~> nsPc = "returned"

\* What runNode promises: told to stop, it returns, in the order that keeps
\* traffic filtered, and a nil error means that nothing is left.
NsPromise ==
    /\ [](NsTypeOK /\ NsFilterOutlivesCore /\ NsCleanReturn)
    /\ NsReturns
=============================================================================
