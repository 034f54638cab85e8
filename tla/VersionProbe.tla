---------------------------- MODULE VersionProbe ----------------------------
(***************************************************************************)
(* The cached core version (internal/xray/version.go): Health schedules a  *)
(* throttled background probe when the version is unknown, Start probes    *)
(* and publishes the version of the core it made ready, and Shutdown joins *)
(* the probe.  The lifecycle itself is module XrayLifecycle's; here it     *)
(* only changes the binary that runs.                                      *)
(***************************************************************************)
EXTENDS Naturals

CONSTANTS Binaries, Bundled, NoVersion,
          MaxProbes    \* bound: probe goroutines that have not left yet

ASSUME VpAssumption == Bundled \in Binaries /\ NoVersion \notin Binaries /\ MaxProbes \in Nat \ {0}

VARIABLES vpState,     \* "stopped", "starting", "running"
          vpBin,       \* binary of the process, or NoVersion
          vpCached,    \* published version (named by its binary), or NoVersion
          vpBusy, vpThrottled, vpShut,
          vpWg,        \* the wait group of background probes
          vpBg,        \* the busy background probe: [pc, value]
          vpJoined     \* shutdownDone is closed

vpVars == <<vpState, vpBin, vpCached, vpBusy, vpThrottled, vpShut, vpWg, vpBg, vpJoined>>
vpRun == <<vpState, vpBin>>
vpSched == <<vpBusy, vpThrottled, vpWg>>
vpEnd == <<vpShut, vpJoined>>

VpIdle == [pc |-> "idle", value |-> NoVersion]

\* New: the first probe runs before the manager is handed out.
VpInit ==
    /\ vpState = "stopped" /\ vpBin = NoVersion
    /\ vpCached \in {NoVersion, Bundled}
    /\ vpThrottled = (vpCached = NoVersion)
    /\ vpBusy = FALSE /\ vpShut = FALSE /\ vpWg = 0 /\ vpBg = VpIdle /\ vpJoined = FALSE

VpWantsProbe ==
    ~vpShut /\ vpCached = NoVersion /\ vpState # "starting" /\ ~vpBusy /\ ~vpThrottled

\* Health, one critical section; without VpWantsProbe it changes nothing.
VpHealth ==
    /\ VpWantsProbe /\ vpWg < MaxProbes
    /\ vpBusy' = TRUE /\ vpThrottled' = TRUE /\ vpWg' = vpWg + 1
    /\ vpBg' = [pc |-> "read", value |-> NoVersion]
    /\ UNCHANGED <<vpRun, vpCached, vpEnd>>

\* versionProbeRetry passes.
VpTick ==
    /\ vpThrottled /\ vpThrottled' = FALSE
    /\ UNCHANGED <<vpRun, vpCached, vpBusy, vpWg, vpBg, vpEnd>>

\* probeVersion reads which binary to ask, then runs it without the lock.
VpRead ==
    /\ vpBg.pc = "read"
    /\ vpBg' = [pc |-> "probe", value |-> IF vpBin = NoVersion THEN Bundled ELSE vpBin]
    /\ UNCHANGED <<vpRun, vpCached, vpSched, vpEnd>>

VpProbe ==
    /\ vpBg.pc = "probe"
    /\ \E v \in {vpBg.value, NoVersion} : vpBg' = [pc |-> "publish", value |-> v]
    /\ UNCHANGED <<vpRun, vpCached, vpSched, vpEnd>>

\* Mutant: the background probe publishes whatever it found.
VpOverwrites == ~vpShut /\ vpBg.value # NoVersion

VpFillsIn == ~vpShut /\ vpCached = NoVersion /\ vpBg.value # NoVersion

VpBusyNow == FALSE

\* The second half of refreshUnknownVersion.
VpPublish ==
    /\ vpBg.pc = "publish"
    /\ vpBusy' = VpBusyNow
    /\ vpBg' = VpIdle
    /\ IF VpFillsIn THEN vpCached' = vpBg.value /\ vpThrottled' = FALSE
       ELSE UNCHANGED <<vpCached, vpThrottled>>
    /\ UNCHANGED <<vpRun, vpWg, vpEnd>>

\* wg.Done of a goroutine that has published.
VpLeave ==
    /\ vpWg > (IF vpBg.pc = "idle" THEN 0 ELSE 1)
    /\ vpWg' = vpWg - 1
    /\ UNCHANGED <<vpRun, vpCached, vpBusy, vpThrottled, vpBg, vpEnd>>

\* Start: spawn, probe the new binary, publish with the running state.
VpStart ==
    /\ vpState # "starting"
    /\ vpState' = "starting" /\ \E b \in Binaries : vpBin' = b
    /\ UNCHANGED <<vpCached, vpSched, vpBg, vpEnd>>

VpCommit ==
    /\ vpState = "starting" /\ vpState' = "running"
    /\ \E v \in {vpBin, NoVersion} : vpCached' = v /\ vpThrottled' = (v = NoVersion)
    /\ UNCHANGED <<vpBin, vpBusy, vpWg, vpBg, vpEnd>>

\* A failed Start, a Stop, or the core's own exit.
VpExit ==
    /\ vpState # "stopped"
    /\ vpState' = "stopped" /\ vpBin' = NoVersion
    /\ UNCHANGED <<vpCached, vpSched, vpBg, vpEnd>>

\* Shutdown marks, cancels, and closes shutdownDone after the wait group.
VpShutdown ==
    /\ ~vpShut /\ vpShut' = TRUE
    /\ UNCHANGED <<vpRun, vpCached, vpSched, vpBg, vpJoined>>

VpJoin ==
    /\ vpShut /\ vpWg = 0 /\ ~vpJoined /\ vpJoined' = TRUE
    /\ UNCHANGED <<vpRun, vpCached, vpSched, vpBg, vpShut>>

VpBackground == VpRead \/ VpProbe \/ VpPublish \/ VpLeave

VpNext == VpHealth \/ VpTick \/ VpBackground \/ VpStart \/ VpCommit \/ VpExit
          \/ VpShutdown \/ VpJoin

\* The probe has a timeout; the joining goroutine runs.
VpFairness == WF_vpVars(VpBackground) /\ WF_vpVars(VpJoin)

VpSpec == VpInit /\ [][VpNext]_vpVars /\ VpFairness

-----------------------------------------------------------------------------
\* Once Shutdown has returned no probe runs and none will be started: the
\* lifecycle lock orders every WaitGroup.Add before the Wait.
VpShutdownIsQuiet == vpJoined => vpBg = VpIdle /\ vpWg = 0

\* A late background probe never replaces a version, which Start may have
\* published for another binary meanwhile.
VpPublishedStays ==
    [][vpCached # NoVersion /\ vpCached' # vpCached => vpState = "starting"]_vpVars

\* A probe that fails, or loses the race, still lets the next one run.
VpBusyEnds == vpBusy ~> ~vpBusy

\* What the background probe promises: it is over when Shutdown is, it never
\* replaces what a Start published, and it never blocks the next probe.
VpPromise ==
    /\ []VpShutdownIsQuiet
    /\ VpPublishedStays
    /\ VpBusyEnds
=============================================================================
