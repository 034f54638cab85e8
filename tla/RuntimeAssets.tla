--------------------------- MODULE RuntimeAssets ---------------------------
(* What a Start of rw-core prepares before it replaces the running Core: the *)
(* custom Core the Panel selects by digest, kept in a content-addressed      *)
(* cache, and the GeoData overlay, filled by a few download workers          *)
(* (internal/xray/core_loader.go, geodata.go, download.go,                   *)
(* runtime_assets.go, and the part of Manager.Start that uses them).  Starts *)
(* are serialised by the lifecycle mutex; a request context may end at any   *)
(* moment, the node may be killed, and a power loss may tear a file that was *)
(* renamed into place (downloadFile does not sync it).                       *)
EXTENDS Naturals, Sequences, FiniteSets

CONSTANTS
    RaDigests,      \* digests of custom Cores
    RaUsable,       \* the ones whose binary reports a version
    RaFiles,        \* names in the GeoData overlay
    RaDefaults,     \* geoip.dat and geosite.dat, which the release bundles
    RaWorkers,      \* download workers (geodataDownloadConcurrency)
    RaRequests,     \* the geodata section of a Start request
    MaxBody,        \* panelDownloadMaxSize, in chunks
    MaxRaStarts     \* bound on the Starts of a behaviour

ASSUME RaAssumption ==
    /\ RaUsable \subseteq RaDigests
    /\ RaDefaults \subseteq RaFiles
    /\ "main" \notin RaWorkers
    /\ {"none", "bundled", "invalid"} \cap RaDigests = {}
    /\ RaRequests \subseteq [shape : {"absent", "malformed", "object"}, core : RaDigests \cup {"none", "invalid"},
                             valid : BOOLEAN, assets : Seq(RaFiles)]
    /\ MaxBody \in Nat \ {0}

VARIABLES
    raCores,        \* the Core cache: digest -> "none", "whole" or "bad"
    raAssets,       \* the overlay: name -> "none", "link", "stub", "whole", "torn", "lost"
    raCore,         \* the binary of the Core process, "none" when there is none
    raRan,          \* what the file of that binary held when it was spawned
    raPc, raReq, raChosen, raDead, raFailed, raJobs,    \* the Start in progress
    raDl,           \* the download each worker, and the Start itself, is busy with
    raStarts

raVars == <<raCores, raAssets, raCore, raRan, raPc, raReq, raChosen, raDead, raFailed, raJobs, raDl, raStarts>>

RaSelf == "main"
RaPhases == {"idle", "core", "coreGet", "coreCheck", "geo", "geoGet", "switch", "launch", "ready"}
RaNoDownload == [stage |-> "idle", dest |-> "none", size |-> 0, got |-> 0, right |-> FALSE, cut |-> FALSE]
RaDownloads ==
    [stage : {"idle", "ask", "body"}, dest : RaFiles \cup RaDigests \cup {"none"},
     size : 0 .. MaxBody + 1, got : 0 .. MaxBody + 1, right : BOOLEAN, cut : BOOLEAN]
RaNoRequest == [shape |-> "absent", core |-> "none", valid |-> TRUE, assets |-> <<>>]

RaTypeOK ==
    /\ raCores \in [RaDigests -> {"none", "whole", "bad"}]
    /\ raAssets \in [RaFiles -> {"none", "link", "stub", "whole", "torn", "lost"}]
    /\ raCore \in RaDigests \cup {"bundled", "none"}
    /\ raPc \in RaPhases
    /\ raDl \in [RaWorkers \cup {RaSelf} -> RaDownloads]

RaInit ==
    /\ raCores = [d \in RaDigests |-> "none"]
    /\ raAssets = [f \in RaFiles |-> "none"]
    /\ raCore = "none" /\ raRan = "none"
    /\ raPc = "idle" /\ raReq = RaNoRequest /\ raChosen = "none"
    /\ raDead = FALSE /\ raFailed = FALSE /\ raJobs = <<>>
    /\ raDl = [w \in RaWorkers \cup {RaSelf} |-> RaNoDownload]
    /\ raStarts = 0

RaStart == <<raReq, raDead, raStarts>>
RaDisk == <<raCores, raAssets>>
RaProcess == <<raCore, raRan>>

RaBegin(q) ==
    /\ raPc = "idle" /\ raStarts < MaxRaStarts
    /\ raPc' = "core" /\ raReq' = q /\ raStarts' = raStarts + 1
    /\ raDead' = FALSE /\ raFailed' = FALSE /\ raChosen' = "none"
    /\ UNCHANGED <<RaDisk, RaProcess, raJobs, raDl>>

\* The request's context ends: the client left, or the node shuts down.
RaCancel ==
    /\ raPc # "idle" /\ ~raDead
    /\ raDead' = TRUE
    /\ UNCHANGED <<RaDisk, RaProcess, raPc, raReq, raChosen, raFailed, raJobs, raDl, raStarts>>

RaFallback == IF raCore = "none" THEN "bundled" ELSE raCore

\* A Start that gives up before the switch restores the previous Core.
RaGivesUp == raPc' = "idle" /\ UNCHANGED raChosen

RaChooses(binary) == raPc' = "geo" /\ raChosen' = binary

\* parseCustomCore: which Core the section asks for.
RaMode(q) ==
    CASE q.shape = "absent" -> "bundled"
      [] q.shape = "malformed" -> "keep"
      [] q.core = "none" -> "bundled"
      [] q.core = "invalid" -> "keep"
      [] OTHER -> "custom"

\* validateCoreCandidate: the digest of the file, then its version.  The probe
\* runs the binary for at most five seconds, so it may fail although the binary
\* is good.  Both stop when the context has ended.
RaValid(d, answered) == raCores[d] = "whole" /\ d \in RaUsable /\ answered /\ ~raDead

RaSelectCore ==
    /\ raPc = "core"
    /\ \/ RaMode(raReq) = "bundled" /\ RaChooses("bundled") /\ UNCHANGED raDl
       \/ RaMode(raReq) = "keep" /\ RaChooses(RaFallback) /\ UNCHANGED raDl
       \/ RaMode(raReq) = "custom" /\ RaChooses(RaFallback) /\ UNCHANGED raDl  \* MkdirAll failed
       \/ /\ RaMode(raReq) = "custom"
          /\ \E answered \in BOOLEAN :
                IF RaValid(raReq.core, answered) THEN RaChooses(raReq.core) /\ UNCHANGED raDl
                ELSE IF raDead THEN RaGivesUp /\ UNCHANGED raDl
                ELSE /\ raPc' = "coreGet" /\ UNCHANGED raChosen
                     /\ raDl' = [raDl EXCEPT ![RaSelf] = [RaNoDownload EXCEPT !.stage = "ask", !.dest = raReq.core]]
    /\ UNCHANGED <<RaDisk, RaProcess, RaStart, raFailed, raJobs>>

----------------------------------------------------------------------------
(* downloadFile.  "cut" is the cause of the download's own context: the idle *)
(* or the total timer; the Start's context is its parent.                    *)

RaCause(w) == raDead \/ raDl[w].cut

RaTimer(w) ==
    /\ raDl[w].stage # "idle" /\ ~raDl[w].cut
    /\ raDl' = [raDl EXCEPT ![w].cut = TRUE]
    /\ UNCHANGED <<RaDisk, RaProcess, RaStart, raPc, raChosen, raFailed, raJobs>>

\* The server accepts the request over HTTPS only, and declares no more than
\* the limit; the body may be empty, longer than declared, or another one.
RaRespond(w) ==
    /\ raDl[w].stage = "ask" /\ ~RaCause(w)
    /\ \E size \in 0 .. MaxBody + 1, right \in BOOLEAN :
          raDl' = [raDl EXCEPT ![w].stage = "body", ![w].size = size, ![w].right = right]
    /\ UNCHANGED <<RaDisk, RaProcess, RaStart, raPc, raChosen, raFailed, raJobs>>

RaCopy(w) ==
    /\ raDl[w].stage = "body" /\ raDl[w].got < raDl[w].size
    /\ raDl' = [raDl EXCEPT ![w].got = @ + 1]
    /\ UNCHANGED <<RaDisk, RaProcess, RaStart, raPc, raChosen, raFailed, raJobs>>

\* io.Copy has returned without an error: at the end of the body, or, on some
\* transports, because the context ended and the body ended with it.
RaCopied(w) ==
    /\ raDl[w].stage = "body"
    /\ raDl[w].got = raDl[w].size \/ RaCause(w)

\* The checks between io.Copy and the rename; only the Core has a digest.
\* Mutant: a body that ended without an error is taken for a whole one.
RaAcceptsEnd(w) ==
    /\ raDl[w].got \in 1 .. MaxBody
    /\ w = RaSelf => raDl[w].right
RaAccepts(w) ==
    /\ ~RaCause(w)
    /\ raDl[w].got \in 1 .. MaxBody
    /\ w = RaSelf => raDl[w].right

RaBodyHeld(w) == raDl[w].got = raDl[w].size

----------------------------------------------------------------------------
(* The rest of prepareCore. *)

RaCoreArrives ==
    /\ raPc = "coreGet" /\ RaCopied(RaSelf) /\ RaAccepts(RaSelf)
    /\ raCores' = [raCores EXCEPT ![raReq.core] = IF RaBodyHeld(RaSelf) THEN "whole" ELSE "bad"]
    /\ raDl' = [raDl EXCEPT ![RaSelf] = RaNoDownload]
    /\ raPc' = "coreCheck"
    /\ UNCHANGED <<raAssets, RaProcess, RaStart, raChosen, raFailed, raJobs>>

\* Any error of downloadFile: the request or the body failed, or was refused.
RaCoreFails ==
    /\ raPc = "coreGet" /\ ~(RaCopied(RaSelf) /\ RaAccepts(RaSelf))
    /\ raDl' = [raDl EXCEPT ![RaSelf] = RaNoDownload]
    /\ IF raDead THEN RaGivesUp ELSE RaChooses(RaFallback)
    /\ UNCHANGED <<RaDisk, RaProcess, RaStart, raFailed, raJobs>>

RaCheckCore ==
    /\ raPc = "coreCheck"
    /\ \E answered \in BOOLEAN :
          \/ RaValid(raReq.core, answered) /\ RaChooses(raReq.core) /\ UNCHANGED raCores
          \/ ~RaValid(raReq.core, answered) /\ raDead /\ RaGivesUp /\ UNCHANGED raCores
          \/ /\ ~RaValid(raReq.core, answered) /\ ~raDead
             /\ raCores' = [raCores EXCEPT ![raReq.core] = "none"]
             /\ RaChooses(RaFallback)
    /\ UNCHANGED <<raAssets, RaProcess, RaStart, raFailed, raJobs, raDl>>

----------------------------------------------------------------------------
(* prepareGeoData. *)

\* seedBundledGeoData: a default that is not there becomes a link to the bundle.
RaSeeded(assets) ==
    [f \in RaFiles |-> IF f \in RaDefaults /\ assets[f] = "none" THEN "link" ELSE assets[f]]

RaGeo ==
    /\ raPc = "geo"
    /\ \/ raReq.shape # "object" /\ raPc' = "switch" /\ UNCHANGED <<raAssets, raJobs>>
       \/ raReq.shape = "object" /\ raPc' = "idle" /\ UNCHANGED <<raAssets, raJobs>>   \* the directory or a link failed
       \/ /\ raReq.shape = "object"
          /\ raAssets' = RaSeeded(raAssets)
          /\ IF raReq.valid /\ raReq.assets # <<>>
             THEN raPc' = "geoGet" /\ raJobs' = raReq.assets
             ELSE raPc' = "switch" /\ UNCHANGED raJobs
    /\ UNCHANGED <<raCores, RaProcess, RaStart, raChosen, raFailed, raDl>>

\* A worker takes the next asset; a non-empty regular file is reused.
RaTake(w) ==
    /\ raPc = "geoGet" /\ raJobs # <<>> /\ raDl[w].stage = "idle"
    /\ raJobs' = Tail(raJobs)
    /\ IF raAssets[Head(raJobs)] \in {"none", "stub"}
       THEN raDl' = [raDl EXCEPT ![w] = [RaNoDownload EXCEPT !.stage = "ask", !.dest = Head(raJobs)]]
       ELSE UNCHANGED raDl
    /\ UNCHANGED <<RaDisk, RaProcess, RaStart, raPc, raChosen, raFailed>>

\* The dispatcher sees the context end and hands out no more.
RaUndelivered ==
    /\ raPc = "geoGet" /\ raJobs # <<>> /\ raDead
    /\ raJobs' = <<>> /\ raFailed' = TRUE
    /\ UNCHANGED <<RaDisk, RaProcess, RaStart, raPc, raChosen, raDl>>

RaAssetArrives(w) ==
    /\ RaCopied(w) /\ RaAccepts(w)
    /\ raAssets' = [raAssets EXCEPT ![raDl[w].dest] = IF RaBodyHeld(w) THEN "whole" ELSE "torn"]
    /\ raDl' = [raDl EXCEPT ![w] = RaNoDownload]
    /\ UNCHANGED <<raCores, RaProcess, RaStart, raPc, raChosen, raFailed, raJobs>>

\* The stub is created with O_EXCL: what is there is kept.
RaAssetFails(w) ==
    /\ raDl[w].stage # "idle" /\ ~(RaCopied(w) /\ RaAccepts(w))
    /\ raDl' = [raDl EXCEPT ![w] = RaNoDownload]
    /\ \/ raDead /\ raFailed' = TRUE /\ UNCHANGED raAssets
       \/ /\ ~raDead /\ UNCHANGED raFailed
          /\ \/ raAssets' = [raAssets EXCEPT ![raDl[w].dest] = IF @ = "none" THEN "stub" ELSE @]
             \/ UNCHANGED raAssets          \* the stub could not be created
    /\ UNCHANGED <<raCores, RaProcess, RaStart, raPc, raChosen, raJobs>>

RaGeoDone ==
    /\ raPc = "geoGet" /\ raJobs = <<>> /\ \A w \in RaWorkers : raDl[w].stage = "idle"
    /\ raPc' = IF raFailed THEN "idle" ELSE "switch"
    /\ UNCHANGED <<RaDisk, RaProcess, RaStart, raChosen, raFailed, raJobs, raDl>>

----------------------------------------------------------------------------
(* Manager.Start from the prepared runtime to the running Core. *)

\* terminateProcess may fail; the Start then fails and the process is kept.
RaSwitch ==
    /\ raPc = "switch"
    /\ \/ raDead /\ raPc' = "idle" /\ UNCHANGED RaProcess
       \/ ~raDead /\ raPc' = "launch" /\ raCore' = "none" /\ raRan' = "none"
       \/ ~raDead /\ raCore # "none" /\ raPc' = "idle" /\ UNCHANGED RaProcess
    /\ UNCHANGED <<RaDisk, RaStart, raChosen, raFailed, raJobs, raDl>>

RaHeld(binary) == IF binary = "bundled" THEN "whole" ELSE raCores[binary]

RaLaunch ==
    /\ raPc = "launch"
    /\ \/ raPc' = "idle" /\ UNCHANGED RaProcess        \* the context ended, or the spawn failed
       \/ /\ ~raDead /\ RaHeld(raChosen) # "none"
          /\ raPc' = "ready" /\ raCore' = raChosen /\ raRan' = RaHeld(raChosen)
    /\ UNCHANGED <<RaDisk, RaStart, raChosen, raFailed, raJobs, raDl>>

\* The Core answers, and the cache is trimmed to the Core that runs; or it does
\* not, and is stopped.
RaReady ==
    /\ raPc = "ready" /\ raPc' = "idle"
    /\ \/ ~raDead /\ UNCHANGED RaProcess
          /\ raCores' = [d \in RaDigests |-> IF d = raCore THEN raCores[d] ELSE "none"]
       \/ raCore' = "none" /\ raRan' = "none" /\ UNCHANGED raCores
    /\ UNCHANGED <<raAssets, RaStart, raChosen, raFailed, raJobs, raDl>>

RaStop ==
    /\ raPc = "idle" /\ raCore # "none"
    /\ raCore' = "none" /\ raRan' = "none"
    /\ UNCHANGED <<RaDisk, RaStart, raPc, raChosen, raFailed, raJobs, raDl>>

\* The node is killed, or the power fails: one file renamed into place may then
\* hold less than was written.
RaDies ==
    /\ raPc' = "idle" /\ raCore' = "none" /\ raRan' = "none" /\ raJobs' = <<>>
    /\ raDl' = [w \in DOMAIN raDl |-> RaNoDownload]
    /\ UNCHANGED <<RaStart, raChosen, raFailed>>

RaCrash == raPc # "idle" /\ RaDies /\ UNCHANGED RaDisk

RaPowerLoss ==
    /\ raStarts < MaxRaStarts
    /\ RaDies
    /\ \/ /\ \E d \in RaDigests : raCores[d] = "whole" /\ raCores' = [raCores EXCEPT ![d] = "bad"]
          /\ UNCHANGED raAssets
       \/ /\ \E f \in RaFiles : raAssets[f] = "whole" /\ raAssets' = [raAssets EXCEPT ![f] = "lost"]
          /\ UNCHANGED raCores

RaNext ==
    \/ \E q \in RaRequests : RaBegin(q)
    \/ RaCancel \/ RaSelectCore \/ RaCoreArrives \/ RaCoreFails \/ RaCheckCore
    \/ \E w \in RaWorkers \cup {RaSelf} : RaTimer(w) \/ RaRespond(w) \/ RaCopy(w)
    \/ RaGeo \/ RaUndelivered \/ RaGeoDone
    \/ \E w \in RaWorkers : RaTake(w) \/ RaAssetArrives(w) \/ RaAssetFails(w)
    \/ RaSwitch \/ RaLaunch \/ RaReady \/ RaStop \/ RaCrash \/ RaPowerLoss

RaSpec == RaInit /\ [][RaNext]_raVars

----------------------------------------------------------------------------

\* A custom Core that runs was spawned from a file with the configured digest,
\* and its binary reports a version: a file torn by a power loss, a wrong body
\* or a fallback never brings up anything else.
RaRunsWhatItVerified == raCore \in RaDigests => raRan = "whole" /\ raCore \in RaUsable

\* No part of a body is ever published under an asset's name: not when a timer
\* or the request's end closes the transfer and the transport reports the end
\* of the body instead of an error.
RaAssetsWhole == \A f \in RaFiles : raAssets[f] # "torn"

\* A Core started on the overlay finds geoip.dat and geosite.dat: the bundled
\* ones or whole downloads, never an empty stub and never nothing.
RaDefaultsThere ==
    raPc \in {"launch", "ready"} /\ raReq.shape = "object" =>
        \A f \in RaDefaults : raAssets[f] \notin {"none", "stub"}

\* "An invalid or failed candidate leaves the current usable Core in place":
\* whatever the preparation chose is there when the running Core is stopped.
RaChosenIsThere == raPc \in {"switch", "launch"} => RaHeld(raChosen) # "none"

\* What the loaders promise: only whole and verified files are run or read,
\* whatever timed out, failed or was torn.
RaPromise ==
    /\ RaRunsWhatItVerified
    /\ RaAssetsWhole
    /\ RaDefaultsThere

----------------------------------------------------------------------------
(* The inductive invariant behind RaPromise *)

RaTyped ==
    /\ RaTypeOK
    /\ raReq \in RaRequests \cup {RaNoRequest} /\ raJobs \in Seq(RaFiles)
    /\ raPc \in {"coreGet", "coreCheck"} => raReq.core \in RaDigests

\* A binary that was verified: no crash that could have torn its file is behind it.
RaSound(binary) == binary \in RaDigests => binary \in RaUsable /\ raCores[binary] # "bad"

RaCoreSound ==
    /\ RaRunsWhatItVerified /\ RaSound(raCore)
    /\ raPc \in {"geo", "geoGet", "switch", "launch"} =>
        raChosen \in RaDigests \cup {"bundled"} /\ RaSound(raChosen)

\* A download is joined before the Start goes on, and the defaults are there
\* before one begins: its failure leaves no stub of a default.
RaOverlay ==
    /\ RaAssetsWhole
    /\ \A f \in RaDefaults : raAssets[f] # "stub"
    /\ raPc = "geoGet" => raReq.shape = "object"
    /\ raPc \in {"geoGet", "switch", "launch", "ready"} /\ raReq.shape = "object" =>
        \A f \in RaDefaults : raAssets[f] # "none"
    /\ \A w \in RaWorkers : raDl[w].stage # "idle" => raPc = "geoGet"

RaInv == RaTyped /\ RaCoreSound /\ RaOverlay

=============================================================================
