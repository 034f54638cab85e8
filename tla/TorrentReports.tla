--------------------------- MODULE TorrentReports ---------------------------
(***************************************************************************)
(* What becomes of one accepted torrent event (processXrayWebhookLocked in *)
(* internal/plugin/torrent.go) and the ring its reports go to              *)
(* (AddReport and FlushReports in internal/plugin/state.go).  The queue in *)
(* front of it is module WebhookPipeline's.                                *)
(*                                                                         *)
(* A source is a spelling [addr, form] of the client's address: plain,     *)
(* IPv4-mapped, scoped or unreadable, with or without protocol and port.   *)
(***************************************************************************)
EXTENDS Naturals, Sequences

CONSTANTS ReportCap,   \* maxTorrentReports
          RrEvents,    \* events: [user, source]
          RrProtected, \* loopback, multicast, link-local, unspecified, broadcast
          RrIgnored,   \* users and canonical addresses the settings ignore
          MaxReports   \* bound: reports ever added

ASSUME RrAssumption ==
    /\ ReportCap \in Nat \ {0} /\ MaxReports \in Nat
    /\ \A event \in RrEvents :
        event.source \in [addr : {event.source.addr}, form : {"plain", "mapped", "scoped", "unreadable"}]

VARIABLES rrReports, rrHead, rrDropped,   \* the ring: reports, reportHead, droppedReports
          rrBlocked,                      \* addresses in the torrent-blocker set
          rrEnabled, rrFirewall,          \* effectiveTorrentEnabled, firewallAvailableLocked
          rrHistory,                      \* history: reports since the last collection
          rrTotal                         \* history: reports ever added

rrVars == <<rrReports, rrHead, rrDropped, rrBlocked, rrEnabled, rrFirewall, rrHistory, rrTotal>>

RrInit ==
    /\ rrReports = <<>> /\ rrHead = 0 /\ rrDropped = 0 /\ rrBlocked = {}
    /\ rrEnabled \in BOOLEAN /\ rrFirewall \in BOOLEAN
    /\ rrHistory = <<>> /\ rrTotal = 0

\* extractWebhookIP: the canonical address, or nothing.
RrExtract(s) == IF s.form = "mapped" THEN [s EXCEPT !.form = "plain"] ELSE s

RrIgnores(event) ==
    LET s == RrExtract(event.source) IN
    \/ s.form \in {"scoped", "unreadable"}
    \/ s.addr \in RrProtected
    \/ (s.form = "plain" /\ s.addr \in RrIgnored) \/ event.user \in RrIgnored

\* Mutant: a full ring forgets to advance its head.
RrAddReportAt(r) ==
    IF Len(rrReports) = ReportCap
    THEN /\ rrReports' = [rrReports EXCEPT ![rrHead + 1] = r]
         /\ rrDropped' = rrDropped + 1
         /\ UNCHANGED rrHead
    ELSE rrReports' = Append(rrReports, r) /\ UNCHANGED <<rrHead, rrDropped>>

RrAddReport(r) ==
    IF Len(rrReports) = ReportCap
    THEN /\ rrReports' = [rrReports EXCEPT ![rrHead + 1] = r]
         /\ rrHead' = (rrHead + 1) % ReportCap
         /\ rrDropped' = rrDropped + 1
    ELSE rrReports' = Append(rrReports, r) /\ UNCHANGED <<rrHead, rrDropped>>

\* The whole handler for an event it does not ignore: block, report, and the
\* degraded snapshot when the firewall was lost on the way.
RrProcess ==
    /\ rrEnabled /\ rrTotal < MaxReports
    /\ \E event \in RrEvents, blocked, lost \in BOOLEAN :
        LET ip == RrExtract(event.source).addr IN
        /\ ~RrIgnores(event)
        /\ blocked => rrFirewall /\ ~lost
        /\ lost => rrFirewall
        /\ rrBlocked' = IF blocked THEN rrBlocked \cup {ip} ELSE rrBlocked
        /\ rrFirewall' = (rrFirewall /\ ~lost)
        /\ LET r == [id |-> rrTotal + 1, ip |-> ip, user |-> event.user, blocked |-> blocked] IN
           RrAddReport(r) /\ rrHistory' = Append(rrHistory, r)
        /\ rrTotal' = rrTotal + 1
        /\ rrEnabled' = ~lost     \* publishDegradedSnapshotLocked

\* FlushReports: the ring from its head on, oldest first.
RrFlushed ==
    IF rrHead = 0 THEN rrReports
    ELSE SubSeq(rrReports, rrHead + 1, Len(rrReports)) \o SubSeq(rrReports, 1, rrHead)

\* CollectReports.
RrCollect ==
    /\ rrReports # <<>>
    /\ rrReports' = <<>> /\ rrHead' = 0 /\ rrDropped' = 0 /\ rrHistory' = <<>>
    /\ UNCHANGED <<rrBlocked, rrEnabled, rrFirewall, rrTotal>>

RrNext == RrProcess \/ RrCollect

RrSpec == RrInit /\ [][RrNext]_rrVars

-----------------------------------------------------------------------------
\* A collection returns exactly the newest reports in the order they were
\* added, and accounts for every report the full ring displaced.
RrNewestInOrder ==
    /\ rrDropped + Len(rrReports) = Len(rrHistory)
    /\ RrFlushed = SubSeq(rrHistory, rrDropped + 1, Len(rrHistory))

\* No address the settings ignore, in whatever spelling rw-core reports it,
\* and none of the host's own kind is ever blocked.
RrIgnoredUntouched == rrBlocked \cap (RrIgnored \cup RrProtected) = {}

\* What the reports promise: none is lost uncounted, none names an address
\* that must be left alone.
RrPromise ==
    /\ RrNewestInOrder
    /\ RrIgnoredUntouched

-----------------------------------------------------------------------------
(* The inductive invariant behind RrPromise *)

RrRecs == [id : Nat, ip : {RrExtract(event.source).addr : event \in RrEvents},
           user : {event.user : event \in RrEvents}, blocked : BOOLEAN]
RrTypeOK ==
    /\ rrReports \in Seq(RrRecs) /\ rrHistory \in Seq(RrRecs)
    /\ rrHead \in 0..ReportCap - 1 /\ rrDropped \in Nat /\ rrTotal \in Nat

\* How old the report in slot i is: 1 for the oldest one still kept.
RrAge(i) == IF i > rrHead THEN i - rrHead ELSE i + Len(rrReports) - rrHead

\* The head moves only in a full ring, and every slot holds the report of its age.
RrInv ==
    /\ RrTypeOK /\ RrIgnoredUntouched
    /\ Len(rrReports) <= ReportCap /\ rrDropped + Len(rrReports) = Len(rrHistory)
    /\ Len(rrReports) < ReportCap => rrHead = 0 /\ rrDropped = 0
    /\ \A i \in 1..Len(rrReports) : rrReports[i] = rrHistory[rrDropped + RrAge(i)]
=============================================================================
