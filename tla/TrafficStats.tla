---------------------------- MODULE TrafficStats ----------------------------
(***************************************************************************)
(* The traffic counters the panel bills by (internal/stats/handler.go,     *)
(* internal/xrayrpc/stats.go and internal/xray/grpc.go): rw-core counts,   *)
(* requests read the counters and mostly reset them in the same call, and  *)
(* what was reset exists only in the answer from then on.  A call may fail *)
(* before or after rw-core served it, and rw-core may be replaced or die.  *)
(***************************************************************************)
EXTENDS Naturals, FiniteSets, FiniteSetsExt

CONSTANTS TsNames,       \* kind ("user", "inbound" or "outbound") -> names
          TsMixes,       \* functions from requests to [route, name, reset]
          TsRequests,
          MaxTraffic, MaxRuns   \* bounds: units counted, rw-core processes

TsKinds == {"user", "inbound", "outbound"}
TsDirs == {"uplink", "downlink"}
TsCounters == UNION {[kind : {k}, name : TsNames[k], dir : TsDirs] : k \in TsKinds}

VARIABLES tsCore,    \* rw-core: [run, up, made, count]: the counters made so far and their values
          tsReq,     \* request -> [ask, pc, run, got, from]
          tsTotal, tsGiven, tsLost   \* counter -> units counted; in answers that reset; gone

tsVars == <<tsCore, tsReq, tsTotal, tsGiven, tsLost>>

TsZero == [c \in TsCounters |-> 0]
TsPlus(f, g) == [c \in TsCounters |-> f[c] + g[c]]

TsInit ==
    /\ tsCore = [run |-> 1, up |-> TRUE, made |-> {}, count |-> TsZero]
    /\ \E mix \in TsMixes :
        tsReq = [r \in TsRequests |-> [ask |-> mix[r], pc |-> "new", run |-> 0, got |-> TsZero, from |-> {}]]
    /\ tsTotal = TsZero /\ tsGiven = TsZero /\ tsLost = TsZero

-----------------------------------------------------------------------------
\* rw-core counts a unit; a counter is made by its first unit.
TsSum(f, S) == MapThenSumSet(LAMBDA x : f[x], S)

TsCount(c) ==
    /\ tsCore.up /\ TsSum(tsTotal, TsCounters) < MaxTraffic
    /\ tsCore' = [tsCore EXCEPT !.made = @ \cup {c}, !.count[c] = @ + 1]
    /\ tsTotal' = [tsTotal EXCEPT ![c] = @ + 1]
    /\ UNCHANGED <<tsReq, tsGiven, tsLost>>

\* rw-core dies at any time; a Stop or a Start that replaces it also waits for the
\* leases, which is XrayLifecycle's business.  Another run starts from zero.
TsEnd ==
    /\ tsCore.up
    /\ tsCore' = [tsCore EXCEPT !.up = FALSE, !.made = {}, !.count = TsZero]
    /\ tsLost' = TsPlus(tsLost, tsCore.count)
    /\ UNCHANGED <<tsReq, tsTotal, tsGiven>>

TsStart ==
    /\ ~tsCore.up /\ tsCore.run < MaxRuns
    /\ tsCore' = [tsCore EXCEPT !.up = TRUE, !.run = @ + 1]
    /\ UNCHANGED <<tsReq, tsTotal, tsGiven, tsLost>>

-----------------------------------------------------------------------------
\* Manager.statsMutationContext and GetCombinedStats: a reset, and the two
\* queries of the combined statistics, are made under a lease of the process.
TsBegin(r) ==
    /\ tsReq[r].pc = "new"
    /\ tsReq' = [tsReq EXCEPT
           ![r].pc = CASE ~tsCore.up -> "failed"
                       [] tsCore.up /\ (tsReq[r].ask.reset \/ tsReq[r].ask.route = "combined") -> "leased"
                       [] OTHER -> "picked",
           ![r].run = tsCore.run]
    /\ UNCHANGED <<tsCore, tsTotal, tsGiven, tsLost>>

\* The pattern of the query: QueryStats selects counters by their prefix.
TsPattern(r) ==
    LET ask == tsReq[r].ask IN
    CASE ask.route = "users" -> {c \in TsCounters : c.kind = "user"}
      [] ask.route = "inbounds" \/ (ask.route = "combined" /\ tsReq[r].pc # "half") -> {c \in TsCounters : c.kind = "inbound"}
      [] ask.route = "outbounds" \/ (ask.route = "combined" /\ tsReq[r].pc = "half") -> {c \in TsCounters : c.kind = "outbound"}
      [] OTHER -> {c \in TsCounters : c.kind = ask.route /\ c.name = ask.name}

\* parseUserTrafficStats, parseTagTraffic and parseAllTagTraffic: one entry for
\* every name that has a counter, a direction without one being zero.
TsParse(stats, value) ==
    [n \in {c.name : c \in stats} |->
        [d \in TsDirs |-> LET of == {c \in stats : c.name = n /\ c.dir = d}
                        IN  IF of = {} THEN 0 ELSE value[CHOOSE c \in of : TRUE]]]

\* GetUsersStats leaves out users without traffic; mapInbounds and mapOutbounds
\* keep every entry.
TsListed(route, entries) ==
    [n \in {m \in DOMAIN entries : route = "users" => \E d \in TsDirs : entries[m][d] # 0} |-> entries[n]]

\* What an answer says of each counter.
TsSays(entries, stats) ==
    [c \in TsCounters |-> IF c \in stats /\ c.name \in DOMAIN entries THEN entries[c.name][c.dir] ELSE 0]

\* Mutant: the query goes to the process of the moment, not to the lease's.
TsTargetNow(r) == tsCore.run

\* processForRPC
TsTarget(r) == tsReq[r].run

TsAsking(r) == tsReq[r].pc \in {"leased", "picked", "half"}

\* One QueryStats call that is answered.  GetInboundStats and GetOutboundStats
\* refuse an answer without entries.
TsAnswered(r) ==
    /\ TsAsking(r) /\ tsCore.up /\ TsTarget(r) = tsCore.run
    /\ LET ask == tsReq[r].ask
           stats == TsPattern(r) \cap tsCore.made
           says == TsPlus(tsReq[r].got, TsSays(TsListed(ask.route, TsParse(stats, tsCore.count)), stats))
           pc == IF ask.route = "combined" /\ tsReq[r].pc # "half" THEN "half"
                 ELSE IF ask.route \in {"inbound", "outbound"} /\ stats = {} THEN "failed"
                 ELSE "answered"
       IN  /\ tsReq' = [tsReq EXCEPT ![r].pc = pc, ![r].got = says, ![r].from = @ \cup {tsCore.run}]
           /\ tsCore' = IF ask.reset THEN [tsCore EXCEPT !.count = [c \in TsCounters |-> IF c \in stats THEN 0 ELSE @[c]]]
                        ELSE tsCore
           /\ tsGiven' = IF ask.reset /\ pc = "answered" THEN TsPlus(tsGiven, says) ELSE tsGiven
    /\ UNCHANGED <<tsTotal, tsLost>>

\* A call that fails, having reached rw-core or not.  The combined statistics
\* drop the half they have.
TsFailed(r) ==
    /\ TsAsking(r)
    /\ \E reached \in BOOLEAN :
        /\ reached => tsCore.up /\ TsTarget(r) = tsCore.run /\ tsReq[r].ask.reset
        /\ LET stats == IF reached THEN TsPattern(r) \cap tsCore.made ELSE {}
               taken == [c \in TsCounters |-> IF c \in stats THEN tsCore.count[c] ELSE 0]
               had == IF tsReq[r].ask.reset THEN tsReq[r].got ELSE TsZero
           IN  /\ tsCore' = [tsCore EXCEPT !.count = [c \in TsCounters |-> @[c] - taken[c]]]
               /\ tsLost' = TsPlus(tsLost, TsPlus(taken, had))
    /\ tsReq' = [tsReq EXCEPT ![r].pc = "failed", ![r].got = TsZero]
    /\ UNCHANGED <<tsTotal, tsGiven>>

TsNext ==
    \/ \E c \in TsCounters : TsCount(c)
    \/ TsEnd \/ TsStart
    \/ \E r \in TsRequests : TsBegin(r) \/ TsAnswered(r) \/ TsFailed(r)

TsSpec == TsInit /\ [][TsNext]_tsVars

-----------------------------------------------------------------------------
\* Every unit rw-core counted is in a counter, in one answer that reset it, in
\* the first half of a combined answer, or lost with a failed call or a Core; it
\* is never reported twice, and no answer is wrong about a name or a direction.
TsPending(c) ==
    TsSum([r \in TsRequests |-> IF tsReq[r].pc = "half" /\ tsReq[r].ask.reset THEN tsReq[r].got[c] ELSE 0], TsRequests)
TsAccountsFor ==
    \A c \in TsCounters : tsTotal[c] = tsCore.count[c] + tsGiven[c] + TsPending(c) + tsLost[c]

\* The two halves of a combined answer come from one run of rw-core.
TsOneRun == \A r \in TsRequests : tsReq[r].pc = "answered" => Cardinality(tsReq[r].from) = 1

\* What the traffic statistics promise.
TsPromise ==
    /\ TsAccountsFor
    /\ TsOneRun
=============================================================================
