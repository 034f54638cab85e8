-------------------------- MODULE RequestAdmission --------------------------
(***************************************************************************)
(* The way of a Panel request through the node's HTTPS server              *)
(* (internal/httpserver/server.go, internal/bodylimit/middleware.go): the  *)
(* token check, the bounded slots it takes in a fixed order, body          *)
(* decoding, the lifecycle gate, the service call, the answer, and the     *)
(* deferred releases on every way out.                                     *)
(*                                                                         *)
(* A request's route says which slots it needs: bulk and start routes have *)
(* their own, read-only routes share fewer slots than there are handlers,  *)
(* compressed bodies need a decoder, mutations the lifecycle gate (whose   *)
(* own protocol, with its queue, is module LifecycleGate).                 *)
(***************************************************************************)
EXTENDS Naturals, Sequences, FiniteSets

CONSTANTS AdRequests,
          AdMixes,       \* what the requests may be: functions to [route, reset, packed]
          MaxHandlers    \* defaultMaxHandlers or lowMemoryHandlers

VARIABLES adUsed,    \* occupancy of every slot channel
          adReq      \* [class, pc, todo, held, ctx, ran, answer]

adVars == <<adUsed, adReq>>

\* The routes that can reset what they read, the other read-only ones, those
\* with a bulk body, and the rest of nodeRouteDefinitions.
AdResets == {"usersStats", "inboundStats", "outboundStats", "allInboundsStats",
             "allOutboundsStats", "combinedStats"}
AdReadOnly == AdResets \cup {"healthcheck", "userOnlineStatus", "systemStats", "geoCheck",
                              "userIPList", "usersIPList"}
AdBulkBody == {"start", "addUsers", "removeUsers", "dropUsersConnections", "dropIPs", "sync"}
AdRoutes == AdReadOnly \cup AdBulkBody
            \cup {"stop", "addUser", "removeUser", "collectReports", "blockIPs", "unblockIPs",
                  "recreateTables"}

AdClasses ==
    {c \in [route : AdRoutes, reset : BOOLEAN, packed : BOOLEAN] : c.reset => c.route \in AdResets}

ASSUME AdAssumption ==
    /\ MaxHandlers \in Nat \ {0} /\ IsFiniteSet(AdRequests)
    /\ AdMixes \subseteq [AdRequests -> AdClasses]

\* Handlers that change something take the lifecycle gate; a statistics
\* handler only when asked to reset.
AdNeedsGate(c) ==
    c.reset \/ c.route \in {"start", "stop", "addUser", "removeUser", "addUsers", "removeUsers",
                            "sync", "recreateTables", "userIPList"}

AdSlots == {"bulk", "start", "read", "total", "decoder", "gate"}

AdRead(r) == adReq[r].class.route \in AdReadOnly

AdReadCapacity == IF MaxHandlers > 1 THEN MaxHandlers - 1 ELSE MaxHandlers

\* serverCapacity, maxBulkHandlers, maxXrayStartHandlers, maxConcurrentDecoders.
AdCapacity(s) ==
    CASE s = "bulk" -> 1 [] s = "start" -> 2 [] s = "read" -> AdReadCapacity
      [] s = "total" -> MaxHandlers [] s = "decoder" -> 2 [] OTHER -> 2

\* The order in which nodeRequestHandler nests the limits.
AdPath(c) ==
    LET If(b, s) == IF b THEN <<s>> ELSE <<>> IN
    If(c.route \in AdBulkBody \ {"start"}, "bulk") \o If(c.route = "start", "start")
        \o If(c.route \in AdReadOnly, "read") \o <<"total">>
        \o If(c.packed, "decoder") \o If(AdNeedsGate(c), "gate")

AdInit ==
    /\ adUsed = [s \in AdSlots |-> 0]
    /\ \E mix \in AdMixes :
        adReq = [r \in AdRequests |-> [class |-> mix[r], pc |-> "new", todo |-> <<>>, held |-> <<>>,
                                      ctx |-> "live", ran |-> FALSE, answer |-> "none"]]

AdSet(r, rec) == adReq' = [adReq EXCEPT ![r] = rec]
AdIsAt(r, pc) == adReq[r].pc = pc

AdHolds(r, s) == \E i \in 1..Len(adReq[r].held) : adReq[r].held[i] = s

\* A way out of the handlers with an answer ("abort" is a dropped connection).
AdLeave(r, answer) == AdSet(r, [adReq[r] EXCEPT !.pc = "leave", !.answer = answer, !.todo = <<>>])

-----------------------------------------------------------------------------
\* rejectUnknownPaths, requireJWT, requireKnownNodeRoute, withRequestTimeout.
AdArrive(r) ==
    /\ AdIsAt(r, "new")
    /\ \/ AdSet(r, [adReq[r] EXCEPT !.pc = "slots", !.todo = AdPath(adReq[r].class)])
       \/ AdLeave(r, "abort")
    /\ UNCHANGED adUsed

\* The deadline passes or the client goes away.
AdEnds(r) ==
    /\ adReq[r].ctx = "live" /\ adReq[r].pc \notin {"new", "leave", "done"}
    /\ \E c \in {"canceled", "expired"} : AdSet(r, [adReq[r] EXCEPT !.ctx = c])
    /\ UNCHANGED adUsed

\* Starts share the gate with each other, everything else needs it alone.
AdGateFree(r) ==
    \A x \in {y \in AdRequests : AdHolds(y, "gate")} :
        adReq[r].class.route = "start" /\ adReq[x].class.route = "start"

AdFree(r, s) == adUsed[s] < AdCapacity(s) /\ (s = "gate" => AdGateFree(r))

\* acquireRequestSlot, acquireDecoder, the gate: the channel send.
AdTake(r) ==
    /\ AdIsAt(r, "slots") /\ adReq[r].todo # <<>>
    /\ LET s == Head(adReq[r].todo) IN
       /\ AdFree(r, s)
       /\ adUsed' = [adUsed EXCEPT ![s] = @ + 1]
       /\ AdSet(r, [adReq[r] EXCEPT !.pc = "recheck", !.held = Append(@, s), !.todo = Tail(@)])

\* handleRequestWaitFailure: a cancelled request is dropped, a late one may
\* be retried.
AdWaitAnswer(r) == IF adReq[r].ctx = "canceled" THEN "abort" ELSE "503"

\* Mutant: the slot won in a race with the deadline is kept.
AdKeepsSlot(rec) == SubSeq(rec.held, 1, Len(rec.held) - 1)

AdRaceLost(rec) == rec.held

\* After the send: a context that ended meanwhile gives the slot back.
AdRecheck(r) ==
    /\ AdIsAt(r, "recheck")
    /\ IF adReq[r].ctx = "live" THEN AdSet(r, [adReq[r] EXCEPT !.pc = "slots"])
       ELSE AdSet(r, [adReq[r] EXCEPT !.pc = "leave", !.todo = <<>>,
                                      !.held = AdRaceLost(adReq[r]), !.answer = AdWaitAnswer(r)])
    /\ UNCHANGED adUsed

AdWaitFails(r) ==
    /\ AdIsAt(r, "slots") /\ adReq[r].todo # <<>> /\ adReq[r].ctx # "live"
    /\ AdLeave(r, AdWaitAnswer(r))
    /\ UNCHANGED adUsed

\* A body that is too large, malformed, invalid or of an unsupported encoding
\* or charset: decodeNodeRequest and serveDecompress, before the gate.
AdBadBody(r) ==
    /\ AdIsAt(r, "slots") /\ adReq[r].todo \in {<<>>, <<"gate">>, <<"decoder">>, <<"decoder", "gate">>}
    /\ AdLeave(r, "4xx")
    /\ UNCHANGED adUsed

\* The service runs and its result is written.
AdServe(r) ==
    /\ AdIsAt(r, "slots") /\ adReq[r].todo = <<>>
    /\ AdSet(r, [adReq[r] EXCEPT !.pc = "service", !.ran = TRUE])
    /\ UNCHANGED adUsed

\* withRequestTimeout leaves a written response alone.
AdWritten(r) == "result"

AdWrite(r) ==
    /\ AdIsAt(r, "service")
    /\ AdLeave(r, AdWritten(r))
    /\ UNCHANGED adUsed

\* The deferred releases.
AdRelease(r) ==
    /\ AdIsAt(r, "leave")
    /\ adUsed' = [s \in AdSlots |-> adUsed[s] - (IF AdHolds(r, s) THEN 1 ELSE 0)]
    /\ AdSet(r, [adReq[r] EXCEPT !.pc = "done", !.held = <<>>, !.ctx = "live"])

AdStep(r) == AdTake(r) \/ AdRecheck(r) \/ AdWaitFails(r) \/ AdServe(r) \/ AdWrite(r) \/ AdRelease(r)

AdNext == \E r \in AdRequests : AdArrive(r) \/ AdEnds(r) \/ AdBadBody(r) \/ AdStep(r)

AdSpec == AdInit /\ [][AdNext]_adVars

-----------------------------------------------------------------------------
\* No way out leaks a slot or returns one twice: a slot channel holds exactly
\* one token per request that will release it, and none when all are done.
AdSlotsExact ==
    \A s \in AdSlots :
        adUsed[s] = Cardinality({r \in AdRequests : AdHolds(r, s)})

\* However many reads pile up, waiting for the gate included, one handler
\* stays available to a mutation.
AdReadsLeaveRoom ==
    MaxHandlers > 1 =>
        Cardinality({r \in AdRequests : AdRead(r) /\ AdHolds(r, "total")}) < MaxHandlers

\* 503 with Retry-After promises that nothing was done: no request gets it
\* whose service call has run.
AdRetryIsSafe == \A r \in AdRequests : adReq[r].answer = "503" => ~adReq[r].ran

\* What admission promises: no slot is lost, mutations are not locked out by
\* reads, and 503 is safe to retry.
AdPromise ==
    /\ AdSlotsExact
    /\ AdReadsLeaveRoom
    /\ AdRetryIsSafe

-----------------------------------------------------------------------------
(* The inductive invariant behind AdPromise *)

AdRecs ==
    [class : AdClasses, pc : {"new", "slots", "recheck", "service", "leave", "done"},
     todo : Seq(AdSlots), held : Seq(AdSlots), ctx : {"live", "canceled", "expired"}, ran : BOOLEAN,
     answer : {"none", "abort", "503", "4xx", "result"}]
AdTypeOK == adUsed \in [AdSlots -> Nat] /\ adReq \in [AdRequests -> AdRecs]

\* Nothing is asked for twice.
AdOnce(rec) ==
    /\ \A i \in 1..Len(rec.held), j \in 1..Len(rec.todo) : rec.held[i] # rec.todo[j]
    /\ \A i, j \in 1..Len(rec.todo) : rec.todo[i] = rec.todo[j] => i = j
    /\ rec.pc = "new" => rec.held = <<>>

\* A read takes its own slot before the one it shares.
AdReadFirst(r) ==
    AdRead(r) =>
        /\ AdHolds(r, "total") => AdHolds(r, "read")
        /\ adReq[r].pc \in {"slots", "recheck"} =>
               AdHolds(r, "read") \/ (adReq[r].todo # <<>> /\ Head(adReq[r].todo) = "read")

\* What has run, and what has been answered, at each place.
AdRunInv(rec) ==
    /\ rec.pc \in {"new", "slots", "recheck"} => ~rec.ran
    /\ rec.answer = "503" => ~rec.ran /\ rec.pc \in {"leave", "done"}

AdInv ==
    /\ AdTypeOK /\ AdSlotsExact
    /\ \A s \in AdSlots : adUsed[s] <= AdCapacity(s)
    /\ \A r \in AdRequests : AdOnce(adReq[r]) /\ AdReadFirst(r) /\ AdRunInv(adReq[r])
=============================================================================
