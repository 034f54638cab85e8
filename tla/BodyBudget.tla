----------------------------- MODULE BodyBudget -----------------------------
(* The byte budget of a request body (internal/bodylimit/middleware.go): the *)
(* limit the process configures, the smaller one of a route, the limits on   *)
(* the compressed bytes and on the zstd window, and the reads of a handler   *)
(* up to the end of the body or the first byte too many.  Sizes are small    *)
(* numbers in place of MiB; the decoder slots are in RequestAdmission.       *)
EXTENDS Naturals, FiniteSetsExt

CONSTANTS
    BbDefault, BbLow,       \* defaultMaxBytes, lowMemoryMaxBytes
    BbMaxConfigured,        \* maxConfiguredMB
    BbMaxWire, BbMaxWindow, \* maxCompressedBodyBytes, maxZstdWindowBytes
    BbRouteLimits,          \* the ceilings of the routes
    BbSizes                 \* sizes of the bodies of the instance

ASSUME BbAssumption ==
    /\ BbDefault \in Nat /\ BbLow \in Nat /\ BbMaxConfigured \in Nat
    /\ BbMaxWire \in Nat /\ BbMaxWindow \in Nat
    /\ BbRouteLimits \subseteq Nat /\ BbSizes \subseteq Nat

VARIABLES
    bbBudget,   \* Budget.maxBytes
    bbBody,     \* the request: [encoding, size, wire, window, sound]
    bbLimit,    \* RequestLimit
    bbStage,    \* "new", "read" or "done"
    bbGot,      \* bytes the handler has
    bbAnswer    \* "none", "whole" (end of body seen) or the status

bbVars == <<bbBudget, bbBody, bbLimit, bbStage, bbGot, bbAnswer>>

\* New: 0 stands for a configuration that is refused.
BbBudgetOf(low, configured) ==
    IF configured > BbMaxConfigured \/ (low /\ configured > BbLow) THEN 0
    ELSE IF configured > 0 THEN configured
    ELSE IF low THEN BbLow ELSE BbDefault

\* WithRequestLimit.
BbRequestLimit(route, budget) == Min({IF route = 0 THEN 1 ELSE route, budget})

BbWireLimit(limit) == Min({limit, BbMaxWire})
BbWindowLimit(limit) == Min({limit, BbMaxWindow})

BbCodings == {"gzip", "deflate", "br", "zstd"}
BbBodies ==
    {b \in [encoding : BbCodings \cup {"identity", "other"}, size : BbSizes, wire : BbSizes, window : BbSizes, sound : BOOLEAN] :
        /\ b.encoding = "identity" => b.wire = b.size /\ b.sound
        /\ b.encoding # "zstd" => b.window = Min(BbSizes)}

BbInit ==
    /\ \E low \in BOOLEAN, configured \in 0 .. BbMaxConfigured + 1 : bbBudget = BbBudgetOf(low, configured)
    /\ bbBudget # 0
    /\ bbBody \in BbBodies
    /\ bbLimit = 0 /\ bbStage = "new" /\ bbGot = 0 /\ bbAnswer = "none"

BbAnswers(answer) == bbStage' = "done" /\ bbAnswer' = answer /\ UNCHANGED bbGot

\* serveDecompress and decodeBody, then serveLimit.
BbOpen(route) ==
    /\ bbStage = "new"
    /\ bbLimit' = BbRequestLimit(route, bbBudget)
    /\ IF bbBody.encoding = "other" THEN BbAnswers("415")
       ELSE IF ~bbBody.sound THEN BbAnswers("400")
       ELSE IF bbBody.encoding = "zstd" /\ bbBody.window > BbWindowLimit(bbLimit') THEN BbAnswers("413")
       ELSE bbStage' = "read" /\ UNCHANGED <<bbGot, bbAnswer>>
    /\ UNCHANGED <<bbBudget, bbBody>>

\* The decoder has read this much of the wire when it has given n bytes, and all
\* of it at the end; MaxBytesReader fails beyond the limit.
BbWireFails(n) ==
    /\ bbBody.encoding # "identity"
    /\ IF n = bbBody.size THEN bbBody.wire > BbWireLimit(bbLimit)
       ELSE n * bbBody.wire > BbWireLimit(bbLimit) * bbBody.size

\* A full budget is not yet too much: one more byte is tried.
\* Mutant: a body that fills the budget is refused.
BbTooMuchAtLimit == bbGot = bbLimit
BbTooMuch == bbGot = bbLimit /\ bbGot < bbBody.size

\* decodedReadCloser.Read (and http.MaxBytesReader for a plain body).
BbRead(asked) ==
    /\ bbStage = "read"
    /\ IF BbTooMuch THEN BbAnswers("413")
       ELSE IF bbGot = bbBody.size THEN BbAnswers(IF BbWireFails(bbGot) THEN "413" ELSE "whole")
       ELSE LET n == Min({asked, bbLimit - bbGot, bbBody.size - bbGot})
            IN  IF BbWireFails(bbGot + n) THEN BbAnswers("413")
                ELSE bbGot' = bbGot + n /\ UNCHANGED <<bbStage, bbAnswer>>
    /\ UNCHANGED <<bbBudget, bbBody, bbLimit>>

BbNext ==
    \/ \E route \in BbRouteLimits : BbOpen(route)
    \/ \E asked \in 1 .. 2 : BbRead(asked)

BbSpec == BbInit /\ [][BbNext]_bbVars

----------------------------------------------------------------------------

\* However it is encoded and read, a body never gives a handler more bytes than
\* the configured budget allows, whatever ceiling the route has.
BbNeverOver == bbGot <= bbBudget

\* A body is read to its end exactly when it fits: the last byte of a full
\* budget is not refused, and 413 is only for a body, a compressed form or a
\* window beyond its limit.
BbFitsExactly ==
    /\ bbAnswer = "whole" => bbGot = bbBody.size
    /\ bbAnswer \in {"whole", "413"} =>
        (bbAnswer = "whole" <=>
            /\ bbBody.size <= bbLimit
            /\ bbBody.encoding \in BbCodings => bbBody.wire <= BbWireLimit(bbLimit)
            /\ bbBody.encoding = "zstd" => bbBody.window <= BbWindowLimit(bbLimit))

\* What the limit promises: never a byte more, never a byte less.
BbPromise ==
    /\ BbNeverOver
    /\ BbFitsExactly
----------------------------------------------------------------------------
(* The inductive invariant behind BbPromise *)

BbTypeOK ==
    /\ bbBudget \in Nat /\ bbBody \in BbBodies /\ bbLimit \in Nat /\ bbGot \in Nat
    /\ bbStage \in {"new", "read", "done"} /\ bbAnswer \in {"none", "whole", "400", "413", "415"}

\* What is being read is decodable, in a window that fits, and within the limit.
BbWithin ==
    /\ bbStage = "new" => bbGot = 0
    /\ bbStage # "done" => bbAnswer = "none"
    /\ bbLimit <= bbBudget /\ bbGot <= bbLimit
    /\ bbStage = "read" =>
        /\ bbGot <= bbBody.size /\ bbBody.encoding # "other"
        /\ bbBody.encoding = "zstd" => bbBody.window <= BbWindowLimit(bbLimit)

BbInv == BbTypeOK /\ BbWithin /\ BbFitsExactly
=============================================================================
