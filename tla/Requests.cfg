CONSTANTS
    u1 = u1 u2 = u2 t1 = t1 t2 = t2 c1 = c1 c2 = c2
    Users = {u1, u2}
    Creds = {c1, c2}
    NoCred = NoCred
    Tags = {t1, t2}
    IPs = {a, b}
    Whitelist = {b}
    MaxRequests = 2
    MaxConnections = 1
    Requests <- MCUmRequests
    Form <- MCUmForm

    Addrs = {"a", "b", "w", "l"}
    Protected = {"l"}
    LocalSets = {{}, {"b"}}
    MaxBatch = 2
    Whitelisted <- MCWhitelisted
    Socks <- MCSocks
    Lists <- MCLists

    MaxHandlers = 2
    AdRequests = {1, 2, 3}
    AdMixes <- MCMixes

    MaxSize = 2
    MaxByte = 9

    ReportCap = 3
    RrProtected = {"l"}
    RrIgnored = {"i", "v"}
    RrEvents <- MCRrEvents
    MaxReports = 8

    NcProcs = {p1, p2}
    NcItems = {"key", "secret"}
    NcValues = {"a", "b", "bad"}
    NcBroken = {"bad"}
    MaxCommands = 2

    Releases = {"r1", "r2"}
    BsSums <- MCSums
    MaxEdits = 1
    MaxRot = 1
    MaxBundleOps = 2

    V4Bits = 2
    FpItems <- MCItems
    FpASNs <- MCASNs
    MaxResolved = 2
    MaxListed = 3

    OuUsers <- MCOuUsers
    OuWorkers = {1, 2}
    MaxCores = 2

    Ifaces = {"a", "b"}
    NmModulus = 3
    NmRoutes <- MCRoutes
    MaxPolls = 2
    MaxBurst = 1

    RaDigests = {"d1", "d2"}
    RaUsable = {"d1"}
    RaFiles = {"geoip", "extra"}
    RaDefaults = {"geoip"}
    RaWorkers = {"w1", "w2"}
    RaRequests <- MCRaRequests
    MaxBody = 2
    MaxRaStarts = 2

    CcConfigs <- MCCcConfigs
    CcOptions <- MCCcOptions
    CcReports <- MCCcReports
    CcIds = {"u1", "u2", "u3"}
    CcTags = {"t1", "t2"}
    CcWord <- MCCcWord

    PjValues <- MCPjValues
    PjMaxBytes = 18
    PjMaxDepth = 3
    PjBadSize = 3

    BbDefault = 5
    BbLow = 2
    BbMaxConfigured = 6
    BbMaxWire = 3
    BbMaxWindow = 2
    BbRouteLimits = {0, 2, 4, 9}
    BbSizes = {0, 1, 2, 3, 4, 5, 6, 7}

    GcCallers = {1, 2}
    GcOutputs <- MCGcOutputs
    GcLimit = 2

    AsArchives <- MCAsArchives
    AsNumbers = {0, 1, 2, 3, 4}
    AsBits = 2
    AsMaxPerFamily = 3
    AsMaxTotal = 9

    JdSchemas <- MCJdSchemas
    JdRoot = "request"
    JdKeys = {"list", "List", "long"}
    JdLong = {"long"}
    JdFold <- MCJdFold
    JdMaxDepth = 3
    JdMaxTokens = 8
    JdMaxOpaque = 3
    JdMaxControl = 2

    RvInputs <- MCRvInputs
    RvTexts <- MCRvTexts
    RvMaxIssues = 4
    RvMaxText = 8

    SeFiles <- MCSeFiles
    SeEdits <- MCSeEdits
    SeEnvs <- MCSeEnvs
    SeMemory <- MCSeMemory
    SeSecrets <- MCSeSecrets
    SeMaxLines = 3
    SeMaxAssignments = 3
    SeMaxSize = 4
    SeMaxInt = 63
    SeMaxDigits = 2
    SeMaxSecret = 3
    MaxWrites = 2

    TsNames <- MCTsNames
    TsMixes <- MCTsMixes
    TsRequests = {1, 2}
    MaxTraffic = 2
    MaxRuns = 2

    Pids = {1, 2, 3}
    Leader = 1
    MaxCleanups = 2
SPECIFICATION RqSpec
INVARIANTS
    AdPromise LrPromise RrPromise NcPromise FpPromise OuPromise
    RaPromise   BbPromise GcPromise AsPromise
     RvPromise SePromise  PgPromise
PROPERTIES
     CdPromise  NmPromise
CHECK_DEADLOCK FALSE
