CONSTANTS
    Starts = {a, b}
    Exclusives = {x, y}
    Webhooks = {w1, w2}
    Configs = {c1}
    Notices = 1
    MaxActive = 2
    QueueCap = 1
    OutCap = 1
    Nodes = {n1, n2}
    MaxCrashes = 2
    Binaries = {b1, b2}
    Bundled = b1
    NoVersion = NoVersion
    MaxProbes = 2
SPECIFICATION SvSpec
INVARIANT GateInv
PROPERTIES
    Served WhPromise NsPromise UsPromise VpPromise
CHECK_DEADLOCK FALSE
