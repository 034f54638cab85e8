CONSTANTS
    r1 = r1  r2 = r2  c1 = c1  ip1 = ip1  ip2 = ip2
    Requests = {r1, r2}
    Closers = {c1}
    IPs = {ip1, ip2}
    Sources <- SomeSources
    None = None
    Start = Start
SPECIFICATION Spec
SYMMETRY Symmetry
INVARIANTS
    SnapshotHolds
PROPERTIES
    KernelKeepsRules
