CONSTANTS
    r1 = r1  r2 = r2  c1 = c1  ip1 = ip1
    Requests = {r1, r2}
    Closers = {c1}
    IPs = {ip1}
    Sources <- TwoSources
    None = None
    Start = Start
SPECIFICATION FairSpec
PROPERTIES
    RequestReturns
