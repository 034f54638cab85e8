CONSTANTS
    RaDigests = {"d1", "d2"}
    RaUsable = {"d1"}
    RaFiles = {"geoip", "extra"}
    RaDefaults = {"geoip"}
    RaWorkers = {"w1", "w2"}
    RaRequests <- MCRaRequests
    MaxBody = 2
    MaxRaStarts = 3
SPECIFICATION RaSpec
INVARIANTS
    RaChosenIsThere
CHECK_DEADLOCK FALSE
