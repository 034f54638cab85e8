CONSTANTS
    s1 = s1  s2 = s2  t1 = t1  t2 = t2  b = b
    Starters = {s1, s2}
    Stoppers = {t1, t2}
    Mutators = {}
    UserMutators = {}
    Users = {}
    Bases = {b}
    HashCheck = TRUE
    MaxEpoch = 3
    MaxProc = 2
    None = None
SPECIFICATION ManagerSpec
SYMMETRY Symmetry
CHECK_DEADLOCK FALSE
INVARIANTS
    CoreOwned
    StopOutranksStart
    LifecycleInv
PROPERTIES
    ImplementsSupervisor
