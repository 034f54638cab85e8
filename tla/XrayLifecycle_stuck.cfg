CONSTANTS
    s1 = s1  t1 = t1  b = b
    Starters = {s1}
    Stoppers = {t1}
    Mutators = {}
    UserMutators = {}
    Users = {}
    Bases = {b}
    HashCheck = TRUE
    MaxEpoch = 3
    MaxProc = 2
    None = None
SPECIFICATION Spec
CHECK_DEADLOCK FALSE
INVARIANTS
    StoppingIsUnclean
