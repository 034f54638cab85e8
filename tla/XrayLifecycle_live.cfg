CONSTANTS
    s1 = s1  t1 = t1  t2 = t2  m1 = m1  b = b
    Starters = {s1}
    Stoppers = {t1, t2}
    Mutators = {m1}
    UserMutators = {m1}
    Users = {}
    Bases = {b}
    HashCheck = TRUE
    MaxEpoch = 2
    MaxProc = 2
    None = None
SPECIFICATION FairSpec
CHECK_DEADLOCK FALSE
INVARIANTS
    LeasePinsProcess
PROPERTIES
    ManagerProgresses
