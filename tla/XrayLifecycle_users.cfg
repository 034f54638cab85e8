CONSTANTS
    s1 = s1  m1 = m1  m2 = m2  u = u  b = b
    Starters = {s1}
    Stoppers = {}
    Mutators = {m1, m2}
    UserMutators = {m1, m2}
    Users = {u}
    Bases = {b}
    HashCheck = TRUE
    MaxEpoch = 2
    MaxProc = 2
    None = None
SPECIFICATION Spec
SYMMETRY Symmetry
CHECK_DEADLOCK FALSE
PROPERTIES
    HashesTrackCore
