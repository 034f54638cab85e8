SPECIFICATION Spec
CONSTANTS
  Procs = {p1}
  Gens = {g1}
  None = None
  MaxFaults = 1
  Torn = {}
CHECK_DEADLOCK FALSE
INVARIANTS PendingIsRepairable
