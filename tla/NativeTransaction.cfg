SPECIFICATION Spec
CONSTANTS
  Procs = {p1}
  Gens = {g1, g2, g3}
  None = None
  MaxFaults = 2
  Torn = {"prepare", "quiesce", "halt", "enable", "activate", "restart",
          "assertEnabled", "assertActive"}
SYMMETRY Symmetry
CHECK_DEADLOCK FALSE
INVARIANTS
    
    RepairNeverStuck

    
