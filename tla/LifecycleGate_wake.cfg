CONSTANTS
    a = a  b = b  x = x
    Starts = {a, b}
    Exclusives = {x}
SPECIFICATION Spec
SYMMETRY Symmetry
INVARIANTS
    AdmissibleStartIsWoken
