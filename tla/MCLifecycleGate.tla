--------------------------- MODULE MCLifecycleGate ---------------------------
(* Instances of LifecycleGate for TLC. *)
EXTENDS LifecycleGate, TLC
Symmetry == Permutations(Starts) \cup Permutations(Exclusives)
=============================================================================
