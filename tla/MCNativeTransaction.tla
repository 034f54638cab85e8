------------------------ MODULE MCNativeTransaction ------------------------
(* Instances of NativeTransaction for TLC. *)
EXTENDS NativeTransaction, TLC

\* Generations are interchangeable in every action.
Symmetry == Permutations(Gens)
=============================================================================
