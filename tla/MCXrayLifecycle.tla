--------------------------- MODULE MCXrayLifecycle ---------------------------
(* Instances of XrayLifecycle for TLC. *)
EXTENDS XrayLifecycle, TLC

\* Starters, Stoppers, UserMutators and Users are interchangeable in every action.
Symmetry == Permutations(Starters) \cup Permutations(Stoppers)
            \cup Permutations(UserMutators) \cup Permutations(Users)
=============================================================================
