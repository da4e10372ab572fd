----------------------------- MODULE MCRegistry -----------------------------
(* Finite instances of Registry for TLC. *)
EXTENDS Registry, TLC

\* No property of the safety run tells the members of these sets apart.
RegistrySymmetry ==
    Permutations(Bulkheads) \cup Permutations(Labels) \cup Permutations(Loops)
    \cup Permutations(Removers) \cup Permutations(Collectors)
=============================================================================
