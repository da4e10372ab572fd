----------------------------- MODULE MCWeighted -----------------------------
(* Finite instances of WeightedAdmission, with its status, for TLC. *)
EXTENDS WeightedStatus

\* Calls are interchangeable in the safety properties.
CallSymmetry == Permutations(Calls)
=============================================================================
