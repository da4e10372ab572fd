--------------------------- MODULE MCDiagnostics ---------------------------
(* Finite instances of Admission, with its status and diagnosis, for TLC. *)
EXTENDS Diagnostics, TLC

\* Calls are interchangeable in the safety properties.
CallSymmetry == Permutations(Calls)
=============================================================================
