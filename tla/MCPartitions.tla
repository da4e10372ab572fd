---------------------------- MODULE MCPartitions ----------------------------
(* Finite instances of PartitionManager, with its status, for TLC. *)
EXTENDS PartitionStatus, TLC

\* Callers are interchangeable in the safety properties, and so are keys.
PartitionSymmetry == Permutations(Callers) \cup Permutations(Keys)
=============================================================================
