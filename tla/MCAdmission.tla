---------------------------- MODULE MCAdmission ----------------------------
(* Finite instances of Admission for TLC. *)
EXTENDS Admission
=============================================================================
