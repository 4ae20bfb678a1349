------------------------------ MODULE MCStore -------------------------------
(* Finite instances of the configuration store for TLC. *)
EXTENDS Store, TLC

MCSymmetry == Permutations(Slot) \cup Permutations(Id)
=============================================================================
