----------------------------- MODULE MCRegistry -----------------------------
(* Model values for the TLC runs of Registry. *)
EXTENDS Registry, TLC

Symmetry == Permutations(Procs)
=============================================================================
