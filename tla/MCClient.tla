------------------------------ MODULE MCClient ------------------------------
(* Model values and symmetry for the TLC runs of Client. *)
EXTENDS Client, TLC

Symmetry == Permutations(Clients)
=============================================================================
