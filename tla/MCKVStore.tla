----------------------------- MODULE MCKVStore -----------------------------
(* Model values and symmetry for the TLC runs of KVStore. *)
EXTENDS KVStore, TLC

Symmetry == Permutations(Nodes \ {Leader}) \cup Permutations(Keys)
=============================================================================
