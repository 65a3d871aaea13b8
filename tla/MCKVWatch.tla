----------------------------- MODULE MCKVWatch -----------------------------
(* TLC instances of KVWatch. *)
EXTENDS KVWatch, TLC

\* Keys are interchangeable: the watched one is chosen in Init.
Symmetry == Permutations(Keys)

=============================================================================
