----------------------------- MODULE MCGateway -----------------------------
(* TLC instances of Gateway. *)
EXTENDS Gateway, TLC

\* Requests are interchangeable.
Symmetry == Permutations(Requests)

=============================================================================
