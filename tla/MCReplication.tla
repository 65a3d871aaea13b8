--------------------------- MODULE MCReplication ---------------------------
(* TLC instances of Replication. *)
EXTENDS Replication, TLC

\* Followers, the slots of their streams and the operations are interchangeable
\* in every safety property.
Symmetry ==
    Permutations(Followers) \cup Permutations(Slots) \cup Permutations(Ops)

=============================================================================
