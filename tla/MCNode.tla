------------------------------- MODULE MCNode -------------------------------
(* Model values for the TLC run of Node. *)
EXTENDS Node, TLC
=============================================================================
