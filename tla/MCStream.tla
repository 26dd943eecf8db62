------------------------------ MODULE MCStream ------------------------------
(* A tab's connections model-checked: the hub's clients are interchangeable. *)
EXTENDS Stream, TLC

Symmetry == Permutations(Clients)
=============================================================================
