------------------------------- MODULE MCBus -------------------------------
(* The hub model-checked: clients and topics are interchangeable. *)
EXTENDS Bus, TLC

Symmetry == Permutations(Clients) \cup Permutations(Topics)
=============================================================================
