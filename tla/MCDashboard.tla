----------------------------- MODULE MCDashboard -----------------------------
(* The dashboard's requests model-checked. *)
EXTENDS Dashboard, TLC

CONSTANTS crash, crashFp

FpOfMC == [c \in Contents |-> crashFp]

Symmetry == Permutations(Refs) \cup Permutations(Tokens)
=============================================================================
