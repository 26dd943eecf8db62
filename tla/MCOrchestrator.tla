--------------------------- MODULE MCOrchestrator ---------------------------
(* The process loop model-checked. *)
EXTENDS Orchestrator, TLC

CONSTANTS crash, flake, timeout,    \* contents
          crashFp, timeoutFp        \* fingerprints

(* A crash and a flake of the same code share a fingerprint. *)
FpOfMC == [c \in Contents |-> IF c = timeout THEN timeoutFp ELSE crashFp]

NoiseMC == Contents \cap {flake}

Symmetry == Permutations(Refs) \cup Permutations(Workers)
=============================================================================
