SPECIFICATION Spec
CONSTANTS
  crash = crash  flake = flake  timeout = timeout
  crashFp = crashFp  timeoutFp = timeoutFp
  NoFp = NoFp
  Workers = {w1}
  Refs = {r1, r2, r3}
  Contents = {crash, flake, timeout}
  Fps = {crashFp, timeoutFp}
  FpOf <- FpOfMC
  Noise <- NoiseMC
  Quarantine = {FALSE}
  BatchSize = 2
  Window = 3
  Second = 2
  MaxClock = 5
  MaxFaults = 1
SYMMETRY Symmetry
INVARIANTS
  TypeOK
  StormContained
  SuppressedByAnotherUnlessFaults
  CanonicalIsEarliestUnlessFaults
  TotalCountsSightings
  SentIsCommitted
  SentInOrder
