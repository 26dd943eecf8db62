SPECIFICATION Spec
CONSTANTS
  crash = crash  flake = flake  timeout = timeout
  crashFp = crashFp  timeoutFp = timeoutFp
  NoFp = NoFp
  Workers = {w1}
  Refs = {r1, r2}
  Contents = {crash}
  Fps = {crashFp}
  FpOf <- FpOfMC
  Noise <- NoiseMC
  Quarantine = {FALSE}
  BatchSize = 2
  Window = 3
  Second = 1
  MaxClock = 3
  MaxFaults = 1
INVARIANT
  SuppressedByAnother
