SPECIFICATION DashSpec
CONSTANTS
  crash = crash  crashFp = crashFp
  NoFp = NoFp
  Workers = {w1}
  Refs = {r1, r2, r3}
  Contents = {crash}
  Fps = {crashFp}
  FpOf <- FpOfMC
  Noise = {}
  Quarantine = {FALSE}
  BatchSize = 1
  Window = 1
  Second = 1
  MaxClock = 1
  MaxFaults = 1
  Tokens = {t1, t2}
  TTL = 0
  Limit = 1
SYMMETRY Symmetry
INVARIANTS
  SessionsAreExact
  DetailTellsHowItGotThere
  PagesMissNothing
