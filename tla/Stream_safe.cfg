SPECIFICATION StreamSpec
CONSTANTS
  Clients = {c1, c2, c3}
  Topics = {t1}
  BufSize = 2
  MaxEvents = 5
  NoClient = NoClient
  ReplayLimit = 2
  MaxFaults = 1
SYMMETRY Symmetry
INVARIANTS
  StreamTypeOK
  StreamMissesNothingButGaps
CHECK_DEADLOCK FALSE
