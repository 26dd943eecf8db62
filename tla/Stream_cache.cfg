SPECIFICATION StreamSpec
CONSTANTS
  Clients = {c1}
  Topics = {t1}
  BufSize = 3
  MaxEvents = 2
  NoClient = NoClient
  ReplayLimit = 3
  MaxFaults = 0
INVARIANTS
  LiveTabIsFresh
CHECK_DEADLOCK FALSE
