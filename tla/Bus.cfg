SPECIFICATION FairSpec
CONSTANTS
  Clients = {c1, c2}
  Topics = {t1}
  BufSize = 2
  MaxEvents = 5
  NoClient = NoClient
INVARIANTS
  TypeOK
  NothingLostSilently
  DeliveredInOrder
  NeverSendsOnClosed
PROPERTIES
  PublishReturns
  ClientCatchesUp
  ImplementsSubscription
  ClosingReleasesReaders
CHECK_DEADLOCK FALSE
