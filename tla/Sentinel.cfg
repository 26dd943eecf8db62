SPECIFICATION FairSpec
CONSTANTS
  hook = hook  entry = entry
  delivery = delivery
  issue = issue  none = none
  crash = crash  crashFp = crashFp
  Messages = {hook, entry}
  RefOf <- RefOfMC
  OutcomeOf <- OutcomeOfMC
  ContentsOf <- ContentsOfMC
  MaxMessages = 1
  MaxBackoff = 1
  NoMessage = NoMessage
  Refs = {issue, none}
  Contents = {crash}
  Fps = {crashFp}
  NoFp = NoFp
  Window = 1
  Second = 1
  Workers = {w1, w2}
  FpOf <- FpOfMC
  Noise = {}
  Quarantine = {FALSE}
  BatchSize = 1
  MaxClock = 1
  Deliveries = {delivery}
  DeliveryOf <- DeliveryOfMC
  NoDelivery = NoDelivery
  Signed = {delivery}
  MaxFaults = 1
INVARIANTS
  AuditTellsTheMove
PROPERTIES
  AnsweredIsDecided
  ImplementsLifecycle
CHECK_DEADLOCK FALSE
