SPECIFICATION FairSpec
CONSTANTS
  early = early  late = late  broken = broken  noise = noise
  run = run  brokenRef = brokenRef  none = none
  withJobs = withJobs  withoutJobs = withoutJobs  cause = cause
  Refs = {run, brokenRef, none}
  Contents = {withJobs, withoutJobs, cause}
  RefOf <- RefOfMC
  OutcomeOf <- OutcomeOfMC
  ContentsOf <- ContentsOfMC
  Fps = {}
  NoMessage = NoMessage
  NoFp = NoFp
  Window = 2
  Second = 1
  Messages = {early, late, broken, noise}
  MaxMessages = 2
  MaxBackoff = 3
  MaxFaults = 2
INVARIANTS
  TypeOK
  AckedIsDurable
  OneRowPerRef
  CountIsAudited
PROPERTIES
  FirstDeliveryStands
  EveryMessageSettled
