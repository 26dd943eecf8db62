------------------------------ MODULE MCIngest ------------------------------
(* Ingestion model-checked.  Two deliveries of one failed workflow run,    *)
(* before and after a restart with a registry that knows its project, the  *)
(* later finding the run's jobs or not; the other messages are malformed   *)
(* and not decodable.  (MCSentinel has one that is not for us.)            *)
EXTENDS Ingest, TLC

CONSTANTS
  early, late, broken, noise,  \* messages
  run, brokenRef, none,               \* refs
  withJobs, withoutJobs, cause        \* contents

RefOfMC ==
  early :> run @@ late :> run @@ broken :> brokenRef @@ noise :> none

OutcomeOfMC ==
  early :> "unroutable" @@ late :> "routed" @@ broken :> "malformed"
    @@ noise :> "undecodable"

ContentsOfMC ==
  early :> {withoutJobs} @@ late :> {withJobs, withoutJobs} @@ broken :> {cause}
    @@ noise :> {}
=============================================================================
