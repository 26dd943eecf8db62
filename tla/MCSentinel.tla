----------------------------- MODULE MCSentinel -----------------------------
(* The pipeline model-checked: a webhook delivery, an entry of a log sink  *)
(* that is not for us, and two process loops (the service's and that of a  *)
(* sentinel replay).                                                       *)
EXTENDS Sentinel, TLC

CONSTANTS hook, entry,      \* messages
          delivery, issue, none, crash, crashFp

RefOfMC      == hook :> issue @@ entry :> none
OutcomeOfMC  == hook :> "routed" @@ entry :> "discarded"
ContentsOfMC == hook :> {crash} @@ entry :> {}
DeliveryOfMC == hook :> delivery @@ entry :> NoDelivery
FpOfMC       == crash :> crashFp
=============================================================================
