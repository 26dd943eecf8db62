------------------------------ MODULE Lifecycle ------------------------------
(***************************************************************************)
(* What the ingestion and process loops promise of an incident, with no    *)
(* messages, batches, workers or transactions: however often it is         *)
(* reported it is taken up once, decided at most once and for good, and    *)
(* announced at most once and only when decided; an announcement can be    *)
(* lost when the process stops.  Sentinel implements this.                 *)
(***************************************************************************)
CONSTANT Refs

VARIABLES
  stage,  \* per ref: "unknown", "received", or what was decided
  news,   \* refs decided and about to be announced
  told    \* refs announced

lifecycleVars == <<stage, news, told>>

Verdicts == {"filtered", "suppressed", "triaging"}

Init ==
  /\ stage = [r \in Refs |-> "unknown"]
  /\ news = {}
  /\ told = {}

(* The first report; routing may filter it out there and then. *)
Report(r, s) ==
  /\ stage[r] = "unknown"
  /\ stage' = [stage EXCEPT ![r] = s]
  /\ UNCHANGED <<news, told>>

Decide(r, v) ==
  /\ stage[r] = "received"
  /\ stage' = [stage EXCEPT ![r] = v]
  /\ news' = news \cup {r}
  /\ UNCHANGED told

Announce(r) ==
  /\ r \in news
  /\ news' = news \ {r}
  /\ told' = told \cup {r}
  /\ UNCHANGED stage

(* The process stops. *)
Forget == news' = {} /\ UNCHANGED <<stage, told>>

Next ==
  \/ \E r \in Refs :
       \/ \E s \in {"received", "filtered"} : Report(r, s)
       \/ \E v \in Verdicts : Decide(r, v)
       \/ Announce(r)
  \/ Forget

Spec == Init /\ [][Next]_lifecycleVars

-----------------------------------------------------------------------------
(* Nothing is announced twice, or before it is decided. *)
ToldOnceDecided ==
  /\ news \cap told = {}
  /\ \A r \in news \cup told : stage[r] \in Verdicts
=============================================================================
