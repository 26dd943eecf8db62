------------------------------- MODULE Sentinel -------------------------------
(***************************************************************************)
(* The pipeline from end to end: the webhook relay and log sinks publish   *)
(* to Pub/Sub, the ingestion loop stores what it pulls from there, and the *)
(* process loop decides it.  The two loops are goroutines of one process   *)
(* that share nothing but the store (cmd/sentinel/ingestwiring.go): they   *)
(* stop and start together, and any step of one may come between two of    *)
(* the other.                                                              *)
(***************************************************************************)
EXTENDS Store, FiniteSets

CONSTANTS
  Messages, RefOf, OutcomeOf, ContentsOf, MaxMessages, MaxBackoff, NoMessage,  \* see Ingest
  Workers, FpOf, Noise, Quarantine, BatchSize, MaxClock,                       \* see Orchestrator
  Deliveries, DeliveryOf, NoDelivery, Signed,                                  \* see Relay
  MaxFaults     \* bound: failures, lapses and restarts

ASSUME SentinelAssumption ==
  /\ RefOf \in [Messages -> Refs]
  /\ ContentsOf \in [Messages -> SUBSET Contents]
  /\ NoMessage \notin Messages
  /\ FpOf \in [Contents -> Fps]
  /\ MaxClock \in Nat /\ MaxFaults \in Nat
  /\ DeliveryOf \in [Messages -> Deliveries \cup {NoDelivery}]
  /\ NoDelivery \notin Deliveries
  /\ Signed \subseteq Deliveries

VARIABLES
  published, attempt, handed, answers,                                 \* the relay's
  acked, ipc, batch, current, ackIDs, backoff, cursor, unaudited,      \* ingestion's
  clock, opc, pending, in, now, rejected, suppressed, eventID, sent, openings,
                                                                       \* the process loop's
  faults        \* faults so far, of both loops

I == INSTANCE Ingest WITH pc <- ipc
O == INSTANCE Orchestrator WITH pc <- opc
R == INSTANCE Relay

relayVars  == <<attempt, handed, answers>>
ingestVars == <<published, acked, ipc, batch, current, ackIDs, backoff, cursor, unaudited>>
orchVars   == <<clock, opc, pending, in, now, rejected, suppressed, eventID, sent, openings>>
vars       == <<storeVars, relayVars, ingestVars, orchVars, faults>>

Init == I!Init /\ O!OrchestratorInit /\ R!Init

(***************************************************************************)
(* Upstream of Pub/Sub.                                                    *)
(***************************************************************************)
Relaying(m) == R!RelayStep(m) /\ UNCHANGED <<storeVars, ingestVars, orchVars, faults>>

Landing(m) == R!Land(m) /\ I!Publish(m) /\ UNCHANGED orchVars

(* A log sink publishes by itself. *)
Sink(m) ==
  /\ DeliveryOf[m] = NoDelivery
  /\ I!Publish(m)
  /\ UNCHANGED <<relayVars, orchVars>>

(***************************************************************************)
(* The process.                                                            *)
(***************************************************************************)
IngestWorking == I!Working /\ UNCHANGED <<relayVars, orchVars>>

Delivering(S) == I!Pull(S) /\ UNCHANGED <<relayVars, orchVars>>

IngestFailing ==
  /\ \/ I!PullFails \/ I!AuditFails \/ I!TouchFails
     \/ \E m \in batch : I!WriteFails(m)
     \/ \E T \in SUBSET ackIDs : I!AckFails(T)
     \/ \E m \in acked : I!Lapse(m)
  /\ UNCHANGED <<relayVars, orchVars>>

Processing(w) == O!Step(w) /\ UNCHANGED <<relayVars, ingestVars>>

ProcessFailing(w) == O!StoreCallFails(w) /\ UNCHANGED <<relayVars, ingestVars>>

Ticking == O!Tick /\ UNCHANGED <<relayVars, ingestVars>>

Restart == I!Restart /\ O!Restart /\ UNCHANGED relayVars

Next ==
  \/ \E m \in Messages : Relaying(m) \/ Landing(m) \/ Sink(m)
  \/ IngestWorking \/ IngestFailing
  \/ \E S \in SUBSET (published \ acked) : Delivering(S)
  \/ \E w \in Workers : Processing(w) \/ ProcessFailing(w)
  \/ Ticking \/ Restart

Spec == Init /\ [][Next]_vars

(* The fairness of the two loops and of Pub/Sub (see Ingest, Orchestrator).  *)
(* Of GitHub and the relay none is asked.                                  *)
FairSpec ==
  /\ Spec
  /\ WF_vars(IngestWorking)
  /\ \A m \in Messages : SF_vars(\E S \in SUBSET (published \ acked) : m \in S /\ Delivering(S))
  /\ \A w \in Workers : WF_vars(Processing(w))

-----------------------------------------------------------------------------
Decided(r) == \E i \in RowsOf(r) : incidents[i].state # "received"

(* What GitHub was told is taken care of is: a delivery answered with a    *)
(* 200 that an adapter makes an incident of ends up as a decided incident, *)
(* through restarts, failed calls and lost acknowledgements.               *)
AnsweredIsDecided ==
  \A d \in Deliveries :
    [delivery |-> d, status |-> 200] \in answers ~>
      \A m \in Messages : DeliveryOf[m] = d /\ I!Stores(m) => Decided(RefOf[m])

(* However the two process loops race for an incident, whatever fails or   *)
(* restarts between their steps, and however often it is delivered again,  *)
(* it is moved once and its audit trail tells that move: the loop that     *)
(* finds it moved leaves no row of its own (ErrStaleTransition).           *)
AuditTellsTheMove == O!AuditTellsTheMove

Stage(r) ==
  IF RowsOf(r) = {} THEN "unknown" ELSE incidents[CHOOSE i \in RowsOf(r) : TRUE].state

Incidents == INSTANCE Lifecycle WITH
  stage <- [r \in Refs |-> Stage(r)],
  news <- {incidents[in[w]].ref : w \in {v \in Workers : opc[v] = "publish"}},
  told <- {incidents[events[sent[k]].incident].ref : k \in DOMAIN sent}

(* The pipeline keeps the promises of Lifecycle, although each loop works  *)
(* on rows the other may be writing and one message may be handled again   *)
(* at any later time.                                                      *)
ImplementsLifecycle == Incidents!Spec
=============================================================================
