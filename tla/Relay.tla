-------------------------------- MODULE Relay --------------------------------
(***************************************************************************)
(* The webhook relay (deploy/relay/main.go), between GitHub and Pub/Sub.   *)
(* Each delivery is handled once or more: GitHub sends again, by itself or *)
(* by hand, what was not answered with a 200, and may have given up on an  *)
(* answer that was still to come.  A handler publishes one message, so an  *)
(* attempt is named by the message it would publish.                       *)
(***************************************************************************)

CONSTANTS
  Messages,    \* Pub/Sub messages
  Deliveries,  \* webhook deliveries
  DeliveryOf,  \* what a message was published for
  NoDelivery,  \* ... or NoDelivery, when it comes from a log sink
  Signed       \* deliveries whose signature the relay can verify

VARIABLES
  published,  \* messages that have reached Pub/Sub
  attempt,    \* per message: "none", "publishing", "answered"
  handed,     \* messages the Pub/Sub client has and may still send
  answers     \* [delivery, status] pairs answered so far

relayVars == <<attempt, handed, answers>>

Init ==
  /\ attempt = [m \in Messages |-> "none"]
  /\ handed = {}
  /\ answers = {}

Answer(m, status) ==
  /\ attempt' = [attempt EXCEPT ![m] = "answered"]
  /\ answers' = answers \cup {[delivery |-> DeliveryOf[m], status |-> status]}

(* The handler verifies the signature before anything else. *)
Receive(m) ==
  /\ attempt[m] = "none"
  /\ DeliveryOf[m] \in Signed
  /\ attempt' = [attempt EXCEPT ![m] = "publishing"]
  /\ handed' = handed \cup {m}
  /\ UNCHANGED <<published, answers>>

Reject(m) ==
  /\ attempt[m] = "none"
  /\ DeliveryOf[m] \in Deliveries \ Signed
  /\ Answer(m, 401)
  /\ UNCHANGED <<published, handed>>

(* The client's batch reaches Pub/Sub, the handler waiting for it or not.  *)
Land(m) ==
  /\ m \in handed
  /\ published' = published \cup {m}
  /\ handed' = handed \ {m}
  /\ UNCHANGED <<attempt, answers>>

(* Mutant of Accept: the handler does not wait for the result. *)
AcceptAtOnce(m) ==
  /\ attempt[m] = "publishing"
  /\ Answer(m, 200)
  /\ UNCHANGED <<published, handed>>

(* The result is in. *)
Accept(m) ==
  /\ attempt[m] = "publishing"
  /\ m \in published
  /\ Answer(m, 200)
  /\ UNCHANGED <<published, handed>>

(* An error, the timeout, or GitHub hung up: the message was published all *)
(* the same, or still will be (late), or is lost.                          *)
PublishFails(m, late) ==
  /\ attempt[m] = "publishing"
  /\ handed' = IF late THEN handed ELSE handed \ {m}
  /\ Answer(m, 500)
  /\ UNCHANGED published

RelayStep(m) ==
  \/ Receive(m) \/ Reject(m) \/ Accept(m)
  \/ \E late \in BOOLEAN : PublishFails(m, late)

-----------------------------------------------------------------------------
(* What was answered with a 200 has reached Pub/Sub, and nothing reaches   *)
(* it that is not signed.                                                  *)
AcceptedIsPublished ==
  /\ \A a \in answers : a.status = 200 => \E m \in published : DeliveryOf[m] = a.delivery
  /\ \A m \in published : DeliveryOf[m] \in Signed \cup {NoDelivery}
=============================================================================
