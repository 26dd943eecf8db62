------------------------------- MODULE Ingest -------------------------------
(***************************************************************************)
(* The ingestion loop: internal/ingest's Subscriber pulls batches from     *)
(* Pub/Sub, Router and adapters turn a message into an event, and          *)
(* IncidentWriter stores it.  A message is acknowledged only once that is  *)
(* done.  Delivery is at least once, and the process may be restarted      *)
(* between any two steps, keeping nothing but the store.                   *)
(*                                                                         *)
(* What routing makes of a message is its outcome:                         *)
(*   routed, unroutable  an event, of a known project or of none           *)
(*   discarded           ErrIgnore, ErrNoAdapter or ErrSignature           *)
(*   malformed           ErrMalformed                                      *)
(*   undecodable         the puller drops it: its data is not base64       *)
(* Its content may differ between deliveries, since the lookup of a failed *)
(* workflow's jobs is best-effort.                                         *)
(***************************************************************************)
EXTENDS Store, FiniteSets

CONSTANTS
  Messages,     \* Pub/Sub messages
  RefOf,        \* [Messages -> Refs], the source_ref an adapter derives
  OutcomeOf,    \* [Messages -> Outcomes]
  ContentsOf,   \* [Messages -> SUBSET Contents], what deliveries may say
  MaxMessages,  \* messages per pull
  MaxBackoff,   \* maxBackoff, in units of minBackoff
  MaxFaults,    \* bound: failures, lapses and restarts
  NoMessage     \* not a message

Outcomes == {"routed", "unroutable", "discarded", "malformed", "undecodable"}

ASSUME IngestAssumption ==
  /\ RefOf \in [Messages -> Refs]
  /\ OutcomeOf \in [Messages -> Outcomes]
  /\ ContentsOf \in [Messages -> SUBSET Contents]
  /\ MaxMessages \in Nat \ {0}
  /\ MaxBackoff \in Nat \ {0}
  /\ MaxFaults \in Nat
  /\ NoMessage \notin Messages

VARIABLES
  published,  \* messages Pub/Sub holds or has held for the subscription
  acked,      \* those it counts as acknowledged
  pc,         \* where the subscriber is: "batch", "audit", "cursor"
  batch,      \* messages of the batch still to be handled
  current,    \* the message whose redelivery is being recorded
  ackIDs,     \* messages of the batch that may be acknowledged
  backoff,    \* Run's backoff, in units of minBackoff
  cursor,     \* whether ingest_cursor has been written
  faults,     \* faults so far
  unaudited   \* history: per ref, redeliveries counted whose audit row was lost

ingestVars == <<pc, batch, current, ackIDs, backoff>>
queueVars  == <<published, acked>>
allVars    == <<storeVars, queueVars, ingestVars, cursor, faults, unaudited>>

IngestInit ==
  /\ published = {} /\ acked = {}
  /\ pc = "batch" /\ batch = {} /\ ackIDs = {}
  /\ current = NoMessage
  /\ backoff = 1
  /\ cursor = FALSE
  /\ faults = 0
  /\ unaudited = [r \in Refs |-> 0]

Init == StoreInit /\ IngestInit

Fault == faults < MaxFaults /\ faults' = faults + 1

(***************************************************************************)
(* Pub/Sub.                                                                *)
(***************************************************************************)
Publish(m) ==
  /\ m \notin published
  /\ published' = published \cup {m}
  /\ UNCHANGED <<storeVars, acked, ingestVars, cursor, faults, unaudited>>

(* At least once: an acknowledgement may be forgotten. *)
Lapse(m) ==
  /\ m \in acked
  /\ Fault
  /\ acked' = acked \ {m}
  /\ UNCHANGED <<storeVars, published, ingestVars, cursor, unaudited>>

(***************************************************************************)
(* Run: the pull.                                                          *)
(***************************************************************************)
Idle == pc = "batch" /\ batch = {} /\ ackIDs = {}

(* Pull(S): the server hands out S, some of what is not acknowledged; none *)
(* of it when the long poll runs out.                                      *)
Pull(S) ==
  /\ Idle
  /\ Cardinality(S) <= MaxMessages
  /\ batch' = {m \in S : OutcomeOf[m] # "undecodable"}
  /\ backoff' = 1
  /\ UNCHANGED <<storeVars, queueVars, pc, current, ackIDs, cursor, faults, unaudited>>

(* Mutant of PullFails: the backoff is not capped. *)
PullFailsUncapped ==
  /\ Idle
  /\ backoff' = backoff * 2
  /\ UNCHANGED <<storeVars, queueVars, pc, batch, current, ackIDs, cursor, faults, unaudited>>

PullFails ==
  /\ Idle
  /\ backoff' = IF backoff * 2 < MaxBackoff THEN backoff * 2 ELSE MaxBackoff
  /\ UNCHANGED <<storeVars, queueVars, pc, batch, current, ackIDs, cursor, faults, unaudited>>

(***************************************************************************)
(* processBatch: handleMessage for each message, in the order received.    *)
(***************************************************************************)
Acknowledge(m) == batch' = batch \ {m} /\ ackIDs' = ackIDs \cup {m}

(* Mutant of HandleEvent: every event is audited as a redelivery. *)
HandleAuditingAll(m, c) ==
  /\ pc = "batch" /\ m \in batch
  /\ OutcomeOf[m] \in {"routed", "unroutable"}
  /\ c \in ContentsOf[m]
  /\ IngestIncident(RefOf[m], c, IF OutcomeOf[m] = "routed" THEN "received" ELSE "filtered")
  /\ pc' = "audit" /\ current' = m
  /\ UNCHANGED <<batch, ackIDs>>
  /\ UNCHANGED <<events, fingerprints, queueVars, backoff, cursor, faults, unaudited>>

(* Handle's first write.  A new incident is done; a redelivery still wants *)
(* its audit row.                                                          *)
HandleEvent(m, c) ==
  /\ pc = "batch" /\ m \in batch
  /\ OutcomeOf[m] \in {"routed", "unroutable"}
  /\ c \in ContentsOf[m]
  /\ IngestIncident(RefOf[m], c, IF OutcomeOf[m] = "routed" THEN "received" ELSE "filtered")
  /\ IF RowsOf(RefOf[m]) = {}
     THEN Acknowledge(m) /\ UNCHANGED <<pc, current>>
     ELSE pc' = "audit" /\ current' = m /\ UNCHANGED <<batch, ackIDs>>
  /\ UNCHANGED <<events, fingerprints, queueVars, backoff, cursor, faults, unaudited>>

(* Handle's second write. *)
AuditRedelivery ==
  /\ pc = "audit"
  /\ \E i \in RowsOf(RefOf[current]) : AppendDuplicate(i)
  /\ Acknowledge(current)
  /\ pc' = "batch" /\ current' = NoMessage
  /\ UNCHANGED <<incidents, fingerprints, queueVars, backoff, cursor, faults, unaudited>>

(* The second write fails: no ack, so the message will count again. *)
AuditFails ==
  /\ pc = "audit"
  /\ Fault
  /\ unaudited' = [unaudited EXCEPT ![RefOf[current]] = @ + 1]
  /\ batch' = batch \ {current}
  /\ pc' = "batch" /\ current' = NoMessage
  /\ UNCHANGED <<storeVars, queueVars, ackIDs, backoff, cursor>>

(* Mutant of HandleMalformed: left for a redelivery, which fixes nothing.  *)
HandleMalformedRetrying(m, c) ==
  /\ pc = "batch" /\ m \in batch
  /\ OutcomeOf[m] = "malformed"
  /\ batch' = batch \ {m}
  /\ UNCHANGED <<storeVars, queueVars, pc, current, ackIDs, backoff, cursor, faults, unaudited>>

(* HandleMalformed: kept for the operator to see.  Its content is the      *)
(* cause and the attributes.                                               *)
HandleMalformed(m, c) ==
  /\ pc = "batch" /\ m \in batch
  /\ OutcomeOf[m] = "malformed"
  /\ c \in ContentsOf[m]
  /\ IngestIncident(RefOf[m], c, "filtered")
  /\ Acknowledge(m)
  /\ UNCHANGED <<events, fingerprints, queueVars, pc, current, backoff, cursor, faults, unaudited>>

(* Redelivery fixes nothing: acknowledge and forget. *)
Discard(m) ==
  /\ pc = "batch" /\ m \in batch
  /\ OutcomeOf[m] = "discarded"
  /\ Acknowledge(m)
  /\ UNCHANGED <<storeVars, queueVars, pc, current, backoff, cursor, faults, unaudited>>

(* Mutant of WriteFails: the message is acknowledged all the same. *)
WriteFailsAcked(m) ==
  /\ pc = "batch" /\ m \in batch
  /\ OutcomeOf[m] # "discarded"
  /\ Fault
  /\ Acknowledge(m)
  /\ UNCHANGED <<storeVars, queueVars, pc, current, backoff, cursor, unaudited>>

(* The first write fails, or routing does for another reason: no ack. *)
WriteFails(m) ==
  /\ pc = "batch" /\ m \in batch
  /\ OutcomeOf[m] # "discarded"
  /\ Fault
  /\ batch' = batch \ {m}
  /\ UNCHANGED <<storeVars, queueVars, pc, current, ackIDs, backoff, cursor, unaudited>>

BatchDone == pc = "batch" /\ batch = {} /\ ackIDs # {}

Ack ==
  /\ BatchDone
  /\ acked' = acked \cup ackIDs
  /\ ackIDs' = {}
  /\ pc' = "cursor"
  /\ UNCHANGED <<storeVars, published, batch, current, backoff, cursor, faults, unaudited>>

(* The call fails, having reached Pub/Sub for the messages T or for none. *)
AckFails(T) ==
  /\ BatchDone
  /\ Fault
  /\ acked' = acked \cup T
  /\ ackIDs' = {}
  /\ UNCHANGED <<storeVars, published, pc, batch, current, backoff, cursor, unaudited>>

TouchIngestCursor ==
  /\ pc = "cursor"
  /\ cursor' = TRUE
  /\ pc' = "batch"
  /\ UNCHANGED <<storeVars, queueVars, batch, current, ackIDs, backoff, faults, unaudited>>

(* A failed cursor write is logged and the loop goes on. *)
TouchFails ==
  /\ pc = "cursor"
  /\ Fault
  /\ pc' = "batch"
  /\ UNCHANGED <<storeVars, queueVars, batch, current, ackIDs, backoff, cursor, unaudited>>

(* The process stops, or is cancelled, and starts again.  A redelivery     *)
(* counted but not yet audited stays unaudited.                            *)
Restart ==
  /\ Fault
  /\ unaudited' = IF pc = "audit"
                  THEN [unaudited EXCEPT ![RefOf[current]] = @ + 1]
                  ELSE unaudited
  /\ pc' = "batch" /\ batch' = {} /\ ackIDs' = {} /\ current' = NoMessage
  /\ backoff' = 1
  /\ UNCHANGED <<storeVars, queueVars, cursor>>

Working ==
  \/ \E m \in batch : \/ \E c \in ContentsOf[m] : HandleEvent(m, c) \/ HandleMalformed(m, c)
                      \/ Discard(m)
  \/ AuditRedelivery \/ Ack \/ TouchIngestCursor

Pulling == \E S \in SUBSET (published \ acked) : Pull(S)

Failing ==
  \/ PullFails \/ AuditFails \/ TouchFails \/ Restart
  \/ \E m \in batch : WriteFails(m)
  \/ \E T \in SUBSET ackIDs : AckFails(T)
  \/ \E m \in acked : Lapse(m)

Next == (\E m \in Messages : Publish(m)) \/ Pulling \/ Working \/ Failing

Spec == Init /\ [][Next]_allVars

(* Run goes round whatever fails, and Pub/Sub goes on offering a message   *)
(* until it is acknowledged.                                               *)
Delivers(m) == \E S \in SUBSET (published \ acked) : m \in S /\ Pull(S)

FairSpec ==
  /\ Spec
  /\ WF_allVars(Working)
  /\ \A m \in {n \in Messages : OutcomeOf[n] # "undecodable"} : SF_allVars(Delivers(m))

-----------------------------------------------------------------------------
(* The type of every variable. *)
IngestTypeOK ==
  /\ published \subseteq Messages /\ acked \subseteq published
  /\ pc \in {"batch", "audit", "cursor"}
  /\ batch \subseteq Messages /\ ackIDs \subseteq Messages
  /\ current \in Messages \cup {NoMessage}
  /\ pc = "audit" <=> current # NoMessage
  /\ backoff \in 1..MaxBackoff
  /\ cursor \in BOOLEAN
  /\ faults \in 0..MaxFaults
  /\ unaudited \in [Refs -> Nat]

TypeOK == StoreTypeOK /\ IngestTypeOK

Stores(m) == OutcomeOf[m] \in {"routed", "unroutable", "malformed"}

(* Whatever fails, and whenever the process stops, a message Pub/Sub has   *)
(* been told to forget is in the incidents table: processBatch acknowledges *)
(* only what reached a durable resting place.                              *)
AckedIsDurable == \A m \in acked \cup ackIDs : Stores(m) => RowsOf(RefOf[m]) # {}

(* A source_ref has one incident however often it is delivered. *)
OneRowPerRef ==
  \A i, j \in DOMAIN incidents : incidents[i].ref = incidents[j].ref => i = j

(* Ingestion never changes what an incident says or where it stands: the   *)
(* first delivery's classification is authoritative, a redelivery only     *)
(* counts.                                                                 *)
FirstDeliveryStands ==
  [][\A i \in DOMAIN incidents :
       /\ incidents'[i].content = incidents[i].content
       /\ incidents'[i].state = incidents[i].state
       /\ incidents'[i].count >= incidents[i].count]_allVars

Redeliveries(i) ==
  Cardinality({k \in DOMAIN events : events[k] = [incident |-> i,
                 kind |-> "duplicate", from |-> "", to |-> ""]})

FromEvent(i) == \A m \in Messages : RefOf[m] = incidents[i].ref => OutcomeOf[m] # "malformed"

(* The audit trail accounts for an incident's occurrence_count, but for    *)
(* the redeliveries whose second write never happened.                     *)
CountIsAudited ==
  \A i \in DOMAIN incidents : FromEvent(i) =>
    incidents[i].count - 1 =
      Redeliveries(i) + unaudited[incidents[i].ref]
        + (IF pc = "audit" /\ RefOf[current] = incidents[i].ref THEN 1 ELSE 0)

(* Every message the puller can decode is in the end acknowledged, through *)
(* any number of failed pulls and a bounded number of other faults.        *)
EveryMessageSettled ==
  \A m \in Messages :
    (m \in published /\ OutcomeOf[m] # "undecodable") ~> (m \in acked)
=============================================================================
