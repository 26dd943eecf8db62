--------------------------- MODULE Ingest_proofs ---------------------------
(* Proofs about the ingestion loop, for any messages, refs and contents,   *)
(* and any number of failures, lapses and restarts.                        *)
EXTENDS Ingest, Store_proofs, FiniteSetTheorems

(* What the loop holds has been published, and the message being audited   *)
(* is still in the batch.                                                  *)
InHandPublished ==
  /\ batch \cup ackIDs \subseteq published
  /\ current # NoMessage => current \in batch

(* The inductive invariant: durability needs to know that a message whose  *)
(* redelivery is being audited has its row already, which the types and    *)
(* the one-row rule carry along.                                           *)
IInv == TypeOK /\ InHandPublished /\ AckedIsDurable /\ OneRowPerRef

(* The steps, each once. *)
LEMMA NextCases ==
  ASSUME [Next]_allVars
  PROVE  \/ \E m \in Messages : Publish(m)
         \/ \E S \in SUBSET (published \ acked) : Pull(S)
         \/ \E m \in batch : \E c \in ContentsOf[m] : HandleEvent(m, c)
         \/ \E m \in batch : \E c \in ContentsOf[m] : HandleMalformed(m, c)
         \/ \E m \in batch : Discard(m)
         \/ AuditRedelivery
         \/ Ack
         \/ TouchIngestCursor
         \/ PullFails
         \/ AuditFails
         \/ TouchFails
         \/ Restart
         \/ \E m \in batch : WriteFails(m)
         \/ \E T \in SUBSET ackIDs : AckFails(T)
         \/ \E m \in acked : Lapse(m)
         \/ UNCHANGED allVars
  BY DEF Next, Pulling, Working, Failing

-----------------------------------------------------------------------------
(* The two ways an event reaches the incidents table. *)

(* Storing an event keeps the table sound and leaves a row of its ref.     *)
LEMMA StoreStep ==
  ASSUME IInv, NEW m \in Messages, NEW c \in ContentsOf[m],
         NEW s \in {"received", "filtered"}, IngestIncident(RefOf[m], c, s)
  PROVE  /\ incidents' \in Seq(Incident)
         /\ OneRowPerRef'
         /\ \A r \in Refs : RowsOf(r) # {} => RowsOf(r)' # {}
         /\ RowsOf(RefOf[m])' # {}
<1>1. PICK r \in Refs : r = RefOf[m]
  BY IngestAssumption
<1>2. c \in Contents /\ s \in States /\ incidents \in Seq(Incident)
  BY IngestAssumption DEF States, IInv, TypeOK, StoreTypeOK
<1>3. IngestIncident(r, c, s)
  BY <1>1
<1>4. /\ incidents' \in Seq(Incident)
      /\ DOMAIN incidents \subseteq DOMAIN incidents'
      /\ \A i \in DOMAIN incidents : incidents'[i].ref = incidents[i].ref
      /\ \E i \in DOMAIN incidents' : incidents'[i].ref = r
  BY <1>2, <1>3, IngestKeeps
<1>5. CASE RowsOf(r) = {}
  <2>1. PICK new : new = Len(incidents) + 1
    OBVIOUS
  <2>2. /\ DOMAIN incidents' = DOMAIN incidents \cup {new}
        /\ incidents'[new].ref = r
    BY <1>2, <1>3, <1>5, <2>1, IngestAppends
  <2>3. \A i \in DOMAIN incidents : incidents[i].ref # r
    BY <1>5 DEF RowsOf
  <2> QED
    BY <1>1, <1>4, <2>2, <2>3 DEF IInv, OneRowPerRef, RowsOf
<1>6. CASE RowsOf(r) # {}
  <2>1. DOMAIN incidents' = DOMAIN incidents
    BY <1>2, <1>3, <1>6, IngestAppends
  <2> QED
    BY <1>1, <1>4, <2>1 DEF IInv, OneRowPerRef, RowsOf
<1> QED
  BY <1>5, <1>6

(* Rows are never taken away, so what was durable stays so. *)
LEMMA DurableKept ==
  ASSUME IInv, \A r \in Refs : RowsOf(r) # {} => RowsOf(r)' # {},
         \A m \in acked' \cup ackIDs' :
           m \in Messages /\ (m \in acked \cup ackIDs \/ (Stores(m) => RowsOf(RefOf[m])' # {}))
  PROVE  AckedIsDurable'
<1> SUFFICES ASSUME NEW m \in acked' \cup ackIDs', Stores(m)
             PROVE  RowsOf(RefOf[m])' # {}
  BY DEF AckedIsDurable, Stores
<1>1. RefOf[m] \in Refs
  BY IngestAssumption
<1>2. CASE m \in acked \cup ackIDs
  BY <1>1, <1>2 DEF IInv, AckedIsDurable
<1>3. CASE m \notin acked \cup ackIDs
  BY <1>3
<1> QED
  BY <1>2, <1>3

(* The history variable stays a count per ref. *)
LEMMA CountsUp ==
  ASSUME NEW g \in [Refs -> Nat], NEW r \in Refs
  PROVE  [g EXCEPT ![r] = @ + 1] \in [Refs -> Nat]
  OBVIOUS

LEMMA InvInit == Init => IInv
<1> SUFFICES ASSUME Init PROVE IInv
  OBVIOUS
<1>1. <<>> \in Seq(Incident) /\ <<>> \in Seq(Event) /\ DOMAIN <<>> = {}
  OBVIOUS
<1>2. StoreTypeOK
  BY <1>1 DEF Init, StoreInit, StoreTypeOK, Fingerprint
<1>3. IngestTypeOK
  <2>1. 1 \in 1..MaxBackoff /\ 0 \in 0..MaxFaults /\ 0 \in Nat
    BY IngestAssumption
  <2>2. unaudited \in [Refs -> Nat]
    BY <2>1 DEF Init, IngestInit
  <2>3. /\ published \subseteq Messages /\ acked \subseteq published
        /\ pc \in {"batch", "audit", "cursor"}
        /\ batch \subseteq Messages /\ ackIDs \subseteq Messages
        /\ current \in Messages \cup {NoMessage}
        /\ pc # "audit" /\ current = NoMessage /\ cursor \in BOOLEAN
    BY DEF Init, IngestInit
  <2>4. backoff \in 1..MaxBackoff /\ faults \in 0..MaxFaults
    BY <2>1 DEF Init, IngestInit
  <2> QED
    BY <2>2, <2>3, <2>4 DEF IngestTypeOK
<1>4. InHandPublished /\ AckedIsDurable /\ OneRowPerRef
  BY <1>1 DEF Init, IngestInit, StoreInit, InHandPublished, AckedIsDurable, OneRowPerRef
<1> QED
  BY <1>2, <1>3, <1>4 DEF IInv, TypeOK

LEMMA InvStep == IInv /\ [Next]_allVars => IInv'
<1> SUFFICES ASSUME IInv, [Next]_allVars PROVE IInv'
  OBVIOUS
<1> USE DEF IInv
<1>0. IngestTypeOK /\ StoreTypeOK /\ InHandPublished /\ OneRowPerRef
  BY DEF TypeOK
<1>1. ASSUME UNCHANGED storeVars, IngestTypeOK', InHandPublished',
             \A m \in acked' \cup ackIDs' : m \in acked \cup ackIDs \/ ~Stores(m)
      PROVE  IInv'
  <2>1. StoreTypeOK' /\ OneRowPerRef' /\ \A r : RowsOf(r)' = RowsOf(r)
    BY <1>0, <1>1 DEF StoreTypeOK, OneRowPerRef, RowsOf, storeVars
  <2>2. acked' \cup ackIDs' \subseteq Messages
    BY <1>1 DEF IngestTypeOK
  <2>3. AckedIsDurable'
    BY <1>1, <2>1, <2>2, DurableKept
  <2> QED
    BY <1>1, <2>1, <2>3 DEF TypeOK
<1>2. ASSUME NEW m \in Messages, Publish(m) PROVE IInv'
  <2>1. IngestTypeOK' /\ InHandPublished'
    BY <1>0, <1>2 DEF Publish, ingestVars, IngestTypeOK, InHandPublished
  <2> QED
    BY <1>1, <1>2, <2>1 DEF Publish, ingestVars
<1>3. ASSUME NEW S \in SUBSET (published \ acked), Pull(S) PROVE IInv'
  <2>1. 1 \in 1..MaxBackoff
    BY IngestAssumption
  <2>2. batch' \subseteq published
    BY <1>3 DEF Pull
  <2>3. IngestTypeOK' /\ InHandPublished'
    BY <1>0, <1>3, <2>1, <2>2 DEF Pull, Idle, queueVars, IngestTypeOK, InHandPublished
  <2> QED
    BY <1>1, <1>3, <2>3 DEF Pull, queueVars
<1>4. ASSUME NEW m \in batch, NEW c \in ContentsOf[m], HandleEvent(m, c) PROVE IInv'
  <2>1. m \in Messages
    BY <1>0 DEF IngestTypeOK
  <2>2. PICK s \in {"received", "filtered"} :
          s = IF OutcomeOf[m] = "routed" THEN "received" ELSE "filtered"
    OBVIOUS
  <2>3. IngestIncident(RefOf[m], c, s)
    BY <1>4, <2>2 DEF HandleEvent
  <2>4. /\ incidents' \in Seq(Incident) /\ OneRowPerRef'
        /\ \A r \in Refs : RowsOf(r) # {} => RowsOf(r)' # {}
        /\ RowsOf(RefOf[m])' # {}
    BY <2>1, <2>3, StoreStep
  <2>5. UNCHANGED <<events, fingerprints, published, acked, backoff, cursor, faults, unaudited>>
    BY <1>4 DEF HandleEvent, queueVars
  <2>6. \/ /\ batch' = batch \ {m} /\ ackIDs' = ackIDs \cup {m}
           /\ pc' = pc /\ current' = current
        \/ /\ pc' = "audit" /\ current' = m
           /\ batch' = batch /\ ackIDs' = ackIDs
    BY <1>4 DEF HandleEvent, Acknowledge
  <2>7. pc = "batch" /\ current = NoMessage /\ m # NoMessage
    BY <1>0, <1>4, <2>1, IngestAssumption DEF HandleEvent, IngestTypeOK
  <2>8. IngestTypeOK' /\ InHandPublished'
    BY <1>0, <2>1, <2>5, <2>6, <2>7 DEF IngestTypeOK, InHandPublished
  <2>9. \A n \in acked' \cup ackIDs' : n \in acked \cup ackIDs \cup {m} /\ n \in Messages
    BY <1>0, <2>1, <2>5, <2>6 DEF IngestTypeOK
  <2>10. AckedIsDurable'
    BY <2>4, <2>9, DurableKept
  <2> QED
    BY <1>0, <2>4, <2>5, <2>8, <2>10 DEF TypeOK, StoreTypeOK
<1>5. ASSUME NEW m \in batch, NEW c \in ContentsOf[m], HandleMalformed(m, c) PROVE IInv'
  <2>1. m \in Messages
    BY <1>0 DEF IngestTypeOK
  <2>2. /\ incidents' \in Seq(Incident) /\ OneRowPerRef'
        /\ \A r \in Refs : RowsOf(r) # {} => RowsOf(r)' # {}
        /\ RowsOf(RefOf[m])' # {}
    BY <1>5, <2>1, StoreStep DEF HandleMalformed
  <2>3. /\ UNCHANGED <<events, fingerprints, published, acked, pc, current, backoff,
                       cursor, faults, unaudited>>
        /\ batch' = batch \ {m} /\ ackIDs' = ackIDs \cup {m} /\ pc = "batch"
    BY <1>5 DEF HandleMalformed, Acknowledge, queueVars
  <2>4. IngestTypeOK' /\ InHandPublished'
    BY <1>0, <2>1, <2>3 DEF IngestTypeOK, InHandPublished
  <2>5. \A n \in acked' \cup ackIDs' : n \in acked \cup ackIDs \cup {m} /\ n \in Messages
    BY <1>0, <2>1, <2>3 DEF IngestTypeOK
  <2>6. AckedIsDurable'
    BY <2>2, <2>5, DurableKept
  <2> QED
    BY <1>0, <2>2, <2>3, <2>4, <2>6 DEF TypeOK, StoreTypeOK
<1>6. ASSUME NEW m \in batch, Discard(m) PROVE IInv'
  <2>1. /\ UNCHANGED <<storeVars, published, acked, pc, current, backoff, cursor, faults, unaudited>>
        /\ batch' = batch \ {m} /\ ackIDs' = ackIDs \cup {m} /\ pc = "batch"
    BY <1>6 DEF Discard, Acknowledge, queueVars
  <2>2. IngestTypeOK' /\ InHandPublished'
    BY <1>0, <2>1 DEF IngestTypeOK, InHandPublished
  <2>3. ~Stores(m)
    BY <1>6 DEF Discard, Stores
  <2> QED
    BY <1>1, <2>1, <2>2, <2>3
<1>7. CASE AuditRedelivery
  <2>1. PICK i \in RowsOf(RefOf[current]) : AppendDuplicate(i)
    BY <1>7 DEF AuditRedelivery
  <2>2. /\ UNCHANGED <<incidents, fingerprints, published, acked, backoff, cursor, faults, unaudited>>
        /\ batch' = batch \ {current} /\ ackIDs' = ackIDs \cup {current}
        /\ pc' = "batch" /\ current' = NoMessage
    BY <1>7 DEF AuditRedelivery, Acknowledge, queueVars
  <2>3. current \in Messages /\ current \in published
    BY <1>0, <1>7 DEF AuditRedelivery, IngestTypeOK, InHandPublished
  <2>4. IngestTypeOK' /\ InHandPublished'
    BY <1>0, <2>2, <2>3 DEF IngestTypeOK, InHandPublished
  <2>5. \A r : RowsOf(r)' = RowsOf(r)
    BY <2>2 DEF RowsOf
  <2>6. RowsOf(RefOf[current]) # {}
    BY <2>1
  <2>7. AckedIsDurable' /\ OneRowPerRef'
    BY <1>0, <2>2, <2>5, <2>6 DEF AckedIsDurable, OneRowPerRef, Stores
  <2>8. events' \in Seq(Event)
    <3>1. i \in Nat \ {0} /\ events \in Seq(Event)
      BY <1>0 DEF RowsOf, StoreTypeOK
    <3>2. [incident |-> i, kind |-> "duplicate", from |-> "", to |-> ""] \in Event
      BY <3>1 DEF Event
    <3> QED
      BY <2>1, <3>1, <3>2, AppendRow DEF AppendDuplicate
  <2> QED
    BY <1>0, <2>2, <2>4, <2>7, <2>8 DEF TypeOK, StoreTypeOK
<1>8. CASE Ack
  <2>1. IngestTypeOK' /\ InHandPublished'
    BY <1>0, <1>8 DEF Ack, BatchDone, storeVars, IngestTypeOK, InHandPublished
  <2> QED
    BY <1>1, <1>8, <2>1 DEF Ack
<1>9. ASSUME NEW T \in SUBSET ackIDs, AckFails(T) PROVE IInv'
  <2>1. faults' \in 0..MaxFaults
    BY <1>0, <1>9, IngestAssumption DEF AckFails, Fault, IngestTypeOK
  <2>2. IngestTypeOK' /\ InHandPublished'
    BY <1>0, <1>9, <2>1 DEF AckFails, BatchDone, IngestTypeOK, InHandPublished
  <2> QED
    BY <1>1, <1>9, <2>2 DEF AckFails
<1>10. CASE TouchIngestCursor
  <2>1. IngestTypeOK' /\ InHandPublished'
    BY <1>0, <1>10 DEF TouchIngestCursor, queueVars, IngestTypeOK, InHandPublished
  <2> QED
    BY <1>1, <1>10, <2>1 DEF TouchIngestCursor, queueVars
<1>11. CASE TouchFails
  <2>1. faults' \in 0..MaxFaults
    BY <1>0, <1>11, IngestAssumption DEF TouchFails, Fault, IngestTypeOK
  <2>2. IngestTypeOK' /\ InHandPublished'
    BY <1>0, <1>11, <2>1 DEF TouchFails, queueVars, IngestTypeOK, InHandPublished
  <2> QED
    BY <1>1, <1>11, <2>2 DEF TouchFails, queueVars
<1>12. CASE PullFails
  <2>1. backoff' \in 1..MaxBackoff
    BY <1>0, <1>12, IngestAssumption DEF PullFails, IngestTypeOK
  <2>2. IngestTypeOK' /\ InHandPublished'
    BY <1>0, <1>12, <2>1 DEF PullFails, queueVars, IngestTypeOK, InHandPublished
  <2> QED
    BY <1>1, <1>12, <2>2 DEF PullFails, queueVars
<1>13. CASE AuditFails
  <2>1. faults' \in 0..MaxFaults
    BY <1>0, <1>13, IngestAssumption DEF AuditFails, Fault, IngestTypeOK
  <2>2. unaudited' \in [Refs -> Nat]
    BY <1>0, <1>13, CountsUp, IngestAssumption DEF AuditFails, IngestTypeOK
  <2>3. IngestTypeOK' /\ InHandPublished'
    BY <1>0, <1>13, <2>1, <2>2 DEF AuditFails, queueVars, IngestTypeOK, InHandPublished
  <2> QED
    BY <1>1, <1>13, <2>3 DEF AuditFails, queueVars
<1>14. CASE Restart
  <2>1. faults' \in 0..MaxFaults /\ 1 \in 1..MaxBackoff
    BY <1>0, <1>14, IngestAssumption DEF Restart, Fault, IngestTypeOK
  <2>2. unaudited' \in [Refs -> Nat]
    BY <1>0, <1>14, CountsUp, IngestAssumption DEF Restart, IngestTypeOK
  <2>3. IngestTypeOK' /\ InHandPublished'
    BY <1>0, <1>14, <2>1, <2>2 DEF Restart, queueVars, IngestTypeOK, InHandPublished
  <2> QED
    BY <1>1, <1>14, <2>3 DEF Restart, queueVars
<1>15. ASSUME NEW m \in batch, WriteFails(m) PROVE IInv'
  <2>1. faults' \in 0..MaxFaults
    BY <1>0, <1>15, IngestAssumption DEF WriteFails, Fault, IngestTypeOK
  <2>2. current = NoMessage
    BY <1>0, <1>15 DEF WriteFails, IngestTypeOK
  <2>3. IngestTypeOK' /\ InHandPublished'
    BY <1>0, <1>15, <2>1, <2>2 DEF WriteFails, queueVars, IngestTypeOK, InHandPublished
  <2> QED
    BY <1>1, <1>15, <2>3 DEF WriteFails, queueVars
<1>16. ASSUME NEW m \in acked, Lapse(m) PROVE IInv'
  <2>1. faults' \in 0..MaxFaults
    BY <1>0, <1>16, IngestAssumption DEF Lapse, Fault, IngestTypeOK
  <2>2. IngestTypeOK' /\ InHandPublished'
    BY <1>0, <1>16, <2>1 DEF Lapse, ingestVars, IngestTypeOK, InHandPublished
  <2> QED
    BY <1>1, <1>16, <2>2 DEF Lapse, ingestVars
<1>17. CASE UNCHANGED allVars
  <2>1. IngestTypeOK' /\ InHandPublished'
    BY <1>0, <1>17 DEF allVars, ingestVars, queueVars, IngestTypeOK, InHandPublished
  <2> QED
    BY <1>1, <1>17, <2>1 DEF allVars, ingestVars, queueVars
<1> QED
  BY <1>2, <1>3, <1>4, <1>5, <1>6, <1>7, <1>8, <1>9, <1>10, <1>11, <1>12, <1>13, <1>14,
     <1>15, <1>16, <1>17, NextCases

LEMMA Invariant == Spec => []IInv
  BY InvInit, InvStep, PTL DEF Spec

(* Every variable keeps its type. *)
THEOREM TypeCorrect == Spec => []TypeOK
<1>1. IInv => TypeOK
  BY DEF IInv
<1> QED
  BY <1>1, Invariant, PTL

(* Whatever fails and whenever the process stops, what Pub/Sub was told to *)
(* forget is in the incidents table.                                       *)
THEOREM AckedIsKept == Spec => []AckedIsDurable
<1>1. IInv => AckedIsDurable
  BY DEF IInv
<1> QED
  BY <1>1, Invariant, PTL

(* A source_ref has at most one incident, however often it is delivered.   *)
THEOREM RedeliveryIsOneRow == Spec => []OneRowPerRef
<1>1. IInv => OneRowPerRef
  BY DEF IInv
<1> QED
  BY <1>1, Invariant, PTL

(* No step of ingestion rewrites an incident: a redelivery only counts.    *)
THEOREM FirstDeliveryWins == Spec => FirstDeliveryStands
<1> DEFINE Stands == \A i \in DOMAIN incidents :
                       /\ incidents'[i].content = incidents[i].content
                       /\ incidents'[i].state = incidents[i].state
                       /\ incidents'[i].count >= incidents[i].count
<1>1. IInv /\ [Next]_allVars => [Stands]_allVars
  <2> SUFFICES ASSUME IInv, [Next]_allVars PROVE Stands
    OBVIOUS
  <2>1. ASSUME NEW m \in batch, NEW c \in ContentsOf[m], NEW s \in {"received", "filtered"},
               IngestIncident(RefOf[m], c, s)
        PROVE  Stands
    <3>1. /\ incidents \in Seq(Incident) /\ s \in States
          /\ m \in Messages /\ RefOf[m] \in Refs /\ c \in Contents
      BY IngestAssumption DEF IInv, TypeOK, IngestTypeOK, StoreTypeOK, States
    <3> QED
      BY <2>1, <3>1, IngestKeeps, IngestCounts
  <2>2. CASE UNCHANGED incidents
    <3> SUFFICES ASSUME NEW i \in DOMAIN incidents
                 PROVE  incidents[i].count >= incidents[i].count
      BY <2>2
    <3>1. incidents[i] \in Incident
      BY DEF IInv, TypeOK, StoreTypeOK
    <3> QED
      BY <3>1 DEF Incident
  <2>3. \/ \E m \in batch : \E c \in ContentsOf[m], s \in {"received", "filtered"} :
             IngestIncident(RefOf[m], c, s)
        \/ UNCHANGED incidents
    BY NextCases DEF Publish, Pull, HandleEvent, HandleMalformed, Discard, AuditRedelivery,
                     Ack, TouchIngestCursor, PullFails, AuditFails, TouchFails, Restart,
                     WriteFails, AckFails, Lapse, storeVars, allVars
  <2> QED
    BY <2>1, <2>2, <2>3
<1> QED
  BY <1>1, Invariant, PTL DEF Spec, FirstDeliveryStands

-----------------------------------------------------------------------------
(* The audit trail accounts for occurrence_count.  Alone that is not       *)
(* inductive: a row starts with a count of 1 and nothing on its account,   *)
(* because neither a redelivery nor its loss is ever booked on a row that  *)
(* is not there yet.                                                       *)
BookedHaveRow ==
  /\ \A r \in Refs : RowsOf(r) = {} => unaudited[r] = 0
  /\ pc = "audit" => RowsOf(RefOf[current]) # {}
  /\ \A k \in DOMAIN events : events[k].incident \in DOMAIN incidents

CountInv == BookedHaveRow /\ CountIsAudited

Redelivery(i) == [incident |-> i, kind |-> "duplicate", from |-> "", to |-> ""]

(* The redelivery that is counted and about to be audited. *)
InAudit(r) == IF pc = "audit" /\ RefOf[current] = r THEN 1 ELSE 0

(* A row's redeliveries are a number, and its next one makes it one more.  *)
LEMMA RedeliveriesNat ==
  ASSUME events \in Seq(Event), NEW i
  PROVE  /\ IsFiniteSet({k \in DOMAIN events : events[k] = Redelivery(i)})
         /\ Redeliveries(i) = Cardinality({k \in DOMAIN events : events[k] = Redelivery(i)})
         /\ Redeliveries(i) \in Nat
<1>1. DOMAIN events = 1..Len(events) /\ Len(events) \in Nat
  OBVIOUS
<1>2. IsFiniteSet(DOMAIN events)
  BY <1>1, FS_Interval
<1>3. IsFiniteSet({k \in DOMAIN events : events[k] = Redelivery(i)})
  BY <1>2, FS_Subset
<1> QED
  BY <1>3, FS_CardinalityType DEF Redeliveries, Redelivery

LEMMA RedeliveryCounts ==
  ASSUME events \in Seq(Event), NEW i \in Nat \ {0}, AppendDuplicate(i), NEW j
  PROVE  Redeliveries(j)' = IF j = i THEN Redeliveries(j) + 1 ELSE Redeliveries(j)
<1> DEFINE D(x) == {k \in DOMAIN events : events[k] = Redelivery(x)}
           new == Len(events) + 1
<1>1. Redelivery(i) \in Event /\ events' = Append(events, Redelivery(i))
  BY DEF Redelivery, Event, AppendDuplicate
<1>2. /\ DOMAIN events' = DOMAIN events \cup {new} /\ new \notin DOMAIN events
      /\ events'[new] = Redelivery(i)
      /\ \A k \in DOMAIN events : events'[k] = events[k]
  BY <1>1, AppendRow
<1>3. j # i => Redelivery(i) # Redelivery(j)
  BY DEF Redelivery
<1>4. {k \in DOMAIN events' : events'[k] = Redelivery(j)}
        = IF j = i THEN D(j) \cup {new} ELSE D(j)
  BY <1>2, <1>3
<1>5. Redeliveries(j)' = Cardinality({k \in DOMAIN events' : events'[k] = Redelivery(j)})
  BY DEF Redeliveries, Redelivery
<1>6. IsFiniteSet(D(j)) /\ Redeliveries(j) = Cardinality(D(j)) /\ new \notin D(j)
  BY <1>2, RedeliveriesNat
<1> HIDE DEF D
<1>7. Cardinality(D(j) \cup {new}) = Cardinality(D(j)) + 1
  BY <1>6, FS_AddElement
<1> QED
  BY <1>4, <1>5, <1>6, <1>7

LEMMA NoRedeliveries ==
  ASSUME events \in Seq(Event), NEW i, \A k \in DOMAIN events : events[k].incident # i
  PROVE  Redeliveries(i) = 0
<1>1. ASSUME NEW k \in DOMAIN events PROVE events[k] # Redelivery(i)
  <2>1. Redelivery(i).incident = i
    BY DEF Redelivery
  <2> QED
    BY <2>1
<1>2. {k \in DOMAIN events : events[k] = Redelivery(i)} = {}
  BY <1>1
<1> QED
  BY <1>2, RedeliveriesNat, FS_EmptySet

(* What the books of a row are, in numbers. *)
Balanced(i) ==
  incidents[i].count - 1
    = Redeliveries(i) + unaudited[incidents[i].ref] + InAudit(incidents[i].ref)

LEMMA BooksTyped ==
  ASSUME IInv, NEW i \in DOMAIN incidents
  PROVE  /\ incidents[i].ref \in Refs /\ incidents[i].count \in Nat \ {0}
         /\ Redeliveries(i) \in Nat /\ unaudited[incidents[i].ref] \in Nat
         /\ InAudit(incidents[i].ref) \in {0, 1}
<1>1. incidents[i] \in Incident
  BY DEF IInv, TypeOK, StoreTypeOK
<1> QED
  BY <1>1, RedeliveriesNat DEF IInv, TypeOK, StoreTypeOK, IngestTypeOK, Incident, InAudit

LEMMA CountedIsBalanced ==
  CountIsAudited <=> \A i \in DOMAIN incidents : FromEvent(i) => Balanced(i)
  BY DEF CountIsAudited, Balanced, InAudit

(* A step that leaves the store alone keeps the books if what it takes     *)
(* from the redelivery in audit it books as lost.                          *)
LEMMA BooksKept ==
  ASSUME IInv, IInv', CountInv, UNCHANGED storeVars,
         pc' = "audit" => pc = "audit" /\ current' = current,
         \A r \in Refs : unaudited'[r] + InAudit(r)' = unaudited[r] + InAudit(r),
         \A r \in Refs : RowsOf(r) = {} => unaudited'[r] = unaudited[r]
  PROVE  CountInv'
<1>1. incidents' = incidents /\ events' = events /\ \A r : RowsOf(r)' = RowsOf(r)
  BY DEF storeVars, RowsOf
<1>2. BookedHaveRow'
  BY <1>1 DEF CountInv, BookedHaveRow
<1>3. ASSUME NEW i \in DOMAIN incidents', FromEvent(i)' PROVE Balanced(i)'
  <2>1. i \in DOMAIN incidents /\ FromEvent(i) /\ Redeliveries(i)' = Redeliveries(i)
    BY <1>1, <1>3 DEF FromEvent, Redeliveries
  <2>2. Balanced(i)
    BY <2>1, CountedIsBalanced DEF CountInv
  <2>3. /\ incidents[i].ref \in Refs /\ unaudited[incidents[i].ref] \in Nat
        /\ Redeliveries(i) \in Nat /\ InAudit(incidents[i].ref) \in {0, 1}
    BY <2>1, BooksTyped
  <2>4. /\ unaudited'[incidents'[i].ref] \in Nat /\ InAudit(incidents[i].ref)' \in {0, 1}
    BY <1>1, <2>3 DEF IInv, TypeOK, IngestTypeOK, InAudit
  <2>5. unaudited'[incidents'[i].ref] + InAudit(incidents[i].ref)'
          = unaudited[incidents[i].ref] + InAudit(incidents[i].ref)
    BY <1>1, <2>3 DEF InAudit
  <2>6. incidents[i].count \in Nat
    BY <2>1, BooksTyped
  <2> QED
    BY <1>1, <2>1, <2>2, <2>3, <2>4, <2>5, <2>6 DEF Balanced
<1> QED
  BY <1>2, <1>3 DEF CountInv, CountIsAudited, Balanced, InAudit

(* An event's first write: a new row starts balanced, a redelivery goes    *)
(* into audit, and no other row's ref is the one in hand.                  *)
LEMMA EventBooked ==
  ASSUME IInv, IInv', CountInv, NEW m \in batch, NEW c \in ContentsOf[m], HandleEvent(m, c)
  PROVE  CountInv'
<1>1. PICK r \in Refs, s \in {"received", "filtered"} :
        r = RefOf[m] /\ IngestIncident(r, c, s)
  BY IngestAssumption DEF HandleEvent, IInv, TypeOK, IngestTypeOK
<1>2. /\ incidents \in Seq(Incident) /\ events \in Seq(Event)
      /\ c \in Contents /\ s \in States /\ m \in Messages
  BY IngestAssumption DEF States, IInv, TypeOK, StoreTypeOK, IngestTypeOK
<1>3. /\ events' = events /\ unaudited' = unaudited
      /\ pc = "batch" /\ current = NoMessage /\ \A q : InAudit(q) = 0
  BY DEF HandleEvent, IInv, TypeOK, IngestTypeOK, InAudit
<1>4. /\ DOMAIN incidents \subseteq DOMAIN incidents'
      /\ \A i \in DOMAIN incidents : incidents'[i].ref = incidents[i].ref
  BY <1>1, <1>2, IngestKeeps
<1>5. CASE RowsOf(r) = {}
  <2>1. PICK new : new = Len(incidents) + 1
    OBVIOUS
  <2>2. /\ DOMAIN incidents' = DOMAIN incidents \cup {new} /\ new \notin DOMAIN incidents
        /\ incidents'[new].ref = r /\ incidents'[new].count = 1
        /\ \A i \in DOMAIN incidents : incidents'[i].count = incidents[i].count
    BY <1>1, <1>2, <1>5, <2>1, IngestAppends, IngestCountsOne
  <2>3. pc' = "batch" /\ \A q : InAudit(q)' = 0
    BY <1>1, <1>3, <1>5 DEF HandleEvent, InAudit
  <2>4. unaudited[r] = 0 /\ Redeliveries(new) = 0
    BY <1>2, <1>5, <2>2, NoRedeliveries DEF CountInv, BookedHaveRow
  <2>5. BookedHaveRow'
    BY <1>3, <1>4, <2>3 DEF CountInv, BookedHaveRow, RowsOf
  <2>6. ASSUME NEW i \in DOMAIN incidents', FromEvent(i)' PROVE Balanced(i)'
    <3>1. Redeliveries(i)' = Redeliveries(i)
      BY <1>3 DEF Redeliveries
    <3>2. CASE i = new
      BY <1>3, <2>2, <2>3, <2>4, <3>1, <3>2 DEF Balanced
    <3>3. CASE i # new
      <4>1. i \in DOMAIN incidents /\ FromEvent(i)
        BY <1>4, <2>2, <2>6, <3>3 DEF FromEvent
      <4>2. Balanced(i)
        BY <4>1, CountedIsBalanced DEF CountInv
      <4> QED
        BY <1>3, <1>4, <2>2, <2>3, <3>1, <4>1, <4>2 DEF Balanced
    <3> QED
      BY <3>2, <3>3
  <2> QED
    BY <2>5, <2>6 DEF CountInv, CountIsAudited, Balanced, InAudit
<1>6. CASE RowsOf(r) # {}
  <2>1. PICK k \in RowsOf(r) :
          /\ incidents'[k].count = incidents[k].count + 1
          /\ \A i \in DOMAIN incidents : i # k => incidents'[i].count = incidents[i].count
    BY <1>1, <1>2, <1>6, IngestCountsOne
  <2>2. k \in DOMAIN incidents /\ incidents[k].ref = r
    BY DEF RowsOf
  <2>3. DOMAIN incidents' = DOMAIN incidents
    BY <1>1, <1>2, <1>6, IngestAppends
  <2>4. pc' = "audit" /\ current' = m /\ \A q : InAudit(q)' = IF q = r THEN 1 ELSE 0
    BY <1>1, <1>6 DEF HandleEvent, InAudit
  <2>5. BookedHaveRow'
    BY <1>1, <1>3, <1>4, <1>6, <2>3, <2>4 DEF CountInv, BookedHaveRow, RowsOf
  <2>6. ASSUME NEW i \in DOMAIN incidents', FromEvent(i)' PROVE Balanced(i)'
    <3>1. i \in DOMAIN incidents /\ FromEvent(i) /\ Redeliveries(i)' = Redeliveries(i)
      BY <1>3, <1>4, <2>3, <2>6 DEF FromEvent, Redeliveries
    <3>2. Balanced(i)
      BY <3>1, CountedIsBalanced DEF CountInv
    <3>3. i # k => incidents[i].ref # r
      BY <2>2, <3>1 DEF IInv, OneRowPerRef
    <3>4. /\ incidents[i].count \in Nat /\ Redeliveries(i) \in Nat
          /\ unaudited[incidents[i].ref] \in Nat
      BY <3>1, BooksTyped
    <3>5. incidents'[i].ref = incidents[i].ref
      BY <1>4, <3>1
    <3>6. InAudit(incidents[i].ref) = 0 /\ InAudit(incidents[i].ref)' = IF i = k THEN 1 ELSE 0
      BY <1>3, <2>2, <2>4, <3>3, <3>5
    <3>7. incidents'[i].count = IF i = k THEN incidents[i].count + 1 ELSE incidents[i].count
      BY <2>1, <3>1
    <3> QED
      BY <1>3, <3>1, <3>2, <3>4, <3>5, <3>6, <3>7 DEF Balanced, InAudit
  <2> QED
    BY <2>5, <2>6 DEF CountInv, CountIsAudited, Balanced, InAudit
<1> QED
  BY <1>5, <1>6

(* A malformed message keeps no books on its own row, and touches no other. *)
LEMMA MalformedBooked ==
  ASSUME IInv, CountInv, NEW m \in batch, NEW c \in ContentsOf[m], HandleMalformed(m, c)
  PROVE  CountInv'
<1>1. PICK r \in Refs : r = RefOf[m] /\ IngestIncident(r, c, "filtered")
  BY IngestAssumption DEF HandleMalformed, IInv, TypeOK, IngestTypeOK
<1>2. /\ incidents \in Seq(Incident)
      /\ c \in Contents /\ "filtered" \in States /\ m \in Messages
  BY IngestAssumption DEF States, IInv, TypeOK, StoreTypeOK, IngestTypeOK
<1>3. /\ events' = events /\ unaudited' = unaudited /\ pc' = pc /\ pc = "batch"
      /\ OutcomeOf[m] = "malformed"
  BY DEF HandleMalformed
<1>4. /\ DOMAIN incidents \subseteq DOMAIN incidents'
      /\ \A i \in DOMAIN incidents : incidents'[i].ref = incidents[i].ref
  BY <1>1, <1>2, IngestKeeps
<1>5. /\ \A i \in DOMAIN incidents' \ DOMAIN incidents : incidents'[i].ref = r
      /\ \A i \in DOMAIN incidents :
           incidents'[i].count = incidents[i].count \/ incidents[i].ref = r
  <2>1. CASE RowsOf(r) = {}
    BY <1>1, <1>2, <2>1, IngestAppends, IngestCountsOne
  <2>2. CASE RowsOf(r) # {}
    <3>1. DOMAIN incidents' = DOMAIN incidents
      BY <1>1, <1>2, <2>2, IngestAppends
    <3>2. PICK k \in RowsOf(r) :
            \A i \in DOMAIN incidents : i # k => incidents'[i].count = incidents[i].count
      BY <1>1, <1>2, <2>2, IngestCountsOne
    <3> QED
      BY <3>1, <3>2 DEF RowsOf
  <2> QED
    BY <2>1, <2>2
<1>6. BookedHaveRow'
  BY <1>3, <1>4 DEF CountInv, BookedHaveRow, RowsOf
<1>7. ASSUME NEW i \in DOMAIN incidents', FromEvent(i)' PROVE Balanced(i)'
  <2>1. incidents'[i].ref # r
    BY <1>1, <1>2, <1>3, <1>7 DEF FromEvent
  <2>2. i \in DOMAIN incidents /\ incidents'[i].count = incidents[i].count
    BY <1>4, <1>5, <2>1
  <2>3. FromEvent(i) /\ Redeliveries(i)' = Redeliveries(i)
    BY <1>3, <1>4, <1>7, <2>2 DEF FromEvent, Redeliveries
  <2>4. Balanced(i)
    BY <2>2, <2>3, CountedIsBalanced DEF CountInv
  <2> QED
    BY <1>3, <1>4, <2>2, <2>3, <2>4 DEF Balanced, InAudit
<1> QED
  BY <1>6, <1>7 DEF CountInv, CountIsAudited, Balanced, InAudit

(* The audit row takes the redelivery out of audit. *)
LEMMA AuditBooked ==
  ASSUME IInv, CountInv, AuditRedelivery
  PROVE  CountInv'
<1>1. PICK k \in RowsOf(RefOf[current]) : AppendDuplicate(k)
  BY DEF AuditRedelivery
<1>2. /\ incidents' = incidents /\ unaudited' = unaudited /\ pc = "audit" /\ pc' = "batch"
      /\ events \in Seq(Event) /\ k \in Nat \ {0}
      /\ k \in DOMAIN incidents /\ incidents[k].ref = RefOf[current]
  BY DEF AuditRedelivery, IInv, TypeOK, StoreTypeOK, RowsOf
<1>3. BookedHaveRow'
  <2>1. Redelivery(k) \in Event /\ events' = Append(events, Redelivery(k))
    BY <1>1, <1>2 DEF Redelivery, Event, AppendDuplicate
  <2>2. /\ DOMAIN events' = DOMAIN events \cup {Len(events) + 1}
        /\ events'[Len(events) + 1] = Redelivery(k)
        /\ \A j \in DOMAIN events : events'[j] = events[j]
    BY <1>2, <2>1, AppendRow
  <2>3. Redelivery(k).incident = k
    BY DEF Redelivery
  <2> QED
    BY <1>2, <2>2, <2>3 DEF CountInv, BookedHaveRow, RowsOf
<1>4. ASSUME NEW i \in DOMAIN incidents', FromEvent(i)' PROVE Balanced(i)'
  <2>1. i \in DOMAIN incidents /\ FromEvent(i)
    BY <1>2, <1>4 DEF FromEvent
  <2>2. Balanced(i)
    BY <2>1, CountedIsBalanced DEF CountInv
  <2>3. Redeliveries(i)' = IF i = k THEN Redeliveries(i) + 1 ELSE Redeliveries(i)
    BY <1>1, <1>2, RedeliveryCounts
  <2>4. incidents[i].ref = RefOf[current] <=> i = k
    BY <1>2, <2>1 DEF IInv, OneRowPerRef
  <2>5. /\ InAudit(incidents[i].ref) = IF i = k THEN 1 ELSE 0
        /\ InAudit(incidents[i].ref)' = 0
    BY <1>2, <2>4 DEF InAudit
  <2>6. /\ incidents[i].count \in Nat /\ Redeliveries(i) \in Nat
        /\ unaudited[incidents[i].ref] \in Nat
    BY <2>1, BooksTyped
  <2> QED
    BY <1>2, <2>2, <2>3, <2>5, <2>6 DEF Balanced
<1> QED
  BY <1>3, <1>4 DEF CountInv, CountIsAudited, Balanced, InAudit

LEMMA CountStep ==
  ASSUME IInv, IInv', CountInv, [Next]_allVars
  PROVE  CountInv'
<1>1. CASE /\ UNCHANGED <<storeVars, unaudited>>
           /\ (pc # "audit" /\ pc' # "audit") \/ UNCHANGED <<pc, current>>
  <2>1. \A r \in Refs : InAudit(r)' = InAudit(r)
    BY <1>1 DEF InAudit
  <2> QED
    BY <1>1, <2>1, BooksKept
<1>2. CASE AuditFails \/ (Restart /\ pc = "audit")
  <2>1. /\ UNCHANGED storeVars /\ pc = "audit" /\ pc' = "batch"
        /\ unaudited' = [unaudited EXCEPT ![RefOf[current]] = @ + 1]
        /\ RowsOf(RefOf[current]) # {}
        /\ RefOf[current] \in Refs /\ unaudited \in [Refs -> Nat]
    BY <1>2, IngestAssumption
    DEF AuditFails, Restart, CountInv, BookedHaveRow, IInv, TypeOK, IngestTypeOK
  <2>2. \A r \in Refs : unaudited'[r] + InAudit(r)' = unaudited[r] + InAudit(r)
    BY <2>1 DEF InAudit
  <2> QED
    BY <2>1, <2>2, BooksKept
<1>3. \/ \E m \in batch : \E c \in ContentsOf[m] : HandleEvent(m, c)
      \/ \E m \in batch : \E c \in ContentsOf[m] : HandleMalformed(m, c)
      \/ AuditRedelivery
      \/ AuditFails \/ (Restart /\ pc = "audit")
      \/ /\ UNCHANGED <<storeVars, unaudited>>
         /\ (pc # "audit" /\ pc' # "audit") \/ UNCHANGED <<pc, current>>
  BY NextCases DEF Publish, Pull, Idle, Discard, Ack, BatchDone, TouchIngestCursor, PullFails,
                   TouchFails, Restart, WriteFails, AckFails, Lapse, allVars, ingestVars
<1> QED
  BY <1>1, <1>2, <1>3, EventBooked, MalformedBooked, AuditBooked

(* The audit trail of an incident tells how often it was seen: once, once  *)
(* for each audit row of a redelivery, once for each redelivery whose      *)
(* audit was lost to a failure or a restart, and for one now in audit.     *)
THEOREM CountIsKept == Spec => []CountIsAudited
<1>1. Init => CountInv
  <2> SUFFICES ASSUME Init PROVE CountInv
    OBVIOUS
  <2>1. /\ DOMAIN incidents = {} /\ DOMAIN events = {} /\ pc = "batch"
        /\ unaudited = [r \in Refs |-> 0]
    BY DEF Init, IngestInit, StoreInit
  <2> QED
    BY <2>1 DEF CountInv, BookedHaveRow, CountIsAudited
<1>2. IInv /\ IInv' /\ CountInv /\ [Next]_allVars => CountInv'
  BY CountStep
<1>3. CountInv => CountIsAudited
  BY DEF CountInv
<1> QED
  BY <1>1, <1>2, <1>3, Invariant, PTL DEF Spec
=============================================================================
