--------------------------- MODULE Sentinel_proofs ---------------------------
(* Theorems about the pipeline, for any messages, deliveries, workers and  *)
(* number of faults.                                                       *)
EXTENDS Sentinel, Store_proofs

-----------------------------------------------------------------------------
(***************************************************************************)
(* The relay.                                                              *)
(***************************************************************************)
(* What the relay's client has, or a handler is waiting for, is signed.    *)
RelayInv ==
  /\ R!AcceptedIsPublished
  /\ \A m \in handed : DeliveryOf[m] \in Signed
  /\ attempt \in [Messages -> {"none", "publishing", "answered"}]
  /\ \A a \in answers : a.status \in {200, 401, 500}

LEMMA RelayStep ==
  ASSUME RelayInv, [Next]_vars
  PROVE  RelayInv'
<1>1. ASSUME NEW m \in Messages, R!Receive(m) PROVE RelayInv'
  BY <1>1 DEF R!Receive, RelayInv, R!AcceptedIsPublished
<1>2. ASSUME NEW m \in Messages, R!Reject(m) PROVE RelayInv'
  BY <1>2 DEF R!Reject, R!Answer, RelayInv, R!AcceptedIsPublished
<1>3. ASSUME NEW m \in Messages, R!Accept(m) PROVE RelayInv'
  BY <1>3 DEF R!Accept, R!Answer, RelayInv, R!AcceptedIsPublished
<1>4. ASSUME NEW m \in Messages, NEW late \in BOOLEAN, R!PublishFails(m, late) PROVE RelayInv'
  BY <1>4 DEF R!PublishFails, R!Answer, RelayInv, R!AcceptedIsPublished
<1>5. ASSUME NEW m \in Messages, R!Land(m) PROVE RelayInv'
  BY <1>5 DEF R!Land, RelayInv, R!AcceptedIsPublished
<1>6. ASSUME NEW m \in Messages, Sink(m) PROVE RelayInv'
  BY <1>6 DEF Sink, I!Publish, relayVars, RelayInv, R!AcceptedIsPublished
<1>7. CASE UNCHANGED <<published, relayVars>>
  BY <1>7 DEF relayVars, RelayInv, R!AcceptedIsPublished
<1>8. CASE IngestWorking \/ IngestFailing \/ \E S \in SUBSET (published \ acked) : Delivering(S)
  <2>1. UNCHANGED relayVars
    BY <1>8 DEF IngestWorking, IngestFailing, Delivering
  <2>2. published' = published
    BY <1>8 DEF IngestWorking, IngestFailing, Delivering, I!Working, I!HandleEvent,
                I!HandleMalformed, I!Discard, I!AuditRedelivery, I!Ack, I!TouchIngestCursor,
                I!Pull, I!PullFails, I!AuditFails, I!TouchFails, I!WriteFails, I!AckFails,
                I!Lapse, I!queueVars
  <2> QED
    BY <2>1, <2>2, <1>7
<1>9. CASE Restart
  BY <1>9, <1>7 DEF Restart, I!Restart, I!queueVars
<1>10. CASE Ticking \/ \E w \in Workers : Processing(w) \/ ProcessFailing(w)
  BY <1>10, <1>7 DEF Ticking, Processing, ProcessFailing, ingestVars
<1> QED
  BY <1>1, <1>2, <1>3, <1>4, <1>5, <1>6, <1>7, <1>8, <1>9, <1>10
  DEF Next, Relaying, Landing, R!RelayStep, vars, ingestVars

(* What GitHub is told was accepted has reached Pub/Sub, and nothing gets  *)
(* there past the signature check, however late the client's batches are.  *)
THEOREM AcceptedIsInPubSub == Spec => []R!AcceptedIsPublished
<1>1. Init => RelayInv
  BY DEF Init, I!Init, I!IngestInit, R!Init, RelayInv, R!AcceptedIsPublished
<1>2. RelayInv => R!AcceptedIsPublished
  BY DEF RelayInv
<1> QED
  BY <1>1, <1>2, RelayStep, PTL DEF Spec

-----------------------------------------------------------------------------
(***************************************************************************)
(* What a step of the pipeline is to the rows, the audit trail and the     *)
(* announcements.                                                          *)
(***************************************************************************)
Pcs == {"next", "mark", "observe", "decide", "publish"}

(* Rows, moves and announcements stay; workers may go on to another row,   *)
(* but for those about to announce.                                        *)
OnTheWay ==
  /\ UNCHANGED <<sent, eventID>>
  /\ opc' \in [Workers -> Pcs] /\ in' \in [Workers -> Nat]
  /\ pending' \in [Workers -> SUBSET DOMAIN incidents']
  /\ \A w \in Workers : opc'[w] # "next" => in'[w] \in DOMAIN incidents'
  /\ \A w \in Workers : opc'[w] = "publish" <=> opc[w] = "publish"
  /\ \A w \in Workers : opc[w] = "publish" => in'[w] = in[w]

RowsKept ==
  /\ incidents' \in Seq(Incident)
  /\ DOMAIN incidents' = DOMAIN incidents
  /\ \A i \in DOMAIN incidents :
       incidents'[i].ref = incidents[i].ref /\ incidents'[i].state = incidents[i].state

(* The audit trail is appended to.                                         *)
TrailKept ==
  /\ events' \in Seq(Event) /\ DOMAIN events \subseteq DOMAIN events'
  /\ \A k \in DOMAIN events : events'[k] = events[k]

(* What is appended, if anything, is the audit row of a redelivery.        *)
NoMoveAudited ==
  \A k \in DOMAIN events' \ DOMAIN events :
    events'[k].kind = "duplicate" /\ events'[k].incident \in DOMAIN incidents

(* What each loop holds, and that an announcement is in one worker's hands *)
(* only, of a decided row and of its own move.                             *)
PipelineInv ==
  /\ incidents \in Seq(Incident) /\ events \in Seq(Event)
  /\ \A i, j \in DOMAIN incidents : incidents[i].ref = incidents[j].ref => i = j
  /\ batch \subseteq Messages /\ published \subseteq Messages
  /\ opc \in [Workers -> Pcs] /\ in \in [Workers -> Nat]
  /\ pending \in [Workers -> SUBSET DOMAIN incidents]
  /\ eventID \in [Workers -> Nat] /\ sent \in Seq(Nat)
  /\ \A w \in Workers : opc[w] # "next" => in[w] \in DOMAIN incidents
  /\ \A w \in Workers : opc[w] = "publish" =>
       /\ incidents[in[w]].state # "received"
       /\ eventID[w] \in DOMAIN events /\ events[eventID[w]].incident = in[w]
       /\ \A v \in Workers : opc[v] = "publish" /\ in[v] = in[w] => v = w
  /\ \A k \in DOMAIN sent :
       sent[k] \in DOMAIN events /\ events[sent[k]].incident \in DOMAIN incidents

(* A message is stored: a new row, or one more occurrence. *)
Written ==
  /\ UNCHANGED <<events, orchVars>>
  /\ \E r \in Refs, c \in Contents, s \in {"received", "filtered"} : IngestIncident(r, c, s)

LEMMA IngestSteps ==
  ASSUME PipelineInv,
         IngestWorking \/ IngestFailing \/ \E S \in SUBSET (published \ acked) : Delivering(S)
  PROVE  /\ UNCHANGED orchVars
         /\ batch' \subseteq Messages /\ published' \subseteq Messages
         /\ \/ Written
            \/ UNCHANGED <<incidents, events>>
            \/ UNCHANGED incidents /\ \E i \in DOMAIN incidents : AppendDuplicate(i)
<1>1. UNCHANGED orchVars
  BY DEF IngestWorking, IngestFailing, Delivering
<1>2. \/ \E m \in batch : \E c \in ContentsOf[m] : I!HandleEvent(m, c) \/ I!HandleMalformed(m, c)
      \/ \E m \in batch : I!Discard(m) \/ I!WriteFails(m)
      \/ I!AuditRedelivery
      \/ I!Ack \/ I!TouchIngestCursor \/ I!PullFails \/ I!AuditFails \/ I!TouchFails
      \/ \E T \in SUBSET ackIDs : I!AckFails(T)
      \/ \E m \in acked : I!Lapse(m)
      \/ \E S \in SUBSET (published \ acked) : I!Pull(S)
  BY DEF IngestWorking, IngestFailing, Delivering, I!Working
<1> DEFINE Goal == /\ batch' \subseteq Messages /\ published' \subseteq Messages
                   /\ \/ Written
                      \/ UNCHANGED <<incidents, events>>
                      \/ UNCHANGED incidents /\ \E i \in DOMAIN incidents : AppendDuplicate(i)
<1> SUFFICES Goal
  BY <1>1
<1>3. ASSUME NEW m \in batch, NEW c \in ContentsOf[m], NEW s \in {"received", "filtered"},
             I!IngestIncident(RefOf[m], c, s), UNCHANGED events
      PROVE  Written
  <2>1. RefOf[m] \in Refs /\ c \in Contents
    BY <1>3, SentinelAssumption DEF PipelineInv
  <2>2. IngestIncident(RefOf[m], c, s)
    BY <1>3 DEF I!IngestIncident, IngestIncident, I!RowsOf, RowsOf
  <2> QED
    BY <1>1, <1>3, <2>1, <2>2 DEF Written
<1>4. ASSUME NEW m \in batch, NEW c \in ContentsOf[m],
             I!HandleEvent(m, c) \/ I!HandleMalformed(m, c)
      PROVE  Goal
  <2>1. PICK s \in {"received", "filtered"} : I!IngestIncident(RefOf[m], c, s)
    BY <1>4 DEF I!HandleEvent, I!HandleMalformed
  <2>2. UNCHANGED <<events, published>> /\ batch' \subseteq batch
    BY <1>4 DEF I!HandleEvent, I!HandleMalformed, I!queueVars, I!Acknowledge
  <2> QED
    BY <2>1, <2>2, <1>3 DEF PipelineInv
<1>5. CASE I!AuditRedelivery
  <2>1. UNCHANGED <<incidents, published>> /\ batch' \subseteq batch
    BY <1>5 DEF I!AuditRedelivery, I!queueVars, I!Acknowledge
  <2>2. \E i \in DOMAIN incidents : AppendDuplicate(i)
    BY <1>5 DEF I!AuditRedelivery, I!AppendDuplicate, AppendDuplicate, I!RowsOf
  <2> QED
    BY <2>1, <2>2 DEF PipelineInv
<1>6. CASE \E m \in batch : I!Discard(m) \/ I!WriteFails(m)
  BY <1>6 DEF I!Discard, I!WriteFails, I!Acknowledge, I!queueVars, I!storeVars, PipelineInv
<1>7. CASE \E S \in SUBSET (published \ acked) : I!Pull(S)
  BY <1>7 DEF I!Pull, I!queueVars, I!storeVars, PipelineInv
<1>8. CASE I!Ack \/ I!TouchIngestCursor \/ I!PullFails \/ I!AuditFails \/ I!TouchFails
  BY <1>8 DEF I!Ack, I!TouchIngestCursor, I!PullFails, I!AuditFails, I!TouchFails,
              I!queueVars, I!storeVars, PipelineInv
<1>9. ASSUME NEW T \in SUBSET ackIDs, I!AckFails(T) PROVE Goal
  BY <1>9 DEF I!AckFails, I!storeVars, PipelineInv
<1>10. ASSUME NEW m \in acked, I!Lapse(m) PROVE Goal
  BY <1>10 DEF I!Lapse, I!ingestVars, I!storeVars, PipelineInv
<1> QED
  BY <1>2, <1>4, <1>5, <1>6, <1>7, <1>8, <1>9, <1>10

Reports(r, s) ==
  LET new == Len(incidents) + 1 IN
  /\ RowsOf(r) = {}
  /\ incidents' \in Seq(Incident)
  /\ DOMAIN incidents' = DOMAIN incidents \cup {new} /\ new \notin DOMAIN incidents
  /\ incidents'[new].ref = r /\ incidents'[new].state = s
  /\ \A i \in DOMAIN incidents :
       incidents'[i].ref = incidents[i].ref /\ incidents'[i].state = incidents[i].state
  /\ UNCHANGED <<events, orchVars>>

Decides(w, v) ==
  /\ opc[w] = "decide"
  /\ Transition(in[w], "received", v)
  /\ eventID' = [eventID EXCEPT ![w] = Len(events) + 1]
  /\ opc' = [opc EXCEPT ![w] = "publish"]
  /\ UNCHANGED <<pending, in, sent>>

Announces(w) ==
  /\ opc[w] = "publish"
  /\ sent' = Append(sent, eventID[w])
  /\ opc' = [opc EXCEPT ![w] = "next"]
  /\ UNCHANGED <<incidents, events, pending, in, eventID>>

Stops ==
  /\ opc' = [w \in Workers |-> "next"] /\ pending' = [w \in Workers |-> {}]
  /\ UNCHANGED <<incidents, events, in, eventID, sent>>

Effects ==
  \/ RowsKept /\ TrailKept /\ NoMoveAudited /\ OnTheWay
  \/ \E r \in Refs, s \in {"received", "filtered"} : Reports(r, s)
  \/ \E w \in Workers, v \in {"filtered", "suppressed", "triaging"} : Decides(w, v)
  \/ \E w \in Workers : Announces(w)
  \/ Stops

LEMMA NothingHappens ==
  ASSUME PipelineInv, RowsKept, TrailKept, NoMoveAudited, UNCHANGED orchVars
  PROVE  Effects
BY DEF PipelineInv, RowsKept, OnTheWay, orchVars, Effects

LEMMA TrailSame ==
  ASSUME PipelineInv, UNCHANGED <<incidents, events>>
  PROVE  RowsKept /\ TrailKept /\ NoMoveAudited
BY DEF PipelineInv, RowsKept, TrailKept, NoMoveAudited

LEMMA IngestEffects ==
  ASSUME PipelineInv,
         IngestWorking \/ IngestFailing \/ \E S \in SUBSET (published \ acked) : Delivering(S)
  PROVE  Effects
<1>1. UNCHANGED orchVars
  BY IngestSteps
<1>2. CASE UNCHANGED <<incidents, events>>
  BY <1>1, <1>2, TrailSame, NothingHappens
<1>3. ASSUME UNCHANGED incidents, NEW i \in DOMAIN incidents, AppendDuplicate(i)
      PROVE  Effects
  <2>1. i \in Nat \ {0} /\ events \in Seq(Event)
    BY <1>3 DEF PipelineInv
  <2>2. PICK e \in Event :
          events' = Append(events, e) /\ e.kind = "duplicate" /\ e.incident = i
    <3>1. [incident |-> i, kind |-> "duplicate", from |-> "", to |-> ""] \in Event
      BY <2>1 DEF Event
    <3> QED
      BY <1>3, <3>1 DEF AppendDuplicate
  <2>3. TrailKept /\ NoMoveAudited
    BY <1>3, <2>1, <2>2, AppendRow DEF TrailKept, NoMoveAudited
  <2>4. RowsKept
    BY <1>3 DEF PipelineInv, RowsKept
  <2> QED
    BY <1>1, <2>3, <2>4, NothingHappens
<1>4. CASE Written
  <2>1. PICK r \in Refs, c \in Contents, s \in {"received", "filtered"} : IngestIncident(r, c, s)
    BY <1>4 DEF Written
  <2>2. incidents \in Seq(Incident) /\ s \in States
    BY DEF PipelineInv, States
  <2>3. UNCHANGED <<events, orchVars>>
    BY <1>4 DEF Written
  <2>4. /\ incidents' \in Seq(Incident)
        /\ \A i \in DOMAIN incidents :
             incidents'[i].ref = incidents[i].ref /\ incidents'[i].state = incidents[i].state
    BY <2>1, <2>2, IngestKeeps
  <2>5. CASE RowsOf(r) = {}
    <3>1. Reports(r, s)
      BY <2>1, <2>2, <2>3, <2>4, <2>5, IngestAppends DEF Reports
    <3> QED
      BY <3>1 DEF Effects
  <2>6. CASE RowsOf(r) # {}
    <3>1. RowsKept
      BY <2>1, <2>2, <2>4, <2>6, IngestAppends DEF RowsKept
    <3>2. TrailKept /\ NoMoveAudited
      BY <2>3 DEF TrailKept, NoMoveAudited, PipelineInv
    <3> QED
      BY <2>3, <3>1, <3>2, NothingHappens
  <2> QED
    BY <2>5, <2>6
<1> QED
  BY <1>2, <1>3, <1>4, IngestSteps

LEMMA ProcessEffects ==
  ASSUME PipelineInv, NEW w \in Workers, Processing(w) \/ ProcessFailing(w)
  PROVE  Effects
<1> USE DEF O!allVars, O!storeVars, O!workerVars
<1>1. CASE O!List(w)
  <2>1. OnTheWay
    BY <1>1 DEF O!List, O!Oldest, O!Received, OnTheWay, PipelineInv, Pcs
  <2> QED
    BY <1>1, <2>1, TrailSame DEF O!List, Effects
<1>2. ASSUME NEW q \in Quarantine, O!Begin(w, q) PROVE Effects
  <2>1. PICK i \in pending[w] :
          in' = [in EXCEPT ![w] = i] /\ pending' = [pending EXCEPT ![w] = @ \ {i}]
    BY <1>2 DEF O!Begin
  <2>2. /\ opc[w] = "next" /\ opc' = [opc EXCEPT ![w] = "mark"]
        /\ UNCHANGED <<incidents, events, eventID, sent>>
    BY <1>2 DEF O!Begin
  <2>3. i \in DOMAIN incidents /\ i \in Nat
    BY DEF PipelineInv
  <2>4. OnTheWay
    BY <2>1, <2>2, <2>3 DEF OnTheWay, PipelineInv, Pcs
  <2> QED
    BY <2>2, <2>4, TrailSame DEF Effects
<1>3. CASE O!Mark(w)
  <2>1. in[w] \in DOMAIN incidents /\ incidents \in Seq(Incident)
    BY <1>3 DEF O!Mark, PipelineInv
  <2>2. FpOf[incidents[in[w]].content] \in Fps
    <3>1. incidents[in[w]] \in Incident
      BY <2>1
    <3> QED
      BY <3>1, SentinelAssumption DEF Incident
  <2>3. MarkFingerprint(in[w], FpOf[incidents[in[w]].content])
    BY <1>3 DEF O!Mark, O!MarkFingerprint, MarkFingerprint, O!FpIn
  <2>4. RowsKept
    BY <2>1, <2>2, <2>3, MarkKeeps DEF RowsKept
  <2>5. OnTheWay /\ TrailKept /\ NoMoveAudited
    BY <1>3, <2>4 DEF O!Mark, OnTheWay, TrailKept, NoMoveAudited, PipelineInv, RowsKept, Pcs
  <2> QED
    BY <2>4, <2>5 DEF Effects
<1>4. CASE O!Observe(w) \/ O!DecideStale(w) \/ O!StoreCallFails(w)
  <2>1. UNCHANGED <<incidents, events>>
    BY <1>4 DEF O!Observe, O!DecideStale, O!StoreCallFails
  <2>2. /\ UNCHANGED <<sent, eventID, in, pending>> /\ opc[w] \notin {"next", "publish"}
        /\ opc' \in {[opc EXCEPT ![w] = "decide"], [opc EXCEPT ![w] = "next"]}
    BY <1>4 DEF O!Observe, O!DecideStale, O!StoreCallFails
  <2>3. /\ opc' \in [Workers -> Pcs] /\ \A v \in Workers : v # w => opc'[v] = opc[v]
        /\ opc[w] # "next" /\ opc[w] # "publish" /\ opc'[w] # "publish"
    <3>1. opc \in [Workers -> Pcs] /\ {"decide", "next"} \subseteq Pcs
      BY DEF PipelineInv, Pcs
    <3> QED
      BY <2>2, <3>1
  <2>4. OnTheWay
    BY <2>1, <2>2, <2>3 DEF OnTheWay, PipelineInv
  <2> QED
    BY <2>1, <2>4, TrailSame DEF Effects
<1>5. CASE O!Decide(w)
  <2>1. PICK v \in {"filtered", "suppressed", "triaging"} : v = O!Verdict(w)
    BY DEF O!Verdict
  <2>2. Decides(w, v)
    BY <1>5, <2>1 DEF O!Decide, O!Transition, O!Matches, Transition, Matches, O!NextEventID, Decides
  <2> QED
    BY <2>2 DEF Effects
<1>6. CASE O!Publish(w)
  BY <1>6 DEF O!Publish, Announces, Effects
<1> QED
  BY <1>1, <1>2, <1>3, <1>4, <1>5, <1>6 DEF Processing, ProcessFailing, O!Step, O!Conclude

LEMMA PipelineEffects ==
  ASSUME PipelineInv, [Next]_vars
  PROVE  Effects /\ batch' \subseteq Messages /\ published' \subseteq Messages
<1>1. CASE IngestWorking \/ IngestFailing \/ \E S \in SUBSET (published \ acked) : Delivering(S)
  BY <1>1, IngestSteps, IngestEffects
<1>2. CASE \E w \in Workers : Processing(w) \/ ProcessFailing(w)
  BY <1>2, ProcessEffects DEF Processing, ProcessFailing, ingestVars, PipelineInv
<1>3. CASE Restart
  BY <1>3 DEF Restart, I!Restart, O!Restart, O!storeVars, I!queueVars, PipelineInv, Stops, Effects
<1>4. CASE (\E m \in Messages : Relaying(m) \/ Landing(m) \/ Sink(m)) \/ Ticking \/ UNCHANGED vars
  <2>1. batch' \subseteq Messages /\ published' \subseteq Messages
    BY <1>4 DEF Relaying, Landing, Sink, Ticking, I!Publish, I!ingestVars, ingestVars, vars,
                PipelineInv
  <2>2. UNCHANGED <<incidents, events, pending, in, opc, eventID, sent>>
    BY <1>4 DEF Relaying, Landing, Sink, Ticking, I!Publish, O!Tick, I!storeVars, O!storeVars,
                O!workerVars, storeVars, orchVars, vars
  <2>3. OnTheWay
    BY <2>2 DEF OnTheWay, PipelineInv
  <2> QED
    BY <2>1, <2>2, <2>3, TrailSame DEF Effects
<1> QED
  BY <1>1, <1>2, <1>3, <1>4 DEF Next

-----------------------------------------------------------------------------
(***************************************************************************)
(* The invariant.                                                          *)
(***************************************************************************)
LEMMA PipelineInit == Init => PipelineInv
<1> SUFFICES ASSUME Init PROVE PipelineInv
  OBVIOUS
<1>1. incidents = <<>> /\ events = <<>> /\ sent = <<>> /\ batch = {} /\ published = {}
  BY DEF Init, I!Init, I!StoreInit, I!IngestInit, O!OrchestratorInit
<1>2. /\ opc = [w \in Workers |-> "next"] /\ in = [w \in Workers |-> 0]
      /\ pending = [w \in Workers |-> {}] /\ eventID = [w \in Workers |-> 0]
  BY DEF Init, O!OrchestratorInit
<1> QED
  BY <1>1, <1>2 DEF PipelineInv, Pcs

LEMMA DecidesFacts ==
  ASSUME PipelineInv, NEW w \in Workers, NEW v \in {"filtered", "suppressed", "triaging"},
         Decides(w, v)
  PROVE  /\ in[w] \in DOMAIN incidents /\ incidents[in[w]].state = "received"
         /\ incidents' \in Seq(Incident) /\ DOMAIN incidents' = DOMAIN incidents
         /\ incidents'[in[w]].state = v
         /\ \A i \in DOMAIN incidents : incidents'[i].ref = incidents[i].ref
         /\ \A i \in DOMAIN incidents : i # in[w] => incidents'[i].state = incidents[i].state
         /\ TrailKept
         /\ eventID'[w] \in DOMAIN events' /\ eventID'[w] \in Nat
         /\ events'[eventID'[w]].incident = in[w]
         /\ \A u \in Workers : u # w => eventID'[u] = eventID[u]
<1>1. PICK i \in Nat \ {0} : i = in[w] /\ i \in DOMAIN incidents
  <2>1. in[w] \in DOMAIN incidents
    BY DEF Decides, PipelineInv
  <2>2. incidents \in Seq(Incident)
    BY DEF PipelineInv
  <2>3. in[w] \in Nat \ {0}
    BY <2>1, <2>2
  <2> QED
    BY <2>1, <2>3
<1>2. PICK new : new = Len(events) + 1
  OBVIOUS
<1>3. /\ Transition(i, "received", v) /\ "received" \in States /\ v \in States
      /\ incidents \in Seq(Incident) /\ events \in Seq(Event)
  BY <1>1 DEF Decides, PipelineInv, States
<1>4. /\ incidents' \in Seq(Incident) /\ DOMAIN incidents' = DOMAIN incidents
      /\ incidents[i].state = "received" /\ incidents'[i].state = v
      /\ \A j \in DOMAIN incidents : incidents'[j].ref = incidents[j].ref
      /\ \A j \in DOMAIN incidents : j # i => incidents'[j].state = incidents[j].state
  BY <1>1, <1>3, TransitionMoves
<1>5. /\ events' \in Seq(Event) /\ Len(events) \in Nat
      /\ DOMAIN events' = DOMAIN events \cup {Len(events) + 1}
      /\ \A k \in DOMAIN events : events'[k] = events[k]
      /\ events'[Len(events) + 1] = [incident |-> i, kind |-> "state_change",
                                     from |-> "received", to |-> v]
  BY <1>1, <1>3, TransitionAudits
<1>7. /\ new \in Nat /\ DOMAIN events' = DOMAIN events \cup {new}
      /\ events'[new].incident = i
  BY <1>2, <1>5
<1>6. eventID'[w] = new /\ \A u \in Workers : u # w => eventID'[u] = eventID[u]
  BY <1>2 DEF Decides, PipelineInv
<1> QED
  BY <1>1, <1>4, <1>5, <1>6, <1>7 DEF TrailKept

LEMMA PipelineStep ==
  ASSUME PipelineInv, [Next]_vars
  PROVE  PipelineInv'
<1>0. Effects /\ batch' \subseteq Messages /\ published' \subseteq Messages
  BY PipelineEffects
<1>1. CASE RowsKept /\ TrailKept /\ OnTheWay
  <2>1. \A i, j \in DOMAIN incidents' : incidents'[i].ref = incidents'[j].ref => i = j
    BY <1>1 DEF RowsKept, PipelineInv
  <2>2. ASSUME NEW w \in Workers, opc'[w] = "publish"
        PROVE  /\ incidents'[in'[w]].state # "received"
               /\ eventID'[w] \in DOMAIN events' /\ events'[eventID'[w]].incident = in'[w]
               /\ \A v \in Workers : opc'[v] = "publish" /\ in'[v] = in'[w] => v = w
    <3>1. /\ opc[w] = "publish" /\ in'[w] = in[w] /\ eventID'[w] = eventID[w]
          /\ \A v \in Workers : opc'[v] = "publish" => opc[v] = "publish" /\ in'[v] = in[v]
      BY <1>1, <2>2 DEF OnTheWay
    <3>2. /\ in[w] \in DOMAIN incidents /\ incidents[in[w]].state # "received"
          /\ eventID[w] \in DOMAIN events /\ events[eventID[w]].incident = in[w]
          /\ \A v \in Workers : opc[v] = "publish" /\ in[v] = in[w] => v = w
      BY <3>1 DEF PipelineInv
    <3> QED
      BY <1>1, <3>1, <3>2 DEF RowsKept, TrailKept
  <2>3. \A k \in DOMAIN sent' :
          sent'[k] \in DOMAIN events' /\ events'[sent'[k]].incident \in DOMAIN incidents'
    BY <1>1 DEF RowsKept, TrailKept, OnTheWay, PipelineInv
  <2>4. /\ incidents' \in Seq(Incident) /\ events' \in Seq(Event)
        /\ opc' \in [Workers -> Pcs] /\ in' \in [Workers -> Nat]
        /\ pending' \in [Workers -> SUBSET DOMAIN incidents']
        /\ eventID' \in [Workers -> Nat] /\ sent' \in Seq(Nat)
        /\ \A w \in Workers : opc'[w] # "next" => in'[w] \in DOMAIN incidents'
    BY <1>1 DEF RowsKept, TrailKept, OnTheWay, PipelineInv
  <2> QED
    BY <1>0, <2>1, <2>2, <2>3, <2>4 DEF PipelineInv
<1>2. ASSUME NEW r \in Refs, NEW s \in {"received", "filtered"}, Reports(r, s)
      PROVE  PipelineInv'
  <2>1. \A i \in DOMAIN incidents : incidents'[i].ref # r
    BY <1>2 DEF Reports, RowsOf
  <2>2. \A i, j \in DOMAIN incidents' : incidents'[i].ref = incidents'[j].ref => i = j
    BY <1>2, <2>1 DEF Reports, PipelineInv
  <2>3. UNCHANGED <<events, opc, pending, in, eventID, sent>>
    BY <1>2 DEF Reports, orchVars
  <2>4. \A w \in Workers : opc[w] = "publish" => incidents'[in[w]].state # "received"
    BY <1>2 DEF Reports, PipelineInv
  <2>5. incidents' \in Seq(Incident) /\ DOMAIN incidents \subseteq DOMAIN incidents'
    BY <1>2 DEF Reports
  <2> QED
    BY <1>0, <2>2, <2>3, <2>4, <2>5 DEF PipelineInv
<1>3. ASSUME NEW w \in Workers, NEW v \in {"filtered", "suppressed", "triaging"}, Decides(w, v)
      PROVE  PipelineInv'
  <2>0. /\ in[w] \in DOMAIN incidents /\ incidents[in[w]].state = "received"
        /\ incidents' \in Seq(Incident) /\ DOMAIN incidents' = DOMAIN incidents
        /\ incidents'[in[w]].state = v
        /\ \A i \in DOMAIN incidents : incidents'[i].ref = incidents[i].ref
        /\ \A i \in DOMAIN incidents : i # in[w] => incidents'[i].state = incidents[i].state
        /\ events' \in Seq(Event) /\ DOMAIN events \subseteq DOMAIN events'
        /\ \A k \in DOMAIN events : events'[k] = events[k]
        /\ eventID'[w] \in DOMAIN events' /\ eventID'[w] \in Nat
        /\ events'[eventID'[w]].incident = in[w]
        /\ \A u \in Workers : u # w => eventID'[u] = eventID[u]
    BY <1>3, DecidesFacts DEF TrailKept
  <2>1. /\ UNCHANGED <<pending, in, sent>> /\ opc' = [opc EXCEPT ![w] = "publish"]
        /\ opc[w] = "decide" /\ DOMAIN eventID' = DOMAIN eventID
        /\ eventID' = [eventID EXCEPT ![w] = Len(events) + 1]
    BY <1>3 DEF Decides
  <2>2. eventID' \in [Workers -> Nat] /\ opc' \in [Workers -> Pcs]
    BY <2>0, <2>1 DEF PipelineInv, Pcs
  <2>3. \A u \in Workers : opc'[u] = "publish" <=> opc[u] = "publish" \/ u = w
    BY <2>1 DEF PipelineInv
  <2>4. ASSUME NEW u \in Workers, opc[u] = "publish"
        PROVE  /\ u # w /\ in[u] # in[w] /\ incidents'[in[u]].state # "received"
               /\ eventID'[u] \in DOMAIN events' /\ events'[eventID'[u]].incident = in[u]
               /\ \A x \in Workers : opc[x] = "publish" /\ in[x] = in[u] => x = u
    <3>1. /\ in[u] \in DOMAIN incidents /\ incidents[in[u]].state # "received"
          /\ eventID[u] \in DOMAIN events /\ events[eventID[u]].incident = in[u]
          /\ \A x \in Workers : opc[x] = "publish" /\ in[x] = in[u] => x = u
      BY <2>4 DEF PipelineInv
    <3> QED
      BY <2>0, <2>1, <2>4, <3>1
  <2>5. ASSUME NEW u \in Workers, opc'[u] = "publish"
        PROVE  /\ incidents'[in[u]].state # "received"
               /\ eventID'[u] \in DOMAIN events' /\ events'[eventID'[u]].incident = in[u]
               /\ \A x \in Workers : opc'[x] = "publish" /\ in[x] = in[u] => x = u
    BY <2>0, <2>3, <2>4, <2>5
  <2>6. \A k \in DOMAIN sent :
          sent[k] \in DOMAIN events' /\ events'[sent[k]].incident \in DOMAIN incidents'
    BY <2>0 DEF PipelineInv
  <2>7. \A i, j \in DOMAIN incidents' : incidents'[i].ref = incidents'[j].ref => i = j
    BY <2>0 DEF PipelineInv
  <2>8. \A u \in Workers : opc'[u] # "next" => in[u] \in DOMAIN incidents'
    BY <2>0, <2>1 DEF PipelineInv
  <2> QED
    BY <1>0, <2>0, <2>1, <2>2, <2>5, <2>6, <2>7, <2>8 DEF PipelineInv
<1>4. ASSUME NEW w \in Workers, Announces(w) PROVE PipelineInv'
  <2>1. PICK e \in Nat : e = eventID[w]
    BY DEF PipelineInv
  <2>2. sent \in Seq(Nat) /\ sent' = Append(sent, e)
    BY <1>4, <2>1 DEF Announces, PipelineInv
  <2>3. /\ sent' \in Seq(Nat) /\ DOMAIN sent' = DOMAIN sent \cup {Len(sent) + 1}
        /\ sent'[Len(sent) + 1] = e /\ \A k \in DOMAIN sent : sent'[k] = sent[k]
    BY <2>1, <2>2, AppendRow
  <2>4. e \in DOMAIN events /\ events[e].incident \in DOMAIN incidents
    BY <1>4, <2>1 DEF Announces, PipelineInv
  <2>5. \A k \in DOMAIN sent' :
          sent'[k] \in DOMAIN events /\ events[sent'[k]].incident \in DOMAIN incidents
    BY <2>3, <2>4 DEF PipelineInv
  <2> QED
    BY <1>0, <1>4, <2>3, <2>5 DEF Announces, PipelineInv, Pcs
<1>5. CASE Stops
  BY <1>0, <1>5 DEF Stops, PipelineInv, Pcs
<1> QED
  BY <1>0, <1>1, <1>2, <1>3, <1>4, <1>5 DEF Effects

-----------------------------------------------------------------------------
(***************************************************************************)
(* The audit trail.                                                        *)
(***************************************************************************)
PipelineAudit == AuditTellsTheMove /\ O!EventsHaveIncidents

(* What AuditTellsTheMove says of one incident.                            *)
Told(i) ==
  /\ \A k, l \in O!Moves(i) : k = l
  /\ \A k \in O!Moves(i) : events[k].from = "received" /\ events[k].to = incidents[i].state
  /\ incidents[i].state = "received" => O!Moves(i) = {}
  /\ incidents[i].state \in {"triaging", "suppressed"} => O!Moves(i) # {}

LEMMA AuditIsTold == AuditTellsTheMove <=> \A i \in DOMAIN incidents : Told(i)
  BY DEF AuditTellsTheMove, O!AuditTellsTheMove, Told

(* An incident whose state and moves stay is told as it was.               *)
LEMMA ToldKept ==
  ASSUME NEW i \in DOMAIN incidents, Told(i), incidents'[i].state = incidents[i].state,
         O!Moves(i)' = O!Moves(i), \A k \in DOMAIN events : events'[k] = events[k]
  PROVE  Told(i)'
<1>1. \A k \in O!Moves(i) : events'[k] = events[k]
  BY DEF O!Moves
<1> QED
  BY <1>1 DEF Told

LEMMA AuditKept ==
  ASSUME PipelineAudit, DOMAIN incidents' = DOMAIN incidents, TrailKept, NoMoveAudited,
         \A i \in DOMAIN incidents : incidents'[i].state = incidents[i].state
  PROVE  PipelineAudit'
<1>1. O!EventsHaveIncidents'
  BY DEF PipelineAudit, O!EventsHaveIncidents, TrailKept, NoMoveAudited
<1>2. ASSUME NEW i \in DOMAIN incidents PROVE Told(i)'
  <2>1. O!Moves(i)' = O!Moves(i)
    BY DEF O!Moves, TrailKept, NoMoveAudited
  <2>2. Told(i)
    BY AuditIsTold DEF PipelineAudit
  <2> QED
    BY <2>1, <2>2, ToldKept DEF TrailKept
<1>3. AuditTellsTheMove'
  BY <1>2 DEF AuditTellsTheMove, O!AuditTellsTheMove, Told
<1> QED
  BY <1>1, <1>3 DEF PipelineAudit

(* One row is appended, and it tells the move of i to v.                   *)
Audited(new, i, v) ==
  /\ DOMAIN events' = DOMAIN events \cup {new} /\ new \notin DOMAIN events
  /\ \A k \in DOMAIN events : events'[k] = events[k]
  /\ events'[new].incident = i /\ events'[new].kind = "state_change"
  /\ events'[new].from = "received" /\ events'[new].to = v

LEMMA DecidesAudits ==
  ASSUME PipelineInv, NEW w \in Workers, NEW v \in {"filtered", "suppressed", "triaging"},
         Decides(w, v)
  PROVE  \E new \in Nat : Audited(new, in[w], v)
<1>1. PICK i \in Nat \ {0} : i = in[w]
  <2>1. in[w] \in DOMAIN incidents /\ incidents \in Seq(Incident)
    BY DEF Decides, PipelineInv
  <2> QED
    BY <2>1
<1>2. /\ Transition(i, "received", v) /\ "received" \in States /\ v \in States
      /\ events \in Seq(Event)
  BY <1>1 DEF Decides, PipelineInv, States
<1>3. PICK new : new = Len(events) + 1
  OBVIOUS
<1>4. /\ Len(events) \in Nat
      /\ DOMAIN events' = DOMAIN events \cup {Len(events) + 1}
      /\ Len(events) + 1 \notin DOMAIN events
      /\ \A k \in DOMAIN events : events'[k] = events[k]
      /\ events'[Len(events) + 1] = [incident |-> i, kind |-> "state_change",
                                     from |-> "received", to |-> v]
  BY <1>1, <1>2, TransitionAudits
<1>5. /\ new \in Nat /\ DOMAIN events' = DOMAIN events \cup {new} /\ new \notin DOMAIN events
      /\ \A k \in DOMAIN events : events'[k] = events[k]
      /\ events'[new] = [incident |-> i, kind |-> "state_change",
                         from |-> "received", to |-> v]
  BY <1>3, <1>4
<1>6. Audited(new, i, v)
  BY <1>5 DEF Audited
<1> QED
  BY <1>1, <1>5, <1>6

LEMMA PipelineAuditStep ==
  ASSUME PipelineInv, PipelineAudit, [Next]_vars
  PROVE  PipelineAudit'
<1>1. CASE RowsKept /\ TrailKept /\ NoMoveAudited
  BY <1>1, AuditKept DEF RowsKept
<1>2. ASSUME NEW r \in Refs, NEW s \in {"received", "filtered"}, Reports(r, s)
      PROVE  PipelineAudit'
  <2>1. PICK new : new = Len(incidents) + 1
    OBVIOUS
  <2>2. /\ DOMAIN incidents' = DOMAIN incidents \cup {new} /\ new \notin DOMAIN incidents
        /\ incidents'[new].state = s
        /\ \A i \in DOMAIN incidents : incidents'[i].state = incidents[i].state
        /\ events' = events
    BY <1>2, <2>1 DEF Reports
  <2>3. O!EventsHaveIncidents'
    BY <2>2 DEF PipelineAudit, O!EventsHaveIncidents
  <2>4. ASSUME NEW i \in DOMAIN incidents PROVE Told(i)'
    <3>1. O!Moves(i)' = O!Moves(i)
      BY <2>2 DEF O!Moves
    <3>2. Told(i)
      BY AuditIsTold DEF PipelineAudit
    <3> QED
      BY <2>2, <3>1, <3>2, ToldKept
  <2>5. Told(new)'
    <3>1. O!Moves(new)' = {}
      BY <2>2 DEF O!Moves, PipelineAudit, O!EventsHaveIncidents
    <3> QED
      BY <2>2, <3>1 DEF Told
  <2>6. AuditTellsTheMove'
    BY <2>2, <2>4, <2>5 DEF AuditTellsTheMove, O!AuditTellsTheMove, Told
  <2> QED
    BY <2>3, <2>6 DEF PipelineAudit
<1>3. ASSUME NEW w \in Workers, NEW v \in {"filtered", "suppressed", "triaging"}, Decides(w, v)
      PROVE  PipelineAudit'
  <2>1. PICK i \in DOMAIN incidents : i = in[w]
    BY <1>3, DecidesFacts
  <2>0. PICK new \in Nat : Audited(new, in[w], v)
    BY <1>3, DecidesAudits
  <2>2. Audited(new, i, v)
    BY <2>1, <2>0
  <2>3. /\ incidents[i].state = "received" /\ incidents'[i].state = v
        /\ DOMAIN incidents' = DOMAIN incidents
        /\ \A j \in DOMAIN incidents : j # i => incidents'[j].state = incidents[j].state
    BY <1>3, <2>1, DecidesFacts
  <2>4. O!EventsHaveIncidents'
    BY <2>2, <2>3 DEF Audited, PipelineAudit, O!EventsHaveIncidents
  <2>5. Told(i)'
    <3>1. O!Moves(i) = {}
      BY <2>3, AuditIsTold DEF PipelineAudit, Told
    <3>2. O!Moves(i)' = {new}
      BY <2>2, <3>1 DEF Audited, O!Moves
    <3> QED
      BY <2>2, <2>3, <3>2 DEF Audited, Told
  <2>6. ASSUME NEW j \in DOMAIN incidents, j # i PROVE Told(j)'
    <3>1. O!Moves(j)' = O!Moves(j)
      BY <2>2, <2>6 DEF Audited, O!Moves
    <3>2. Told(j)
      BY AuditIsTold DEF PipelineAudit
    <3> QED
      BY <2>2, <2>3, <2>6, <3>1, <3>2, ToldKept DEF Audited
  <2>7. AuditTellsTheMove'
    BY <2>3, <2>5, <2>6 DEF AuditTellsTheMove, O!AuditTellsTheMove, Told
  <2> QED
    BY <2>4, <2>7 DEF PipelineAudit
<1>4. CASE UNCHANGED <<incidents, events>>
  BY <1>1, <1>4, TrailSame
<1> QED
  BY <1>1, <1>2, <1>3, <1>4, PipelineEffects DEF Effects, Announces, Stops

(* Whatever Pub/Sub delivers again, fails or restarts, and however many    *)
(* process loops race for an incident, it is moved once and the audit      *)
(* trail tells that move and no other.                                     *)
THEOREM AuditIsTruthfulInSentinel == Spec => []AuditTellsTheMove
<1>1. Init => PipelineAudit
  <2> SUFFICES ASSUME Init PROVE PipelineAudit
    OBVIOUS
  <2>1. DOMAIN incidents = {} /\ DOMAIN events = {}
    BY DEF Init, I!Init, I!StoreInit
  <2> QED
    BY <2>1 DEF PipelineAudit, AuditTellsTheMove, O!AuditTellsTheMove, O!EventsHaveIncidents
<1>2. PipelineAudit => AuditTellsTheMove
  BY DEF PipelineAudit
<1> QED
  BY <1>1, <1>2, PipelineInit, PipelineStep, PipelineAuditStep, PTL DEF Spec

-----------------------------------------------------------------------------
(***************************************************************************)
(* The refinement.                                                         *)
(***************************************************************************)

(* Stage, as a function of the rows. *)
RowsIn(rows, r)  == {i \in DOMAIN rows : rows[i].ref = r}
StageIn(rows, r) ==
  IF RowsIn(rows, r) = {} THEN "unknown"
  ELSE rows[CHOOSE i \in RowsIn(rows, r) : TRUE].state

StageBar == [r \in Refs |-> Stage(r)]
NewsBar  == {incidents[in[w]].ref : w \in {v \in Workers : opc[v] = "publish"}}
ToldBar  == {incidents[events[sent[k]].incident].ref : k \in DOMAIN sent}

LEMMA StageBarIs ==
  /\ StageBar = [r \in Refs |-> StageIn(incidents, r)]
  /\ StageBar' = [r \in Refs |-> StageIn(incidents', r)]
BY DEF StageBar, Stage, StageIn, RowsIn, RowsOf

LEMMA StageOfRow ==
  ASSUME NEW rows, NEW i \in DOMAIN rows,
         \A j \in DOMAIN rows : rows[j].ref = rows[i].ref => j = i
  PROVE  StageIn(rows, rows[i].ref) = rows[i].state
<1>1. RowsIn(rows, rows[i].ref) = {i}
  BY DEF RowsIn
<1>2. (CHOOSE j \in {i} : TRUE) = i
  OBVIOUS
<1> QED
  BY <1>1, <1>2 DEF StageIn

(* A ref stands where it stood if its rows do.                              *)
LEMMA StageKept ==
  ASSUME NEW rows, NEW rows2, NEW r, RowsIn(rows2, r) = RowsIn(rows, r),
         \A i \in RowsIn(rows, r) : rows2[i].state = rows[i].state
  PROVE  StageIn(rows2, r) = StageIn(rows, r)
<1>1. RowsIn(rows, r) # {} =>
        (CHOOSE i \in RowsIn(rows, r) : TRUE) \in RowsIn(rows, r)
  OBVIOUS
<1> QED
  BY <1>1 DEF StageIn

LEMMA RefinementInit ==
  ASSUME Init
  PROVE  StageBar = [r \in Refs |-> "unknown"] /\ NewsBar = {} /\ ToldBar = {}
<1>1. incidents = <<>> /\ sent = <<>> /\ opc = [w \in Workers |-> "next"]
  BY DEF Init, I!Init, I!StoreInit, O!OrchestratorInit
<1> QED
  BY <1>1 DEF StageBar, Stage, RowsOf, NewsBar, ToldBar

(* Where rows, their states and what is to be announced stay, nothing      *)
(* happens to Lifecycle.                                                   *)
LEMMA StageStutters ==
  ASSUME RowsKept
  PROVE  StageBar' = StageBar
<1>1. ASSUME NEW r \in Refs PROVE StageIn(incidents', r) = StageIn(incidents, r)
  BY StageKept DEF RowsKept, RowsIn
<1> QED
  BY <1>1, StageBarIs

LEMMA ToldStutters ==
  ASSUME PipelineInv, sent' = sent, \A k \in DOMAIN events : events'[k] = events[k],
         \A i \in DOMAIN incidents : incidents'[i].ref = incidents[i].ref
  PROVE  ToldBar' = ToldBar
<1>1. \A k \in DOMAIN sent :
        incidents'[events'[sent[k]].incident].ref = incidents[events[sent[k]].incident].ref
  BY DEF PipelineInv
<1> QED
  BY <1>1 DEF ToldBar

LEMMA OnTheWayStutters ==
  ASSUME PipelineInv, RowsKept, TrailKept, OnTheWay
  PROVE  StageBar' = StageBar /\ NewsBar' = NewsBar /\ ToldBar' = ToldBar
<1>1. {v \in Workers : opc'[v] = "publish"} = {v \in Workers : opc[v] = "publish"}
  BY DEF OnTheWay
<1>2. \A v \in Workers : opc[v] = "publish" => incidents'[in'[v]].ref = incidents[in[v]].ref
  BY DEF OnTheWay, RowsKept, PipelineInv
<1>3. NewsBar' = NewsBar
  BY <1>1, <1>2 DEF NewsBar
<1> QED
  BY <1>3, StageStutters, ToldStutters DEF RowsKept, TrailKept, OnTheWay

LEMMA ReportsReports ==
  ASSUME PipelineInv, NEW r \in Refs, NEW s \in {"received", "filtered"}, Reports(r, s)
  PROVE  /\ StageBar[r] = "unknown" /\ StageBar' = [StageBar EXCEPT ![r] = s]
         /\ NewsBar' = NewsBar /\ ToldBar' = ToldBar
<1>1. PICK new : new = Len(incidents) + 1
  OBVIOUS
<1>2. /\ RowsIn(incidents, r) = {}
      /\ DOMAIN incidents' = DOMAIN incidents \cup {new} /\ new \notin DOMAIN incidents
      /\ incidents'[new].ref = r /\ incidents'[new].state = s
      /\ \A i \in DOMAIN incidents :
           incidents'[i].ref = incidents[i].ref /\ incidents'[i].state = incidents[i].state
      /\ UNCHANGED <<events, orchVars>>
  BY <1>1 DEF Reports, RowsOf, RowsIn
<1>3. StageIn(incidents, r) = "unknown"
  BY <1>2 DEF StageIn
<1>4. StageIn(incidents', r) = s
  <2>1. \A j \in DOMAIN incidents' : incidents'[j].ref = r => j = new
    BY <1>2 DEF RowsIn
  <2> QED
    BY <1>2, <2>1, StageOfRow
<1>5. ASSUME NEW q \in Refs, q # r PROVE StageIn(incidents', q) = StageIn(incidents, q)
  <2>1. RowsIn(incidents', q) = RowsIn(incidents, q)
    BY <1>2, <1>5 DEF RowsIn
  <2>2. \A i \in RowsIn(incidents, q) : incidents'[i].state = incidents[i].state
    BY <1>2 DEF RowsIn
  <2> QED
    BY <2>1, <2>2, StageKept
<1>6. NewsBar' = NewsBar
  <2>1. opc' = opc /\ in' = in
    BY <1>2 DEF orchVars
  <2>2. \A v \in Workers : opc[v] = "publish" => incidents'[in[v]].ref = incidents[in[v]].ref
    BY <1>2 DEF PipelineInv
  <2> QED
    BY <2>1, <2>2 DEF NewsBar
<1>7. ToldBar' = ToldBar
  BY <1>2, ToldStutters DEF orchVars
<1> QED
  BY <1>3, <1>4, <1>5, <1>6, <1>7, StageBarIs

LEMMA DecidesDecides ==
  ASSUME PipelineInv, NEW w \in Workers, NEW v \in {"filtered", "suppressed", "triaging"},
         Decides(w, v)
  PROVE  \E r \in Refs :
           /\ StageBar[r] = "received" /\ StageBar' = [StageBar EXCEPT ![r] = v]
           /\ NewsBar' = NewsBar \cup {r} /\ ToldBar' = ToldBar
<1>1. PICK i \in DOMAIN incidents : i = in[w]
  BY DecidesFacts
<1>2. PICK r : r = incidents[i].ref
  OBVIOUS
<1>3. r \in Refs
  <2>1. incidents[i] \in Incident
    BY DEF PipelineInv
  <2> QED
    BY <1>2, <2>1 DEF Incident
<1>4. /\ incidents[i].state = "received" /\ incidents'[i].state = v
      /\ DOMAIN incidents' = DOMAIN incidents
      /\ \A j \in DOMAIN incidents : incidents'[j].ref = incidents[j].ref
      /\ \A j \in DOMAIN incidents : j # i => incidents'[j].state = incidents[j].state
      /\ \A k \in DOMAIN events : events'[k] = events[k]
  BY <1>1, DecidesFacts DEF TrailKept
<1>5. \A j \in DOMAIN incidents : incidents[j].ref = r => j = i
  BY <1>2 DEF PipelineInv
<1>6. StageIn(incidents, r) = "received"
  BY <1>2, <1>4, <1>5, StageOfRow
<1>7. StageIn(incidents', r) = v
  <2>1. \A j \in DOMAIN incidents' : incidents'[j].ref = incidents'[i].ref => j = i
    BY <1>2, <1>4, <1>5
  <2>2. StageIn(incidents', incidents'[i].ref) = incidents'[i].state
    BY <1>4, <2>1, StageOfRow
  <2> QED
    BY <1>2, <1>4, <2>2
<1>8. ASSUME NEW q \in Refs, q # r PROVE StageIn(incidents', q) = StageIn(incidents, q)
  <2>1. RowsIn(incidents', q) = RowsIn(incidents, q)
    BY <1>4 DEF RowsIn
  <2>2. \A j \in RowsIn(incidents, q) : incidents'[j].state = incidents[j].state
    BY <1>2, <1>4, <1>8 DEF RowsIn
  <2> QED
    BY <2>1, <2>2, StageKept
<1>9. NewsBar' = NewsBar \cup {r}
  <2>1. in' = in /\ {u \in Workers : opc'[u] = "publish"}
                      = {u \in Workers : opc[u] = "publish"} \cup {w}
    BY DEF Decides, PipelineInv
  <2>2. \A u \in Workers : opc[u] = "publish" \/ u = w => incidents'[in[u]].ref = incidents[in[u]].ref
    BY <1>1, <1>4 DEF PipelineInv
  <2> QED
    BY <1>1, <1>2, <2>1, <2>2 DEF NewsBar
<1>10. ToldBar' = ToldBar
  BY <1>4, ToldStutters DEF Decides
<1> QED
  BY <1>3, <1>6, <1>7, <1>8, <1>9, <1>10, StageBarIs

LEMMA AnnouncesAnnounces ==
  ASSUME PipelineInv, NEW w \in Workers, Announces(w)
  PROVE  \E r \in NewsBar :
           /\ r \in Refs /\ StageBar' = StageBar
           /\ NewsBar' = NewsBar \ {r} /\ ToldBar' = ToldBar \cup {r}
<1>1. PICK e \in Nat : e = eventID[w]
  BY DEF PipelineInv
<1>2. /\ sent \in Seq(Nat) /\ sent' = Append(sent, e) /\ opc[w] = "publish"
      /\ opc' = [opc EXCEPT ![w] = "next"] /\ UNCHANGED <<incidents, events, in>>
  BY <1>1 DEF Announces, PipelineInv
<1>3. /\ in[w] \in DOMAIN incidents /\ events[e].incident = in[w]
      /\ \A v \in Workers : opc[v] = "publish" /\ in[v] = in[w] => v = w
  BY <1>1, <1>2 DEF PipelineInv
<1>4. PICK r : r = incidents[in[w]].ref
  OBVIOUS
<1>5. r \in NewsBar
  BY <1>2, <1>4 DEF NewsBar
<1>6. r \in Refs
  <2>1. incidents[in[w]] \in Incident
    BY <1>3 DEF PipelineInv
  <2> QED
    BY <1>4, <2>1 DEF Incident
<1>7. NewsBar' = NewsBar \ {r}
  <2>1. {v \in Workers : opc'[v] = "publish"} = {v \in Workers : opc[v] = "publish"} \ {w}
    BY <1>2 DEF PipelineInv
  <2>2. \A v \in Workers : opc[v] = "publish" /\ v # w => incidents[in[v]].ref # r
    BY <1>3, <1>4 DEF PipelineInv
  <2> QED
    BY <1>2, <1>4, <2>1, <2>2 DEF NewsBar
<1>8. ToldBar' = ToldBar \cup {r}
  <2>1. PICK new : new = Len(sent) + 1
    OBVIOUS
  <2>2. /\ DOMAIN sent' = DOMAIN sent \cup {new} /\ sent'[new] = e
        /\ \A k \in DOMAIN sent : sent'[k] = sent[k] /\ k # new
    BY <1>1, <1>2, <2>1, AppendRow
  <2>3. ToldBar' = {incidents[events[sent'[k]].incident].ref : k \in DOMAIN sent'}
    BY <1>2 DEF ToldBar
  <2>4. incidents[events[sent'[new]].incident].ref = r
    BY <1>3, <1>4, <2>2
  <2> DEFINE refOf(k) == incidents[events[k].incident].ref
  <2>5. ToldBar' = {refOf(sent'[k]) : k \in DOMAIN sent'} /\ refOf(sent'[new]) = r
    BY <2>3, <2>4
  <2>6. ToldBar = {refOf(sent[k]) : k \in DOMAIN sent}
    BY DEF ToldBar
  <2> HIDE DEF refOf
  <2> QED
    BY <2>2, <2>5, <2>6
<1>9. StageBar' = StageBar
  BY <1>2, StageBarIs
<1> QED
  BY <1>5, <1>6, <1>7, <1>8, <1>9

LEMMA StopsForgets ==
  ASSUME PipelineInv, Stops
  PROVE  NewsBar' = {} /\ StageBar' = StageBar /\ ToldBar' = ToldBar
<1>1. NewsBar' = {}
  BY DEF Stops, NewsBar
<1>2. StageBar' = StageBar
  BY StageBarIs DEF Stops
<1>3. ToldBar' = ToldBar
  BY ToldStutters DEF Stops
<1> QED
  BY <1>1, <1>2, <1>3

LEMMA RefinementStep ==
  ASSUME PipelineInv, [Next]_vars
  PROVE  [Incidents!Next]_(Incidents!lifecycleVars)
<1> USE DEF StageBar, NewsBar, ToldBar
<1>1. CASE RowsKept /\ TrailKept /\ OnTheWay
  BY <1>1, OnTheWayStutters DEF Incidents!lifecycleVars
<1>2. ASSUME NEW r \in Refs, NEW s \in {"received", "filtered"}, Reports(r, s)
      PROVE  Incidents!Next
  <2>1. Incidents!Report(r, s)
    BY <1>2, ReportsReports DEF Incidents!Report
  <2> QED
    BY <2>1 DEF Incidents!Next
<1>3. ASSUME NEW w \in Workers, NEW v \in {"filtered", "suppressed", "triaging"}, Decides(w, v)
      PROVE  Incidents!Next
  <2>1. \E r \in Refs : Incidents!Decide(r, v)
    BY <1>3, DecidesDecides DEF Incidents!Decide
  <2> QED
    BY <2>1 DEF Incidents!Next, Incidents!Verdicts
<1>4. ASSUME NEW w \in Workers, Announces(w) PROVE Incidents!Next
  <2>1. \E r \in Refs : Incidents!Announce(r)
    BY <1>4, AnnouncesAnnounces DEF Incidents!Announce
  <2> QED
    BY <2>1 DEF Incidents!Next
<1>5. CASE Stops
  <2>1. Incidents!Forget
    BY <1>5, StopsForgets DEF Incidents!Forget
  <2> QED
    BY <2>1 DEF Incidents!Next
<1> QED
  BY <1>1, <1>2, <1>3, <1>4, <1>5, PipelineEffects DEF Effects

(* However messages, batches, workers, failures and restarts interleave,   *)
(* an incident is taken up once, decided at most once and for good, and    *)
(* announced at most once and only when decided.                           *)
THEOREM SentinelImplementsLifecycle == Spec => ImplementsLifecycle
<1>1. Init => Incidents!Init
  BY RefinementInit DEF Incidents!Init, StageBar, NewsBar, ToldBar
<1> QED
  BY <1>1, PipelineInit, PipelineStep, RefinementStep, PTL
  DEF Spec, ImplementsLifecycle, Incidents!Spec

(* So no incident is announced before it is decided, and none twice: what  *)
(* Lifecycle promises, the pipeline keeps.                                 *)
THEOREM AnnouncedOnceDecided == Spec => []Incidents!ToldOnceDecided
<1> DEFINE LInv == NewsBar \cup ToldBar \subseteq Refs /\ Incidents!ToldOnceDecided
<1> USE DEF StageBar, NewsBar, ToldBar
<1>1. Incidents!Init => LInv
  BY DEF Incidents!Init, Incidents!ToldOnceDecided
<1>2. LInv /\ [Incidents!Next]_(Incidents!lifecycleVars) => LInv'
  <2> SUFFICES ASSUME LInv, [Incidents!Next]_(Incidents!lifecycleVars) PROVE LInv'
    OBVIOUS
  <2>1. ASSUME NEW r \in Refs, NEW s, Incidents!Report(r, s) PROVE LInv'
    BY <2>1 DEF Incidents!Report, Incidents!ToldOnceDecided, Incidents!Verdicts
  <2>2. ASSUME NEW r \in Refs, NEW v \in Incidents!Verdicts, Incidents!Decide(r, v) PROVE LInv'
    BY <2>2 DEF Incidents!Decide, Incidents!ToldOnceDecided, Incidents!Verdicts
  <2>3. ASSUME NEW r \in Refs, Incidents!Announce(r) PROVE LInv'
    BY <2>3 DEF Incidents!Announce, Incidents!ToldOnceDecided
  <2>4. CASE Incidents!Forget
    BY <2>4 DEF Incidents!Forget, Incidents!ToldOnceDecided
  <2>5. CASE UNCHANGED Incidents!lifecycleVars
    BY <2>5 DEF Incidents!lifecycleVars, Incidents!ToldOnceDecided
  <2> QED
    BY <2>1, <2>2, <2>3, <2>4, <2>5 DEF Incidents!Next
<1> QED
  BY <1>1, <1>2, SentinelImplementsLifecycle, PTL DEF ImplementsLifecycle, Incidents!Spec
=============================================================================
