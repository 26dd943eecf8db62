------------------------ MODULE Orchestrator_proofs ------------------------
(* Proofs about the process loop, for any workers, incidents, fingerprints *)
(* and window, and any number of failures and restarts.                    *)
EXTENDS Orchestrator, Store_proofs, FiniteSetTheorems

(* The steps of the loop and of its environment, each once. *)
LEMMA NextCases ==
  ASSUME [Next]_allVars
  PROVE  \/ Tick
         \/ \E r \in Refs, c \in Contents, s \in {"received", "filtered"} : Arrive(r, c, s)
         \/ \E w \in Workers : List(w)
         \/ \E w \in Workers, q \in Quarantine : Begin(w, q)
         \/ \E w \in Workers : Mark(w)
         \/ \E w \in Workers : Observe(w)
         \/ \E w \in Workers : Decide(w)
         \/ \E w \in Workers : DecideStale(w)
         \/ \E w \in Workers : Publish(w)
         \/ \E w \in Workers : StoreCallFails(w)
         \/ Restart
         \/ UNCHANGED allVars
  BY DEF Next, Step, Conclude

(* The incident in hand has a fingerprint and a row. *)
LEMMA InHand ==
  ASSUME TypeOK, NEW w \in Workers, pc[w] # "next"
  PROVE  /\ in[w] \in DOMAIN incidents /\ in[w] \in Nat \ {0}
         /\ FpIn(in[w]) \in Fps
<1>1. in[w] \in DOMAIN incidents /\ incidents \in Seq(Incident)
  BY DEF TypeOK, StoreTypeOK
<1>2. in[w] \in Nat \ {0} /\ incidents[in[w]] \in Incident
  BY <1>1
<1>3. incidents[in[w]].content \in Contents
  BY <1>2 DEF Incident
<1> QED
  BY <1>1, <1>2, <1>3, OrchestratorAssumption DEF FpIn

-----------------------------------------------------------------------------
(* Type correctness. *)
LEMMA TypeInit == Init => TypeOK
<1> SUFFICES ASSUME Init PROVE TypeOK
  OBVIOUS
<1>1. <<>> \in Seq(Incident) /\ <<>> \in Seq(Event) /\ <<>> \in Seq(Nat) /\ DOMAIN <<>> = {}
  OBVIOUS
<1>2. StoreTypeOK
  BY <1>1 DEF Init, StoreInit, StoreTypeOK, Fingerprint
<1>3. /\ pc \in [Workers -> {"next", "mark", "observe", "decide", "publish"}]
      /\ \A w \in Workers : pc[w] = "next"
      /\ pending \in [Workers -> SUBSET DOMAIN incidents]
  BY DEF Init, OrchestratorInit
<1>4. /\ in \in [Workers -> Nat] /\ now \in [Workers -> Nat]
      /\ rejected \in [Workers -> BOOLEAN] /\ suppressed \in [Workers -> BOOLEAN]
      /\ eventID \in [Workers -> Nat]
  BY DEF Init, OrchestratorInit
<1> QED
  BY <1>1, <1>2, <1>3, <1>4 DEF Init, OrchestratorInit, TypeOK

LEMMA TypeStep == TypeOK /\ [Next]_allVars => TypeOK'
<1> SUFFICES ASSUME TypeOK, [Next]_allVars PROVE TypeOK'
  OBVIOUS
<1>1. CASE Tick
  BY <1>1 DEF TypeOK, StoreTypeOK, Tick, storeVars, workerVars
<1>2. ASSUME NEW r \in Refs, NEW c \in Contents, NEW s \in {"received", "filtered"},
             Arrive(r, c, s)
      PROVE  TypeOK'
  <2>1. incidents' \in Seq(Incident) /\ DOMAIN incidents \subseteq DOMAIN incidents'
    BY <1>2, IngestKeeps DEF Arrive, TypeOK, StoreTypeOK, States
  <2> QED
    BY <1>2, <2>1 DEF Arrive, TypeOK, StoreTypeOK, orchVars, workerVars
<1>3. ASSUME NEW w \in Workers, List(w) PROVE TypeOK'
  <2>1. Oldest(Received) \subseteq DOMAIN incidents
    BY DEF Oldest, Received
  <2> QED
    BY <1>3, <2>1 DEF List, TypeOK, StoreTypeOK, storeVars
<1>4. ASSUME NEW w \in Workers, NEW q \in Quarantine, Begin(w, q) PROVE TypeOK'
  <2>1. PICK i \in pending[w] :
          /\ in' = [in EXCEPT ![w] = i]
          /\ pending' = [pending EXCEPT ![w] = @ \ {i}]
          /\ rejected' = [rejected EXCEPT ![w] = q \/ incidents[i].content \in Noise]
    BY <1>4 DEF Begin
  <2>2. i \in DOMAIN incidents /\ i \in Nat
    BY DEF TypeOK, StoreTypeOK
  <2>3. rejected' \in [Workers -> BOOLEAN]
    BY <2>1, OrchestratorAssumption DEF TypeOK
  <2>4. UNCHANGED <<storeVars, clock, suppressed, eventID, sent, faults, openings>>
    BY <1>4 DEF Begin
  <2>5. now' = [now EXCEPT ![w] = clock] /\ pc' = [pc EXCEPT ![w] = "mark"]
    BY <1>4 DEF Begin
  <2> QED
    BY <2>1, <2>2, <2>3, <2>4, <2>5 DEF TypeOK, StoreTypeOK, storeVars
<1>5. ASSUME NEW w \in Workers, Mark(w) PROVE TypeOK'
  <2>1. in[w] \in DOMAIN incidents /\ FpIn(in[w]) \in Fps
    BY <1>5, InHand DEF Mark
  <2>2. incidents' \in Seq(Incident) /\ DOMAIN incidents' = DOMAIN incidents
    BY <1>5, <2>1, MarkKeeps DEF Mark, TypeOK, StoreTypeOK
  <2> QED
    BY <1>5, <2>2 DEF Mark, TypeOK, StoreTypeOK
<1>6. ASSUME NEW w \in Workers, Observe(w) PROVE TypeOK'
  <2>1. in[w] \in DOMAIN incidents /\ in[w] \in Nat \ {0} /\ FpIn(in[w]) \in Fps
    BY <1>6, InHand DEF Observe
  <2>2. now[w] \in Nat
    BY DEF TypeOK
  <2>3. fingerprints' \in [Fps -> Fingerprint]
    BY <1>6, <2>1, <2>2, ObserveOpens DEF Observe, TypeOK, StoreTypeOK
  <2>4. [fp |-> FpIn(in[w]), incident |-> in[w], at |-> now[w]] \in Opening
    BY <2>1, <2>2 DEF Opening
  <2>5. openings' \subseteq Opening
    BY <1>6, <2>4 DEF Observe, TypeOK
  <2>6. InWindow(FpIn(in[w]), now[w]) \in BOOLEAN
    BY DEF InWindow
  <2>7. suppressed' \in [Workers -> BOOLEAN]
    BY <1>6, <2>6 DEF Observe, TypeOK
  <2> QED
    BY <1>6, <2>3, <2>5, <2>7 DEF Observe, TypeOK, StoreTypeOK
<1>7. ASSUME NEW w \in Workers, Decide(w) PROVE TypeOK'
  <2>1. in[w] \in DOMAIN incidents
    BY <1>7, InHand DEF Decide
  <2>2. Verdict(w) \in States /\ "received" \in States
    BY DEF Verdict, States
  <2>3. /\ incidents' \in Seq(Incident) /\ DOMAIN incidents' = DOMAIN incidents
        /\ events' \in Seq(Event)
    <3>1. /\ Transition(in[w], "received", Verdict(w))
          /\ incidents \in Seq(Incident) /\ events \in Seq(Event)
      BY <1>7 DEF Decide, TypeOK, StoreTypeOK
    <3>2. in[w] \in Nat \ {0}
      BY <2>1, <3>1
    <3> QED
      BY <2>1, <2>2, <3>1, <3>2, TransitionMoves, TransitionAudits
  <2>4. NextEventID \in Nat
    BY DEF NextEventID, TypeOK, StoreTypeOK
  <2> QED
    BY <1>7, <2>3, <2>4 DEF Decide, TypeOK, StoreTypeOK
<1>8. ASSUME NEW w \in Workers, DecideStale(w) PROVE TypeOK'
  BY <1>8 DEF DecideStale, TypeOK, StoreTypeOK, storeVars
<1>9. ASSUME NEW w \in Workers, Publish(w) PROVE TypeOK'
  <2>1. sent' \in Seq(Nat)
    BY <1>9, AppendRow DEF Publish, TypeOK
  <2> QED
    BY <1>9, <2>1 DEF Publish, TypeOK, StoreTypeOK, storeVars
<1>10. ASSUME NEW w \in Workers, StoreCallFails(w) PROVE TypeOK'
  BY <1>10 DEF StoreCallFails, Fault, TypeOK, StoreTypeOK, storeVars
<1>11. CASE Restart
  BY <1>11 DEF Restart, Fault, TypeOK, StoreTypeOK, storeVars
<1>12. CASE UNCHANGED allVars
  BY <1>12 DEF allVars, orchVars, workerVars, storeVars, TypeOK, StoreTypeOK
<1> QED
  BY <1>1, <1>2, <1>3, <1>4, <1>5, <1>6, <1>7, <1>8, <1>9, <1>10, <1>11, <1>12, NextCases

(* Every variable keeps its type; in particular an incident in hand is     *)
(* always a row of the table.                                              *)
THEOREM TypeCorrect == Spec => []TypeOK
  BY TypeInit, TypeStep, PTL DEF Spec

-----------------------------------------------------------------------------
(* The audit trail. *)
AuditInv == AuditTellsTheMove /\ EventsHaveIncidents

(* Where neither an incident's state nor an audit row changes, the trail   *)
(* goes on telling the moves.                                              *)
LEMMA AuditUntouched ==
  ASSUME AuditInv, events' = events, DOMAIN incidents' = DOMAIN incidents,
         \A i \in DOMAIN incidents : incidents'[i].state = incidents[i].state
  PROVE  AuditInv'
  BY DEF AuditInv, AuditTellsTheMove, EventsHaveIncidents, Moves

LEMMA AuditStep == TypeOK /\ AuditInv /\ [Next]_allVars => AuditInv'
<1> SUFFICES ASSUME TypeOK, AuditInv, [Next]_allVars PROVE AuditInv'
  OBVIOUS
<1>1. ASSUME NEW r \in Refs, NEW c \in Contents, NEW s \in {"received", "filtered"},
             Arrive(r, c, s)
      PROVE  AuditInv'
  <2> DEFINE new == Len(incidents) + 1
  <2>1. /\ DOMAIN incidents' = DOMAIN incidents \cup {new}
        /\ new \notin DOMAIN incidents
        /\ incidents'[new].state = s
    BY <1>1, IngestAppends DEF Arrive, TypeOK, StoreTypeOK, States
  <2>2. \A i \in DOMAIN incidents : incidents'[i].state = incidents[i].state
    BY <1>1, IngestKeeps DEF Arrive, TypeOK, StoreTypeOK, States
  <2>3. events' = events
    BY <1>1 DEF Arrive
  <2> HIDE DEF new
  <2>4. EventsHaveIncidents'
    BY <2>1, <2>3 DEF AuditInv, EventsHaveIncidents
  <2>5. Moves(new) = {} /\ \A i : Moves(i)' = Moves(i)
    BY <2>1, <2>3 DEF AuditInv, EventsHaveIncidents, Moves
  <2>6. AuditTellsTheMove'
    <3> SUFFICES ASSUME NEW i \in DOMAIN incidents'
                 PROVE  /\ \A k, l \in Moves(i)' : k = l
                        /\ \A k \in Moves(i)' : /\ events'[k].from = "received"
                                                /\ events'[k].to = incidents'[i].state
                        /\ incidents'[i].state = "received" => Moves(i)' = {}
                        /\ incidents'[i].state \in {"triaging", "suppressed"} => Moves(i)' # {}
      BY DEF AuditTellsTheMove
    <3>1. CASE i \in DOMAIN incidents
      BY <2>2, <2>3, <2>5, <3>1 DEF AuditInv, AuditTellsTheMove
    <3>2. CASE i = new
      BY <2>1, <2>5, <3>2
    <3> QED
      BY <2>1, <3>1, <3>2
  <2> QED
    BY <2>4, <2>6 DEF AuditInv
<1>2. ASSUME NEW w \in Workers, Mark(w) PROVE AuditInv'
  <2>1. in[w] \in DOMAIN incidents /\ FpIn(in[w]) \in Fps
    BY <1>2, InHand DEF Mark
  <2>2. /\ DOMAIN incidents' = DOMAIN incidents
        /\ \A i \in DOMAIN incidents : incidents'[i].state = incidents[i].state
    BY <1>2, <2>1, MarkKeeps DEF Mark, TypeOK, StoreTypeOK
  <2> QED
    BY <1>2, <2>2, AuditUntouched DEF Mark
<1>3. ASSUME NEW w \in Workers, Decide(w) PROVE AuditInv'
  <2>1. PICK i \in DOMAIN incidents : i = in[w]
    BY <1>3, InHand DEF Decide
  <2>0. PICK new : new = Len(events) + 1
    OBVIOUS
  <2>2. PICK to \in {"filtered", "suppressed", "triaging"} : to = Verdict(w)
    BY DEF Verdict
  <2>3. to \in States /\ "received" \in States
    BY DEF States
  <2>4. /\ DOMAIN incidents' = DOMAIN incidents
        /\ incidents[i].state = "received" /\ incidents'[i].state = to
        /\ \A j \in DOMAIN incidents : j # i => incidents'[j].state = incidents[j].state
        /\ DOMAIN events' = DOMAIN events \cup {new}
        /\ new \notin DOMAIN events
        /\ \A k \in DOMAIN events : events'[k] = events[k]
        /\ events'[new] = [incident |-> i, kind |-> "state_change",
                           from |-> "received", to |-> to]
    <3>1. Transition(i, "received", to)
      BY <1>3, <2>1, <2>2 DEF Decide
    <3>2. incidents \in Seq(Incident) /\ events \in Seq(Event)
      BY DEF TypeOK, StoreTypeOK
    <3>3. /\ DOMAIN incidents' = DOMAIN incidents
          /\ incidents[i].state = "received"
          /\ incidents'[i].state = to
          /\ \A j \in DOMAIN incidents : j # i => incidents'[j].state = incidents[j].state
      BY <2>3, <3>1, <3>2, TransitionMoves
    <3>4. i \in Nat \ {0}
      BY <3>2
    <3>5. /\ DOMAIN events' = DOMAIN events \cup {Len(events) + 1}
          /\ Len(events) + 1 \notin DOMAIN events
          /\ \A k \in DOMAIN events : events'[k] = events[k]
          /\ events'[Len(events) + 1] = [incident |-> i, kind |-> "state_change",
                                         from |-> "received", to |-> to]
      BY <2>3, <3>1, <3>2, <3>4, TransitionAudits
    <3> QED
      BY <2>0, <3>3, <3>5
  <2>5. EventsHaveIncidents'
    BY <2>1, <2>4 DEF AuditInv, EventsHaveIncidents
  <2>6. Moves(i) = {} /\ Moves(i)' = {new}
    BY <2>1, <2>4 DEF AuditInv, AuditTellsTheMove, Moves
  <2>7. \A j \in DOMAIN incidents : j # i => Moves(j)' = Moves(j)
    BY <2>4 DEF Moves
  <2>8. AuditTellsTheMove'
    <3> SUFFICES ASSUME NEW j \in DOMAIN incidents
                 PROVE  /\ \A k, l \in Moves(j)' : k = l
                        /\ \A k \in Moves(j)' : /\ events'[k].from = "received"
                                                /\ events'[k].to = incidents'[j].state
                        /\ incidents'[j].state = "received" => Moves(j)' = {}
                        /\ incidents'[j].state \in {"triaging", "suppressed"} => Moves(j)' # {}
      BY <2>4 DEF AuditTellsTheMove
    <3>1. CASE j = i
      <4>1. Moves(j)' = {new} /\ incidents'[j].state = to
        BY <2>4, <2>6, <3>1
      <4>2. events'[new].from = "received" /\ events'[new].to = to
        BY <2>4
      <4> QED
        BY <2>2, <4>1, <4>2
    <3>2. CASE j # i
      <4>1. Moves(j)' = Moves(j) /\ incidents'[j].state = incidents[j].state
        BY <2>4, <2>7, <3>2
      <4>2. \A k \in Moves(j) : k \in DOMAIN events /\ events'[k] = events[k]
        BY <2>4 DEF Moves
      <4> QED
        BY <4>1, <4>2 DEF AuditInv, AuditTellsTheMove
    <3> QED
      BY <3>1, <3>2
  <2> QED
    BY <2>5, <2>8 DEF AuditInv
<1>4. CASE UNCHANGED <<incidents, events>>
  BY <1>4, AuditUntouched
<1>5. \/ \E r \in Refs, c \in Contents, s \in {"received", "filtered"} : Arrive(r, c, s)
      \/ \E w \in Workers : Mark(w)
      \/ \E w \in Workers : Decide(w)
      \/ UNCHANGED <<incidents, events>>
  BY NextCases DEF Tick, List, Begin, Observe, DecideStale, Publish, StoreCallFails,
                   Restart, storeVars, allVars
<1> QED
  BY <1>1, <1>2, <1>3, <1>4, <1>5

(* However many workers race for an incident, it is moved once, and the    *)
(* audit trail tells that move and no other.                               *)
THEOREM AuditIsTruthful == Spec => []AuditTellsTheMove
<1>1. Init => AuditInv
  <2> SUFFICES ASSUME Init PROVE AuditInv
    OBVIOUS
  <2>1. DOMAIN incidents = {} /\ DOMAIN events = {}
    BY DEF Init, StoreInit
  <2> QED
    BY <2>1 DEF AuditInv, AuditTellsTheMove, EventsHaveIncidents
<1>2. AuditInv => AuditTellsTheMove
  BY DEF AuditInv
<1> QED
  BY <1>1, <1>2, AuditStep, TypeInit, TypeStep, PTL DEF Spec
-----------------------------------------------------------------------------
(* Suppression. *)
StormInv == WindowsCoverOpenings /\ StormContained

(* No step changes what a row says, so none changes its fingerprint.       *)
LEMMA FpKept ==
  ASSUME TypeOK, [Next]_allVars
  PROVE  /\ DOMAIN incidents \subseteq DOMAIN incidents'
         /\ \A i \in DOMAIN incidents : FpIn(i)' = FpIn(i)
<1>1. ASSUME NEW r \in Refs, NEW c \in Contents, NEW s \in {"received", "filtered"},
             Arrive(r, c, s)
      PROVE  /\ DOMAIN incidents \subseteq DOMAIN incidents'
             /\ \A i \in DOMAIN incidents : FpIn(i)' = FpIn(i)
  BY <1>1, IngestKeeps DEF Arrive, TypeOK, StoreTypeOK, States, FpIn
<1>2. ASSUME NEW w \in Workers, Mark(w)
      PROVE  /\ DOMAIN incidents \subseteq DOMAIN incidents'
             /\ \A i \in DOMAIN incidents : FpIn(i)' = FpIn(i)
  <2>1. in[w] \in DOMAIN incidents /\ FpIn(in[w]) \in Fps
    BY <1>2, InHand DEF Mark
  <2> QED
    BY <1>2, <2>1, MarkKeeps DEF Mark, TypeOK, StoreTypeOK, FpIn
<1>3. ASSUME NEW w \in Workers, Decide(w)
      PROVE  /\ DOMAIN incidents \subseteq DOMAIN incidents'
             /\ \A i \in DOMAIN incidents : FpIn(i)' = FpIn(i)
  <2>1. in[w] \in DOMAIN incidents /\ Verdict(w) \in States /\ "received" \in States
    BY <1>3, InHand DEF Decide, Verdict, States
  <2>2. /\ DOMAIN incidents' = DOMAIN incidents
        /\ \A i \in DOMAIN incidents : incidents'[i].content = incidents[i].content
    BY <1>3, <2>1, TransitionMoves DEF Decide, TypeOK, StoreTypeOK
  <2> QED
    BY <2>2 DEF FpIn
<1>4. CASE UNCHANGED incidents
  BY <1>4 DEF FpIn
<1>5. \/ \E r \in Refs, c \in Contents, s \in {"received", "filtered"} : Arrive(r, c, s)
      \/ \E w \in Workers : Mark(w)
      \/ \E w \in Workers : Decide(w)
      \/ UNCHANGED incidents
  BY NextCases DEF Tick, List, Begin, Observe, DecideStale, Publish, StoreCallFails,
                   Restart, storeVars, allVars
<1> QED
  BY <1>1, <1>2, <1>3, <1>4, <1>5

(* Only a worker that found no open window hands an incident on. *)
LEMMA HandedOn ==
  ASSUME TypeOK, [Next]_allVars,
         NEW i \in DOMAIN incidents', incidents'[i].state = "triaging"
  PROVE  /\ i \in DOMAIN incidents
         /\ \/ incidents[i].state = "triaging"
            \/ \E w \in Workers : pc[w] = "decide" /\ ~suppressed[w] /\ in[w] = i
<1> DEFINE Goal == /\ i \in DOMAIN incidents
                   /\ \/ incidents[i].state = "triaging"
                      \/ \E w \in Workers : pc[w] = "decide" /\ ~suppressed[w] /\ in[w] = i
<1>1. ASSUME NEW r \in Refs, NEW c \in Contents, NEW s \in {"received", "filtered"},
             Arrive(r, c, s)
      PROVE  Goal
  <2>1. /\ DOMAIN incidents' = DOMAIN incidents \cup {Len(incidents) + 1}
        /\ incidents'[Len(incidents) + 1].state = s
    BY <1>1, IngestAppends DEF Arrive, TypeOK, StoreTypeOK, States
  <2>2. \A j \in DOMAIN incidents : incidents'[j].state = incidents[j].state
    BY <1>1, IngestKeeps DEF Arrive, TypeOK, StoreTypeOK, States
  <2> QED
    BY <2>1, <2>2
<1>2. ASSUME NEW w \in Workers, Mark(w) PROVE Goal
  <2>1. in[w] \in DOMAIN incidents /\ FpIn(in[w]) \in Fps
    BY <1>2, InHand DEF Mark
  <2>2. /\ DOMAIN incidents' = DOMAIN incidents
        /\ \A j \in DOMAIN incidents : incidents'[j].state = incidents[j].state
    BY <1>2, <2>1, MarkKeeps DEF Mark, TypeOK, StoreTypeOK
  <2> QED
    BY <2>2
<1>3. ASSUME NEW w \in Workers, Decide(w) PROVE Goal
  <2>1. in[w] \in DOMAIN incidents /\ Verdict(w) \in States /\ "received" \in States
    BY <1>3, InHand DEF Decide, Verdict, States
  <2>2. /\ DOMAIN incidents' = DOMAIN incidents
        /\ incidents'[in[w]].state = Verdict(w)
        /\ \A j \in DOMAIN incidents : j # in[w] => incidents'[j].state = incidents[j].state
    BY <1>3, <2>1, TransitionMoves DEF Decide, TypeOK, StoreTypeOK
  <2>3. CASE i = in[w]
    <3>1. Verdict(w) = "triaging"
      BY <2>2, <2>3
    <3>2. ~suppressed[w]
      BY <3>1 DEF Verdict
    <3> QED
      BY <1>3, <2>1, <2>3, <3>2 DEF Decide
  <2>4. CASE i # in[w]
    BY <2>2, <2>4
  <2> QED
    BY <2>3, <2>4
<1>4. CASE UNCHANGED incidents
  BY <1>4
<1>5. \/ \E r \in Refs, c \in Contents, s \in {"received", "filtered"} : Arrive(r, c, s)
      \/ \E w \in Workers : Mark(w)
      \/ \E w \in Workers : Decide(w)
      \/ UNCHANGED incidents
  BY NextCases DEF Tick, List, Begin, Observe, DecideStale, Publish, StoreCallFails,
                   Restart, storeVars, allVars
<1> QED
  BY <1>1, <1>2, <1>3, <1>4, <1>5

(* An opening ends its fingerprint's last window, so it is a window away   *)
(* from every opening before it.                                           *)
LEMMA OpensApart ==
  ASSUME TypeOK, StormInv, NEW f \in Fps, NEW t \in Nat, ~InWindow(f, t),
         NEW a \in openings, a.fp = f, Second <= Window
  PROVE  a.at \in Nat /\ a.at + Window < t + Second
<1>1. a.at \in Nat
  BY DEF TypeOK, Opening
<1>2. fingerprints[f].total > 0 /\ a.at + Window < fingerprints[f].until + Second
  BY DEF StormInv, WindowsCoverOpenings
<1>3. fingerprints[f].until \in Nat
  BY DEF TypeOK, StoreTypeOK, Fingerprint
<1>4. fingerprints[f].until <= t
  BY <1>2, <1>3 DEF InWindow
<1> QED
  BY <1>1, <1>2, <1>3, <1>4, StoreAssumption

(* The windows after a sighting, and the openings it leaves apart. *)
LEMMA ObserveStep ==
  ASSUME TypeOK, StormInv, NEW w \in Workers, Observe(w)
  PROVE  /\ \A a \in openings' :
              /\ fingerprints'[a.fp].total > 0
              /\ Second <= Window => a.at + Window < fingerprints'[a.fp].until + Second
         /\ \A a, b \in openings' :
              a # b /\ a.fp = b.fp =>
                a.at + Window < b.at + Second \/ b.at + Window < a.at + Second
<1>1. PICK i \in Nat \ {0} : i = in[w]
  BY InHand DEF Observe
<1>2. PICK f \in Fps : f = FpIn(in[w])
  BY InHand DEF Observe
<1>3. PICK t \in Nat : t = now[w]
  BY DEF TypeOK
<1> DEFINE c == [fp |-> f, incident |-> i, at |-> t]
<1>4. /\ ObserveFingerprint(f, i, t)
      /\ openings' = IF InWindow(f, t) THEN openings ELSE openings \cup {c}
  BY <1>1, <1>2, <1>3 DEF Observe
<1>5. fingerprints \in [Fps -> Fingerprint]
  BY DEF TypeOK, StoreTypeOK
<1>6. /\ fingerprints'[f].total = fingerprints[f].total + 1
      /\ fingerprints[f].total \in Nat /\ fingerprints[f].until \in Nat
      /\ fingerprints'[f].until =
           IF InWindow(f, t) THEN fingerprints[f].until ELSE Stored(t + Window)
      /\ \A g \in Fps : g # f => fingerprints'[g] = fingerprints[g]
  BY <1>4, <1>5, ObserveOpens
<1>7. c.fp = f /\ c.at = t
  OBVIOUS
<1>8. \A a \in openings : a.fp \in Fps /\ a.at \in Nat
  BY DEF TypeOK, Opening
<1> HIDE DEF c
<1>9. ASSUME NEW a \in openings
      PROVE  /\ fingerprints'[a.fp].total > 0
             /\ Second <= Window => a.at + Window < fingerprints'[a.fp].until + Second
  <2>1. /\ fingerprints[a.fp].total > 0
        /\ Second <= Window => a.at + Window < fingerprints[a.fp].until + Second
    BY DEF StormInv, WindowsCoverOpenings
  <2>2. CASE a.fp # f
    BY <1>6, <1>8, <2>1, <2>2
  <2>3. CASE a.fp = f /\ InWindow(f, t)
    BY <1>6, <2>1, <2>3
  <2>4. CASE a.fp = f /\ ~InWindow(f, t)
    <3>1. fingerprints'[f].total > 0
      BY <1>6
    <3>2. ASSUME Second <= Window
          PROVE  a.at + Window < fingerprints'[f].until + Second
      <4>1. a.at \in Nat /\ a.at + Window < t + Second
        BY <2>4, <3>2, OpensApart
      <4>2. Stored(t + Window) \in Nat /\ t + Window < Stored(t + Window) + Second
        BY StoredFacts, StoreAssumption
      <4>3. fingerprints'[f].until = Stored(t + Window)
        BY <1>6, <2>4
      <4> QED
        BY <3>2, <4>1, <4>2, <4>3, StoreAssumption
    <3> QED
      BY <2>4, <3>1, <3>2
  <2> QED
    BY <2>2, <2>3, <2>4
<1>10. ASSUME ~InWindow(f, t)
       PROVE  /\ fingerprints'[f].total > 0
              /\ t + Window < fingerprints'[f].until + Second
  <2>1. t + Window \in Nat
    BY StoreAssumption
  <2>2. t + Window < Stored(t + Window) + Second
    BY <2>1, StoredFacts
  <2>3. fingerprints'[f].until = Stored(t + Window)
    BY <1>6, <1>10
  <2>4. fingerprints'[f].total > 0
    BY <1>6
  <2> QED
    BY <2>2, <2>3, <2>4
<1>11. ASSUME NEW a \in openings', NEW b \in openings', a # b, a.fp = b.fp
       PROVE  a.at + Window < b.at + Second \/ b.at + Window < a.at + Second
  <2>1. /\ a.at \in Nat /\ b.at \in Nat
        /\ a \in openings \/ (a = c /\ ~InWindow(f, t))
        /\ b \in openings \/ (b = c /\ ~InWindow(f, t))
    BY <1>4, <1>7, <1>8
  <2>2. CASE Window < Second
    BY <2>1, <2>2, StoreAssumption
  <2>3. CASE Second <= Window /\ a \in openings /\ b \in openings
    BY <1>11, <2>3 DEF StormInv, StormContained
  <2>4. CASE Second <= Window /\ a \in openings /\ b = c /\ ~InWindow(f, t)
    BY <1>7, <1>11, <2>4, OpensApart
  <2>5. CASE Second <= Window /\ b \in openings /\ a = c /\ ~InWindow(f, t)
    BY <1>7, <1>11, <2>5, OpensApart
  <2> QED
    BY <1>11, <2>1, <2>2, <2>3, <2>4, <2>5, StoreAssumption
<1>12. ASSUME NEW a \in openings'
       PROVE  /\ fingerprints'[a.fp].total > 0
              /\ Second <= Window => a.at + Window < fingerprints'[a.fp].until + Second
  BY <1>4, <1>7, <1>9, <1>10
<1> QED
  BY <1>11, <1>12

LEMMA StormStep == TypeOK /\ StormInv /\ [Next]_allVars => StormInv'
<1> SUFFICES ASSUME TypeOK, StormInv, [Next]_allVars PROVE StormInv'
  OBVIOUS
<1>1. \/ \E w \in Workers : Observe(w)
      \/ UNCHANGED <<fingerprints, openings>>
  BY NextCases DEF Tick, Arrive, List, Begin, Mark, Decide, DecideStale, Publish,
                   StoreCallFails, Restart, storeVars, orchVars, allVars
<1>2. openings \subseteq openings'
  BY <1>1 DEF Observe
<1>3. /\ \A a \in openings' :
           /\ fingerprints'[a.fp].total > 0
           /\ Second <= Window => a.at + Window < fingerprints'[a.fp].until + Second
      /\ \A a, b \in openings' :
           a # b /\ a.fp = b.fp =>
             a.at + Window < b.at + Second \/ b.at + Window < a.at + Second
  BY <1>1, ObserveStep DEF StormInv, WindowsCoverOpenings, StormContained
<1>4. ASSUME NEW w \in Workers, pc'[w] = "decide", ~suppressed'[w]
      PROVE  \E a \in openings' : a.incident = in'[w] /\ a.fp = FpIn(in[w])'
  <2>1. CASE Observe(w)
    <3>1. PICK i \in DOMAIN incidents : i = in[w]
      BY <2>1, InHand DEF Observe
    <3>2. suppressed'[w] = InWindow(FpIn(i), now[w])
      BY <2>1, <3>1 DEF Observe, TypeOK
    <3>3. openings' = openings \cup {[fp |-> FpIn(i), incident |-> i, at |-> now[w]]}
      BY <1>4, <2>1, <3>1, <3>2 DEF Observe
    <3>4. in' = in /\ FpIn(i)' = FpIn(i)
      BY <2>1, FpKept DEF Observe
    <3>5. FpIn(in[w])' = FpIn(i)
      BY <3>1, <3>4 DEF FpIn
    <3>6. PICK a : a = [fp |-> FpIn(i), incident |-> i, at |-> now[w]]
      OBVIOUS
    <3>7. a \in openings'
      BY <3>3, <3>6
    <3>8. a.incident = i /\ a.fp = FpIn(i)
      BY <3>6
    <3> QED
      BY <3>1, <3>4, <3>5, <3>7, <3>8
  <2>2. CASE ~Observe(w)
    <3>1. pc[w] = "decide" /\ ~suppressed[w] /\ in'[w] = in[w]
      BY <1>4, <2>2, NextCases
         DEF Tick, Arrive, List, Begin, Mark, Observe, Decide, DecideStale, Publish,
             StoreCallFails, Restart, orchVars, workerVars, allVars, TypeOK
    <3>2. PICK a \in openings : a.incident = in[w] /\ a.fp = FpIn(in[w])
      BY <3>1 DEF StormInv, WindowsCoverOpenings
    <3>3. PICK i \in DOMAIN incidents : i = in[w]
      BY <3>1, InHand
    <3>4. FpIn(i)' = FpIn(i)
      BY FpKept
    <3>5. FpIn(in[w])' = FpIn(in[w])
      BY <3>1, <3>3, <3>4 DEF FpIn
    <3> QED
      BY <1>2, <3>1, <3>2, <3>5
  <2> QED
    BY <2>1, <2>2
<1>5. ASSUME NEW i \in DOMAIN incidents', incidents'[i].state = "triaging"
      PROVE  \E a \in openings' : a.incident = i /\ a.fp = FpIn(i)'
  <2>1. /\ i \in DOMAIN incidents
        /\ \/ incidents[i].state = "triaging"
           \/ \E w \in Workers : pc[w] = "decide" /\ ~suppressed[w] /\ in[w] = i
    BY <1>5, HandedOn
  <2>2. \E a \in openings : a.incident = i /\ a.fp = FpIn(i)
    BY <2>1 DEF StormInv, StormContained, WindowsCoverOpenings
  <2>3. FpIn(i)' = FpIn(i)
    BY <2>1, FpKept
  <2> QED
    BY <1>2, <2>2, <2>3
<1> QED
  BY <1>3, <1>4, <1>5 DEF StormInv, WindowsCoverOpenings, StormContained

(* However many workers, restarts and failures: the incidents of one       *)
(* fingerprint that are handed on to Tier 1 were seen a window apart.      *)
THEOREM StormIsContained == Spec => []StormContained
<1>1. Init => StormInv
  <2> SUFFICES ASSUME Init PROVE StormInv
    OBVIOUS
  <2>1. DOMAIN incidents = {} /\ openings = {} /\ \A w \in Workers : pc[w] = "next"
    BY DEF Init, StoreInit, OrchestratorInit
  <2> QED
    BY <2>1 DEF StormInv, WindowsCoverOpenings, StormContained
<1>2. StormInv => StormContained
  BY DEF StormInv
<1> QED
  BY <1>1, <1>2, StormStep, TypeInit, TypeStep, PTL DEF Spec
-----------------------------------------------------------------------------
(* Announcements. *)
SentInv == ToSendIsCommitted /\ SentIsCommitted

(* A worker that moves an incident holds an event no one else holds.       *)
LEMMA DecideHolds ==
  ASSUME TypeOK, SentInv, NEW w \in Workers, Decide(w)
  PROVE  SentInv'
<1>1. PICK i \in Nat \ {0} : i = in[w]
  BY InHand DEF Decide
<1>2. PICK to \in States : to = Verdict(w)
  BY DEF Verdict, States
<1>3. PICK new \in Nat : new = Len(events) + 1
  BY DEF TypeOK, StoreTypeOK
<1>4. Transition(i, "received", to) /\ events \in Seq(Event) /\ "received" \in States
  BY <1>1, <1>2 DEF Decide, TypeOK, StoreTypeOK, States
<1>5. /\ DOMAIN events' = DOMAIN events \cup {Len(events) + 1}
      /\ Len(events) + 1 \notin DOMAIN events
      /\ \A k \in DOMAIN events : events'[k] = events[k]
      /\ events'[Len(events) + 1] = [incident |-> i, kind |-> "state_change",
                                     from |-> "received", to |-> to]
  BY <1>4, TransitionAudits
<1>6. /\ DOMAIN events' = DOMAIN events \cup {new}
      /\ new \notin DOMAIN events
      /\ \A k \in DOMAIN events : events'[k] = events[k]
      /\ events'[new].kind = "state_change"
  BY <1>3, <1>5
<1>7. /\ sent' = sent
      /\ eventID'[w] = new
      /\ \A v \in Workers : v # w => eventID'[v] = eventID[v] /\ pc'[v] = pc[v]
  BY <1>3 DEF Decide, NextEventID, TypeOK
<1>8. \A k \in DOMAIN sent : sent[k] # new
  BY <1>6 DEF SentInv, SentIsCommitted
<1>9. SentIsCommitted'
  BY <1>6, <1>7 DEF SentInv, SentIsCommitted
<1>10. ASSUME NEW v \in Workers, v # w, pc[v] = "publish"
       PROVE  /\ eventID[v] \in DOMAIN events' /\ events'[eventID[v]].kind = "state_change"
              /\ eventID[v] # new
              /\ \A k \in DOMAIN sent : sent[k] # eventID[v]
  BY <1>6, <1>10 DEF SentInv, ToSendIsCommitted
<1>11. ToSendIsCommitted'
  <2> SUFFICES ASSUME NEW v \in Workers, pc'[v] = "publish"
               PROVE  /\ eventID'[v] \in DOMAIN events'
                      /\ events'[eventID'[v]].kind = "state_change"
                      /\ \A k \in DOMAIN sent' : sent'[k] # eventID'[v]
                      /\ \A u \in Workers :
                           pc'[u] = "publish" /\ eventID'[u] = eventID'[v] => u = v
    BY DEF ToSendIsCommitted
  <2>1. CASE v = w
    BY <1>6, <1>7, <1>8, <1>10, <2>1
  <2>2. CASE v # w
    <3>1. pc[v] = "publish" /\ eventID'[v] = eventID[v] /\ eventID[v] # new
      BY <1>7, <1>10, <2>2
    <3>2. \A u \in Workers : pc'[u] = "publish" /\ eventID'[u] = eventID'[v] => u = v
      BY <1>7, <2>2, <3>1 DEF SentInv, ToSendIsCommitted
    <3> QED
      BY <1>7, <1>10, <2>2, <3>1, <3>2
  <2> QED
    BY <2>1, <2>2
<1> QED
  BY <1>9, <1>11 DEF SentInv

(* Publishing gives the hub the event in hand, and the hand is empty.      *)
LEMMA PublishSends ==
  ASSUME TypeOK, SentInv, NEW w \in Workers, Publish(w)
  PROVE  SentInv'
<1>1. PICK e \in Nat : e = eventID[w]
  BY DEF TypeOK
<1>2. PICK new \in Nat : new = Len(sent) + 1
  BY DEF TypeOK
<1>3. /\ DOMAIN sent' = DOMAIN sent \cup {new}
      /\ new \notin DOMAIN sent
      /\ sent'[new] = e
      /\ \A k \in DOMAIN sent : sent'[k] = sent[k]
  BY <1>1, <1>2, AppendRow DEF Publish, TypeOK
<1>4. events' = events /\ eventID' = eventID
  BY DEF Publish, storeVars
<1>5. \A v \in Workers : pc'[v] = "publish" => v # w /\ pc[v] = "publish"
  BY DEF Publish, TypeOK
<1>6. /\ e \in DOMAIN events /\ events[e].kind = "state_change"
      /\ \A k \in DOMAIN sent : sent[k] # e
      /\ \A v \in Workers : pc[v] = "publish" /\ v # w => eventID[v] # e
  BY <1>1 DEF Publish, SentInv, ToSendIsCommitted
<1>7. SentIsCommitted'
  BY <1>3, <1>4, <1>6 DEF SentInv, SentIsCommitted
<1>8. ToSendIsCommitted'
  BY <1>3, <1>4, <1>5, <1>6 DEF SentInv, ToSendIsCommitted
<1> QED
  BY <1>7, <1>8 DEF SentInv

LEMMA SentStep == TypeOK /\ SentInv /\ [Next]_allVars => SentInv'
<1> SUFFICES ASSUME TypeOK, SentInv, [Next]_allVars PROVE SentInv'
  OBVIOUS
<1>1. CASE \/ \E r \in Refs, c \in Contents, s \in {"received", "filtered"} : Arrive(r, c, s)
           \/ \E w \in Workers : Mark(w) \/ Observe(w)
           \/ Tick \/ Restart \/ UNCHANGED allVars
           \/ \E w \in Workers : List(w) \/ DecideStale(w) \/ StoreCallFails(w)
           \/ \E w \in Workers, q \in Quarantine : Begin(w, q)
  <2>1. UNCHANGED <<events, eventID, sent>>
    BY <1>1 DEF Arrive, Mark, Observe, Tick, Restart, List, DecideStale, StoreCallFails,
                Begin, allVars, orchVars, workerVars, storeVars
  <2>2. \A w \in Workers : pc'[w] = "publish" => pc[w] = "publish"
    BY <1>1 DEF Arrive, Mark, Observe, Tick, Restart, List, DecideStale, StoreCallFails,
                Begin, allVars, orchVars, workerVars, storeVars, TypeOK
  <2> QED
    BY <2>1, <2>2 DEF SentInv, ToSendIsCommitted, SentIsCommitted
<1> QED
  BY <1>1, NextCases, DecideHolds, PublishSends

(* Whatever races, fails or restarts: no announcement on the hub is of a   *)
(* move that was not committed, and no move is announced twice.            *)
THEOREM AnnouncedIsCommitted == Spec => []SentIsCommitted
<1>1. Init => SentInv
  BY DEF Init, OrchestratorInit, SentInv, ToSendIsCommitted, SentIsCommitted
<1>2. SentInv => SentIsCommitted
  BY DEF SentInv
<1> QED
  BY <1>1, <1>2, SentStep, TypeInit, TypeStep, PTL DEF Spec
-----------------------------------------------------------------------------
(***************************************************************************)
(* The deployed loop: one worker.  Until a store call fails or the process *)
(* restarts, it takes incidents strictly in the order of their ids.        *)
(***************************************************************************)
OneWorker == \A v, w \in Workers : v = w

(* The event in hand is the last of the audit trail's moves, newer than    *)
(* all the hub was given.                                                  *)
SentBelow ==
  \A w \in Workers : pc[w] = "publish" => \A k \in DOMAIN sent : sent[k] < eventID[w]

OrderedInv == SentBelow /\ SentInOrder

LEMMA OrderedStep ==
  ASSUME OneWorker, TypeOK, SentInv, OrderedInv, [Next]_allVars
  PROVE  OrderedInv'
<1>1. ASSUME NEW w \in Workers, Decide(w) PROVE OrderedInv'
  <2>1. sent' = sent /\ eventID'[w] = Len(events) + 1
    BY <1>1 DEF Decide, NextEventID, TypeOK
  <2>2. \A k \in DOMAIN sent : sent[k] \in Nat /\ sent[k] < Len(events) + 1
    BY DEF SentInv, SentIsCommitted, TypeOK, StoreTypeOK
  <2> QED
    BY <2>1, <2>2 DEF OneWorker, OrderedInv, SentBelow, SentInOrder
<1>2. ASSUME NEW w \in Workers, Publish(w) PROVE OrderedInv'
  <2>1. PICK new \in Nat : new = Len(sent) + 1
    BY DEF TypeOK
  <2>2. /\ DOMAIN sent' = DOMAIN sent \cup {new} /\ \A k \in DOMAIN sent : k \in Nat /\ k < new
        /\ sent'[new] = eventID[w]
        /\ \A k \in DOMAIN sent : sent'[k] = sent[k]
    <3>1. eventID[w] \in Nat /\ sent \in Seq(Nat) /\ sent' = Append(sent, eventID[w])
      BY <1>2 DEF Publish, TypeOK
    <3> QED
      BY <2>1, <3>1, AppendRow
  <2>3. \A k \in DOMAIN sent : sent[k] < eventID[w]
    BY <1>2 DEF Publish, OrderedInv, SentBelow
  <2>4. \A v \in Workers : pc'[v] # "publish"
    BY <1>2 DEF Publish, OneWorker, TypeOK
  <2>5. SentInOrder'
    BY <2>2, <2>3 DEF OrderedInv, SentInOrder
  <2> QED
    BY <2>4, <2>5 DEF OrderedInv, SentBelow
<1>3. CASE UNCHANGED <<sent, eventID>> /\ \A w \in Workers : pc'[w] = "publish" => pc[w] = "publish"
  BY <1>3 DEF OrderedInv, SentBelow, SentInOrder
<1>4. \/ \E w \in Workers : Decide(w) \/ Publish(w)
      \/ UNCHANGED <<sent, eventID>> /\ \A w \in Workers : pc'[w] = "publish" => pc[w] = "publish"
  BY NextCases DEF Arrive, Mark, Observe, Tick, Restart, List, DecideStale, StoreCallFails,
                   Begin, allVars, orchVars, workerVars, TypeOK
<1> QED
  BY <1>1, <1>2, <1>3, <1>4

(* The one worker announces its moves in the order of the audit trail,     *)
(* through failures and restarts: a tab that replays what lies after the   *)
(* last id it saw misses no announcement that was still to come.           *)
THEOREM OneWorkerSendsInOrder ==
  ASSUME OneWorker
  PROVE  Spec => []SentInOrder
<1>1. Init => SentInv /\ OrderedInv
  BY DEF Init, OrchestratorInit, SentInv, ToSendIsCommitted, SentIsCommitted,
         OrderedInv, SentBelow, SentInOrder
<1>2. TypeOK /\ SentInv /\ OrderedInv /\ [Next]_allVars => OrderedInv'
  BY OrderedStep
<1>3. OrderedInv => SentInOrder
  BY DEF OrderedInv
<1> QED
  BY <1>1, <1>2, <1>3, SentStep, TypeInit, TypeStep, PTL DEF Spec
-----------------------------------------------------------------------------
(* What a step does to the states of the incidents and to their moves: one *)
(* arrives, one is moved, or none is touched.                              *)
Arrives(new) ==
  /\ new \in Nat \ {0} /\ DOMAIN incidents' = DOMAIN incidents \cup {new}
  /\ \A i \in DOMAIN incidents : i \in Nat /\ i < new
  /\ incidents'[new].state \in {"received", "filtered"}
  /\ \A i \in DOMAIN incidents : incidents'[i].state = incidents[i].state
  /\ Moves(new)' = {} /\ \A i \in DOMAIN incidents : Moves(i)' = Moves(i)
  /\ UNCHANGED <<fingerprints, orchVars>>

Moved(w) ==
  /\ DOMAIN incidents' = DOMAIN incidents
  /\ incidents[in[w]].state = "received" /\ incidents'[in[w]].state = Verdict(w)
  /\ \A i \in DOMAIN incidents \ {in[w]} : incidents'[i].state = incidents[i].state
  /\ Moves(in[w]) = {} /\ Moves(in[w])' # {}
  /\ \A i \in DOMAIN incidents \ {in[w]} : Moves(i)' = Moves(i)

Untouched ==
  /\ DOMAIN incidents' = DOMAIN incidents
  /\ \A i \in DOMAIN incidents : incidents'[i].state = incidents[i].state /\ Moves(i)' = Moves(i)

LEMMA ArriveEffect ==
  ASSUME TypeOK, AuditInv, NEW r \in Refs, NEW c \in Contents, NEW s \in {"received", "filtered"},
         Arrive(r, c, s)
  PROVE  \E new : Arrives(new)
<1>1. PICK new \in Nat \ {0} : new = Len(incidents) + 1
  BY DEF TypeOK, StoreTypeOK
<1>2. /\ DOMAIN incidents' = DOMAIN incidents \cup {new} /\ incidents'[new].state = s
      /\ \A i \in DOMAIN incidents : i \in Nat /\ i < new
  <2>1. RowsOf(r) = {} /\ IngestIncident(r, c, s) /\ s \in States /\ incidents \in Seq(Incident)
    BY DEF Arrive, TypeOK, StoreTypeOK, States
  <2>2. /\ DOMAIN incidents' = DOMAIN incidents \cup {Len(incidents) + 1}
        /\ incidents'[Len(incidents) + 1].state = s
    BY <2>1, IngestAppends
  <2>3. \A i \in DOMAIN incidents : i \in Nat /\ i < Len(incidents) + 1
    BY <2>1
  <2> QED
    BY <1>1, <2>2, <2>3
<1>3. \A i \in DOMAIN incidents : incidents'[i].state = incidents[i].state
  BY IngestKeeps DEF Arrive, TypeOK, StoreTypeOK, States
<1>4. events' = events
  BY DEF Arrive
<1>5. Moves(new)' = {} /\ \A i \in DOMAIN incidents : Moves(i)' = Moves(i)
  <2>1. new \notin DOMAIN incidents
    BY <1>2
  <2> QED
    BY <1>4, <2>1 DEF AuditInv, EventsHaveIncidents, Moves
<1>6. Arrives(new)
  BY <1>1, <1>2, <1>3, <1>5 DEF Arrives, Arrive
<1> QED
  BY <1>6

LEMMA DecideEffect ==
  ASSUME TypeOK, AuditInv, NEW w \in Workers, Decide(w)
  PROVE  Moved(w)
<1>1. PICK i \in DOMAIN incidents : i = in[w]
  BY InHand DEF Decide
<1>2. PICK to \in States : to = Verdict(w)
  BY DEF Verdict, States
<1>3. /\ incidents \in Seq(Incident) /\ events \in Seq(Event) /\ i \in Nat \ {0}
      /\ "received" \in States /\ Transition(i, "received", to)
  BY <1>1, <1>2 DEF Decide, TypeOK, StoreTypeOK, States
<1>4. /\ DOMAIN incidents' = DOMAIN incidents
      /\ incidents[i].state = "received" /\ incidents'[i].state = to
      /\ \A j \in DOMAIN incidents : j # i => incidents'[j].state = incidents[j].state
  BY <1>3, TransitionMoves
<1>5. PICK new : /\ DOMAIN events' = DOMAIN events \cup {new} /\ new \notin DOMAIN events
                 /\ \A k \in DOMAIN events : events'[k] = events[k]
                 /\ events'[new] = [incident |-> i, kind |-> "state_change",
                                    from |-> "received", to |-> to]
  BY <1>3, TransitionAudits
<1>6. Moves(i) = {} /\ new \in Moves(i)' /\ \A j \in DOMAIN incidents \ {i} : Moves(j)' = Moves(j)
  BY <1>1, <1>4, <1>5 DEF AuditInv, AuditTellsTheMove, Moves
<1>7. in[w] = i /\ Verdict(w) = to /\ in[w]' = in'[w] /\ in' = in
  BY <1>1, <1>2 DEF Decide
<1>8. Moves(in[w])' # {}
  BY <1>6, <1>7 DEF Moves
<1> QED
  BY <1>4, <1>6, <1>7, <1>8 DEF Moved

LEMMA OtherEffect ==
  ASSUME TypeOK, [Next]_allVars,
         ~ \E r \in Refs, c \in Contents, s \in {"received", "filtered"} : Arrive(r, c, s),
         ~ \E w \in Workers : Decide(w)
  PROVE  Untouched
<1>1. ASSUME NEW w \in Workers, Mark(w) PROVE Untouched
  <2>1. in[w] \in DOMAIN incidents /\ FpIn(in[w]) \in Fps
    BY <1>1, InHand DEF Mark
  <2>2. /\ DOMAIN incidents' = DOMAIN incidents
        /\ \A i \in DOMAIN incidents : incidents'[i].state = incidents[i].state
    BY <1>1, <2>1, MarkKeeps DEF Mark, TypeOK, StoreTypeOK
  <2> QED
    BY <1>1, <2>2 DEF Mark, Untouched, Moves
<1>2. \/ \E w \in Workers : Mark(w)
      \/ UNCHANGED <<incidents, events>>
  BY NextCases DEF Tick, List, Begin, Observe, DecideStale, Publish, StoreCallFails,
                   Restart, storeVars, allVars
<1> QED
  BY <1>1, <1>2 DEF Untouched, Moves

-----------------------------------------------------------------------------
(* The order of work. *)
Undecided(w) == pc[w] \in {"mark", "observe", "decide"}

(* What is in hand is the oldest incident still to be decided, what is     *)
(* pending is older than all that is not listed yet, and what is announced *)
(* has been moved.                                                         *)
WorksInOrder ==
  \A w \in Workers :
    /\ Undecided(w) => in[w] \in Received /\ \A j \in Received : in[w] <= j
    /\ Undecided(w) => in[w] \notin pending[w]
    /\ pending[w] \subseteq Received
    /\ \A i \in pending[w], j \in Received \ pending[w] : i < j \/ (Undecided(w) /\ j = in[w])
    /\ pc[w] = "publish" => Moves(in[w]) # {}

LEMMA OldestIsOlder ==
  ASSUME NEW S, S \subseteq Nat, IsFiniteSet(S), NEW i \in Oldest(S), NEW j \in S \ Oldest(S)
  PROVE  i < j
<1> DEFINE Below(k) == {m \in S : m < k}
<1> SUFFICES ASSUME ~(i < j) PROVE FALSE
  OBVIOUS
<1>1. i \in S /\ j \in S /\ i \in Nat /\ j \in Nat /\ j <= i
  BY DEF Oldest
<1>2. Below(j) \subseteq Below(i) /\ Below(i) \subseteq S
  <2> SUFFICES ASSUME NEW m \in S, m < j PROVE m < i
    OBVIOUS
  <2>1. m \in Nat
    OBVIOUS
  <2> QED
    BY <1>1, <2>1
<1>3. IsFiniteSet(Below(i))
  BY <1>2, FS_Subset
<1>4. /\ Cardinality(Below(j)) <= Cardinality(Below(i)) /\ Cardinality(Below(i)) \in Nat
      /\ Cardinality(Below(j)) \in Nat
  BY <1>2, <1>3, FS_Subset, FS_CardinalityType
<1>5. Cardinality(Below(i)) < BatchSize /\ ~(Cardinality(Below(j)) < BatchSize)
  BY <1>1 DEF Oldest
<1> QED
  BY <1>4, <1>5, OrchestratorAssumption

LEMMA ReceivedFinite ==
  ASSUME TypeOK
  PROVE  Received \subseteq Nat /\ IsFiniteSet(Received)
<1>1. DOMAIN incidents = 1..Len(incidents) /\ Len(incidents) \in Nat
  BY DEF TypeOK, StoreTypeOK
<1>2. IsFiniteSet(1..Len(incidents))
  BY <1>1, FS_Interval
<1>3. Received \subseteq 1..Len(incidents)
  BY <1>1 DEF Received
<1>4. IsFiniteSet(Received)
  BY <1>2, <1>3, FS_Subset
<1> QED
  BY <1>1, <1>3, <1>4

LEMMA NoFaultCases ==
  ASSUME TypeOK, [Next]_allVars, faults' = 0
  PROVE  /\ faults = 0
         /\ \A w \in Workers : ~StoreCallFails(w)
         /\ ~Restart
  BY NextCases DEF Tick, Arrive, List, Begin, Mark, Observe, Decide, DecideStale, Publish,
                   StoreCallFails, Restart, Fault, orchVars, allVars, TypeOK

LEMMA OrderOfWork ==
  ASSUME OneWorker, TypeOK, TypeOK', AuditInv, WorksInOrder, [Next]_allVars, faults' = 0
  PROVE  WorksInOrder'
<1>0. Received \subseteq Nat /\ Received \subseteq DOMAIN incidents
  BY ReceivedFinite DEF Received
<1>1. ASSUME NEW r \in Refs, NEW c \in Contents, NEW s \in {"received", "filtered"},
             Arrive(r, c, s)
      PROVE  WorksInOrder'
  <2>1. PICK new : Arrives(new)
    BY <1>1, ArriveEffect
  <2>2. Received' \subseteq Received \cup {new} /\ Received \subseteq Received'
    BY <2>1 DEF Arrives, Received
  <2>3. UNCHANGED <<pc, in, pending>> /\ \A i \in Received : i < new /\ i # new
    BY <1>0, <2>1 DEF Arrives, orchVars, workerVars
  <2>4. \A w \in Workers : pc[w] # "next" => in[w] \in DOMAIN incidents
    BY DEF TypeOK
  <2>5. \A i \in DOMAIN incidents : Moves(i)' = Moves(i)
    BY <2>1 DEF Arrives
  <2>6. ASSUME NEW w \in Workers, pc'[w] = "publish" PROVE Moves(in[w])' # {}
    <3>1. PICK i \in DOMAIN incidents : i = in[w]
      BY <2>3, <2>4, <2>6
    <3>2. Moves(i)' # {}
      BY <2>3, <2>5, <2>6, <3>1 DEF WorksInOrder
    <3> QED
      BY <2>3, <3>1, <3>2 DEF Moves
  <2>7. \A w \in Workers : pending'[w] = pending[w] /\ in'[w] = in[w] /\ (Undecided(w)' <=> Undecided(w))
    BY <2>3 DEF Undecided
  <2>8. ASSUME NEW w \in Workers
        PROVE  /\ Undecided(w) => in[w] \in Received' /\ \A j \in Received' : in[w] <= j
               /\ Undecided(w) => in[w] \notin pending[w]
               /\ pending[w] \subseteq Received'
               /\ \A i \in pending[w], j \in Received' \ pending[w] :
                    i < j \/ (Undecided(w) /\ j = in[w])
    <3>1. /\ Undecided(w) => in[w] \in Received /\ \A j \in Received : in[w] <= j
          /\ Undecided(w) => in[w] \notin pending[w]
          /\ pending[w] \subseteq Received
          /\ \A i \in pending[w], j \in Received \ pending[w] :
               i < j \/ (Undecided(w) /\ j = in[w])
      BY DEF WorksInOrder
    <3>2. \A i \in Received : i < new /\ i <= new
      <4>1. new \in Nat
        BY <2>1 DEF Arrives
      <4> QED
        BY <1>0, <2>3, <4>1
    <3> QED
      BY <2>2, <3>1, <3>2
  <2> QED
    BY <2>6, <2>7, <2>8 DEF WorksInOrder
<1>2. ASSUME NEW w \in Workers, Decide(w) PROVE WorksInOrder'
  <2>1. Moved(w) /\ UNCHANGED <<in, pending>> /\ pc' = [pc EXCEPT ![w] = "publish"]
    BY <1>2, DecideEffect DEF Decide
  <2>2. PICK i \in DOMAIN incidents : i = in[w]
    BY <1>2, InHand DEF Decide
  <2>3. Verdict(w) # "received"
    BY DEF Verdict
  <2>4. Received' = Received \ {i}
    BY <2>1, <2>2, <2>3 DEF Moved, Received
  <2>5. Moves(in[w])' # {}
    BY <2>1 DEF Moved
  <2>6. Workers = {w} /\ pc'[w] = "publish"
    BY <2>1 DEF OneWorker, TypeOK
  <2>7. Undecided(w) /\ i \notin pending[w] /\ pending[w] \subseteq Received
    BY <1>2, <2>2 DEF Decide, Undecided, WorksInOrder
  <2> QED
    BY <2>1, <2>2, <2>4, <2>5, <2>6, <2>7 DEF WorksInOrder, Undecided
<1>3. CASE Untouched
  <2>1. Received' = Received
    BY <1>3 DEF Untouched, Received
  <2>2. \A i \in DOMAIN incidents : Moves(i)' = Moves(i)
    BY <1>3 DEF Untouched
  <2>3. ASSUME NEW w \in Workers, List(w) PROVE WorksInOrder'
    <3>1. /\ Workers = {w} /\ pc' = pc /\ in' = in /\ pc[w] = "next"
          /\ pending'[w] = Oldest(Received) /\ Oldest(Received) \subseteq Received
      BY <2>3 DEF List, OneWorker, TypeOK, Oldest
    <3>2. \A i \in Oldest(Received), j \in Received \ Oldest(Received) : i < j
      BY ReceivedFinite, OldestIsOlder
    <3> QED
      BY <2>1, <3>1, <3>2 DEF WorksInOrder, Undecided
  <2>4. ASSUME NEW w \in Workers, NEW q \in Quarantine, Begin(w, q) PROVE WorksInOrder'
    <3>1. PICK i \in pending[w] :
            /\ \A j \in pending[w] : i <= j
            /\ in' = [in EXCEPT ![w] = i]
            /\ pending' = [pending EXCEPT ![w] = @ \ {i}]
      BY <2>4 DEF Begin
    <3>2. /\ Workers = {w} /\ pc[w] = "next" /\ pc'[w] = "mark"
          /\ in'[w] = i /\ pending'[w] = pending[w] \ {i}
      BY <2>4, <3>1 DEF Begin, OneWorker, TypeOK
    <3>3. /\ pending[w] \subseteq Received /\ i \in Received
          /\ \A j \in Received \ pending[w] : \A k \in pending[w] : k < j
      BY <3>2 DEF WorksInOrder, Undecided
    <3>4. \A j \in Received : i <= j
      BY <1>0, <3>1, <3>3
    <3>5. \A k \in pending'[w], j \in Received \ pending'[w] : k < j \/ j = i
      BY <1>0, <3>2, <3>3
    <3> QED
      BY <2>1, <3>2, <3>3, <3>4, <3>5 DEF WorksInOrder, Undecided
  <2>5. ASSUME NEW w \in Workers, Mark(w) \/ Observe(w) PROVE WorksInOrder'
    <3>1. /\ Workers = {w} /\ Undecided(w) /\ Undecided(w)' /\ pc'[w] # "publish"
          /\ in' = in /\ pending' = pending
      BY <2>5 DEF Mark, Observe, OneWorker, TypeOK, Undecided
    <3> QED
      BY <2>1, <3>1 DEF WorksInOrder
  <2>6. ASSUME NEW w \in Workers, DecideStale(w) PROVE WorksInOrder'
    BY <2>6 DEF DecideStale, Matches, WorksInOrder, Undecided, Received
  <2>7. ASSUME NEW w \in Workers, Publish(w) PROVE WorksInOrder'
    <3>1. /\ Workers = {w} /\ pc[w] = "publish" /\ pc'[w] = "next"
          /\ in' = in /\ pending' = pending
      BY <2>7 DEF Publish, OneWorker, TypeOK
    <3> QED
      BY <2>1, <3>1 DEF WorksInOrder, Undecided
  <2>8. CASE Tick \/ UNCHANGED allVars
    <3>1. UNCHANGED <<pc, in, pending, events>>
      BY <2>8 DEF Tick, allVars, orchVars, workerVars, storeVars
    <3> QED
      BY <2>1, <3>1 DEF WorksInOrder, Undecided, Moves
  <2> QED
    BY <1>1, <1>2, <2>3, <2>4, <2>5, <2>6, <2>7, <2>8, NextCases, NoFaultCases
<1> QED
  BY <1>1, <1>2, <1>3, OtherEffect
-----------------------------------------------------------------------------
(* The sightings.  Under the one worker an incident is sighted once it is  *)
(* moved, and while it waits for the verdict.                              *)
Seen(i) == Moves(i) # {} \/ \E w \in Workers : pc[w] = "decide" /\ in[w] = i

LEMMA SightedIs ==
  ASSUME TypeOK, WorksInOrder
  PROVE  \A f : Sighted(f) = {i \in DOMAIN incidents : FpIn(i) = f /\ Seen(i)}
<1>1. \A w \in Workers : pc[w] \in {"decide", "publish"} => in[w] \in DOMAIN incidents /\ Seen(in[w])
  BY DEF TypeOK, WorksInOrder, Seen
<1> QED
  BY <1>1 DEF Sighted, Seen

(* Only Observe sights an incident, one that was not sighted before. *)
SeesOne(w) ==
  /\ Observe(w) /\ ~Seen(in[w])
  /\ DOMAIN incidents' = DOMAIN incidents /\ \A i : Seen(i)' <=> Seen(i) \/ i = in[w]

SeesNone ==
  /\ UNCHANGED <<fingerprints, openings>>
  /\ \A i \in DOMAIN incidents' : Seen(i)' <=> Seen(i)
  /\ \A i \in DOMAIN incidents' \ DOMAIN incidents : ~Seen(i)

LEMMA SeenStep ==
  ASSUME OneWorker, TypeOK, AuditInv, WorksInOrder, [Next]_allVars, faults' = 0
  PROVE  SeesNone \/ \E w \in Workers : SeesOne(w)
<1>1. ASSUME NEW r \in Refs, NEW c \in Contents, NEW s \in {"received", "filtered"},
             Arrive(r, c, s)
      PROVE  SeesNone
  <2>1. PICK new : Arrives(new)
    BY <1>1, ArriveEffect
  <2>2. /\ DOMAIN incidents' = DOMAIN incidents \cup {new} /\ new \notin DOMAIN incidents
        /\ UNCHANGED <<fingerprints, openings, pc, in, events>>
    BY <1>1, <2>1 DEF Arrives, Arrive, orchVars, workerVars
  <2>3. \A w \in Workers : pc[w] = "decide" => in[w] # new
    BY <2>2 DEF TypeOK
  <2>4. \A k \in DOMAIN events : events[k].incident # new
    BY <2>2 DEF AuditInv, EventsHaveIncidents
  <2>5. ~Seen(new)
    BY <2>3, <2>4 DEF Seen, Moves
  <2>6. \A i : Seen(i)' <=> Seen(i)
    BY <2>2 DEF Seen, Moves
  <2> QED
    BY <2>2, <2>5, <2>6 DEF SeesNone
<1>2. ASSUME NEW w \in Workers, Decide(w) PROVE SeesNone
  <2>1. Moved(w) /\ in' = in /\ pc[w] = "decide" /\ pc' = [pc EXCEPT ![w] = "publish"]
    BY <1>2, DecideEffect DEF Decide
  <2>2. PICK i \in DOMAIN incidents : i = in[w]
    BY <1>2, InHand DEF Decide
  <2>3. Moves(i)' # {} /\ in'[w] = i
    BY <2>1, <2>2 DEF Moved, Moves
  <2>4. Workers = {w} /\ pc'[w] = "publish"
    BY <2>1 DEF OneWorker, TypeOK
  <2>5. Seen(i) /\ Seen(i)'
    BY <2>1, <2>2, <2>3 DEF Seen
  <2>6. \A j \in DOMAIN incidents \ {i} : Seen(j)' <=> Seen(j)
    BY <2>1, <2>2, <2>3, <2>4 DEF Moved, Seen
  <2>7. DOMAIN incidents' = DOMAIN incidents /\ UNCHANGED <<fingerprints, openings>>
    BY <1>2, <2>1 DEF Decide, Moved
  <2> QED
    BY <2>5, <2>6, <2>7 DEF SeesNone
<1>3. CASE Untouched
  <2>1. /\ DOMAIN incidents' = DOMAIN incidents
        /\ \A i \in DOMAIN incidents : Moves(i)' = Moves(i)
    BY <1>3 DEF Untouched
  <2>2. ASSUME NEW w \in Workers, Observe(w) PROVE SeesOne(w)
    <3>1. PICK i \in DOMAIN incidents : i = in[w]
      BY <2>2, InHand DEF Observe
    <3>2. /\ in' = in /\ events' = events /\ pc[w] = "observe"
          /\ pc' = [pc EXCEPT ![w] = "decide"]
      BY <2>2 DEF Observe
    <3>3. Workers = {w} /\ pc'[w] = "decide"
      BY <3>2 DEF OneWorker, TypeOK
    <3>4. incidents[i].state = "received"
      BY <3>1, <3>2 DEF WorksInOrder, Undecided, Received
    <3>5. Moves(i) = {}
      BY <3>4 DEF AuditInv, AuditTellsTheMove
    <3>6. ~Seen(i)
      BY <3>2, <3>3, <3>5 DEF Seen
    <3>7. \A j : Seen(j)' <=> Seen(j) \/ j = i
      BY <3>1, <3>2, <3>3 DEF Seen, Moves
    <3> QED
      BY <2>1, <2>2, <3>1, <3>6, <3>7 DEF SeesOne
  <2>3. ASSUME UNCHANGED <<fingerprints, openings>>,
               \A w \in Workers : pc'[w] = "decide" <=> pc[w] = "decide",
               \A w \in Workers : pc[w] = "decide" => in'[w] = in[w]
        PROVE  SeesNone
    BY <2>1, <2>3 DEF SeesNone, Seen
  <2>4. ASSUME NEW w \in Workers, DecideStale(w) PROVE FALSE
    BY <2>4 DEF DecideStale, Matches, WorksInOrder, Undecided, Received
  <2>5. ASSUME NEW w \in Workers, NEW q \in Quarantine, Begin(w, q) PROVE SeesNone
    <3>1. /\ UNCHANGED <<fingerprints, openings>> /\ pc[w] = "next"
          /\ pc' = [pc EXCEPT ![w] = "mark"]
          /\ \E i : in' = [in EXCEPT ![w] = i]
      BY <2>5 DEF Begin, storeVars
    <3> QED
      BY <2>3, <3>1 DEF TypeOK
  <2>6. ASSUME NEW w \in Workers, List(w) \/ Mark(w) \/ Publish(w) PROVE SeesNone
    BY <2>3, <2>6 DEF List, Mark, Publish, storeVars, TypeOK
  <2>7. CASE Tick \/ UNCHANGED allVars
    BY <2>3, <2>7 DEF Tick, allVars, orchVars, workerVars, storeVars
  <2>8. ASSUME NEW w \in Workers, Decide(w) PROVE SeesNone
    BY <1>2, <2>8
  <2> QED
    BY <1>1, <2>2, <2>4, <2>5, <2>6, <2>7, <2>8, NextCases, NoFaultCases
<1> QED
  BY <1>1, <1>2, <1>3, OtherEffect

(* The sightings of each fingerprint after a step. *)
LEMMA SightedStep ==
  ASSUME OneWorker, TypeOK, TypeOK', AuditInv, WorksInOrder, WorksInOrder',
         [Next]_allVars, faults' = 0
  PROVE  \/ /\ UNCHANGED <<fingerprints, openings>>
            /\ \A f : Sighted(f)' = Sighted(f)
         \/ \E w \in Workers, i \in Received, f \in Fps :
              /\ Observe(w) /\ i = in[w] /\ f = FpIn(i)
              /\ i \notin Sighted(f) /\ Sighted(f)' = Sighted(f) \cup {i}
              /\ \A g : g # f => Sighted(g)' = Sighted(g)
<1>1. \A f : Sighted(f) = {i \in DOMAIN incidents : FpIn(i) = f /\ Seen(i)}
  BY SightedIs
<1>2. \A f : Sighted(f)' = {i \in DOMAIN incidents' : FpIn(i)' = f /\ Seen(i)'}
  <2>1. \A w \in Workers : pc'[w] \in {"decide", "publish"}
                             => in'[w] \in DOMAIN incidents' /\ Seen(in[w])'
    BY DEF TypeOK, WorksInOrder, Seen
  <2> QED
    BY <2>1 DEF Sighted, Seen
<1>3. DOMAIN incidents \subseteq DOMAIN incidents' /\ \A i \in DOMAIN incidents : FpIn(i)' = FpIn(i)
  BY FpKept
<1>4. CASE SeesNone
  BY <1>1, <1>2, <1>3, <1>4 DEF SeesNone
<1>5. ASSUME NEW w \in Workers, SeesOne(w)
      PROVE  \E i \in Received, f \in Fps :
               /\ Observe(w) /\ i = in[w] /\ f = FpIn(i)
               /\ i \notin Sighted(f) /\ Sighted(f)' = Sighted(f) \cup {i}
               /\ \A g : g # f => Sighted(g)' = Sighted(g)
  <2>1. Observe(w) /\ in[w] \in Received
    BY <1>5 DEF SeesOne, Observe, WorksInOrder, Undecided
  <2>2. PICK i \in Received : i = in[w]
    BY <2>1
  <2>3. i \in DOMAIN incidents
    BY DEF Received
  <2>4. PICK f \in Fps : f = FpIn(i)
    BY <2>1, <2>2, InHand DEF Observe
  <2>5. /\ DOMAIN incidents' = DOMAIN incidents /\ ~Seen(i)
        /\ \A j : Seen(j)' <=> Seen(j) \/ j = i
    BY <1>5, <2>2 DEF SeesOne
  <2>6. /\ i \notin Sighted(f) /\ Sighted(f)' = Sighted(f) \cup {i}
        /\ \A g : g # f => Sighted(g)' = Sighted(g)
    BY <1>1, <1>2, <1>3, <2>3, <2>4, <2>5
  <2> QED
    BY <2>1, <2>2, <2>4, <2>6
<1> QED
  BY <1>4, <1>5, SeenStep DEF SeesNone

LEMMA ReceivedStep ==
  ASSUME TypeOK, AuditInv, [Next]_allVars
  PROVE  \A i \in Received' : i \in Nat /\ (i \in Received \/ \A j \in DOMAIN incidents : j < i)
<1>0. Received \subseteq Nat
  BY ReceivedFinite
<1>1. ASSUME NEW new, Arrives(new)
      PROVE  \A i \in Received' : i \in Nat /\ (i \in Received \/ \A j \in DOMAIN incidents : j < i)
  BY <1>1 DEF Arrives, Received
<1>2. ASSUME NEW w \in Workers, Moved(w) PROVE Received' \subseteq Received
  <2>1. Verdict(w) # "received"
    BY DEF Verdict
  <2> QED
    BY <1>2, <2>1 DEF Moved, Received
<1>3. CASE Untouched
  BY <1>0, <1>3 DEF Untouched, Received
<1> QED
  BY <1>0, <1>1, <1>2, <1>3, ArriveEffect, DecideEffect, OtherEffect

(* Every sighting is counted, an opening is a sighting, and no incident    *)
(* sighted, or still to be processed, is older than the canonical one.     *)
SightingsOf(f) ==
  /\ fingerprints[f].total = Cardinality(Sighted(f))
  /\ fingerprints[f].total > 0 =>
       /\ \E a \in openings : a.fp = f
       /\ fingerprints[f].first \in DOMAIN incidents
       /\ \A i \in Received \cup Sighted(f) : fingerprints[f].first <= i

Sightings ==
  /\ \A f \in Fps : SightingsOf(f)
  /\ \A a \in openings : a.incident \in Sighted(a.fp)

LEMMA SightedIsFinite ==
  ASSUME TypeOK
  PROVE  \A f \in Fps : Sighted(f) \subseteq DOMAIN incidents /\ IsFiniteSet(Sighted(f))
<1> SUFFICES ASSUME NEW f \in Fps
             PROVE  Sighted(f) \subseteq DOMAIN incidents /\ IsFiniteSet(Sighted(f))
  OBVIOUS
<1>1. DOMAIN incidents = 1..Len(incidents) /\ Len(incidents) \in Nat
  BY DEF TypeOK, StoreTypeOK
<1>2. Sighted(f) \subseteq 1..Len(incidents)
  BY <1>1 DEF Sighted, TypeOK
<1>3. IsFiniteSet(1..Len(incidents))
  BY <1>1, FS_Interval
<1> QED
  BY <1>1, <1>2, <1>3, FS_Subset

LEMMA SightingsStep ==
  ASSUME OneWorker, TypeOK, TypeOK', AuditInv, WorksInOrder, WorksInOrder', Sightings,
         [Next]_allVars, faults' = 0
  PROVE  Sightings'
<1>0. DOMAIN incidents \subseteq DOMAIN incidents'
  BY FpKept
<1>1. \A f \in Fps : fingerprints[f].total \in Nat /\ fingerprints[f].first \in Nat
  BY DEF TypeOK, StoreTypeOK, Fingerprint
<1>2. CASE UNCHANGED <<fingerprints, openings>> /\ \A f : Sighted(f)' = Sighted(f)
  <2>1. ASSUME NEW f \in Fps PROVE SightingsOf(f)'
    <3>1. SightingsOf(f)
      BY DEF Sightings
    <3>2. fingerprints'[f] = fingerprints[f] /\ openings' = openings /\ Sighted(f)' = Sighted(f)
      BY <1>2
    <3>3. ASSUME fingerprints[f].total > 0, NEW i \in Received' \cup Sighted(f)
          PROVE  fingerprints[f].first <= i
      <4>1. CASE i \in Received \cup Sighted(f)
        BY <3>1, <3>3, <4>1 DEF SightingsOf
      <4>2. CASE \A j \in DOMAIN incidents : j < i
        <5>1. fingerprints[f].first \in DOMAIN incidents
          BY <3>1, <3>3 DEF SightingsOf
        <5>2. fingerprints[f].first < i
          BY <4>2, <5>1
        <5>3. CASE i \in Sighted(f)
          BY <3>1, <3>3, <5>3 DEF SightingsOf
        <5>4. CASE i \in Received'
          <6>1. i \in Nat
            BY <5>4, ReceivedStep
          <6> QED
            BY <1>1, <5>2, <6>1
        <5> QED
          BY <3>3, <5>3, <5>4
      <4> QED
        BY <3>3, <4>1, <4>2, ReceivedStep
    <3> QED
      BY <1>0, <3>1, <3>2, <3>3 DEF SightingsOf
  <2> QED
    BY <1>2, <2>1 DEF Sightings
<1>3. ASSUME NEW w \in Workers, NEW i \in Received, NEW f \in Fps,
             Observe(w), i = in[w], f = FpIn(i),
             i \notin Sighted(f), Sighted(f)' = Sighted(f) \cup {i},
             \A g : g # f => Sighted(g)' = Sighted(g)
      PROVE  Sightings'
  <2>1. i \in DOMAIN incidents /\ i \in Nat \ {0} /\ \A j \in Received : i <= j
    <3>1. pc[w] = "observe"
      BY <1>3 DEF Observe
    <3> QED
      BY <1>3, <3>1, InHand DEF WorksInOrder, Undecided
  <2>2. PICK t \in Nat : t = now[w]
    BY DEF TypeOK
  <2>3. /\ ObserveFingerprint(f, i, t) /\ incidents' = incidents
        /\ openings' = IF InWindow(f, t) THEN openings
                       ELSE openings \cup {[fp |-> f, incident |-> i, at |-> t]}
    BY <1>3, <2>2 DEF Observe
  <2>4. Received' = Received
    BY <2>3 DEF Received
  <2>5. /\ fingerprints'[f].total = fingerprints[f].total + 1
        /\ fingerprints'[f].first = IF fingerprints[f].total = 0 THEN i ELSE fingerprints[f].first
        /\ \A g \in Fps : g # f => fingerprints'[g] = fingerprints[g]
    BY <2>1, <2>3, ObserveOpens, ObserveFirst DEF TypeOK, StoreTypeOK
  <2>6. \A a \in openings : a.fp \in Fps /\ a.incident \in Sighted(a.fp)
    BY DEF Sightings, TypeOK, Opening
  <2>7. \A a \in openings' : a.incident \in Sighted(a.fp)'
    <3> SUFFICES ASSUME NEW a \in openings' PROVE a.incident \in Sighted(a.fp)'
      OBVIOUS
    <3>1. CASE a \in openings
      BY <1>3, <2>6, <3>1
    <3>2. CASE a = [fp |-> f, incident |-> i, at |-> t]
      BY <1>3, <3>2
    <3> QED
      BY <2>3, <3>1, <3>2
  <2>8. ASSUME NEW g \in Fps, g # f PROVE SightingsOf(g)'
    <3>1. SightingsOf(g) /\ Sighted(g)' = Sighted(g) /\ fingerprints'[g] = fingerprints[g]
      BY <1>3, <2>5, <2>8 DEF Sightings
    <3>2. openings \subseteq openings'
      BY <2>3
    <3> QED
      BY <2>3, <2>4, <3>1, <3>2 DEF SightingsOf
  <2>9. SightingsOf(f)'
    <3>1. SightingsOf(f)
      BY DEF Sightings
    <3>2. Cardinality(Sighted(f)') = Cardinality(Sighted(f)) + 1
      <4>1. IsFiniteSet(Sighted(f))
        BY SightedIsFinite
      <4> QED
        BY <1>3, <4>1, FS_AddElement
    <3>3. \E a \in openings' : a.fp = f
      <4>1. CASE InWindow(f, t)
        BY <2>3, <3>1, <4>1 DEF InWindow, SightingsOf
      <4>2. CASE ~InWindow(f, t)
        <5>1. [fp |-> f, incident |-> i, at |-> t] \in openings'
          BY <2>3, <4>2
        <5> QED
          BY <5>1
      <4> QED
        BY <4>1, <4>2
    <3>4. /\ fingerprints'[f].first \in DOMAIN incidents
          /\ \A j \in Received \cup Sighted(f) \cup {i} : fingerprints'[f].first <= j
      <4>1. CASE fingerprints[f].total = 0
        <5>1. Sighted(f) = {}
          BY <3>1, <4>1, SightedIsFinite, FS_EmptySet DEF SightingsOf
        <5> QED
          BY <2>1, <2>5, <4>1, <5>1
      <4>2. CASE fingerprints[f].total # 0
        <5>1. fingerprints[f].total > 0
          BY <1>1, <4>2
        <5> QED
          BY <2>5, <3>1, <4>2, <5>1 DEF SightingsOf
      <4> QED
        BY <4>1, <4>2
    <3> QED
      BY <1>3, <2>3, <2>4, <2>5, <3>1, <3>2, <3>3, <3>4 DEF SightingsOf
  <2> QED
    BY <2>7, <2>8, <2>9 DEF Sightings
<1> QED
  BY <1>2, <1>3, SightedStep

(* What is to be suppressed has another incident of its fingerprint that   *)
(* opened the window.                                                      *)
Opener(i) == \E a \in openings : a.fp = FpIn(i) /\ a.incident # i

SuppressionHasOpener ==
  /\ \A w \in Workers : pc[w] = "decide" /\ suppressed[w] => Opener(in[w])
  /\ SuppressedByAnother

LEMMA SuppressionStep ==
  ASSUME OneWorker, TypeOK, TypeOK', AuditInv, WorksInOrder, WorksInOrder', Sightings,
         SuppressionHasOpener, [Next]_allVars, faults' = 0
  PROVE  SuppressionHasOpener'
<1>1. openings \subseteq openings'
  BY NextCases DEF Tick, Arrive, List, Begin, Mark, Observe, Decide, DecideStale, Publish,
                   StoreCallFails, Restart, orchVars, allVars
<1>2. /\ DOMAIN incidents \subseteq DOMAIN incidents'
      /\ \A i \in DOMAIN incidents : FpIn(i)' = FpIn(i)
  BY FpKept
<1>3. \A i \in DOMAIN incidents : Opener(i) => Opener(i)'
  BY <1>1, <1>2 DEF Opener
<1>4. ASSUME NEW i \in DOMAIN incidents', incidents'[i].state = "suppressed" PROVE Opener(i)'
  <2>1. ASSUME NEW new, Arrives(new) PROVE Opener(i)'
    <3>1. i \in DOMAIN incidents /\ incidents[i].state = "suppressed"
      BY <1>4, <2>1 DEF Arrives
    <3> QED
      BY <1>3, <3>1 DEF SuppressionHasOpener, SuppressedByAnother, Opener
  <2>2. ASSUME NEW w \in Workers, Decide(w) PROVE Opener(i)'
    <3>1. Moved(w) /\ pc[w] = "decide"
      BY <2>2, DecideEffect DEF Decide
    <3>2. i \in DOMAIN incidents
      BY <1>4, <3>1 DEF Moved
    <3>3. CASE i = in[w]
      <4>1. suppressed[w]
        BY <1>4, <3>1, <3>3 DEF Moved, Verdict
      <4> QED
        BY <1>3, <3>1, <3>2, <3>3, <4>1 DEF SuppressionHasOpener
    <3>4. CASE i # in[w]
      <4>1. incidents[i].state = "suppressed"
        BY <1>4, <3>1, <3>2, <3>4 DEF Moved
      <4> QED
        BY <1>3, <3>2, <4>1 DEF SuppressionHasOpener, SuppressedByAnother, Opener
    <3> QED
      BY <3>3, <3>4
  <2>3. CASE Untouched
    <3>1. i \in DOMAIN incidents /\ incidents[i].state = "suppressed"
      BY <1>4, <2>3 DEF Untouched
    <3> QED
      BY <1>3, <3>1 DEF SuppressionHasOpener, SuppressedByAnother, Opener
  <2> QED
    BY <2>1, <2>2, <2>3, ArriveEffect, OtherEffect
<1>5. ASSUME NEW w \in Workers, pc'[w] = "decide", suppressed'[w] PROVE Opener(in[w])'
  <2>1. CASE Observe(w)
    <3>1. PICK i \in Received : i = in[w]
      BY <2>1 DEF Observe, WorksInOrder, Undecided
    <3>2. PICK f \in Fps : f = FpIn(i)
      BY <2>1, <3>1, InHand DEF Observe
    <3>3. InWindow(f, now[w]) /\ in'[w] = i /\ openings' = openings
      BY <1>5, <2>1, <3>1, <3>2 DEF Observe, TypeOK
    <3>4. PICK a \in openings : a.fp = f /\ a.incident \in Sighted(f)
      BY <3>3 DEF InWindow, Sightings, SightingsOf
    <3>5. i \notin Sighted(f)
      <4>1. pc[w] = "observe" /\ Workers = {w} /\ i \in DOMAIN incidents
        BY <2>1, <3>1 DEF Observe, OneWorker, Received
      <4>2. Moves(i) = {}
        BY <3>1 DEF Received, AuditInv, AuditTellsTheMove
      <4>3. ~Seen(i)
        BY <4>1, <4>2 DEF Seen
      <4> QED
        BY <4>3, SightedIs
    <3>6. i \in DOMAIN incidents /\ Opener(i)
      BY <3>1, <3>2, <3>4, <3>5 DEF Opener, Received
    <3>7. Opener(i)'
      BY <1>3, <3>6
    <3> QED
      BY <3>3, <3>7 DEF Opener, FpIn
  <2>2. CASE ~Observe(w)
    <3>1. pc[w] = "decide" /\ suppressed[w] /\ in'[w] = in[w]
      <4>1. \A v \in Workers : v = w
        BY DEF OneWorker
      <4> QED
        BY <1>5, <2>2, <4>1, NextCases
           DEF Tick, Arrive, List, Begin, Mark, Decide, DecideStale, Publish, StoreCallFails,
               Restart, orchVars, workerVars, allVars, TypeOK
    <3>2. PICK i \in DOMAIN incidents : i = in[w]
      BY <3>1, InHand
    <3>3. Opener(i)'
      BY <1>3, <3>1, <3>2 DEF SuppressionHasOpener
    <3> QED
      BY <3>1, <3>2, <3>3 DEF Opener, FpIn
  <2> QED
    BY <2>1, <2>2
<1> QED
  BY <1>4, <1>5 DEF SuppressionHasOpener, SuppressedByAnother, Opener

(* While nothing has failed, the one worker's order of work gives every    *)
(* fingerprint the books the runs check.                                   *)
InOrderInv == faults = 0 => WorksInOrder /\ Sightings /\ SuppressionHasOpener

LEMMA InOrderInit == Init => InOrderInv
<1> SUFFICES ASSUME Init PROVE WorksInOrder /\ Sightings /\ SuppressionHasOpener
  BY DEF InOrderInv
<1>1. /\ DOMAIN incidents = {} /\ openings = {}
      /\ \A w \in Workers : pc[w] = "next" /\ pending[w] = {}
      /\ \A f \in Fps : fingerprints[f].total = 0
  BY DEF Init, StoreInit, OrchestratorInit
<1>2. \A f : Sighted(f) = {}
  BY <1>1 DEF Sighted
<1>3. \A f \in Fps : SightingsOf(f)
  <2> SUFFICES ASSUME NEW f \in Fps PROVE SightingsOf(f)
    OBVIOUS
  <2>1. Cardinality(Sighted(f)) = 0
    BY <1>2, FS_EmptySet
  <2>2. fingerprints[f].total = 0 /\ ~(fingerprints[f].total > 0)
    BY <1>1
  <2> QED
    BY <2>1, <2>2 DEF SightingsOf
<1>4. WorksInOrder
  BY <1>1 DEF WorksInOrder, Undecided
<1> QED
  BY <1>1, <1>3, <1>4 DEF Sightings, SuppressionHasOpener, SuppressedByAnother

LEMMA InOrderStep ==
  ASSUME OneWorker, TypeOK, TypeOK', AuditInv, InOrderInv, [Next]_allVars
  PROVE  InOrderInv'
<1> SUFFICES ASSUME faults' = 0
             PROVE  (WorksInOrder /\ Sightings /\ SuppressionHasOpener)'
  BY DEF InOrderInv
<1>1. WorksInOrder /\ Sightings /\ SuppressionHasOpener
  BY NoFaultCases DEF InOrderInv
<1>2. WorksInOrder'
  BY <1>1, OrderOfWork
<1> QED
  BY <1>1, <1>2, SightingsStep, SuppressionStep

LEMMA InOrderHolds ==
  ASSUME OneWorker
  PROVE  Spec => [](TypeOK /\ AuditInv /\ InOrderInv)
<1>1. Init => AuditInv
  BY DEF Init, StoreInit, AuditInv, AuditTellsTheMove, EventsHaveIncidents
<1>2. TypeOK /\ AuditInv /\ InOrderInv /\ [Next]_allVars => TypeOK' /\ AuditInv' /\ InOrderInv'
  BY TypeStep, AuditStep, InOrderStep
<1> QED
  BY <1>1, <1>2, TypeInit, InOrderInit, PTL DEF Spec

(* A fingerprint's total counts its sightings: as many as the incidents    *)
(* that were processed, none twice and none left out.                      *)
THEOREM TotalIsExact ==
  ASSUME OneWorker
  PROVE  Spec => []TotalCountsSightings
<1>1. InOrderInv => TotalCountsSightings
  BY DEF InOrderInv, Sightings, SightingsOf, TotalCountsSightings
<1> QED
  BY <1>1, InOrderHolds, PTL

(* Nothing is suppressed for itself: a suppressed incident has another of  *)
(* its fingerprint, the one that opened the window.                        *)
THEOREM NothingSuppressesItself ==
  ASSUME OneWorker
  PROVE  Spec => []SuppressedByAnotherUnlessFaults
<1>1. InOrderInv => SuppressedByAnotherUnlessFaults
  BY DEF InOrderInv, SuppressionHasOpener, SuppressedByAnotherUnlessFaults
<1> QED
  BY <1>1, InOrderHolds, PTL

(* The earliest occurrence of a bug is its canonical incident: an older    *)
(* one with the same fingerprint was never processed, it was unroutable.   *)
THEOREM EarliestIsCanonical ==
  ASSUME OneWorker
  PROVE  Spec => []CanonicalIsEarliestUnlessFaults
<1>1. ASSUME TypeOK, AuditInv, InOrderInv, faults = 0,
             NEW f \in Fps, fingerprints[f].total > 0,
             NEW i \in 1..(fingerprints[f].first - 1), FpIn(i) = f
      PROVE  Moves(i) = {} /\ incidents[i].state = "filtered"
  <2>1. /\ fingerprints[f].first \in DOMAIN incidents
        /\ \A j \in Received \cup Sighted(f) : fingerprints[f].first <= j
    BY <1>1 DEF InOrderInv, Sightings, SightingsOf
  <2>2. incidents \in Seq(Incident) /\ fingerprints[f].first \in Nat
    BY <1>1 DEF TypeOK, StoreTypeOK, Fingerprint
  <2>3. i \in DOMAIN incidents /\ i \notin Received \cup Sighted(f)
    BY <2>1, <2>2
  <2>4. incidents[i] \in Incident
    BY <2>2, <2>3
  <2>5. Moves(i) = {} /\ incidents[i].state # "received"
    BY <1>1, <2>3 DEF Sighted, Received
  <2>6. incidents[i].state \in States
    BY <2>4 DEF Incident
  <2> QED
    BY <1>1, <2>3, <2>5, <2>6 DEF States, AuditInv, AuditTellsTheMove
<1>2. TypeOK /\ AuditInv /\ InOrderInv => CanonicalIsEarliestUnlessFaults
  BY <1>1 DEF CanonicalIsEarliestUnlessFaults, CanonicalIsEarliest
<1> QED
  BY <1>2, InOrderHolds, PTL
=============================================================================
