---------------------------- MODULE Store_proofs ----------------------------
(* What each statement of the store leaves true, for any tables. *)
EXTENDS Store, TLAPS

(* A time read back is at most the time written, by less than a second. *)
LEMMA StoredFacts ==
  ASSUME NEW t \in Nat
  PROVE  Stored(t) \in Nat /\ Stored(t) <= t /\ t < Stored(t) + Second
<1>1. t % Second \in 0..(Second - 1) /\ t % Second <= t
  BY StoreAssumption
<1> QED
  BY <1>1, StoreAssumption DEF Stored

(* Appending a row leaves the others alone. *)
LEMMA AppendRow ==
  ASSUME NEW S, NEW s \in Seq(S), NEW e \in S
  PROVE  /\ Append(s, e) \in Seq(S)
         /\ Len(s) \in Nat
         /\ Len(Append(s, e)) = Len(s) + 1
         /\ DOMAIN Append(s, e) = DOMAIN s \cup {Len(s) + 1}
         /\ Len(s) + 1 \notin DOMAIN s
         /\ Append(s, e)[Len(s) + 1] = e
         /\ \A i \in DOMAIN s : Append(s, e)[i] = s[i]
  OBVIOUS

(* Updating a row leaves the others alone. *)
LEMMA UpdateRow ==
  ASSUME NEW S, NEW s \in Seq(S), NEW i \in DOMAIN s, NEW e \in S
  PROVE  /\ [s EXCEPT ![i] = e] \in Seq(S)
         /\ DOMAIN [s EXCEPT ![i] = e] = DOMAIN s
         /\ [s EXCEPT ![i] = e][i] = e
         /\ \A j \in DOMAIN s : j # i => [s EXCEPT ![i] = e][j] = s[j]
  OBVIOUS

(* IngestIncident keeps every row's ref, content and state, and there is a *)
(* row of the ref afterwards.                                              *)
LEMMA IngestKeeps ==
  ASSUME incidents \in Seq(Incident),
         NEW ref \in Refs, NEW content \in Contents, NEW state \in States,
         IngestIncident(ref, content, state)
  PROVE  /\ incidents' \in Seq(Incident)
         /\ DOMAIN incidents \subseteq DOMAIN incidents'
         /\ \A i \in DOMAIN incidents :
              /\ incidents'[i].ref = incidents[i].ref
              /\ incidents'[i].content = incidents[i].content
              /\ incidents'[i].state = incidents[i].state
         /\ \E i \in DOMAIN incidents' : incidents'[i].ref = ref
<1>1. CASE RowsOf(ref) = {}
  <2> DEFINE row == [ref |-> ref, content |-> content, state |-> state,
                     count |-> 1, fp |-> NoFp]
  <2>1. row \in Incident
    BY DEF Incident
  <2>2. incidents' = Append(incidents, row)
    BY <1>1 DEF IngestIncident
  <2>3. row.ref = ref
    OBVIOUS
  <2> HIDE DEF row
  <2> QED
    BY <2>1, <2>2, <2>3, AppendRow
<1>2. CASE RowsOf(ref) # {}
  <2>1. PICK i \in RowsOf(ref) : incidents' = [incidents EXCEPT ![i].count = @ + 1]
    BY <1>2 DEF IngestIncident
  <2> DEFINE row == [incidents[i] EXCEPT !.count = @ + 1]
  <2>2. i \in DOMAIN incidents /\ incidents[i].ref = ref
    BY DEF RowsOf
  <2>3. incidents[i] \in Incident
    BY <2>2
  <2>4. /\ row \in Incident
        /\ row.ref = incidents[i].ref /\ row.content = incidents[i].content
        /\ row.state = incidents[i].state
    BY <2>3 DEF Incident
  <2>5. incidents' = [incidents EXCEPT ![i] = row]
    BY <2>1
  <2> HIDE DEF row
  <2> QED
    BY <2>2, <2>4, <2>5, UpdateRow
<1> QED
  BY <1>1, <1>2

(* Nor does it take an occurrence back. *)
LEMMA IngestCounts ==
  ASSUME incidents \in Seq(Incident),
         NEW ref \in Refs, NEW content \in Contents, NEW state \in States,
         IngestIncident(ref, content, state)
  PROVE  \A j \in DOMAIN incidents : incidents'[j].count >= incidents[j].count
<1> SUFFICES ASSUME NEW j \in DOMAIN incidents
             PROVE  incidents'[j].count >= incidents[j].count
  OBVIOUS
<1>0. incidents[j] \in Incident
  OBVIOUS
<1>1. PICK n \in Nat : n = incidents[j].count
  BY <1>0 DEF Incident
<1>2. CASE incidents'[j] = incidents[j]
  BY <1>1, <1>2
<1>3. CASE incidents'[j] = [incidents[j] EXCEPT !.count = @ + 1]
  <2>1. incidents'[j].count = n + 1
    BY <1>0, <1>1, <1>3 DEF Incident
  <2> QED
    BY <1>1, <2>1
<1>4. incidents'[j] = incidents[j] \/ incidents'[j] = [incidents[j] EXCEPT !.count = @ + 1]
  <2>1. CASE RowsOf(ref) = {}
    BY <2>1 DEF IngestIncident
  <2>2. CASE RowsOf(ref) # {}
    <3>1. PICK i \in RowsOf(ref) : incidents' = [incidents EXCEPT ![i].count = @ + 1]
      BY <2>2 DEF IngestIncident
    <3> QED
      BY <3>1 DEF RowsOf
  <2> QED
    BY <2>1, <2>2
<1> QED
  BY <1>2, <1>3, <1>4

(* A new ref gets a row at the end; a known one gets none. *)
LEMMA IngestAppends ==
  ASSUME incidents \in Seq(Incident),
         NEW ref \in Refs, NEW content \in Contents, NEW state \in States,
         IngestIncident(ref, content, state)
  PROVE  IF RowsOf(ref) = {}
         THEN /\ DOMAIN incidents' = DOMAIN incidents \cup {Len(incidents) + 1}
              /\ Len(incidents) + 1 \notin DOMAIN incidents
              /\ incidents'[Len(incidents) + 1].ref = ref
              /\ incidents'[Len(incidents) + 1].state = state
         ELSE DOMAIN incidents' = DOMAIN incidents
<1>1. CASE RowsOf(ref) = {}
  <2> DEFINE row == [ref |-> ref, content |-> content, state |-> state,
                     count |-> 1, fp |-> NoFp]
  <2>1. row \in Incident
    BY DEF Incident
  <2>2. incidents' = Append(incidents, row)
    BY <1>1 DEF IngestIncident
  <2>3. row.ref = ref /\ row.state = state
    OBVIOUS
  <2> HIDE DEF row
  <2> QED
    BY <1>1, <2>1, <2>2, <2>3, AppendRow
<1>2. CASE RowsOf(ref) # {}
  BY <1>2 DEF IngestIncident, RowsOf
<1> QED
  BY <1>1, <1>2

(* It counts one occurrence: of the new row, or of the one of its ref.     *)
LEMMA IngestCountsOne ==
  ASSUME incidents \in Seq(Incident),
         NEW ref \in Refs, NEW content \in Contents, NEW state \in States,
         IngestIncident(ref, content, state)
  PROVE  IF RowsOf(ref) = {}
         THEN /\ incidents'[Len(incidents) + 1].count = 1
              /\ \A j \in DOMAIN incidents : incidents'[j].count = incidents[j].count
         ELSE \E i \in RowsOf(ref) :
                /\ incidents'[i].count = incidents[i].count + 1
                /\ \A j \in DOMAIN incidents :
                     j # i => incidents'[j].count = incidents[j].count
<1>1. CASE RowsOf(ref) = {}
  <2> DEFINE row == [ref |-> ref, content |-> content, state |-> state,
                     count |-> 1, fp |-> NoFp]
  <2>1. row \in Incident /\ row.count = 1
    BY DEF Incident
  <2>2. incidents' = Append(incidents, row)
    BY <1>1 DEF IngestIncident
  <2> HIDE DEF row
  <2> QED
    BY <1>1, <2>1, <2>2, AppendRow
<1>2. CASE RowsOf(ref) # {}
  <2>1. PICK i \in RowsOf(ref) : incidents' = [incidents EXCEPT ![i].count = @ + 1]
    BY <1>2 DEF IngestIncident
  <2>2. i \in DOMAIN incidents /\ incidents[i] \in Incident
    BY DEF RowsOf
  <2>3. incidents'[i].count = incidents[i].count + 1
    BY <2>1, <2>2 DEF Incident
  <2> QED
    BY <1>2, <2>1, <2>2, <2>3
<1> QED
  BY <1>1, <1>2

(* A new row has no fingerprint, and a redelivery takes none away. *)
LEMMA IngestKeepsFp ==
  ASSUME incidents \in Seq(Incident),
         NEW ref \in Refs, NEW content \in Contents, NEW state \in States,
         IngestIncident(ref, content, state)
  PROVE  /\ \A i \in DOMAIN incidents : incidents'[i].fp = incidents[i].fp
         /\ \A i \in DOMAIN incidents' \ DOMAIN incidents : incidents'[i].fp = NoFp
<1>1. CASE RowsOf(ref) = {}
  <2> DEFINE row == [ref |-> ref, content |-> content, state |-> state,
                     count |-> 1, fp |-> NoFp]
  <2>1. row \in Incident /\ row.fp = NoFp
    BY DEF Incident
  <2>2. incidents' = Append(incidents, row)
    BY <1>1 DEF IngestIncident
  <2> HIDE DEF row
  <2> QED
    BY <2>1, <2>2, AppendRow
<1>2. CASE RowsOf(ref) # {}
  <2>1. PICK i \in RowsOf(ref) : incidents' = [incidents EXCEPT ![i].count = @ + 1]
    BY <1>2 DEF IngestIncident
  <2> QED
    BY <2>1 DEF RowsOf, Incident
<1> QED
  BY <1>1, <1>2

(* MarkFingerprint writes the fingerprint of one row and nothing else. *)
LEMMA MarkKeeps ==
  ASSUME incidents \in Seq(Incident), NEW i \in DOMAIN incidents, NEW f \in Fps,
         MarkFingerprint(i, f)
  PROVE  /\ incidents' \in Seq(Incident)
         /\ DOMAIN incidents' = DOMAIN incidents
         /\ \A j \in DOMAIN incidents :
              /\ incidents'[j].ref = incidents[j].ref
              /\ incidents'[j].content = incidents[j].content
              /\ incidents'[j].state = incidents[j].state
<1> DEFINE row == [incidents[i] EXCEPT !.fp = f]
<1>1. incidents[i] \in Incident
  OBVIOUS
<1>2. /\ row \in Incident
      /\ row.ref = incidents[i].ref /\ row.content = incidents[i].content
      /\ row.state = incidents[i].state
  BY <1>1 DEF Incident
<1>3. incidents' = [incidents EXCEPT ![i] = row]
  BY DEF MarkFingerprint
<1> HIDE DEF row
<1> QED
  BY <1>2, <1>3, UpdateRow

LEMMA MarkSets ==
  ASSUME incidents \in Seq(Incident), NEW i \in DOMAIN incidents, NEW f \in Fps,
         MarkFingerprint(i, f)
  PROVE  /\ incidents'[i].fp = f
         /\ \A j \in DOMAIN incidents : j # i => incidents'[j].fp = incidents[j].fp
<1>1. incidents[i] \in Incident
  OBVIOUS
<1> QED
  BY <1>1 DEF MarkFingerprint, Incident

(* Transition moves one row, from the state it had to be in. *)
LEMMA TransitionMoves ==
  ASSUME incidents \in Seq(Incident),
         NEW i \in DOMAIN incidents, NEW from \in States, NEW to \in States,
         Transition(i, from, to)
  PROVE  /\ incidents' \in Seq(Incident)
         /\ DOMAIN incidents' = DOMAIN incidents
         /\ incidents[i].state = from
         /\ incidents'[i].state = to
         /\ \A j \in DOMAIN incidents : incidents'[j].ref = incidents[j].ref
         /\ \A j \in DOMAIN incidents : incidents'[j].content = incidents[j].content
         /\ \A j \in DOMAIN incidents : j # i => incidents'[j].state = incidents[j].state
<1> DEFINE row == [incidents[i] EXCEPT !.state = to]
<1>1. incidents[i] \in Incident
  OBVIOUS
<1>2. /\ row \in Incident
      /\ row.ref = incidents[i].ref /\ row.content = incidents[i].content
      /\ row.state = to
  BY <1>1 DEF Incident
<1>3. incidents' = [incidents EXCEPT ![i] = row] /\ incidents[i].state = from
  BY DEF Transition, Matches
<1> HIDE DEF row
<1>4. /\ incidents' \in Seq(Incident)
      /\ DOMAIN incidents' = DOMAIN incidents
      /\ incidents'[i] = row
      /\ \A j \in DOMAIN incidents : j # i => incidents'[j] = incidents[j]
  BY <1>2, <1>3, UpdateRow
<1> QED
  BY <1>2, <1>3, <1>4

LEMMA TransitionKeepsFp ==
  ASSUME incidents \in Seq(Incident), NEW i \in DOMAIN incidents, NEW from, NEW to,
         Transition(i, from, to)
  PROVE  \A j \in DOMAIN incidents : incidents'[j].fp = incidents[j].fp
<1>1. incidents[i] \in Incident
  OBVIOUS
<1> QED
  BY <1>1 DEF Transition, Matches, Incident

(* In the same transaction it appends one audit row, which tells the move. *)
LEMMA TransitionAudits ==
  ASSUME events \in Seq(Event),
         NEW i \in Nat \ {0}, NEW from \in States, NEW to \in States,
         Transition(i, from, to)
  PROVE  /\ events' \in Seq(Event)
         /\ Len(events) \in Nat
         /\ DOMAIN events' = DOMAIN events \cup {Len(events) + 1}
         /\ Len(events) + 1 \notin DOMAIN events
         /\ \A k \in DOMAIN events : events'[k] = events[k]
         /\ events'[Len(events) + 1] = [incident |-> i, kind |-> "state_change",
                                        from |-> from, to |-> to]
<1> DEFINE event == [incident |-> i, kind |-> "state_change", from |-> from, to |-> to]
<1>1. event \in Event
  BY DEF Event
<1>2. events' = Append(events, event)
  BY DEF Transition, Matches
<1> HIDE DEF event
<1>3. /\ events' \in Seq(Event)
      /\ Len(events) \in Nat
      /\ DOMAIN events' = DOMAIN events \cup {Len(events) + 1}
      /\ Len(events) + 1 \notin DOMAIN events
      /\ \A k \in DOMAIN events : events'[k] = events[k]
      /\ events'[Len(events) + 1] = event
  BY <1>1, <1>2, AppendRow
<1> QED
  BY <1>3 DEF event

(* ObserveFingerprint: outside a window, one opens that lasts Window from  *)
(* now, but for the fraction of a second; inside, it stays as it is.       *)
LEMMA ObserveOpens ==
  ASSUME fingerprints \in [Fps -> Fingerprint],
         NEW f \in Fps, NEW i \in Nat, NEW t \in Nat,
         ObserveFingerprint(f, i, t)
  PROVE  /\ fingerprints' \in [Fps -> Fingerprint]
         /\ fingerprints'[f].total = fingerprints[f].total + 1
         /\ fingerprints[f].total \in Nat /\ fingerprints[f].until \in Nat
         /\ fingerprints'[f].until =
              IF InWindow(f, t) THEN fingerprints[f].until ELSE Stored(t + Window)
         /\ \A g \in Fps : g # f => fingerprints'[g] = fingerprints[g]
<1> DEFINE row == [first |-> IF fingerprints[f].total = 0 THEN i ELSE fingerprints[f].first,
                   until |-> IF InWindow(f, t) THEN fingerprints[f].until
                             ELSE Stored(t + Window),
                   total |-> fingerprints[f].total + 1]
<1>1. fingerprints' = [fingerprints EXCEPT ![f] = row]
  BY DEF ObserveFingerprint
<1>2. fingerprints[f] \in Fingerprint
  OBVIOUS
<1>3. Stored(t + Window) \in Nat
  BY StoredFacts, StoreAssumption
<1>4. row \in Fingerprint
  BY <1>2, <1>3 DEF Fingerprint
<1>5. /\ row.total = fingerprints[f].total + 1
      /\ row.until = IF InWindow(f, t) THEN fingerprints[f].until ELSE Stored(t + Window)
  OBVIOUS
<1>6. fingerprints[f].total \in Nat /\ fingerprints[f].until \in Nat
  BY <1>2 DEF Fingerprint
<1> HIDE DEF row
<1>7. /\ fingerprints' \in [Fps -> Fingerprint] /\ fingerprints'[f] = row
      /\ \A g \in Fps : g # f => fingerprints'[g] = fingerprints[g]
  BY <1>1, <1>4
<1> QED
  BY <1>5, <1>6, <1>7

(* The canonical incident is that of the first sighting, for good. *)
LEMMA ObserveFirst ==
  ASSUME fingerprints \in [Fps -> Fingerprint],
         NEW f \in Fps, NEW i \in Nat, NEW t \in Nat,
         ObserveFingerprint(f, i, t)
  PROVE  fingerprints'[f].first =
           IF fingerprints[f].total = 0 THEN i ELSE fingerprints[f].first
  BY DEF ObserveFingerprint
=============================================================================
