------------------------------- MODULE Store -------------------------------
(***************************************************************************)
(* The SQLite store (internal/store): the tables the pipeline writes, and  *)
(* one operator per statement or transaction.  The writer pool holds one   *)
(* connection, so each is a single step.  A row's id is its position.      *)
(*                                                                         *)
(* Times are ticks of the wall clock.  Columns hold RFC 3339 text, whose   *)
(* resolution is one second: what is read back is the time cut to Second.  *)
(***************************************************************************)
EXTENDS Naturals, Sequences

CONSTANTS
  Refs,       \* (source, source_ref) pairs
  Contents,   \* what an event says: kind, title, body, metadata
  Fps,        \* fingerprint hashes
  NoFp,       \* incidents.fingerprint IS NULL
  Window,     \* the suppression window, in ticks
  Second      \* ticks in a second

(* Validation accepts any positive window, one below a second included. *)
ASSUME StoreAssumption ==
  /\ NoFp \notin Fps
  /\ Window \in Nat \ {0}
  /\ Second \in Nat \ {0}

VARIABLES
  incidents,     \* table incidents
  events,        \* table incident_events, the audit trail
  fingerprints   \* table fingerprints; no row is a row with total = 0

storeVars == <<incidents, events, fingerprints>>

States == {"received", "triaging", "filtered", "suppressed"}

Incident == [ref: Refs, content: Contents, state: States,
             count: Nat \ {0}, fp: Fps \cup {NoFp}]

Event == [incident: Nat \ {0}, kind: {"duplicate", "state_change"},
          from: States \cup {""}, to: States \cup {""}]

Fingerprint == [first: Nat, until: Nat, total: Nat]

StoreInit ==
  /\ incidents = <<>>
  /\ events = <<>>
  /\ fingerprints = [f \in Fps |-> [first |-> 0, until |-> 0, total |-> 0]]

(* A time as it is read back from a column. *)
Stored(t) == t - (t % Second)

(* The row the unique index on (source, source_ref) finds. *)
RowsOf(ref) == {i \in DOMAIN incidents : incidents[i].ref = ref}

(* Mutant of IngestIncident: the conflict branch takes over the state and  *)
(* the content of the redelivery.                                          *)
IngestOverwrites(ref, content, state) ==
  IF RowsOf(ref) = {}
  THEN incidents' = Append(incidents, [ref |-> ref, content |-> content,
                              state |-> state, count |-> 1, fp |-> NoFp])
  ELSE \E i \in RowsOf(ref) :
         incidents' = [incidents EXCEPT ![i].count = @ + 1,
                                        ![i].state = state,
                                        ![i].content = content]

(* Mutant of IngestIncident: no unique index. *)
IngestInsertsAlways(ref, content, state) ==
  incidents' = Append(incidents, [ref |-> ref, content |-> content,
                         state |-> state, count |-> 1, fp |-> NoFp])

(* INSERT ... ON CONFLICT: a redelivery only counts an occurrence. *)
IngestIncident(ref, content, state) ==
  IF RowsOf(ref) = {}
  THEN incidents' = Append(incidents, [ref |-> ref, content |-> content,
                              state |-> state, count |-> 1, fp |-> NoFp])
  ELSE \E i \in RowsOf(ref) :
         incidents' = [incidents EXCEPT ![i].count = @ + 1]

(* AppendEvent, as the writer uses it. *)
AppendDuplicate(i) ==
  events' = Append(events, [incident |-> i, kind |-> "duplicate",
                            from |-> "", to |-> ""])

(* Mutant of MarkFingerprint: the fingerprint's input, not its hash. *)
MarkUnhashed(i, f) == incidents' = [incidents EXCEPT ![i].fp = incidents[i].content]

MarkFingerprint(i, f) == incidents' = [incidents EXCEPT ![i].fp = f]

(* The id of the event Transition returns. *)
NextEventID == Len(events) + 1

(* Mutant of Matches: the UPDATE lacks AND state = ?. *)
MatchesById(i, from) == TRUE

(* WHERE id = ? AND state = ? *)
Matches(i, from) == incidents[i].state = from

(* UPDATE ... AND state = from, and the audit row, in one transaction. *)
Transition(i, from, to) ==
  /\ Matches(i, from)
  /\ incidents' = [incidents EXCEPT ![i].state = to]
  /\ events' = Append(events, [incident |-> i, kind |-> "state_change",
                               from |-> from, to |-> to])

(* Whether a sighting of f at time now falls inside an open window. *)
InWindow(f, now) == fingerprints[f].total > 0 /\ now < fingerprints[f].until

(* Mutant of ObserveFingerprint: a window that ran out is not renewed. *)
ObserveWithoutReopening(f, i, now) ==
  fingerprints' = [fingerprints EXCEPT ![f] =
    IF @.total = 0
    THEN [first |-> i, until |-> Stored(now + Window), total |-> 1]
    ELSE [first |-> @.first, until |-> @.until, total |-> @.total + 1]]

(* Mutant of ObserveFingerprint: only what opens a window is counted.      *)
ObserveUncounted(f, i, now) ==
  fingerprints' = [fingerprints EXCEPT ![f] =
    IF InWindow(f, now) THEN @
    ELSE [first |-> IF @.total = 0 THEN i ELSE @.first,
          until |-> Stored(now + Window), total |-> @.total + 1]]

(* The upsert of a sighting: the first opens a window, one past the window *)
(* reopens it, one inside it leaves the window alone.  first_incident_id   *)
(* is never updated.                                                       *)
ObserveFingerprint(f, i, now) ==
  fingerprints' = [fingerprints EXCEPT ![f] =
    [first |-> IF @.total = 0 THEN i ELSE @.first,
     until |-> IF InWindow(f, now) THEN @.until ELSE Stored(now + Window),
     total |-> @.total + 1]]

(* The rows of received incidents, oldest first; created_at does not       *)
(* decrease along ids, because one goroutine inserts.                      *)
Received == {i \in DOMAIN incidents : incidents[i].state = "received"}

StoreTypeOK ==
  /\ incidents \in Seq(Incident)
  /\ events \in Seq(Event)
  /\ fingerprints \in [Fps -> Fingerprint]
=============================================================================
