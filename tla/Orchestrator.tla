---------------------------- MODULE Orchestrator ----------------------------
(***************************************************************************)
(* The process loop (internal/orchestrator) with the Tier 0 chain          *)
(* (internal/triage/tier0.go): it lists received incidents oldest first    *)
(* and, for each, fingerprints it, records the sighting, evaluates the     *)
(* chain, moves the incident and announces the move on the hub.  Every     *)
(* store call is a transaction of its own, and the process may fail or     *)
(* stop between any two.                                                   *)
(*                                                                         *)
(* One worker is deployed; Transition is written for several, so Workers   *)
(* is a set.  An incident's arrival stands for the ingestion loop.         *)
(***************************************************************************)
EXTENDS Store, FiniteSets

CONSTANTS
  Workers,      \* concurrent process loops
  FpOf,         \* [Contents -> Fps], what fingerprint() computes
  Noise,        \* contents the Transient or SelfInflicted filter rejects
  Quarantine,   \* values projects.quarantined may be read with
  BatchSize,    \* incidents per pass
  MaxClock,     \* bound: the clock
  MaxFaults     \* bound: failed store calls and restarts

ASSUME OrchestratorAssumption ==
  /\ FpOf \in [Contents -> Fps]
  /\ Noise \subseteq Contents
  /\ Quarantine \subseteq BOOLEAN
  /\ BatchSize \in Nat \ {0}
  /\ MaxClock \in Nat
  /\ MaxFaults \in Nat

VARIABLES
  clock,        \* the wall clock
  pc,           \* per worker: "next", "mark", "observe", "decide", "publish"
  pending,      \* per worker: incidents of the pass still to be processed
  in,           \* per worker: the incident in hand
  now,          \* per worker: the time read when it was taken up
  rejected,     \* per worker: whether a filter before Fingerprint rejects it
  suppressed,   \* per worker: ObserveFingerprint's outcome.Suppressed
  eventID,      \* per worker: the event Transition returned
  sent,         \* IDs of the events given to hub.Publish
  faults,       \* faults so far
  openings      \* history: the sightings that opened a window

workerVars == <<pc, pending, in, now, rejected, suppressed, eventID>>
orchVars   == <<clock, workerVars, sent, faults, openings>>
allVars    == <<storeVars, orchVars>>

OrchestratorInit ==
  /\ clock = 0
  /\ pc = [w \in Workers |-> "next"]
  /\ pending = [w \in Workers |-> {}]
  /\ in = [w \in Workers |-> 0]
  /\ now = [w \in Workers |-> 0]
  /\ rejected = [w \in Workers |-> FALSE]
  /\ suppressed = [w \in Workers |-> FALSE]
  /\ eventID = [w \in Workers |-> 0]
  /\ sent = <<>>
  /\ faults = 0
  /\ openings = {}

Init == StoreInit /\ OrchestratorInit

Fault == faults < MaxFaults /\ faults' = faults + 1

FpIn(i) == FpOf[incidents[i].content]

(***************************************************************************)
(* The environment.                                                        *)
(***************************************************************************)
Tick ==
  /\ clock < MaxClock
  /\ clock' = clock + 1
  /\ UNCHANGED <<storeVars, workerVars, sent, faults, openings>>

(* The ingestion loop stores a new incident, to be processed or unroutable. *)
Arrive(ref, content, state) ==
  /\ RowsOf(ref) = {}
  /\ IngestIncident(ref, content, state)
  /\ UNCHANGED <<events, fingerprints, orchVars>>

(***************************************************************************)
(* ProcessOnce.                                                            *)
(***************************************************************************)

(* Mutant of Oldest: the dashboard's newest first. *)
Newest(S) == {i \in S : Cardinality({j \in S : j > i}) < BatchSize}

(* The first BatchSize of S. *)
Oldest(S) == {i \in S : Cardinality({j \in S : j < i}) < BatchSize}

List(w) ==
  /\ pc[w] = "next" /\ pending[w] = {}
  /\ pending' = [pending EXCEPT ![w] = Oldest(Received)]
  /\ UNCHANGED <<storeVars, clock, pc, in, now, rejected, suppressed, eventID,
                 sent, faults, openings>>

(* process, up to fingerprint(): the clock and the project row are read.   *)
Begin(w, quarantined) ==
  /\ pc[w] = "next"
  /\ \E i \in pending[w] :
       /\ \A j \in pending[w] : i <= j
       /\ in' = [in EXCEPT ![w] = i]
       /\ pending' = [pending EXCEPT ![w] = @ \ {i}]
       /\ rejected' = [rejected EXCEPT ![w] = quarantined \/ incidents[i].content \in Noise]
  /\ now' = [now EXCEPT ![w] = clock]
  /\ pc' = [pc EXCEPT ![w] = "mark"]
  /\ UNCHANGED <<storeVars, clock, suppressed, eventID, sent, faults, openings>>

Mark(w) ==
  /\ pc[w] = "mark"
  /\ MarkFingerprint(in[w], FpIn(in[w]))
  /\ pc' = [pc EXCEPT ![w] = "observe"]
  /\ UNCHANGED <<events, fingerprints, clock, pending, in, now, rejected, suppressed,
                 eventID, sent, faults, openings>>

(* Mutant of Observe: the sighting that opens a window is suppressed too.  *)
ObserveSuppressing(w) ==
  /\ pc[w] = "observe"
  /\ LET f == FpIn(in[w]) IN
     /\ ObserveFingerprint(f, in[w], now[w])
     /\ suppressed' = [suppressed EXCEPT ![w] = TRUE]
     /\ openings' = IF InWindow(f, now[w]) THEN openings
                    ELSE openings \cup {[fp |-> f, incident |-> in[w], at |-> now[w]]}
  /\ pc' = [pc EXCEPT ![w] = "decide"]
  /\ UNCHANGED <<incidents, events, clock, pending, in, now, rejected, eventID, sent, faults>>

(* ObserveFingerprint, in a transaction of its own. *)
Observe(w) ==
  /\ pc[w] = "observe"
  /\ LET f == FpIn(in[w]) IN
     /\ ObserveFingerprint(f, in[w], now[w])
     /\ suppressed' = [suppressed EXCEPT ![w] = InWindow(f, now[w])]
     /\ openings' = IF InWindow(f, now[w]) THEN openings
                    ELSE openings \cup {[fp |-> f, incident |-> in[w], at |-> now[w]]}
  /\ pc' = [pc EXCEPT ![w] = "decide"]
  /\ UNCHANGED <<incidents, events, clock, pending, in, now, rejected, eventID, sent, faults>>

(* Evaluate: the first filter to reject decides. *)
Verdict(w) ==
  IF rejected[w] THEN "filtered" ELSE IF suppressed[w] THEN "suppressed" ELSE "triaging"

(* Mutant of Decide: the ID is that of the last event before the move.     *)
DecideLastEventID(w) ==
  /\ pc[w] = "decide"
  /\ Transition(in[w], "received", Verdict(w))
  /\ eventID' = [eventID EXCEPT ![w] = Len(events)]
  /\ pc' = [pc EXCEPT ![w] = "publish"]
  /\ UNCHANGED <<fingerprints, clock, pending, in, now, rejected, suppressed, sent,
                 faults, openings>>

(* Transition, to what the chain decides. *)
Decide(w) ==
  /\ pc[w] = "decide"
  /\ Transition(in[w], "received", Verdict(w))
  /\ eventID' = [eventID EXCEPT ![w] = NextEventID]
  /\ pc' = [pc EXCEPT ![w] = "publish"]
  /\ UNCHANGED <<fingerprints, clock, pending, in, now, rejected, suppressed, sent,
                 faults, openings>>

(* ErrStaleTransition: another worker moved the incident first. *)
DecideStale(w) ==
  /\ pc[w] = "decide"
  /\ ~Matches(in[w], "received")
  /\ pc' = [pc EXCEPT ![w] = "next"]
  /\ UNCHANGED <<storeVars, clock, pending, in, now, rejected, suppressed, eventID,
                 sent, faults, openings>>

(* The one call of Transition, and what its answer leads to.               *)
Conclude(w) ==
  /\ pc[w] = "decide"
  /\ IF Matches(in[w], "received") THEN Decide(w) ELSE DecideStale(w)

(* Mutant of Publish: the event carries the incident's ID.                 *)
PublishIncidentID(w) ==
  /\ pc[w] = "publish"
  /\ sent' = Append(sent, in[w])
  /\ pc' = [pc EXCEPT ![w] = "next"]
  /\ UNCHANGED <<storeVars, clock, pending, in, now, rejected, suppressed, eventID,
                 faults, openings>>

Publish(w) ==
  /\ pc[w] = "publish"
  /\ sent' = Append(sent, eventID[w])
  /\ pc' = [pc EXCEPT ![w] = "next"]
  /\ UNCHANGED <<storeVars, clock, pending, in, now, rejected, suppressed, eventID,
                 faults, openings>>

(* A store call fails: the incident is logged and left for a later pass.   *)
StoreCallFails(w) ==
  /\ pc[w] \in {"mark", "observe", "decide"}
  /\ Fault
  /\ pc' = [pc EXCEPT ![w] = "next"]
  /\ UNCHANGED <<storeVars, clock, pending, in, now, rejected, suppressed, eventID,
                 sent, openings>>

(* The process stops, or its context is cancelled, and starts again. *)
Restart ==
  /\ Fault
  /\ pc' = [w \in Workers |-> "next"]
  /\ pending' = [w \in Workers |-> {}]
  /\ UNCHANGED <<storeVars, clock, in, now, rejected, suppressed, eventID, sent, openings>>

Step(w) ==
  \/ List(w)
  \/ \E q \in Quarantine : Begin(w, q)
  \/ Mark(w) \/ Observe(w) \/ Conclude(w) \/ Publish(w)

Next ==
  \/ Tick
  \/ \E r \in Refs, c \in Contents, s \in {"received", "filtered"} : Arrive(r, c, s)
  \/ \E w \in Workers : Step(w) \/ StoreCallFails(w)
  \/ Restart

Spec == Init /\ [][Next]_allVars

(* The ticker keeps a worker's loop going round, whatever fails in it. *)
FairSpec == Spec /\ \A w \in Workers : WF_allVars(Step(w))

-----------------------------------------------------------------------------
Opening == [fp: Fps, incident: Nat \ {0}, at: Nat]

(* The type of every variable. *)
TypeOK ==
  /\ StoreTypeOK
  /\ clock \in Nat
  /\ pc \in [Workers -> {"next", "mark", "observe", "decide", "publish"}]
  /\ pending \in [Workers -> SUBSET DOMAIN incidents]
  /\ in \in [Workers -> Nat]
  /\ \A w \in Workers : pc[w] # "next" => in[w] \in DOMAIN incidents
  /\ now \in [Workers -> Nat]
  /\ rejected \in [Workers -> BOOLEAN]
  /\ suppressed \in [Workers -> BOOLEAN]
  /\ eventID \in [Workers -> Nat]
  /\ sent \in Seq(Nat)
  /\ faults \in Nat
  /\ openings \subseteq Opening

Moves(i) == {k \in DOMAIN events : events[k].incident = i /\ events[k].kind = "state_change"}

(* An incident leaves "received" at most once, and the audit trail tells   *)
(* exactly that move: no history describes one that never happened, and    *)
(* no two moves contradict each other, however many workers race.          *)
AuditTellsTheMove ==
  \A i \in DOMAIN incidents :
    /\ \A k, l \in Moves(i) : k = l
    /\ \A k \in Moves(i) : events[k].from = "received" /\ events[k].to = incidents[i].state
    /\ incidents[i].state = "received" => Moves(i) = {}
    /\ incidents[i].state \in {"triaging", "suppressed"} => Moves(i) # {}

(* No audit row is of an incident that has no row. *)
EventsHaveIncidents == \A k \in DOMAIN events : events[k].incident \in DOMAIN incidents

(* No storm: two sightings of one fingerprint that got past suppression    *)
(* are a window apart, less the fraction of a second the column drops, and *)
(* every incident handed on to Tier 1 had such a sighting.                 *)
StormContained ==
  /\ \A a, b \in openings :
       a # b /\ a.fp = b.fp =>
         a.at + Window < b.at + Second \/ b.at + Window < a.at + Second
  /\ \A i \in DOMAIN incidents :
       incidents[i].state = "triaging" =>
         \E a \in openings : a.incident = i /\ a.fp = FpIn(i)

(* A window covers every sighting that opened it, and an incident about to *)
(* be handed on is one that opened a window.                               *)
WindowsCoverOpenings ==
  /\ \A a \in openings :
       /\ fingerprints[a.fp].total > 0
       /\ Second <= Window => a.at + Window < fingerprints[a.fp].until + Second
  /\ \A w \in Workers : pc[w] = "decide" /\ ~suppressed[w] =>
       \E a \in openings : a.incident = in[w] /\ a.fp = FpIn(in[w])

(* Nothing is suppressed for itself: while nothing fails, a suppressed     *)
(* incident has another of its fingerprint that opened the window.         *)
SuppressedByAnother ==
  \A i \in DOMAIN incidents :
    incidents[i].state = "suppressed" =>
      \E a \in openings : a.fp = FpIn(i) /\ a.incident # i

(* The earliest occurrence of a bug is the one that opens the suppression  *)
(* window and becomes canonical.                                           *)
CanonicalIsEarliest ==
  \A f \in Fps : fingerprints[f].total > 0 =>
    \A i \in 1..(fingerprints[f].first - 1) :
      FpIn(i) = f => Moves(i) = {} /\ incidents[i].state = "filtered"

(* The two, for as long as no store call has failed and nothing restarted. *)
SuppressedByAnotherUnlessFaults == faults = 0 => SuppressedByAnother
CanonicalIsEarliestUnlessFaults == faults = 0 => CanonicalIsEarliest

(* A fingerprint's total_occurrences counts its sightings, one for each    *)
(* incident processed: the storm stays visible while being silent.         *)
Sighted(f) ==
  {i \in DOMAIN incidents : FpIn(i) = f /\ Moves(i) # {}}
  \cup {in[w] : w \in {v \in Workers : pc[v] \in {"decide", "publish"} /\ FpIn(in[v]) = f}}

TotalCountsSightings ==
  faults = 0 => \A f \in Fps : fingerprints[f].total = Cardinality(Sighted(f))

(* What the hub is given is committed: its ID is that of an audit row, of  *)
(* a move, never given twice.                                              *)
SentIsCommitted ==
  /\ \A k \in DOMAIN sent :
       sent[k] \in DOMAIN events /\ events[sent[k]].kind = "state_change"
  /\ \A k, l \in DOMAIN sent : sent[k] = sent[l] => k = l

(* An event about to be announced is committed, not announced yet, and in  *)
(* the hands of one worker.                                                *)
ToSendIsCommitted ==
  \A w \in Workers : pc[w] = "publish" =>
    /\ eventID[w] \in DOMAIN events /\ events[eventID[w]].kind = "state_change"
    /\ \A k \in DOMAIN sent : sent[k] # eventID[w]
    /\ \A v \in Workers : pc[v] = "publish" /\ eventID[v] = eventID[w] => v = w

(* The one worker announces events in the order of the audit trail, which  *)
(* is what replay from Last-Event-ID relies on.                            *)
SentInOrder == \A k, l \in DOMAIN sent : k < l => sent[k] < sent[l]
=============================================================================
