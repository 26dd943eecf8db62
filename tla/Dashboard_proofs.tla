-------------------------- MODULE Dashboard_proofs --------------------------
(* Theorems about the dashboard's requests, for any sessions, incidents,   *)
(* workers and page sizes.                                                 *)
EXTENDS Dashboard, Orchestrator_proofs, FiniteSetTheorems

(***************************************************************************)
(* What a step of the dashboard is to the process loop.                    *)
(***************************************************************************)
LEMMA LoopSteps ==
  ASSUME [DashNext]_dashVars
  PROVE  \/ [Next]_allVars
         \/ /\ UNCHANGED <<storeVars, clock, workerVars, sent, openings>>
            /\ Fault
<1>1. CASE Working /\ UNCHANGED <<sessVars, viewVars>>
  BY <1>1 DEF Working, Next
<1>2. CASE RestartAll
  BY <1>2 DEF RestartAll, Next
<1>3. CASE \/ \E t \in Tokens :
                \/ Login(t) \/ Logout(t) \/ Refuse(t)
                \/ \E i \in DOMAIN incidents : GetIncident(t, i)
                \/ ListIncidents(t)
           \/ EventsForIncident \/ GetFingerprint \/ Leave
           \/ UNCHANGED dashVars
  BY <1>3 DEF Login, Logout, Refuse, GetIncident, ListIncidents, EventsForIncident,
              GetFingerprint, Leave, dashVars
<1>4. CASE GetFingerprintFails
  BY <1>4 DEF GetFingerprintFails
<1> QED
  BY <1>1, <1>2, <1>3, <1>4 DEF DashNext

LEMMA LoopTypes ==
  ASSUME TypeOK, [DashNext]_dashVars
  PROVE  TypeOK' /\ clock' \in Nat /\ clock <= clock'
<1>1. CASE [Next]_allVars
  <2>1. TypeOK'
    BY <1>1, TypeStep
  <2>2. clock' = clock \/ clock' = clock + 1
    BY <1>1, NextCases
    DEF Tick, Arrive, List, Begin, Mark, Observe, Decide, DecideStale, Publish,
        StoreCallFails, Restart, orchVars, allVars
  <2> QED
    BY <2>1, <2>2 DEF TypeOK
<1>2. CASE UNCHANGED <<storeVars, clock, workerVars, sent, openings>> /\ Fault
  BY <1>2 DEF TypeOK, StoreTypeOK, Fault, storeVars, workerVars
<1> QED
  BY <1>1, <1>2, LoopSteps

-----------------------------------------------------------------------------
(***************************************************************************)
(* Sessions.                                                               *)
(***************************************************************************)
LEMMA Withouts ==
  ASSUME NEW G
  PROVE  /\ DOMAIN S!Without(G) = DOMAIN sessions \ G
         /\ \A t \in DOMAIN sessions \ G : S!Without(G)[t] = sessions[t]
BY DEF S!Without

LEMMA IssueKeeps ==
  ASSUME S!SessionInv, clock \in Nat, NEW t \in Tokens, S!Issue(t), clock' = clock
  PROVE  S!SessionInv'
<1> USE DashboardAssumption
<1>1. /\ DOMAIN issued' = DOMAIN issued \cup {t} /\ t \notin DOMAIN issued
      /\ issued'[t] = clock /\ \A u \in DOMAIN issued : issued'[u] = issued[u]
      /\ ended' = ended
  BY DEF S!Issue
<1> DEFINE gone == {u \in DOMAIN sessions : S!Expired(u)}
<1>2. /\ DOMAIN sessions' = (DOMAIN sessions \ gone) \cup {t}
      /\ sessions'[t] = clock + TTL
      /\ \A u \in DOMAIN sessions \ gone : u # t => sessions'[u] = sessions[u]
  BY Withouts DEF S!Issue, S!Collected
<1>3. \A u \in DOMAIN issued \ ended : clock <= issued[u] + TTL => u \notin gone
  BY DEF S!SessionInv, S!Expired
<1> HIDE DEF gone
<1>4. t \notin DOMAIN sessions
  BY <1>1 DEF S!SessionInv
<1> QED
  BY <1>1, <1>2, <1>3, <1>4 DEF S!SessionInv

(* Whatever is dropped, if it has expired or is dropped for good. *)
LEMMA DropKeeps ==
  ASSUME S!SessionInv, clock \in Nat, NEW G, sessions' = S!Without(G), issued' = issued, clock' = clock,
         ended \subseteq ended', ended' \subseteq DOMAIN issued,
         DOMAIN sessions \cap ended' \subseteq G,
         \A t \in DOMAIN sessions \cap G : S!Expired(t) \/ t \in ended'
  PROVE  S!SessionInv'
<1> USE DashboardAssumption
<1>1. /\ DOMAIN sessions' = DOMAIN sessions \ G
      /\ \A t \in DOMAIN sessions' : sessions'[t] = sessions[t]
  BY Withouts
<1>2. ASSUME NEW t \in DOMAIN issued \ ended', clock <= issued[t] + TTL
      PROVE  t \notin G
  <2>1. t \in DOMAIN sessions /\ sessions[t] = issued[t] + TTL
    BY <1>2 DEF S!SessionInv
  <2>2. sessions[t] \in Nat /\ ~(clock > sessions[t])
    BY <1>2, <2>1 DEF S!SessionInv
  <2> QED
    BY <2>1, <2>2 DEF S!Expired
<1> QED
  BY <1>1, <1>2 DEF S!SessionInv

LEMMA CheckKeeps ==
  ASSUME S!SessionInv, clock \in Nat, NEW t \in Tokens, S!Check(t), clock' = clock
  PROVE  S!SessionInv'
<1>1. CASE S!Valid(t)
  BY <1>1 DEF S!Check, S!SessionInv
<1>2. CASE ~S!Valid(t)
  <2>1. sessions' = S!Without({t}) /\ issued' = issued /\ ended' = ended
    BY <1>2 DEF S!Check
  <2>2. \A u \in DOMAIN sessions \cap {t} : S!Expired(u)
    BY <1>2 DEF S!Valid
  <2>3. ended \subseteq DOMAIN issued /\ DOMAIN sessions \cap ended = {}
    BY DEF S!SessionInv
  <2> QED
    BY <2>1, <2>2, <2>3, DropKeeps
<1> QED
  BY <1>1, <1>2

LEMMA RevokeKeeps ==
  ASSUME S!SessionInv, clock \in Nat, NEW t \in DOMAIN issued, S!Revoke(t), clock' = clock
  PROVE  S!SessionInv'
<1>1. sessions' = S!Without({t}) /\ issued' = issued /\ ended' = ended \cup {t}
  BY DEF S!Revoke
<1>2. ended \subseteq DOMAIN issued /\ DOMAIN sessions \cap ended = {}
  BY DEF S!SessionInv
<1>3. ended' \subseteq DOMAIN issued
  BY <1>1, <1>2
<1>4. DOMAIN sessions \cap ended' \subseteq {t}
  BY <1>1, <1>2
<1> QED
  BY <1>1, <1>3, <1>4, DropKeeps

LEMMA LoseKeeps ==
  ASSUME S!SessionInv, S!Lose
  PROVE  S!SessionInv'
BY DEF S!SessionInv, S!Lose, S!NoSessions

LEMMA SessionsStep ==
  ASSUME TypeOK, S!SessionInv, [DashNext]_dashVars
  PROVE  S!SessionInv'
<1>1. CASE UNCHANGED sessVars
  <2>1. clock \in Nat /\ clock' \in Nat /\ clock <= clock'
    BY LoopTypes DEF TypeOK
  <2>2. \A t \in DOMAIN issued : clock' <= issued[t] + TTL => clock <= issued[t] + TTL
    BY <2>1, DashboardAssumption DEF S!SessionInv
  <2> QED
    BY <1>1, <2>2 DEF S!SessionInv, sessVars
<1>2. CASE RestartAll
  BY <1>2, LoseKeeps DEF RestartAll
<1>3. ASSUME NEW t \in Tokens, Login(t) PROVE S!SessionInv'
  BY <1>3, IssueKeeps DEF Login, TypeOK, allVars, orchVars
<1>4. ASSUME NEW t \in Tokens, Logout(t) PROVE S!SessionInv'
  BY <1>4, RevokeKeeps DEF Logout, TypeOK, allVars, orchVars
<1>5. ASSUME NEW t \in Tokens, S!Check(t), UNCHANGED allVars PROVE S!SessionInv'
  BY <1>5, CheckKeeps DEF TypeOK, allVars, orchVars
<1>6. \/ UNCHANGED sessVars
      \/ RestartAll
      \/ \E t \in Tokens : Login(t) \/ Logout(t) \/ (S!Check(t) /\ UNCHANGED allVars)
  BY DEF DashNext, Refuse, GetIncident, ListIncidents, Admit, EventsForIncident,
         GetFingerprint, GetFingerprintFails, Leave, dashVars
<1> QED
  BY <1>1, <1>2, <1>3, <1>4, <1>5, <1>6

LEMMA TypesHold == DashSpec => []TypeOK
<1>1. DashInit => TypeOK
  BY TypeInit DEF DashInit
<1>2. TypeOK /\ [DashNext]_dashVars => TypeOK'
  BY LoopTypes
<1> QED
  BY <1>1, <1>2, PTL DEF DashSpec

(* A token is let in from its login to its logout, its expiry or the end   *)
(* of the process, and not before or after, whatever other logins, checks  *)
(* and logouts come in between.                                            *)
THEOREM TokensAreExact == DashSpec => []SessionsAreExact
<1>1. DashInit => S!SessionInv
  BY DEF DashInit, S!Init, S!SessionInv, S!NoSessions
<1>2. TypeOK /\ S!SessionInv /\ [DashNext]_dashVars => S!SessionInv'
  BY SessionsStep
<1>3. TypeOK /\ S!SessionInv => SessionsAreExact
  <2> SUFFICES ASSUME TypeOK, S!SessionInv, NEW t \in Tokens
               PROVE  S!Valid(t) <=> t \in DOMAIN issued \ ended /\ clock <= issued[t] + TTL
    BY DEF SessionsAreExact, S!SessionsAreExact
  <2>1. clock \in Nat
    BY DEF TypeOK
  <2>2. t \in DOMAIN issued => issued[t] + TTL \in Nat
    BY DashboardAssumption DEF S!SessionInv
  <2> QED
    BY <2>1, <2>2 DEF S!SessionInv, S!Valid, S!Expired
<1> QED
  BY <1>1, <1>2, <1>3, TypesHold, PTL DEF DashSpec

-----------------------------------------------------------------------------
(***************************************************************************)
(* Pages.                                                                  *)
(***************************************************************************)

(* What the pages so far have not shown is still ahead of the reader:      *)
(* arrivals push it further back, never to the front.                      *)
PagesInv ==
  /\ offset \in Nat
  /\ step \notin {"page", "listed"} => offset = 0
  /\ wanted \subseteq DOMAIN incidents
  /\ step = "page" => \A i \in wanted \ listed : offset <= Len(incidents) - i
  /\ step = "listed" => wanted \subseteq listed

(* A page that is followed by more incidents is full. *)
LEMMA FullPage ==
  ASSUME TypeOK, NEW o \in Nat, NEW i \in DOMAIN incidents, o + Limit <= Len(incidents) - i
  PROVE  Cardinality(Page(o)) = Limit
<1> DEFINE n == Len(incidents)
<1>1. n \in Nat /\ DOMAIN incidents = 1..n /\ i \in 1..n
  BY DEF TypeOK, StoreTypeOK
<1>2. Page(o) = (n - o - Limit + 1)..(n - o)
  <2> SUFFICES ASSUME NEW j \in Int
               PROVE  j \in 1..n /\ n - j \in o..(o + Limit - 1)
                        <=> j \in (n - o - Limit + 1)..(n - o)
    BY <1>1 DEF Page
  <2> QED
    BY <1>1, DashboardAssumption
<1>3. (n - o - Limit + 1) \in Int /\ (n - o) \in Int /\ ~((n - o - Limit + 1) > (n - o))
  BY <1>1, DashboardAssumption
<1>4. Cardinality(Page(o)) = (n - o) - (n - o - Limit + 1) + 1
  BY <1>2, <1>3, FS_Interval
<1> QED
  BY <1>1, <1>4, DashboardAssumption

LEMMA RowsStay ==
  ASSUME TypeOK, [DashNext]_dashVars
  PROVE  /\ DOMAIN incidents \subseteq DOMAIN incidents'
         /\ Len(incidents) \in Nat /\ Len(incidents') \in Nat
         /\ Len(incidents) <= Len(incidents')
<1>1. DOMAIN incidents \subseteq DOMAIN incidents'
  BY LoopSteps, FpKept DEF storeVars
<1>2. /\ Len(incidents) \in Nat /\ DOMAIN incidents = 1..Len(incidents)
      /\ Len(incidents') \in Nat /\ DOMAIN incidents' = 1..Len(incidents')
  BY LoopTypes DEF TypeOK, StoreTypeOK
<1> QED
  BY <1>1, <1>2

LEMMA PagesStep ==
  ASSUME TypeOK, PagesInv, [DashNext]_dashVars
  PROVE  PagesInv'
<1> USE DashboardAssumption
<1>1. ASSUME NEW t \in Tokens, ListIncidents(t) PROVE PagesInv'
  <2> DEFINE W == IF step = "none" THEN DOMAIN incidents ELSE wanted
  <2>1. /\ incidents' = incidents /\ wanted' = W /\ offset' = offset + Limit
        /\ listed' = listed \cup Page(offset) /\ step \in {"none", "page"}
        /\ step' = IF Cardinality(Page(offset)) = Limit THEN "page" ELSE "listed"
    BY <1>1 DEF ListIncidents, allVars, storeVars
  <2>2. offset \in Nat /\ W \subseteq DOMAIN incidents
    BY DEF PagesInv
  <2>3. Len(incidents) \in Nat /\ DOMAIN incidents = 1..Len(incidents)
    BY DEF TypeOK, StoreTypeOK
  <2>4. \A i \in W \ listed : offset <= Len(incidents) - i
    BY <2>1, <2>3 DEF PagesInv
  <2>5. \A i \in W \ listed' : offset + Limit <= Len(incidents) - i
    <3> SUFFICES ASSUME NEW i \in W \ listed' PROVE offset + Limit <= Len(incidents) - i
      OBVIOUS
    <3>1. offset <= Len(incidents) - i /\ i \in DOMAIN incidents /\ i \notin Page(offset)
      BY <2>1, <2>2, <2>4
    <3>2. Len(incidents) - i \notin offset..(offset + Limit - 1)
      BY <3>1 DEF Page
    <3> QED
      BY <2>2, <2>3, <3>1, <3>2
  <2>6. step' = "listed" => W \subseteq listed'
    BY <2>1, <2>2, <2>5, FullPage
  <2> QED
    BY <2>1, <2>2, <2>5, <2>6 DEF PagesInv
<1>2. CASE /\ step' = "none" /\ offset' = 0 /\ wanted' = {}
  BY <1>2 DEF PagesInv
<1>3. CASE /\ UNCHANGED listVars
           /\ step' \in {"page", "listed"} => step' = step
           /\ step \in {"page", "listed"} => step' = step
  <2>1. \A i \in wanted : i \in Nat
    BY DEF PagesInv, TypeOK, StoreTypeOK
  <2> QED
    BY <1>3, <2>1, RowsStay DEF PagesInv, listVars
<1>4. \/ \E t \in Tokens : ListIncidents(t)
      \/ step' = "none" /\ offset' = 0 /\ wanted' = {}
      \/ /\ UNCHANGED listVars
         /\ step' \in {"page", "listed"} => step' = step
         /\ step \in {"page", "listed"} => step' = step
  BY DEF DashNext, RestartAll, Login, Logout, Refuse, GetIncident, EventsForIncident,
         GetFingerprint, GetFingerprintFails, Leave, dashVars, viewVars
<1> QED
  BY <1>1, <1>2, <1>3, <1>4

(* Reading all pages shows every incident there was at the first, however  *)
(* many arrive meanwhile.                                                  *)
THEOREM PagesAreComplete == DashSpec => []PagesMissNothing
<1>1. DashInit => PagesInv
  BY DEF DashInit, Blank, NoList, PagesInv
<1>2. TypeOK /\ PagesInv /\ [DashNext]_dashVars => PagesInv'
  BY PagesStep
<1>3. PagesInv => PagesMissNothing
  BY DEF PagesInv, PagesMissNothing
<1> QED
  BY <1>1, <1>2, <1>3, TypesHold, PTL DEF DashSpec

-----------------------------------------------------------------------------
(***************************************************************************)
(* What a step of the process loop leaves of what was read: rows, moves    *)
(* and sightings are added to, a fingerprint is only ever the row's own.   *)
(***************************************************************************)
Later ==
  /\ DOMAIN events \subseteq DOMAIN events'
  /\ \A k \in DOMAIN events : events'[k] = events[k]
  /\ \A f \in Fps : fingerprints[f].total > 0 => fingerprints'[f].total > 0
  /\ \A i \in DOMAIN incidents : incidents'[i].fp \in {incidents[i].fp, FpIn(i)}
  /\ \A i \in DOMAIN incidents : incidents'[i].state = incidents[i].state \/ Moves(i)' # {}
  /\ \A i \in DOMAIN incidents' \ DOMAIN incidents : incidents'[i].fp = NoFp

LEMMA LaterSame ==
  ASSUME UNCHANGED storeVars
  PROVE  Later
BY DEF storeVars, Later

LEMMA ArriveLater ==
  ASSUME TypeOK, NEW r \in Refs, NEW c \in Contents, NEW s \in {"received", "filtered"},
         Arrive(r, c, s)
  PROVE  Later
<1>1. /\ \A i \in DOMAIN incidents : incidents'[i].state = incidents[i].state
      /\ \A i \in DOMAIN incidents : incidents'[i].fp = incidents[i].fp
      /\ \A i \in DOMAIN incidents' \ DOMAIN incidents : incidents'[i].fp = NoFp
  BY IngestKeeps, IngestKeepsFp DEF Arrive, TypeOK, StoreTypeOK, States
<1> QED
  BY <1>1 DEF Arrive, Later

LEMMA MarkLater ==
  ASSUME TypeOK, NEW w \in Workers, Mark(w)
  PROVE  Later /\ incidents'[in[w]].fp = FpIn(in[w])
<1>1. in[w] \in DOMAIN incidents /\ FpIn(in[w]) \in Fps
  BY InHand DEF Mark
<1>2. /\ incidents'[in[w]].fp = FpIn(in[w])
      /\ \A j \in DOMAIN incidents : j # in[w] => incidents'[j].fp = incidents[j].fp
      /\ DOMAIN incidents' = DOMAIN incidents
      /\ \A j \in DOMAIN incidents : incidents'[j].state = incidents[j].state
  BY <1>1, MarkSets, MarkKeeps DEF Mark, TypeOK, StoreTypeOK
<1> QED
  BY <1>1, <1>2 DEF Mark, Later

LEMMA ObserveLater ==
  ASSUME TypeOK, NEW w \in Workers, Observe(w)
  PROVE  Later /\ fingerprints'[FpIn(in[w])].total > 0
<1>1. in[w] \in Nat /\ FpIn(in[w]) \in Fps /\ now[w] \in Nat
  BY InHand DEF Observe, TypeOK
<1>2. /\ fingerprints'[FpIn(in[w])].total = fingerprints[FpIn(in[w])].total + 1
      /\ fingerprints[FpIn(in[w])].total \in Nat
      /\ \A g \in Fps : g # FpIn(in[w]) => fingerprints'[g] = fingerprints[g]
  BY <1>1, ObserveOpens DEF Observe, TypeOK, StoreTypeOK
<1> QED
  BY <1>1, <1>2 DEF Observe, Later

LEMMA DecideLater ==
  ASSUME TypeOK, NEW w \in Workers, Decide(w)
  PROVE  /\ Later
         /\ \A i \in DOMAIN incidents : i # in[w] => Moves(i)' = Moves(i)
<1>1. PICK i \in DOMAIN incidents : i = in[w] /\ i \in Nat \ {0}
  BY InHand DEF Decide
<1>2. PICK to \in States : to = Verdict(w)
  BY DEF Verdict, States
<1>3. PICK new : new = Len(events) + 1
  OBVIOUS
<1>4. /\ Transition(i, "received", to) /\ "received" \in States
      /\ incidents \in Seq(Incident) /\ events \in Seq(Event)
      /\ fingerprints' = fingerprints
  BY <1>1, <1>2 DEF Decide, TypeOK, StoreTypeOK, States
<1>5. /\ DOMAIN events' = DOMAIN events \cup {new} /\ new \notin DOMAIN events
      /\ \A k \in DOMAIN events : events'[k] = events[k]
      /\ events'[new] = [incident |-> i, kind |-> "state_change",
                         from |-> "received", to |-> to]
  BY <1>1, <1>3, <1>4, TransitionAudits
<1>6. new \in Moves(i)' /\ \A j : j # i => Moves(j)' = Moves(j)
  BY <1>5 DEF Moves
<1>7. /\ DOMAIN incidents' = DOMAIN incidents
      /\ \A j \in DOMAIN incidents : j # i => incidents'[j].state = incidents[j].state
  BY <1>4, TransitionMoves
<1>8. \A j \in DOMAIN incidents : incidents'[j].fp = incidents[j].fp
  BY <1>4, TransitionKeepsFp
<1> QED
  BY <1>1, <1>4, <1>5, <1>6, <1>7, <1>8 DEF Later

Onward ==
  /\ Later
  /\ DOMAIN incidents \subseteq DOMAIN incidents'
  /\ \A i \in DOMAIN incidents : FpIn(i)' = FpIn(i)
  /\ \A i : Moves(i) \subseteq Moves(i)'

LEMMA StepsAddUp ==
  ASSUME TypeOK, [Next]_allVars
  PROVE  Onward
<1>1. Later
  <2>1. \/ \E r \in Refs, c \in Contents, s \in {"received", "filtered"} : Arrive(r, c, s)
        \/ \E w \in Workers : Mark(w) \/ Observe(w) \/ Decide(w)
        \/ UNCHANGED storeVars
    BY NextCases DEF Tick, List, Begin, DecideStale, Publish, StoreCallFails, Restart,
                     allVars
  <2> QED
    BY <2>1, ArriveLater, MarkLater, ObserveLater, DecideLater, LaterSame
<1>2. \A i : Moves(i) \subseteq Moves(i)'
  BY <1>1 DEF Later, Moves
<1> QED
  BY <1>1, <1>2, FpKept DEF Onward

-----------------------------------------------------------------------------
(***************************************************************************)
(* How an incident gets where it is: marked, then sighted, then moved.     *)
(***************************************************************************)
Sure(i) == incidents[i].fp = FpIn(i) /\ fingerprints[FpIn(i)].total > 0

Taken(w) == pending[w] \cup (IF pc[w] = "next" THEN {} ELSE {in[w]})

(* A move comes after the fingerprint and the sighting, and none but what  *)
(* was received is taken up; so an incident that is decided by the loop,   *)
(* and one that is filtered with a fingerprint, has both and a move.       *)
GroupedInv ==
  /\ \A i \in DOMAIN incidents :
       /\ incidents[i].fp \in {NoFp, FpIn(i)}
       /\ Moves(i) # {} => Sure(i)
       /\ incidents[i].state = "filtered" /\ incidents[i].fp # NoFp => Moves(i) # {}
  /\ \A w \in Workers :
       /\ pc[w] \in {"observe", "decide"} => incidents[in[w]].fp = FpIn(in[w])
       /\ pc[w] = "decide" => fingerprints[FpIn(in[w])].total > 0
       /\ \A i \in Taken(w) : incidents[i].state = "received" \/ Moves(i) # {}

(* Who is where after a step, as far as it matters here. *)
LEMMA WorkersMove ==
  ASSUME TypeOK, [Next]_allVars, NEW w \in Workers
  PROVE  /\ pc'[w] = "observe" => Mark(w) \/ (pc[w] = "observe" /\ in'[w] = in[w])
         /\ pc'[w] = "decide" => Observe(w) \/ (pc[w] = "decide" /\ in'[w] = in[w])
         /\ Taken(w)' \subseteq Taken(w) \cup Received
<1> USE DEF Taken
<1>1. ASSUME NEW v \in Workers, NEW q \in Quarantine, Begin(v, q)
      PROVE  /\ pc'[w] = "observe" => pc[w] = "observe" /\ in'[w] = in[w]
             /\ pc'[w] = "decide" => pc[w] = "decide" /\ in'[w] = in[w]
             /\ Taken(w)' \subseteq Taken(w)
  <2>1. PICK i \in pending[v] :
          in' = [in EXCEPT ![v] = i] /\ pending' = [pending EXCEPT ![v] = @ \ {i}]
    BY <1>1 DEF Begin
  <2>2. pc' = [pc EXCEPT ![v] = "mark"]
    BY <1>1 DEF Begin
  <2> QED
    BY <2>1, <2>2 DEF TypeOK
<1>2. ASSUME NEW v \in Workers, List(v)
      PROVE  /\ UNCHANGED <<pc, in>> /\ Taken(w)' \subseteq Taken(w) \cup Received
  BY <1>2 DEF List, Oldest, TypeOK
<1>3. ASSUME NEW v \in Workers,
             Mark(v) \/ Observe(v) \/ Decide(v) \/ DecideStale(v) \/ Publish(v)
               \/ StoreCallFails(v)
      PROVE  /\ UNCHANGED <<in, pending>> /\ (v # w => pc'[w] = pc[w])
             /\ pc[v] # "next"
             /\ pc'[v] = "observe" => Mark(v)
             /\ pc'[v] = "decide" => Observe(v)
  BY <1>3 DEF Mark, Observe, Decide, DecideStale, Publish, StoreCallFails, TypeOK
<1>4. CASE Restart
  BY <1>4 DEF Restart
<1>5. CASE \/ Tick \/ UNCHANGED allVars
           \/ \E r \in Refs, c \in Contents, s \in {"received", "filtered"} : Arrive(r, c, s)
  BY <1>5 DEF Tick, Arrive, allVars, orchVars, workerVars
<1> QED
  BY <1>1, <1>2, <1>3, <1>4, <1>5, NextCases

LEMMA FpTyped ==
  ASSUME TypeOK, NEW i \in DOMAIN incidents
  PROVE  FpIn(i) \in Fps
<1>1. incidents[i] \in Incident
  BY DEF TypeOK, StoreTypeOK
<1> QED
  BY <1>1, OrchestratorAssumption DEF Incident, FpIn

(* Only the worker that holds an incident marks it. *)
LEMMA MarkedBy ==
  ASSUME TypeOK, [Next]_allVars, NEW i \in DOMAIN incidents,
         incidents'[i].fp # incidents[i].fp
  PROVE  \E w \in Workers : pc[w] = "mark" /\ in[w] = i
<1>1. ASSUME NEW r \in Refs, NEW c \in Contents, NEW s \in {"received", "filtered"},
             Arrive(r, c, s)
      PROVE  FALSE
  BY <1>1, IngestKeepsFp DEF Arrive, TypeOK, StoreTypeOK, States
<1>2. ASSUME NEW w \in Workers, Mark(w) PROVE pc[w] = "mark" /\ in[w] = i
  <2>1. in[w] \in DOMAIN incidents /\ FpIn(in[w]) \in Fps
    BY <1>2, InHand DEF Mark
  <2> QED
    BY <1>2, <2>1, MarkSets DEF Mark, TypeOK, StoreTypeOK
<1>3. ASSUME NEW w \in Workers, Decide(w) PROVE FALSE
  <2>1. PICK j \in DOMAIN incidents : j = in[w] /\ j \in Nat \ {0}
    BY <1>3, InHand DEF Decide
  <2>2. PICK to \in States : to = Verdict(w)
    BY DEF Verdict, States
  <2>3. Transition(j, "received", to) /\ "received" \in States
    BY <1>3, <2>1, <2>2 DEF Decide, States
  <2> QED
    BY <2>1, <2>3, TransitionKeepsFp DEF TypeOK, StoreTypeOK
<1>4. \/ \E r \in Refs, c \in Contents, s \in {"received", "filtered"} : Arrive(r, c, s)
      \/ \E w \in Workers : Mark(w) \/ Decide(w)
      \/ UNCHANGED incidents
  BY NextCases DEF Tick, List, Begin, Observe, DecideStale, Publish, StoreCallFails,
                   Restart, storeVars, allVars
<1> QED
  BY <1>1, <1>2, <1>3, <1>4

(* Only the worker that holds an incident moves it, and what is stored     *)
(* anew has no moves.                                                      *)
LEMMA MovedBy ==
  ASSUME TypeOK, EventsHaveIncidents, [Next]_allVars, NEW i \in DOMAIN incidents',
         Moves(i) = {}, Moves(i)' # {}
  PROVE  i \in DOMAIN incidents /\ \E w \in Workers : pc[w] = "decide" /\ in[w] = i
<1>1. PICK w \in Workers : Decide(w)
  <2>1. (\E w \in Workers : Decide(w)) \/ UNCHANGED events
    BY NextCases DEF Tick, Arrive, List, Begin, Mark, Observe, DecideStale, Publish,
                     StoreCallFails, Restart, storeVars, allVars
  <2> QED
    BY <2>1 DEF Moves
<1>2. PICK j \in DOMAIN incidents : j = in[w] /\ j \in Nat \ {0}
  BY <1>1, InHand DEF Decide
<1>3. PICK to \in States : to = Verdict(w)
  BY DEF Verdict, States
<1>4. Transition(j, "received", to) /\ "received" \in States
  BY <1>1, <1>2, <1>3 DEF Decide, States
<1>5. DOMAIN incidents' = DOMAIN incidents
  BY <1>2, <1>4, TransitionMoves DEF TypeOK, StoreTypeOK
<1> QED
  BY <1>1, <1>5, DecideLater DEF Decide

LEMMA GroupedStep ==
  ASSUME TypeOK, AuditInv, GroupedInv, [Next]_allVars
  PROVE  GroupedInv'
<1>1. /\ Later /\ DOMAIN incidents \subseteq DOMAIN incidents'
      /\ \A i \in DOMAIN incidents : FpIn(i)' = FpIn(i)
      /\ \A i : Moves(i) \subseteq Moves(i)'
  BY StepsAddUp DEF Onward
<1>2. \A i \in DOMAIN incidents : Sure(i) => Sure(i)'
  BY <1>1, FpTyped DEF Later, Sure
<1>3. \A i \in DOMAIN incidents' : incidents'[i].fp \in {NoFp, FpIn(i)'}
  BY <1>1 DEF Later, GroupedInv
<1>4. ASSUME NEW i \in DOMAIN incidents', Moves(i)' # {} PROVE Sure(i)'
  <2>1. CASE Moves(i) # {}
    <3>1. i \in DOMAIN incidents
      BY <2>1 DEF AuditInv, EventsHaveIncidents, Moves
    <3> QED
      BY <2>1, <3>1, <1>2 DEF GroupedInv
  <2>2. CASE Moves(i) = {}
    <3>1. i \in DOMAIN incidents /\ \E w \in Workers : pc[w] = "decide" /\ in[w] = i
      BY <1>4, <2>2, MovedBy DEF AuditInv
    <3> QED
      BY <3>1, <1>2 DEF GroupedInv, Sure
  <2> QED
    BY <2>1, <2>2
<1>5. ASSUME NEW i \in DOMAIN incidents', incidents'[i].state = "filtered",
             incidents'[i].fp # NoFp, Moves(i)' = {}
      PROVE  FALSE
  <2>1. i \in DOMAIN incidents /\ Moves(i) = {}
    BY <1>1, <1>5 DEF Later
  <2>2. incidents[i].state = "filtered" /\ incidents[i].fp = NoFp
    BY <1>1, <1>5, <2>1 DEF Later, GroupedInv
  <2>3. PICK w \in Workers : pc[w] = "mark" /\ in[w] = i
    BY <1>5, <2>1, <2>2, MarkedBy
  <2>4. i \in Taken(w)
    BY <2>3 DEF Taken
  <2> QED
    BY <2>1, <2>2, <2>4 DEF GroupedInv
<1>6. ASSUME NEW w \in Workers, pc'[w] \in {"observe", "decide"}
      PROVE  (incidents[in[w]].fp = FpIn(in[w]))'
  <2>1. \/ Mark(w) \/ Observe(w)
        \/ pc[w] \in {"observe", "decide"} /\ in'[w] = in[w]
    BY <1>6, WorkersMove
  <2>2. CASE Mark(w)
    <3>1. in[w] \in DOMAIN incidents /\ in' = in
      BY <2>2, InHand DEF Mark
    <3> QED
      BY <2>2, <3>1, <1>1, MarkLater
  <2>3. CASE Observe(w) \/ (pc[w] \in {"observe", "decide"} /\ in'[w] = in[w])
    <3>1. pc[w] \in {"observe", "decide"} /\ in'[w] = in[w] /\ in[w] \in DOMAIN incidents
      BY <2>3, InHand DEF Observe
    <3> QED
      BY <3>1, <1>1 DEF Later, GroupedInv
  <2> QED
    BY <2>1, <2>2, <2>3
<1>7. ASSUME NEW w \in Workers, pc'[w] = "decide"
      PROVE  (fingerprints[FpIn(in[w])].total > 0)'
  <2>1. Observe(w) \/ (pc[w] = "decide" /\ in'[w] = in[w])
    BY <1>7, WorkersMove
  <2>2. in[w] \in DOMAIN incidents /\ in'[w] = in[w] /\ FpIn(in[w]) \in Fps
    BY <2>1, InHand DEF Observe
  <2>3. CASE Observe(w)
    BY <2>2, <2>3, <1>1, ObserveLater
  <2>4. CASE pc[w] = "decide"
    BY <2>2, <2>4, <1>1 DEF Later, GroupedInv
  <2> QED
    BY <2>1, <2>3, <2>4
<1>8. ASSUME NEW w \in Workers, NEW i \in Taken(w)'
      PROVE  incidents'[i].state = "received" \/ Moves(i)' # {}
  <2>1. i \in Taken(w) \cup Received
    BY <1>8, WorkersMove
  <2>2. i \in DOMAIN incidents
    BY <2>1 DEF Taken, Received, TypeOK
  <2>3. incidents[i].state = "received" \/ Moves(i) # {}
    BY <2>1 DEF GroupedInv, Received
  <2> QED
    BY <2>2, <2>3, <1>1 DEF Later
<1> QED
  BY <1>3, <1>4, <1>5, <1>6, <1>7, <1>8 DEF GroupedInv

-----------------------------------------------------------------------------
(***************************************************************************)
(* What the three reads for an incident show together.                     *)
(***************************************************************************)

(* A row read after its move has, for good, the move and the sighting that *)
(* came before it, so whatever is read later finds them.                   *)
DetailInv ==
  /\ timeline \subseteq DOMAIN events
  /\ step \in {"timeline", "evidence", "shown"} =>
       /\ id \in DOMAIN incidents
       /\ Processed(row) =>
            /\ row.fp \in Fps /\ fingerprints[row.fp].total > 0
            /\ \E k \in Moves(id) : events[k].to = row.state
            /\ step # "timeline" =>
                 \E k \in timeline : events[k].kind = "state_change" /\ events[k].to = row.state
            /\ step = "shown" => evidence # "none"

LoopInv == TypeOK /\ AuditInv /\ GroupedInv

LEMMA LoopInvStep == LoopInv /\ [DashNext]_dashVars => LoopInv'
<1> SUFFICES ASSUME LoopInv, [DashNext]_dashVars PROVE LoopInv'
  OBVIOUS
<1>1. CASE [Next]_allVars
  BY <1>1, TypeStep, AuditStep, GroupedStep DEF LoopInv
<1>2. CASE UNCHANGED <<storeVars, clock, workerVars, sent, openings>>
  <2>1. TypeOK'
    BY LoopTypes DEF LoopInv
  <2>2. AuditInv'
    BY <1>2, AuditUntouched DEF LoopInv, storeVars
  <2>3. GroupedInv'
    BY <1>2 DEF LoopInv, GroupedInv, Sure, Taken, Moves, FpIn, storeVars, workerVars
  <2> QED
    BY <2>1, <2>2, <2>3 DEF LoopInv
<1> QED
  BY <1>1, <1>2, LoopSteps

(* What was read stays true while the loop goes on. *)
LEMMA DetailKept ==
  ASSUME LoopInv, DetailInv, [DashNext]_dashVars, UNCHANGED viewVars
  PROVE  DetailInv'
<1>1. CASE [Next]_allVars
  <2>1. Onward
    BY <1>1, StepsAddUp DEF LoopInv
  <2>2. \A k \in Moves(id) : k \in Moves(id)' /\ events'[k] = events[k]
    BY <2>1 DEF Onward, Later, Moves, viewVars, detailVars
  <2> QED
    BY <2>1, <2>2 DEF Onward, Later, DetailInv, Processed, viewVars, detailVars
<1>2. CASE UNCHANGED storeVars
  BY <1>2 DEF DetailInv, Processed, Moves, storeVars, viewVars, detailVars
<1> QED
  BY <1>1, <1>2, LoopSteps

LEMMA DetailStep ==
  ASSUME LoopInv, DetailInv, [DashNext]_dashVars
  PROVE  DetailInv'
<1>1. ASSUME NEW t \in Tokens, NEW i \in DOMAIN incidents, GetIncident(t, i)
      PROVE  DetailInv'
  <2>1. /\ UNCHANGED storeVars /\ step' = "timeline" /\ id' = i /\ timeline' = timeline
        /\ row'.state = incidents[i].state /\ row'.fp = incidents[i].fp
    BY <1>1 DEF GetIncident, allVars
  <2>2. ASSUME Processed(row)'
        PROVE  /\ row'.fp \in Fps /\ fingerprints[row'.fp].total > 0
               /\ \E k \in Moves(i) : events[k].to = row'.state
    <3>1. incidents[i].state \in States /\ incidents[i].state # "received"
      <4>1. incidents[i] \in Incident
        BY DEF LoopInv, TypeOK, StoreTypeOK
      <4> QED
        BY <2>1, <2>2, <4>1 DEF Processed, Incident
    <3>2. Moves(i) # {}
      BY <2>1, <2>2, <3>1
      DEF Processed, LoopInv, AuditInv, AuditTellsTheMove, GroupedInv, States
    <3>3. Sure(i)
      BY <3>2 DEF LoopInv, GroupedInv
    <3>4. FpIn(i) \in Fps
      BY FpTyped DEF LoopInv
    <3> QED
      BY <2>1, <3>2, <3>3, <3>4 DEF Sure, LoopInv, AuditInv, AuditTellsTheMove
  <2> QED
    BY <2>1, <2>2 DEF DetailInv, Processed, Moves, storeVars
<1>2. CASE EventsForIncident
  <2>1. UNCHANGED storeVars /\ step = "timeline" /\ step' = "evidence" /\ UNCHANGED <<id, row>>
    BY <1>2 DEF EventsForIncident, allVars
  <2>2. timeline' = {k \in DOMAIN events : events[k].incident = id}
    BY <1>2 DEF EventsForIncident
  <2> QED
    BY <2>1, <2>2 DEF DetailInv, Processed, Moves, storeVars
<1>3. CASE GetFingerprint \/ GetFingerprintFails
  <2>1. /\ UNCHANGED storeVars /\ step = "evidence" /\ step' = "shown"
        /\ UNCHANGED <<id, row, timeline>>
    BY <1>3 DEF GetFingerprint, GetFingerprintFails, allVars
  <2>2. row.fp \in Fps /\ fingerprints[row.fp].total > 0 => evidence' # "none"
    BY <1>3, StoreAssumption DEF GetFingerprint, GetFingerprintFails
  <2> QED
    BY <2>1, <2>2 DEF DetailInv, Processed, Moves, storeVars
<1>4. ASSUME NEW t \in Tokens, ListIncidents(t) PROVE DetailInv'
  BY <1>4 DEF ListIncidents, DetailInv, allVars, storeVars, detailVars
<1>5. CASE timeline' = {} /\ step' = "none"
  BY <1>5 DEF DetailInv
<1>6. \/ \E t \in Tokens, i \in DOMAIN incidents : GetIncident(t, i)
      \/ EventsForIncident \/ GetFingerprint \/ GetFingerprintFails
      \/ \E t \in Tokens : ListIncidents(t)
      \/ timeline' = {} /\ step' = "none"
      \/ UNCHANGED viewVars
  BY DEF DashNext, RestartAll, Login, Logout, Refuse, Leave, dashVars
<1> QED
  BY <1>1, <1>2, <1>3, <1>4, <1>5, <1>6, DetailKept

(* An incident shown as decided is shown with the move that decided it and *)
(* with what grouped it, wherever the process loop was between the reads.  *)
THEOREM DetailIsConsistent == DashSpec => []DetailTellsHowItGotThere
<1>1. DashInit => LoopInv /\ DetailInv
  <2> SUFFICES ASSUME DashInit PROVE LoopInv /\ DetailInv
    OBVIOUS
  <2>1. DOMAIN incidents = {} /\ DOMAIN events = {} /\ step = "none" /\ timeline = {}
    BY DEF DashInit, Init, StoreInit, Blank, NoDetail
  <2>2. \A w \in Workers : pc[w] = "next" /\ pending[w] = {}
    BY DEF DashInit, Init, OrchestratorInit
  <2>3. AuditInv /\ GroupedInv
    BY <2>1, <2>2 DEF AuditInv, AuditTellsTheMove, EventsHaveIncidents, GroupedInv, Taken
  <2> QED
    BY <2>1, <2>3, TypeInit DEF LoopInv, DetailInv, DashInit
<1>2. LoopInv /\ DetailInv /\ [DashNext]_dashVars => DetailInv'
  BY DetailStep
<1>3. DetailInv => DetailTellsHowItGotThere
  BY DEF DetailInv, DetailTellsHowItGotThere
<1> QED
  BY <1>1, <1>2, <1>3, LoopInvStep, PTL DEF DashSpec
=============================================================================
