------------------------------ MODULE Dashboard ------------------------------
(***************************************************************************)
(* The dashboard's requests (internal/httpapi/auth.go, incidents.go) next  *)
(* to the process loop that writes what they read.  A request is let in by *)
(* its session token; handleIncident then makes three reads, handleIncidents *)
(* one per page, and the loop goes on between any two.  Requests only read, *)
(* so one at a time stands for any number of them.                         *)
(***************************************************************************)
EXTENDS Orchestrator

CONSTANTS
  Tokens,  \* session tokens
  TTL,     \* SessionTTL, in ticks
  Limit    \* the page size asked for

ASSUME DashboardAssumption == TTL \in Nat /\ Limit \in Nat \ {0}

VARIABLES
  sessions, issued, ended,  \* see Session
  step,      \* of the request: "none"; of one for an incident: "timeline",
             \* "evidence", "shown"; of a listing: "page", "listed"
  id,        \* the incident asked for
  row,       \* its row, as read
  timeline,  \* its audit rows, as read
  evidence,  \* whether a fingerprint row was found: "none", "found" or, when
             \* the read failed, "lost"
  listed,    \* incidents on the pages read
  wanted,    \* history: the incidents there were at the first page
  offset     \* of the next page

S == INSTANCE Session WITH now <- clock

detailVars == <<id, row, timeline, evidence>>
listVars   == <<listed, wanted, offset>>
viewVars   == <<step, detailVars, listVars>>
sessVars   == <<sessions, issued, ended>>
dashVars   == <<allVars, sessVars, viewVars>>

NoRow == [ref |-> NoFp, state |-> "received", fp |-> NoFp]

NoDetail == id = 0 /\ row = NoRow /\ timeline = {} /\ evidence = "none"
NoList   == listed = {} /\ wanted = {} /\ offset = 0
Blank    == step = "none" /\ NoDetail /\ NoList

DashInit == Init /\ S!Init /\ Blank

(***************************************************************************)
(* Sessions.                                                               *)
(***************************************************************************)
Login(t) == S!Issue(t) /\ UNCHANGED <<allVars, viewVars>>

Logout(t) == t \in DOMAIN issued /\ S!Revoke(t) /\ UNCHANGED <<allVars, viewVars>>

(* requireSession lets a request in, or answers 401. *)
Admit(t)  == t \in DOMAIN issued /\ S!Valid(t) /\ S!Check(t)
Refuse(t) == /\ t \in DOMAIN issued /\ ~S!Valid(t) /\ S!Check(t)
             /\ UNCHANGED <<allVars, viewVars>>

(***************************************************************************)
(* GET /api/incidents/{id}.                                                *)
(***************************************************************************)
GetIncident(t, i) ==
  /\ step = "none"
  /\ Admit(t)
  /\ i \in DOMAIN incidents
  /\ id' = i
  /\ row' = [ref |-> incidents[i].ref, state |-> incidents[i].state, fp |-> incidents[i].fp]
  /\ step' = "timeline"
  /\ UNCHANGED <<allVars, timeline, evidence, listVars>>

EventsForIncident ==
  /\ step = "timeline"
  /\ timeline' = {k \in DOMAIN events : events[k].incident = id}
  /\ step' = "evidence"
  /\ UNCHANGED <<allVars, sessVars, id, row, evidence, listVars>>

(* Mutant of GetFingerprint: the row is read once more, for its state. *)
GetFingerprintRereading ==
  /\ step = "evidence"
  /\ row' = [row EXCEPT !.state = incidents[id].state, !.fp = incidents[id].fp]
  /\ evidence' = IF row'.fp # NoFp /\ fingerprints[row'.fp].total > 0 THEN "found" ELSE "none"
  /\ step' = "shown"
  /\ UNCHANGED <<allVars, sessVars, id, timeline, listVars>>

(* A row without a fingerprint has no evidence to show. *)
GetFingerprint ==
  /\ step = "evidence"
  /\ evidence' = IF row.fp # NoFp /\ fingerprints[row.fp].total > 0 THEN "found" ELSE "none"
  /\ step' = "shown"
  /\ UNCHANGED <<allVars, sessVars, id, row, timeline, listVars>>

(* An error of this read is passed over: the incident is shown without. *)
GetFingerprintFails ==
  /\ step = "evidence"
  /\ row.fp # NoFp
  /\ Fault
  /\ evidence' = "lost"
  /\ step' = "shown"
  /\ UNCHANGED <<storeVars, clock, workerVars, sent, openings, sessVars, id, row, timeline, listVars>>

(***************************************************************************)
(* GET /api/incidents, page after page until one is short.                 *)
(***************************************************************************)

(* ORDER BY created_at DESC, id DESC LIMIT ? OFFSET ? *)
Page(o) == {i \in DOMAIN incidents : Len(incidents) - i \in o..(o + Limit - 1)}

(* Mutant of ListIncidents: the reader stops at the number of incidents    *)
(* there were when it started.                                             *)
ListIncidentsCounted(t) ==
  /\ step \in {"none", "page"}
  /\ Admit(t)
  /\ listed' = listed \cup Page(offset)
  /\ wanted' = IF step = "none" THEN DOMAIN incidents ELSE wanted
  /\ offset' = offset + Limit
  /\ step' = IF offset' < Cardinality(wanted') THEN "page" ELSE "listed"
  /\ UNCHANGED <<allVars, detailVars>>

ListIncidents(t) ==
  /\ step \in {"none", "page"}
  /\ Admit(t)
  /\ listed' = listed \cup Page(offset)
  /\ wanted' = IF step = "none" THEN DOMAIN incidents ELSE wanted
  /\ offset' = offset + Limit
  /\ step' = IF Cardinality(Page(offset)) = Limit THEN "page" ELSE "listed"
  /\ UNCHANGED <<allVars, detailVars>>

(* The answer is looked at, a read failed, or the reader goes elsewhere. *)
Leave ==
  /\ step # "none"
  /\ step' = "none"
  /\ id' = 0 /\ row' = NoRow /\ timeline' = {} /\ evidence' = "none"
  /\ listed' = {} /\ wanted' = {} /\ offset' = 0
  /\ UNCHANGED <<allVars, sessVars>>

(***************************************************************************)
(* The rest of the process.                                                *)
(***************************************************************************)
RestartAll ==
  /\ Restart
  /\ S!Lose
  /\ step' = "none"
  /\ id' = 0 /\ row' = NoRow /\ timeline' = {} /\ evidence' = "none"
  /\ listed' = {} /\ wanted' = {} /\ offset' = 0

Working ==
  \/ Tick
  \/ \E r \in Refs, c \in Contents, s \in {"received", "filtered"} : Arrive(r, c, s)
  \/ \E w \in Workers : Step(w) \/ StoreCallFails(w)

DashNext ==
  \/ Working /\ UNCHANGED <<sessVars, viewVars>>
  \/ RestartAll
  \/ \E t \in Tokens :
       \/ Login(t) \/ Logout(t) \/ Refuse(t)
       \/ \E i \in DOMAIN incidents : GetIncident(t, i)
       \/ ListIncidents(t)
  \/ EventsForIncident \/ GetFingerprint \/ GetFingerprintFails
  \/ Leave

DashSpec == DashInit /\ [][DashNext]_dashVars

-----------------------------------------------------------------------------
SessionsAreExact == S!SessionsAreExact

(* Whether a row, as read, has been through the process loop; what routing *)
(* filters out never gets there.                                           *)
Processed(r) == r.state # "received" /\ (r.state = "filtered" => r.fp # NoFp)

(* An incident shown as decided is shown with the move that decided it and *)
(* with what grouped it, although its row, its timeline and its            *)
(* fingerprint are read one after the other while the loop goes on.        *)
DetailTellsHowItGotThere ==
  step = "shown" /\ Processed(row) =>
    /\ \E k \in timeline : events[k].kind = "state_change" /\ events[k].to = row.state
    /\ evidence # "none"

(* A reader of all pages sees every incident there was when it started,    *)
(* although others arrive and shift the pages under it.                    *)
PagesMissNothing == step = "listed" => wanted \subseteq listed
=============================================================================
