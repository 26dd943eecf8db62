------------------------------- MODULE Reload -------------------------------
(***************************************************************************)
(* The project registry: projects.yaml is loaded at start and again on     *)
(* SIGHUP (cmd/sentinel/run.go), reconciled with the projects table        *)
(* (internal/store/projects.go), and handed to the HTTP server, the        *)
(* resolver and the orchestrator.                                          *)
(*                                                                         *)
(* A registry is a function from its slugs to what projects.yaml says of   *)
(* them.  SyncProjects is one transaction of several statements; `sentinel *)
(* replay` is another process that syncs the same table, and SQLite has    *)
(* one writer at a time.                                                   *)
(***************************************************************************)

CONSTANTS
  Slugs,      \* project slugs
  Settings,   \* what the registry says of a project: repo, default branch
  Registries, \* the valid contents of projects.yaml
  Invalid,    \* a projects.yaml that does not validate
  NoTx        \* no transaction holds the write lock

Row == [settings: Settings, active: BOOLEAN, quarantined: BOOLEAN]
Tables == UNION {[S -> Row] : S \in SUBSET Slugs}

Nothing == [s \in {} |-> Invalid]

(* Validation asks for at least one project. *)
ASSUME ReloadAssumption ==
  /\ \A r \in Registries :
       /\ DOMAIN r \in (SUBSET Slugs) \ {{}}
       /\ r \in [DOMAIN r -> Settings]
  /\ Invalid \notin Registries \cup {Nothing}
  /\ NoTx \notin Tables

VARIABLES
  file,      \* projects.yaml
  pc,        \* "down"; serve: "startSync", "start", "listen"; then the reload
             \* goroutine: "waiting", "sync", "set"
  hup,       \* the signal channel, of capacity one, is full
  loaded,    \* the registry being started with or reloaded
  todo,      \* slugs SyncProjects has still to upsert
  tx,        \* the projects table as the open transaction sees it
  projects,  \* the projects table
  served,    \* the HTTP server's registry
  captured,  \* the registry of the resolver, the chain and the orchestrator
  replayLoaded, \* the registry a sentinel replay has loaded and not synced
  replaying, \* the registry of a sentinel replay that has synced
  incidents, \* slugs that have incidents
  synced,    \* history: the registry last reconciled with the table
  fresh      \* history: the file is as it was at the last start or signal

processVars == <<pc, hup, loaded, todo, tx, served, captured>>
replayVars  == <<replayLoaded, replaying>>
reloadVars  == <<file, processVars, replayVars, projects, incidents, synced, fresh>>

Init ==
  /\ file \in Registries \cup {Invalid}
  /\ pc = "down" /\ hup = FALSE
  /\ loaded = Nothing /\ served = Nothing /\ captured = Nothing
  /\ replayLoaded = Nothing /\ replaying = Nothing
  /\ todo = {} /\ tx = NoTx
  /\ projects = Nothing
  /\ incidents = {}
  /\ synced = Nothing
  /\ fresh = TRUE

(***************************************************************************)
(* The operator, and another process.                                      *)
(***************************************************************************)
Edit(f) ==
  /\ f # file
  /\ file' = f
  /\ fresh' = FALSE
  /\ UNCHANGED <<processVars, replayVars, projects, incidents, synced>>

Serving == pc \in {"waiting", "sync", "set"}

(* Mutant of Signal: the channel has no buffer, so a signal is lost unless *)
(* the goroutine is waiting for one.                                       *)
SignalUnbuffered ==
  /\ Serving
  /\ hup' = (pc = "waiting")
  /\ fresh' = TRUE
  /\ UNCHANGED <<file, pc, loaded, todo, tx, served, captured, replayVars, projects, incidents, synced>>

(* SIGHUP, once signal.Notify was called.  The runtime does not wait for   *)
(* room: a signal that finds the channel full is dropped.                  *)
Signal ==
  /\ Serving
  /\ hup' = TRUE
  /\ fresh' = TRUE
  /\ UNCHANGED <<file, pc, loaded, todo, tx, served, captured, replayVars, projects, incidents, synced>>

(* A project is quarantined, by hand or by a breaker to come. *)
Quarantine(s) ==
  /\ tx = NoTx
  /\ s \in DOMAIN projects
  /\ projects' = [projects EXCEPT ![s].quarantined = TRUE]
  /\ UNCHANGED <<file, processVars, replayVars, incidents, synced, fresh>>

(***************************************************************************)
(* SyncProjects.                                                           *)
(***************************************************************************)

(* Mutant of Upserted: the row is replaced, not updated. *)
UpsertReplacing(table, s, settings) ==
  [t \in DOMAIN table \cup {s} |->
     IF t = s THEN [settings |-> settings, active |-> TRUE, quarantined |-> FALSE]
     ELSE table[t]]

(* INSERT ... ON CONFLICT: only the columns of the registry are set. *)
Upserted(table, s, settings) ==
  [t \in DOMAIN table \cup {s} |->
     IF t # s THEN table[t]
     ELSE [settings |-> settings, active |-> TRUE,
           quarantined |-> s \in DOMAIN table /\ table[s].quarantined]]

(* Mutant of Deactivated: rows no longer listed are deleted. *)
DeactivateDeleting(table, listed) == [s \in DOMAIN table \cap listed |-> table[s]]

(* Rows no longer listed stay, inactive. *)
Deactivated(table, listed) ==
  [s \in DOMAIN table |->
     IF s \in listed THEN table[s] ELSE [table[s] EXCEPT !.active = FALSE]]

(* The table after a whole reconciliation with r. *)
Reconciled(table, r) ==
  Deactivated([s \in DOMAIN table \cup DOMAIN r |->
                 IF s \in DOMAIN r THEN Upserted(table, s, r[s])[s] ELSE table[s]],
              DOMAIN r)

Syncing == pc \in {"startSync", "sync"}

(* The first statement takes the write lock and the snapshot. *)
Base == IF tx = NoTx THEN projects ELSE tx

(* Mutant of UpsertNext: there is no transaction. *)
UpsertCommitted(s) ==
  /\ Syncing /\ s \in todo
  /\ projects' = Upserted(projects, s, loaded[s])
  /\ todo' = todo \ {s}
  /\ UNCHANGED <<file, pc, hup, loaded, tx, served, captured, replayVars, incidents, synced, fresh>>

UpsertNext(s) ==
  /\ Syncing /\ s \in todo
  /\ tx' = Upserted(Base, s, loaded[s])
  /\ todo' = todo \ {s}
  /\ UNCHANGED <<file, pc, hup, loaded, served, captured, replayVars, projects, incidents, synced, fresh>>

Synced == pc' = IF pc = "sync" THEN "set" ELSE "start"

(* deactivateUnlisted, and the commit. *)
CommitSync ==
  /\ Syncing /\ todo = {}
  /\ projects' = Deactivated(Base, DOMAIN loaded)
  /\ tx' = NoTx
  /\ synced' = loaded
  /\ Synced
  /\ UNCHANGED <<file, hup, loaded, todo, served, captured, replayVars, incidents, fresh>>

Stopped ==
  /\ pc' = "down" /\ hup' = FALSE
  /\ loaded' = Nothing /\ served' = Nothing /\ captured' = Nothing
  /\ todo' = {} /\ tx' = NoTx

(* Mutant of SyncFails: the transaction is left open. *)
SyncFailsUnrolled ==
  /\ pc = "sync"
  /\ pc' = "set" /\ todo' = {}
  /\ UNCHANGED <<hup, loaded, tx, served, captured>>
  /\ UNCHANGED <<file, replayVars, projects, incidents, synced, fresh>>

(* A statement fails and the transaction is rolled back: a start fails, a  *)
(* reload goes on.                                                         *)
SyncFails ==
  /\ Syncing
  /\ IF pc = "startSync"
     THEN Stopped
     ELSE /\ pc' = "set" /\ todo' = {} /\ tx' = NoTx
          /\ UNCHANGED <<hup, loaded, served, captured>>
  /\ UNCHANGED <<file, replayVars, projects, incidents, synced, fresh>>

(* sentinel replay, a process of its own, loads the file ... *)
ReplayLoad ==
  /\ replayLoaded = Nothing /\ replaying = Nothing
  /\ file # Invalid
  /\ replayLoaded' = file
  /\ UNCHANGED <<file, processVars, replaying, projects, incidents, synced, fresh>>

(* ... and syncs what it loaded. *)
ReplaySync ==
  /\ replayLoaded # Nothing /\ tx = NoTx
  /\ projects' = Reconciled(projects, replayLoaded)
  /\ synced' = replayLoaded
  /\ replaying' = replayLoaded /\ replayLoaded' = Nothing
  /\ UNCHANGED <<file, processVars, incidents, fresh>>

(* It writes its one event, or fails, and ends. *)
ReplayEnds ==
  /\ replayLoaded # Nothing \/ replaying # Nothing
  /\ replayLoaded' = Nothing /\ replaying' = Nothing
  /\ \/ \E s \in DOMAIN replaying \cap DOMAIN projects :
          tx = NoTx /\ incidents' = incidents \cup {s}
     \/ UNCHANGED incidents
  /\ UNCHANGED <<file, processVars, projects, synced, fresh>>

(***************************************************************************)
(* serve and watchReloads.                                                 *)
(***************************************************************************)
Start ==
  /\ pc = "down"
  /\ file # Invalid
  /\ loaded' = file /\ todo' = DOMAIN file
  /\ pc' = "startSync"
  /\ fresh' = TRUE
  /\ UNCHANGED <<file, hup, tx, served, captured, replayVars, projects, incidents, synced>>

(* startIngestion: the resolver is built from the registry, the            *)
(* orchestrator keeps it.                                                  *)
StartIngestion ==
  /\ pc = "start"
  /\ captured' = loaded
  /\ pc' = "listen"
  /\ UNCHANGED <<file, hup, loaded, todo, tx, served, replayVars, projects, incidents, synced, fresh>>

(* NewServer, and watchReloads starts to listen for SIGHUP. *)
Listen ==
  /\ pc = "listen"
  /\ served' = loaded
  /\ pc' = "waiting"
  /\ UNCHANGED <<file, hup, loaded, todo, tx, captured, replayVars, projects, incidents, synced, fresh>>

(* The goroutine takes the signal and loads the file; one that does not    *)
(* validate is rejected.                                                   *)
Reload ==
  /\ pc = "waiting" /\ hup
  /\ hup' = FALSE
  /\ IF file = Invalid
     THEN UNCHANGED <<pc, loaded, todo>>
     ELSE pc' = "sync" /\ loaded' = file /\ todo' = DOMAIN file
  /\ UNCHANGED <<file, tx, served, captured, replayVars, projects, incidents, synced, fresh>>

SetRegistry ==
  /\ pc = "set"
  /\ served' = loaded
  /\ pc' = "waiting"
  /\ UNCHANGED <<file, hup, loaded, todo, tx, captured, replayVars, projects, incidents, synced, fresh>>

(* A first delivery for s arrives and its insert passes the foreign key. *)
Ingest(s) ==
  /\ tx = NoTx
  /\ s \in DOMAIN captured /\ s \in DOMAIN projects
  /\ incidents' = incidents \cup {s}
  /\ UNCHANGED <<file, processVars, replayVars, projects, synced, fresh>>

(* The process ends, by a signal or a crash; SIGHUP ends one that has not  *)
(* got as far as signal.Notify.                                            *)
Stop ==
  /\ pc # "down"
  /\ Stopped
  /\ UNCHANGED <<file, replayVars, projects, incidents, synced, fresh>>

Next ==
  \/ \E f \in Registries \cup {Invalid} : Edit(f)
  \/ Signal \/ ReplayLoad \/ ReplaySync \/ ReplayEnds
  \/ Start \/ StartIngestion \/ Listen \/ Reload \/ SetRegistry \/ Stop
  \/ \E s \in Slugs : UpsertNext(s) \/ Quarantine(s) \/ Ingest(s)
  \/ CommitSync \/ SyncFails

Spec == Init /\ [][Next]_reloadVars

-----------------------------------------------------------------------------
(* The type of every variable. *)
TypeOK ==
  /\ file \in Registries \cup {Invalid}
  /\ pc \in {"down", "startSync", "start", "listen", "waiting", "sync", "set"}
  /\ hup \in BOOLEAN
  /\ loaded \in Registries \cup {Nothing}
  /\ pc # "down" => loaded \in Registries
  /\ todo \subseteq DOMAIN loaded /\ (~Syncing => todo = {})
  /\ tx \in Tables \cup {NoTx} /\ (~Syncing => tx = NoTx)
  /\ projects \in Tables
  /\ served \in Registries \cup {Nothing}
  /\ captured \in Registries \cup {Nothing}
  /\ replayLoaded \in Registries \cup {Nothing}
  /\ replaying \in Registries \cup {Nothing}
  /\ incidents \subseteq Slugs
  /\ synced \in Registries \cup {Nothing}
  /\ fresh \in BOOLEAN

(* No event is refused by the foreign key: whatever reloads and failed     *)
(* syncs have done to the table, it has a row for every project the        *)
(* serving resolver or a replay's may name, and every project that has     *)
(* incidents.                                                              *)
RoutedHaveRows ==
  DOMAIN captured \cup DOMAIN replaying \cup incidents \subseteq DOMAIN projects

(* The table always shows one registry in whole: the active rows are those *)
(* of the registry last synced, with its settings, whichever process       *)
(* synced it and whatever failed or stopped half-way since.                *)
TableIsWhole ==
  /\ {s \in DOMAIN projects : projects[s].active} = DOMAIN synced
  /\ \A s \in DOMAIN synced : projects[s].settings = synced[s]

(* A reload never clears a quarantine, not even by way of removing the     *)
(* project and adding it again.                                            *)
QuarantineSurvives ==
  [][\A s \in DOMAIN projects :
       projects[s].quarantined => s \in DOMAIN projects' /\ projects'[s].quarantined]_reloadVars

(* No signal is forgotten: with all signals handled and the file not       *)
(* edited since the last, the server has what is in it, if that is valid.  *)
LastSignalWins ==
  pc = "waiting" /\ ~hup /\ fresh /\ file # Invalid => served = file

(* A newly registered project can receive incidents without a restart:     *)
(* once a reload is through, the resolver knows its projects.              *)
ReloadedAreRouted == pc = "waiting" => DOMAIN served \subseteq DOMAIN captured
=============================================================================
