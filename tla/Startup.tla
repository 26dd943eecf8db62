------------------------------- MODULE Startup -------------------------------
(***************************************************************************)
(* The registry of Reload on a database whose schema is migrated by every  *)
(* process that starts on it (cmd/sentinel/run.go, ingestwiring.go): serve *)
(* and replay load projects.yaml, migrate, and only then sync.  The two    *)
(* may start together, from binaries of different versions.                *)
(*                                                                         *)
(* `sentinel migrate` is a replay that ends when it has migrated.          *)
(***************************************************************************)
EXTENDS Reload, Naturals, Sequences

CONSTANT Builds  \* how many migrations the binaries in use embed

ASSUME StartupAssumption == Builds \subseteq Nat

VARIABLES schema, versions, mpc, build, next  \* see Migrate

Procs == {"serve", "replay"}

M == INSTANCE Migrate

migrateVars == <<schema, versions, mpc, build, next>>
startupVars == <<reloadVars, migrateVars>>

StartupInit == Init /\ M!Init

(* No migration holds SQLite's write lock. *)
LockFree == \A p \in Procs : ~M!Writing(p)

Ready(p) == mpc[p] = "ready"

(***************************************************************************)
(* Processes start, migrate and end.                                       *)
(***************************************************************************)
StartServe(b) == Start /\ M!Starts("serve", b)

StartReplay(b) == ReplayLoad /\ M!Starts("replay", b)

(* The SQL of a migration waits for the lock SyncProjects may hold. *)
MigrateStep(p) ==
  /\ M!Migrating(p)
  /\ mpc[p] = "apply" => tx = NoTx
  /\ UNCHANGED reloadVars

(* serve ends: a migration or the first sync fails, or it is stopped. *)
ServeEnds == Stop /\ M!Ends("serve")

ReplayStops == LockFree /\ Ready("replay") /\ ReplayEnds /\ M!Ends("replay")

(* replay ends before it has synced. *)
ReplayFails == ~Ready("replay") /\ ReplayEnds /\ M!Ends("replay")

(***************************************************************************)
(* What they do on the migrated database.                                  *)
(***************************************************************************)
Served ==
  /\ Ready("serve")
  /\ \/ StartIngestion \/ Listen \/ Reload \/ SetRegistry
     \/ pc = "sync" /\ SyncFails
     \/ LockFree /\ (CommitSync \/ \E s \in Slugs : UpsertNext(s) \/ Ingest(s))

Others ==
  \/ Ready("replay") /\ LockFree /\ ReplaySync
  \/ LockFree /\ \E s \in Slugs : Quarantine(s)
  \/ Signal
  \/ \E f \in Registries \cup {Invalid} : Edit(f)

StartupNext ==
  \/ \E b \in Builds : StartServe(b) \/ StartReplay(b)
  \/ \E p \in Procs : MigrateStep(p)
  \/ ServeEnds \/ ReplayStops \/ ReplayFails
  \/ (Served \/ Others) /\ UNCHANGED migrateVars

StartupSpec == StartupInit /\ [][StartupNext]_startupVars

-----------------------------------------------------------------------------
(* The schema and its version agree, and so do a started binary and the    *)
(* schema, however starts, crashes and failures of the two interleave.     *)
SchemaIsVersioned == M!SchemaIsVersioned
=============================================================================
