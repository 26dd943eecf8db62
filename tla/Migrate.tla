------------------------------- MODULE Migrate -------------------------------
(***************************************************************************)
(* Schema migrations (internal/store/migrate.go).  Every start of serve,   *)
(* replay or migrate applies the migrations its binary embeds that are     *)
(* later than the database's version, each in a transaction with the row   *)
(* that records it.  The version is read once, before, so processes that   *)
(* start together work from versions that may be out of date by the time   *)
(* they get the write lock.                                                *)
(*                                                                         *)
(* Embedded migrations are numbered from 1 without gaps (loadMigrations    *)
(* refuses anything else), so a binary's are given by how many they are.   *)
(***************************************************************************)
EXTENDS Naturals, Sequences

CONSTANTS
  Procs,   \* processes that may start on the database
  Builds   \* how many migrations the binaries in use embed

VARIABLES
  schema,    \* the migrations whose SQL has been committed, in order
  versions,  \* the rows of schema_migrations
  mpc,       \* per process: "off"; "read", "apply", "record"; "ready"
  build,     \* per process: how many migrations its binary embeds
  next       \* per process: the migration it is to apply

migrateVars == <<schema, versions, mpc, build, next>>

Init ==
  /\ schema = <<>> /\ versions = {}
  /\ mpc = [p \in Procs |-> "off"]
  /\ build = [p \in Procs |-> 0]
  /\ next = [p \in Procs |-> 0]

(* A transaction that has written holds the write lock until it ends. *)
Writing(p) == mpc[p] = "record"

Starts(p, b) ==
  /\ mpc[p] = "off"
  /\ mpc' = [mpc EXCEPT ![p] = "read"]
  /\ build' = [build EXCEPT ![p] = b]
  /\ UNCHANGED <<schema, versions, next>>

(* Where the loop stands with migration n ahead of it. *)
Ahead(p, n) == IF n <= build[p] THEN "apply" ELSE "ready"

(* SchemaVersion: max(version), or 0. *)
SchemaVersion ==
  IF versions = {} THEN 0 ELSE CHOOSE v \in versions : \A u \in versions : u <= v

ReadVersion(p) ==
  /\ mpc[p] = "read"
  /\ next' = [next EXCEPT ![p] = SchemaVersion + 1]
  /\ mpc' = [mpc EXCEPT ![p] = Ahead(p, SchemaVersion + 1)]
  /\ UNCHANGED <<schema, versions, build>>

(* applyOne's first statement, which waits for the write lock.  The SQL of *)
(* a migration that has been applied may fail (see Fails) or go through.   *)
ApplySQL(p) ==
  /\ mpc[p] = "apply"
  /\ \A q \in Procs : ~Writing(q)
  /\ mpc' = [mpc EXCEPT ![p] = "record"]
  /\ UNCHANGED <<schema, versions, build, next>>

(* Mutant of Record: INSERT OR REPLACE. *)
RecordReplacing(p) ==
  /\ mpc[p] = "record"
  /\ versions' = versions \cup {next[p]}
  /\ schema' = Append(schema, next[p])
  /\ next' = [next EXCEPT ![p] = @ + 1]
  /\ mpc' = [mpc EXCEPT ![p] = Ahead(p, next[p] + 1)]
  /\ UNCHANGED build

(* Its second, which the primary key of schema_migrations guards, and the  *)
(* commit of both.                                                         *)
Record(p) ==
  /\ mpc[p] = "record"
  /\ next[p] \notin versions
  /\ versions' = versions \cup {next[p]}
  /\ schema' = Append(schema, next[p])
  /\ next' = [next EXCEPT ![p] = @ + 1]
  /\ mpc' = [mpc EXCEPT ![p] = Ahead(p, next[p] + 1)]
  /\ UNCHANGED build

(* A statement or the commit fails, or the process ends, migrating or not: *)
(* an open transaction is rolled back.                                     *)
Ends(p) ==
  /\ mpc' = [mpc EXCEPT ![p] = "off"]
  /\ UNCHANGED <<schema, versions, build, next>>

Migrating(p) == ReadVersion(p) \/ ApplySQL(p) \/ Record(p)

-----------------------------------------------------------------------------
(* The schema and what is recorded of it never disagree, and a binary that *)
(* got past its migrations has all it embeds, whoever applied them: none   *)
(* is skipped, repeated or applied out of order, although every process    *)
(* decides by a version that others may have moved since.                  *)
SchemaIsVersioned ==
  /\ versions = 1..Len(schema)
  /\ \A i \in 1..Len(schema) : schema[i] = i
  /\ \A p \in Procs : mpc[p] = "ready" => build[p] <= Len(schema)
=============================================================================
