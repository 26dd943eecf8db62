--------------------------- MODULE Reload_proofs ----------------------------
(* Theorems about the registry, for any slugs, settings and registries,    *)
(* and about starting it on a database that others start on, for any       *)
(* builds.                                                                 *)
EXTENDS Startup, TLAPS

(***************************************************************************)
(* What the statements of SyncProjects do to a table.                      *)
(***************************************************************************)
LEMMA RowsOfTables ==
  ASSUME NEW table \in Tables
  PROVE  /\ DOMAIN table \subseteq Slugs
         /\ \A s \in DOMAIN table : table[s] \in Row
  BY DEF Tables

LEMMA TablesOfRows ==
  ASSUME NEW S \in SUBSET Slugs, NEW table \in [S -> Row]
  PROVE  table \in Tables
  BY DEF Tables

(* An upsert sets one row, and of an old row not the quarantine. *)
SetsOneRow(table, new, s, settings) ==
  /\ DOMAIN new = DOMAIN table \cup {s}
  /\ new[s].settings = settings /\ new[s].active
  /\ \A t \in DOMAIN table : t # s => new[t] = table[t]
  /\ \A t \in DOMAIN table : table[t].quarantined => new[t].quarantined

LEMMA UpsertedTable ==
  ASSUME NEW table \in Tables, NEW s \in Slugs, NEW settings \in Settings,
         NEW new, new = Upserted(table, s, settings)
  PROVE  new \in Tables /\ SetsOneRow(table, new, s, settings)
  <1>1. new \in [DOMAIN table \cup {s} -> Row]
    BY RowsOfTables DEF Upserted, Row
  <1>2. DOMAIN table \cup {s} \in SUBSET Slugs
    BY RowsOfTables
  <1>3. new \in Tables
    BY <1>1, <1>2, TablesOfRows
  <1> QED
    BY <1>3 DEF Upserted, SetsOneRow

(* Deactivation keeps every row, and but for active, all of it. *)
LEMMA DeactivatedTable ==
  ASSUME NEW table \in Tables, NEW listed
  PROVE  LET new == Deactivated(table, listed) IN
         /\ new \in Tables
         /\ DOMAIN new = DOMAIN table
         /\ \A t \in DOMAIN table :
              /\ new[t].active <=> t \in listed /\ table[t].active
              /\ new[t].settings = table[t].settings
              /\ new[t].quarantined = table[t].quarantined
  <1> DEFINE new == Deactivated(table, listed)
  <1>1. \A t \in DOMAIN table : table[t] \in Row
    BY RowsOfTables
  <1>2. new \in [DOMAIN table -> Row]
    BY <1>1 DEF Deactivated, Row
  <1>3. new \in Tables
    BY <1>2, RowsOfTables, TablesOfRows
  <1> QED
    BY <1>1, <1>3 DEF Deactivated, Row

(* The table shows a registry: the active rows are its projects. *)
Shows(table, r) ==
  /\ \A s \in DOMAIN table : table[s].active <=> s \in DOMAIN r
  /\ \A s \in DOMAIN r : s \in DOMAIN table /\ table[s].settings = r[s]

(* A reconciliation shows the registry, and takes no row or quarantine.    *)
LEMMA ReconciledTable ==
  ASSUME NEW table \in Tables, NEW r \in Registries
  PROVE  LET new == Reconciled(table, r) IN
         /\ new \in Tables
         /\ DOMAIN new = DOMAIN table \cup DOMAIN r
         /\ Shows(new, r)
         /\ \A t \in DOMAIN table : table[t].quarantined => new[t].quarantined
  <1> DEFINE mid == [s \in DOMAIN table \cup DOMAIN r |->
                       IF s \in DOMAIN r THEN Upserted(table, s, r[s])[s] ELSE table[s]]
             new == Deactivated(mid, DOMAIN r)
  <1>1. DOMAIN r \subseteq Slugs /\ \A s \in DOMAIN r : r[s] \in Settings
    BY ReloadAssumption
  <1>2. \A s \in DOMAIN r :
          /\ mid[s] \in Row
          /\ mid[s].settings = r[s] /\ mid[s].active
          /\ s \in DOMAIN table /\ table[s].quarantined => mid[s].quarantined
    <2> SUFFICES ASSUME NEW s \in DOMAIN r
                 PROVE  /\ mid[s] \in Row
                        /\ mid[s].settings = r[s] /\ mid[s].active
                        /\ s \in DOMAIN table /\ table[s].quarantined => mid[s].quarantined
      OBVIOUS
    <2>1. s \in Slugs
      BY <1>1
    <2>2. PICK settings \in Settings : settings = r[s]
      BY <1>1
    <2>3. PICK upserted :
            upserted = Upserted(table, s, settings) /\ mid[s] = upserted[s]
      BY <2>2
    <2>4. upserted \in Tables /\ SetsOneRow(table, upserted, s, settings)
      BY <2>1, <2>2, <2>3, UpsertedTable
    <2> HIDE DEF mid
    <2>5. upserted[s] \in Row
      BY <2>4, RowsOfTables DEF SetsOneRow
    <2> QED
      BY <2>2, <2>3, <2>4, <2>5 DEF SetsOneRow
  <1>3. \A s \in DOMAIN table \ DOMAIN r : mid[s] = table[s] /\ mid[s] \in Row
    BY RowsOfTables
  <1>4. DOMAIN mid = DOMAIN table \cup DOMAIN r
    OBVIOUS
  <1>5. mid \in [DOMAIN table \cup DOMAIN r -> Row]
    BY <1>2, <1>3
  <1>6. mid \in Tables
    BY <1>1, <1>5, RowsOfTables, TablesOfRows
  <1>7. new = Reconciled(table, r)
    BY DEF Reconciled
  <1> HIDE DEF mid
  <1>8. /\ new \in Tables
        /\ DOMAIN new = DOMAIN mid
        /\ \A t \in DOMAIN mid :
             /\ new[t].active <=> t \in DOMAIN r /\ mid[t].active
             /\ new[t].settings = mid[t].settings
             /\ new[t].quarantined = mid[t].quarantined
    BY <1>6, DeactivatedTable
  <1> HIDE DEF new
  <1> QED
    BY <1>2, <1>3, <1>4, <1>7, <1>8 DEF Shows

-----------------------------------------------------------------------------
(***************************************************************************)
(* The inductive invariant.                                                *)
(***************************************************************************)

(* The open transaction holds the rows upserted so far and has taken       *)
(* nothing from the table, which cannot change under it.                   *)
UpsertedSoFar ==
  Syncing =>
    /\ tx = NoTx => todo = DOMAIN loaded
    /\ tx # NoTx =>
         /\ DOMAIN projects \subseteq DOMAIN tx
         /\ \A s \in DOMAIN projects : projects[s].quarantined => tx[s].quarantined
         /\ \A s \in DOMAIN loaded \ todo :
              s \in DOMAIN tx /\ tx[s].active /\ tx[s].settings = loaded[s]

(* Ingestion starts on a registry that has been synced. *)
StartedHaveRows == pc = "start" => DOMAIN loaded \subseteq DOMAIN projects

(* Whatever is loaded with no signal outstanding is what the file holds. *)
LoadedIsFile ==
  fresh /\ ~hup /\ file # Invalid =>
    /\ pc \notin {"down", "waiting"} => loaded = file
    /\ pc = "waiting" => served = file

IInv ==
  /\ TypeOK /\ UpsertedSoFar /\ StartedHaveRows
  /\ RoutedHaveRows /\ Shows(projects, synced) /\ LoadedIsFile

LEMMA NothingFacts ==
  /\ Nothing \in Tables /\ DOMAIN Nothing = {} /\ Nothing \notin Registries
  /\ Invalid \notin Registries /\ Invalid # Nothing /\ NoTx \notin Tables
  <1>1. DOMAIN Nothing = {} /\ Nothing \in [{} -> Row]
    BY DEF Nothing
  <1>2. Nothing \in Tables
    BY <1>1, TablesOfRows
  <1> QED
    BY <1>1, <1>2, ReloadAssumption

LEMMA RegistryFacts ==
  ASSUME NEW r \in Registries
  PROVE  /\ DOMAIN r \subseteq Slugs /\ DOMAIN r # {}
         /\ \A s \in DOMAIN r : r[s] \in Settings
  BY ReloadAssumption

LEMMA InitInv == Init => IInv
  BY NothingFacts
  DEF Init, IInv, TypeOK, UpsertedSoFar, StartedHaveRows, RoutedHaveRows, Shows,
      LoadedIsFile, Syncing

(* The three steps that write the table or the transaction. *)
LEMMA UpsertStep ==
  ASSUME IInv, NEW s \in Slugs, UpsertNext(s)
  PROVE  IInv'
  <1>1. loaded \in Registries /\ s \in DOMAIN loaded /\ loaded[s] \in Settings
    BY NothingFacts, RegistryFacts DEF IInv, TypeOK, UpsertNext
  <1>2. Base \in Tables
    BY DEF IInv, TypeOK, Base
  <1>3. tx' \in Tables /\ SetsOneRow(Base, tx', s, loaded[s])
    <2>1. PICK base \in Tables, settings \in Settings :
            base = Base /\ settings = loaded[s] /\ tx' = Upserted(base, s, settings)
      BY <1>1, <1>2 DEF UpsertNext
    <2>2. tx' \in Tables /\ SetsOneRow(base, tx', s, settings)
      BY <2>1, UpsertedTable
    <2> QED
      BY <2>1, <2>2
  <1>4. /\ DOMAIN projects \subseteq DOMAIN Base
        /\ \A t \in DOMAIN projects : projects[t].quarantined => Base[t].quarantined
        /\ \A t \in DOMAIN loaded \ todo :
             t \in DOMAIN Base /\ Base[t].active /\ Base[t].settings = loaded[t]
    BY DEF IInv, UpsertedSoFar, Base, UpsertNext
  <1>5. UpsertedSoFar'
    BY <1>3, <1>4, NothingFacts DEF UpsertedSoFar, UpsertNext, Syncing, SetsOneRow
  <1>6. TypeOK'
    BY <1>3 DEF IInv, TypeOK, UpsertNext, replayVars, Syncing
  <1> QED
    BY <1>5, <1>6
    DEF IInv, UpsertNext, replayVars, StartedHaveRows, RoutedHaveRows, Shows, LoadedIsFile

LEMMA CommitStep ==
  ASSUME IInv, CommitSync
  PROVE  /\ IInv'
         /\ \A s \in DOMAIN projects :
              projects[s].quarantined => s \in DOMAIN projects' /\ projects'[s].quarantined
  <1>1. loaded \in Registries /\ DOMAIN loaded # {}
    BY NothingFacts, RegistryFacts DEF IInv, TypeOK, CommitSync, Syncing
  <1>2. tx # NoTx /\ tx \in Tables /\ Base = tx
    BY <1>1 DEF IInv, TypeOK, UpsertedSoFar, CommitSync, Base
  <1>3. /\ DOMAIN projects \subseteq DOMAIN tx
        /\ \A s \in DOMAIN projects : projects[s].quarantined => tx[s].quarantined
        /\ \A s \in DOMAIN loaded :
             s \in DOMAIN tx /\ tx[s].active /\ tx[s].settings = loaded[s]
    BY <1>2 DEF IInv, UpsertedSoFar, CommitSync
  <1>4. /\ projects' \in Tables
        /\ DOMAIN projects' = DOMAIN tx
        /\ \A t \in DOMAIN tx :
             /\ projects'[t].active <=> t \in DOMAIN loaded /\ tx[t].active
             /\ projects'[t].settings = tx[t].settings
             /\ projects'[t].quarantined = tx[t].quarantined
    BY <1>2, DeactivatedTable DEF CommitSync
  <1>5. Shows(projects', synced')
    BY <1>3, <1>4 DEF Shows, CommitSync
  <1>6. TypeOK' /\ UpsertedSoFar'
    BY <1>1, <1>4 DEF IInv, TypeOK, UpsertedSoFar, CommitSync, replayVars, Synced, Syncing
  <1>7. RoutedHaveRows' /\ StartedHaveRows'
    BY <1>3, <1>4 DEF IInv, RoutedHaveRows, StartedHaveRows, CommitSync, replayVars, Synced
  <1>8. LoadedIsFile'
    BY DEF IInv, LoadedIsFile, CommitSync, replayVars, Synced, Syncing
  <1> QED
    BY <1>3, <1>4, <1>5, <1>6, <1>7, <1>8 DEF IInv, Shows

LEMMA ReplayStep ==
  ASSUME IInv, ReplaySync
  PROVE  /\ IInv'
         /\ \A s \in DOMAIN projects :
              projects[s].quarantined => s \in DOMAIN projects' /\ projects'[s].quarantined
  <1>1. replayLoaded \in Registries /\ projects \in Tables
    BY NothingFacts DEF IInv, TypeOK, ReplaySync
  <1>2. /\ projects' \in Tables
        /\ DOMAIN projects' = DOMAIN projects \cup DOMAIN replayLoaded
        /\ Shows(projects', replayLoaded)
        /\ \A t \in DOMAIN projects : projects[t].quarantined => projects'[t].quarantined
    BY <1>1, ReconciledTable DEF ReplaySync
  <1>3. TypeOK'
    BY <1>1, <1>2 DEF IInv, TypeOK, ReplaySync, processVars, Syncing
  <1>4. UpsertedSoFar' /\ LoadedIsFile'
    BY DEF IInv, UpsertedSoFar, LoadedIsFile, ReplaySync, processVars, Syncing
  <1>5. RoutedHaveRows' /\ StartedHaveRows'
    BY <1>2 DEF IInv, RoutedHaveRows, StartedHaveRows, ReplaySync, processVars
  <1> QED
    BY <1>2, <1>3, <1>4, <1>5 DEF IInv, Shows, ReplaySync

LEMMA QuarantineStep ==
  ASSUME IInv, NEW q \in Slugs, Quarantine(q)
  PROVE  /\ IInv'
         /\ \A s \in DOMAIN projects :
              projects[s].quarantined => s \in DOMAIN projects' /\ projects'[s].quarantined
  <1>1. projects \in Tables /\ \A s \in DOMAIN projects : projects[s] \in Row
    BY RowsOfTables DEF IInv, TypeOK
  <1>2. /\ DOMAIN projects' = DOMAIN projects
        /\ \A s \in DOMAIN projects :
             /\ projects'[s] \in Row
             /\ projects'[s].settings = projects[s].settings
             /\ projects'[s].active = projects[s].active
             /\ projects[s].quarantined => projects'[s].quarantined
    BY <1>1 DEF Quarantine, Row
  <1>3. projects' \in [DOMAIN projects -> Row]
    BY <1>1, <1>2 DEF Quarantine
  <1>4. projects' \in Tables
    BY <1>1, <1>3, RowsOfTables, TablesOfRows
  <1>5. TypeOK'
    BY <1>4 DEF IInv, TypeOK, Quarantine, processVars, replayVars, Syncing
  <1>6. UpsertedSoFar' /\ LoadedIsFile' /\ RoutedHaveRows' /\ StartedHaveRows'
    BY <1>2 DEF IInv, UpsertedSoFar, LoadedIsFile, RoutedHaveRows, StartedHaveRows,
                Quarantine, processVars, replayVars, Syncing
  <1>7. Shows(projects', synced')
    BY <1>2 DEF IInv, Shows, Quarantine
  <1> QED
    BY <1>2, <1>4, <1>5, <1>6, <1>7 DEF IInv, Shows

(* The steps that leave the projects table and the transaction's hold on   *)
(* it to the others.                                                       *)
OtherStep ==
  \/ \E f \in Registries \cup {Invalid} : Edit(f)
  \/ Signal \/ ReplayLoad \/ ReplayEnds
  \/ Start \/ StartIngestion \/ Listen \/ Reload \/ SetRegistry \/ Stop
  \/ \E s \in Slugs : Ingest(s)
  \/ SyncFails

LEMMA OtherStepsKeep ==
  ASSUME IInv, OtherStep
  PROVE  IInv' /\ projects' = projects
<1> USE NothingFacts
    DEF IInv, TypeOK, UpsertedSoFar, StartedHaveRows, RoutedHaveRows, Shows,
        LoadedIsFile, Syncing, processVars, replayVars
<1>1. ASSUME NEW f \in Registries \cup {Invalid}, Edit(f)
      PROVE  IInv' /\ projects' = projects
  <2>1. TypeOK'
    <3>1. file' \in Registries \cup {Invalid} /\ fresh' \in BOOLEAN
      BY <1>1 DEF Edit
    <3> QED
      BY <1>1, <3>1 DEF Edit
  <2>2. UpsertedSoFar'
    BY <1>1 DEF Edit
  <2>3. LoadedIsFile'
    BY <1>1 DEF Edit
  <2> QED
    BY <1>1, <2>1, <2>2, <2>3 DEF Edit
<1>2. CASE Signal
  BY <1>2 DEF Signal, Serving
<1>3. CASE ReplayEnds
  <2>1. incidents' \subseteq Slugs /\ incidents' \subseteq DOMAIN projects
    BY <1>3, RowsOfTables DEF ReplayEnds
  <2>2. TypeOK'
    BY <1>3, <2>1 DEF ReplayEnds
  <2>3. RoutedHaveRows'
    BY <1>3, <2>1 DEF ReplayEnds
  <2>4. UpsertedSoFar' /\ LoadedIsFile'
    BY <1>3 DEF ReplayEnds
  <2> QED
    BY <1>3, <2>2, <2>3, <2>4 DEF ReplayEnds
<1>4. CASE Start
  BY <1>4, RegistryFacts DEF Start
<1>5. CASE StartIngestion
  BY <1>5 DEF StartIngestion
<1>6. CASE Listen
  BY <1>6 DEF Listen
<1>7. CASE Reload
  BY <1>7, RegistryFacts DEF Reload
<1>8. CASE SetRegistry
  BY <1>8 DEF SetRegistry
<1>9. CASE Stop
  BY <1>9 DEF Stop, Stopped
<1>10. ASSUME NEW s \in Slugs, Ingest(s)
       PROVE  IInv' /\ projects' = projects
  BY <1>10 DEF Ingest
<1>11. CASE SyncFails
  BY <1>11 DEF SyncFails, Stopped
<1>12. CASE ReplayLoad
  BY <1>12 DEF ReplayLoad
<1> QED
  BY <1>1, <1>2, <1>3, <1>4, <1>5, <1>6, <1>7, <1>8, <1>9, <1>10, <1>11, <1>12 DEF OtherStep

LEMMA NextCases ==
  ASSUME [Next]_reloadVars
  PROVE  \/ \E s \in Slugs : UpsertNext(s)
         \/ \E s \in Slugs : Quarantine(s)
         \/ CommitSync \/ ReplaySync \/ OtherStep
         \/ UNCHANGED reloadVars
  BY DEF Next, OtherStep

LEMMA StutterStep ==
  ASSUME IInv, UNCHANGED reloadVars
  PROVE  IInv'
  BY DEF reloadVars, processVars, replayVars, IInv, TypeOK, UpsertedSoFar, StartedHaveRows,
         RoutedHaveRows, Shows, LoadedIsFile, Syncing

LEMMA StepInv == IInv /\ [Next]_reloadVars => IInv'
  BY NextCases, UpsertStep, QuarantineStep, CommitStep, ReplayStep, OtherStepsKeep,
     StutterStep

LEMMA Inductive == Spec => []IInv
  BY InitInv, StepInv, PTL DEF Spec

-----------------------------------------------------------------------------
(* The types of serve's, the reload goroutine's and the replay's state;    *)
(* the transaction is open only while SyncProjects runs.                   *)
THEOREM TypeCorrect == Spec => []TypeOK
<1>1. IInv => TypeOK
  BY DEF IInv
<1> QED
  BY <1>1, Inductive, PTL

(* No event is refused by the foreign key, whatever is reloaded, fails or  *)
(* is replayed: routing starts after a sync, and no sync deletes a row.    *)
THEOREM RoutesHaveRows == Spec => []RoutedHaveRows
<1>1. IInv => RoutedHaveRows
  BY DEF IInv
<1> QED
  BY <1>1, Inductive, PTL

(* Between transactions the table shows one registry, whichever process    *)
(* wrote it last.                                                          *)
THEOREM SyncIsAtomic == Spec => []TableIsWhole
<1>1. IInv => TableIsWhole
  BY DEF IInv, Shows, TableIsWhole
<1> QED
  BY <1>1, Inductive, PTL

(* No reload, restart or replay clears a quarantine. *)
THEOREM QuarantineIsKept == Spec => QuarantineSurvives
<1> DEFINE Kept ==
      \A s \in DOMAIN projects :
        projects[s].quarantined => s \in DOMAIN projects' /\ projects'[s].quarantined
<1>1. ASSUME IInv, [Next]_reloadVars
      PROVE  Kept
  <2>1. CASE \E s \in Slugs : UpsertNext(s)
    BY <2>1 DEF UpsertNext
  <2>2. CASE UNCHANGED reloadVars
    BY <2>2 DEF reloadVars
  <2>3. CASE OtherStep
    BY <1>1, <2>3, OtherStepsKeep
  <2> QED
    BY <1>1, <2>1, <2>2, <2>3, NextCases, QuarantineStep, CommitStep, ReplayStep
<1>2. IInv /\ [Next]_reloadVars => [Kept]_reloadVars
  BY <1>1
<1> QED
  BY <1>2, Inductive, PTL DEF Spec, QuarantineSurvives

(* No SIGHUP is forgotten, the channel of one slot notwithstanding. *)
THEOREM SignalsAreHeeded == Spec => []LastSignalWins
<1>1. IInv => LastSignalWins
  BY DEF IInv, LoadedIsFile, LastSignalWins
<1> QED
  BY <1>1, Inductive, PTL
-----------------------------------------------------------------------------
(***************************************************************************)
(* The registry does as without migrations: they only delay it.            *)
(***************************************************************************)
LEMMA StepsAreReloads ==
  ASSUME [StartupNext]_startupVars
  PROVE  [Next]_reloadVars
<1>1. CASE \E b \in Builds : StartServe(b) \/ StartReplay(b)
  BY <1>1 DEF StartServe, StartReplay, Next
<1>2. CASE \E p \in Procs : MigrateStep(p)
  BY <1>2 DEF MigrateStep
<1>3. CASE ServeEnds \/ ReplayStops \/ ReplayFails
  BY <1>3 DEF ServeEnds, ReplayStops, ReplayFails, Next
<1>4. CASE Served \/ Others
  BY <1>4 DEF Served, Others, Next
<1>5. CASE UNCHANGED startupVars
  BY <1>5 DEF startupVars
<1> QED
  BY <1>1, <1>2, <1>3, <1>4, <1>5 DEF StartupNext

(* What is proved of Reload holds of a system that migrates first. *)
THEOREM ImplementsReload == StartupSpec => Spec
<1>1. StartupInit => Init
  BY DEF StartupInit
<1>2. [StartupNext]_startupVars => [Next]_reloadVars
  BY StepsAreReloads
<1> QED
  BY <1>1, <1>2, PTL DEF StartupSpec, Spec

-----------------------------------------------------------------------------
(***************************************************************************)
(* The schema.                                                             *)
(***************************************************************************)

(* What a process is about to apply is the next migration, or one that     *)
(* another process applied after it had read the version.                  *)
NextIsNotAhead(p) ==
  mpc[p] \in {"apply", "record"} =>
    1 <= next[p] /\ next[p] <= build[p] /\ next[p] <= Len(schema) + 1

MigrationsInv ==
  /\ schema \in Seq(Nat)
  /\ mpc \in [Procs -> {"off", "read", "apply", "record", "ready"}]
  /\ build \in [Procs -> Nat] /\ next \in [Procs -> Nat]
  /\ SchemaIsVersioned
  /\ \A p \in Procs : NextIsNotAhead(p)

(* The version is the number of migrations applied. *)
LEMMA VersionIsLength ==
  ASSUME MigrationsInv
  PROVE  M!SchemaVersion = Len(schema) /\ Len(schema) \in Nat
<1>1. Len(schema) \in Nat /\ versions = 1..Len(schema)
  BY DEF MigrationsInv, SchemaIsVersioned, M!SchemaIsVersioned
<1>2. CASE Len(schema) = 0
  BY <1>1, <1>2 DEF M!SchemaVersion
<1>3. CASE Len(schema) # 0
  <2>1. /\ versions # {} /\ Len(schema) \in versions
        /\ \A v \in versions : v <= Len(schema) /\ v \in Nat
    BY <1>1, <1>3
  <2>2. \A v \in versions : (\A u \in versions : u <= v) => v = Len(schema)
    BY <2>1, <1>1
  <2> QED
    BY <1>1, <2>1, <2>2 DEF M!SchemaVersion
<1> QED
  BY <1>2, <1>3

(* A recorded migration is the next one: the primary key refuses others.   *)
LEMMA RecordStep ==
  ASSUME MigrationsInv, NEW p \in Procs, M!Record(p)
  PROVE  MigrationsInv'
<1> DEFINE n == Len(schema)
<1>1. /\ n \in Nat /\ versions = 1..n
      /\ \A i \in 1..n : schema[i] = i
  BY DEF MigrationsInv, SchemaIsVersioned, M!SchemaIsVersioned
<1>2. next[p] = n + 1
  BY <1>1 DEF MigrationsInv, NextIsNotAhead, M!Record
<1>3. /\ schema' \in Seq(Nat) /\ Len(schema') = n + 1
      /\ \A i \in 1..n : schema'[i] = schema[i]
      /\ schema'[n + 1] = n + 1
  <2>1. schema' = Append(schema, n + 1) /\ schema \in Seq(Nat) /\ n + 1 \in Nat
    BY <1>1, <1>2 DEF MigrationsInv, M!Record
  <2> QED
    BY <2>1
<1>4. versions' = 1..Len(schema')
  BY <1>1, <1>2, <1>3 DEF M!Record
<1>5. \A i \in 1..Len(schema') : schema'[i] = i
  BY <1>1, <1>3
<1>6. /\ build' = build
      /\ next' = [next EXCEPT ![p] = n + 2]
      /\ mpc' = [mpc EXCEPT ![p] = IF n + 2 <= build[p] THEN "apply" ELSE "ready"]
  BY <1>1, <1>2 DEF M!Record, M!Ahead
<1>7. /\ mpc' \in [Procs -> {"off", "read", "apply", "record", "ready"}]
      /\ build' \in [Procs -> Nat] /\ next' \in [Procs -> Nat]
  BY <1>1, <1>6 DEF MigrationsInv
<1>8. \A q \in Procs : mpc'[q] = "ready" => build'[q] <= Len(schema')
  <2>1. \A q \in Procs : mpc[q] = "ready" => build[q] <= n
    BY DEF MigrationsInv, SchemaIsVersioned, M!SchemaIsVersioned
  <2>2. \A q \in Procs : build[q] \in Nat
    BY DEF MigrationsInv
  <2> QED
    BY <1>1, <1>3, <1>6, <2>1, <2>2 DEF MigrationsInv
<1>9. \A q \in Procs : NextIsNotAhead(q)'
  <2>1. \A q \in Procs : build[q] \in Nat /\ next[q] \in Nat
    BY DEF MigrationsInv
  <2> QED
    BY <1>1, <1>3, <1>6, <2>1 DEF MigrationsInv, NextIsNotAhead
<1> QED
  BY <1>3, <1>4, <1>5, <1>7, <1>8, <1>9
  DEF MigrationsInv, SchemaIsVersioned, M!SchemaIsVersioned

LEMMA MigrationsStep ==
  ASSUME MigrationsInv, [StartupNext]_startupVars
  PROVE  MigrationsInv'
<1> USE DEF MigrationsInv, NextIsNotAhead, SchemaIsVersioned, M!SchemaIsVersioned
<1>1. ASSUME NEW b \in Builds, NEW p \in Procs, M!Starts(p, b)
      PROVE  MigrationsInv'
  BY <1>1, StartupAssumption DEF M!Starts
<1>2. ASSUME NEW p \in Procs, M!Ends(p) PROVE MigrationsInv'
  BY <1>2 DEF M!Ends
<1>3. ASSUME NEW p \in Procs, M!ReadVersion(p) PROVE MigrationsInv'
  BY <1>3, VersionIsLength DEF M!ReadVersion, M!Ahead
<1>4. ASSUME NEW p \in Procs, M!ApplySQL(p) PROVE MigrationsInv'
  BY <1>4 DEF M!ApplySQL
<1>5. CASE UNCHANGED migrateVars
  BY <1>5 DEF migrateVars
<1>6. CASE UNCHANGED startupVars
  BY <1>5, <1>6 DEF startupVars
<1>7. CASE \E b \in Builds : StartServe(b) \/ StartReplay(b)
  BY <1>1, <1>7 DEF StartServe, StartReplay, Procs
<1>8. CASE \E p \in Procs : MigrateStep(p)
  BY <1>3, <1>4, <1>8, RecordStep DEF MigrateStep, M!Migrating
<1>9. CASE ServeEnds \/ ReplayStops \/ ReplayFails
  BY <1>2, <1>9 DEF ServeEnds, ReplayStops, ReplayFails, Procs
<1> QED
  BY <1>5, <1>6, <1>7, <1>8, <1>9 DEF StartupNext

(* Whatever starts, in whichever order, from whichever binaries, and       *)
(* whatever fails half-way: the schema is what its version says, and a     *)
(* process that is past its migrations has all it embeds.                  *)
THEOREM SchemaStaysVersioned == StartupSpec => []SchemaIsVersioned
<1>1. StartupInit => MigrationsInv
  <2> SUFFICES ASSUME StartupInit PROVE MigrationsInv
    OBVIOUS
  <2>1. schema = <<>> /\ versions = {} /\ schema \in Seq(Nat) /\ Len(schema) = 0
    BY DEF StartupInit, M!Init
  <2> QED
    BY <2>1 DEF StartupInit, M!Init, MigrationsInv, NextIsNotAhead, SchemaIsVersioned,
                M!SchemaIsVersioned
<1>2. MigrationsInv /\ [StartupNext]_startupVars => MigrationsInv'
  BY MigrationsStep
<1>3. MigrationsInv => SchemaIsVersioned
  BY DEF MigrationsInv
<1> QED
  BY <1>1, <1>2, <1>3, PTL DEF StartupSpec
=============================================================================
