# Verification of triage-sentinel

TLA+ models of triage-sentinel, the TLC runs that check them, and TLAPS proofs about them. Paths
are relative to `src/`. `PROJECT.json` maps every definition to the lines it models, and lists the
runs, the hazards, the findings and the theorems.

    tlc -workers 2 -config Bus.cfg MCBus           # one run
    tlapm Stream_proofs.tla                        # one proof module

## 1. The system

Sentinel is one Go process on a small host. Failures of other projects (GitHub webhooks, Cloud
Logging entries) reach it through Pub/Sub; it stores each as an *incident* in SQLite, filters and
suppresses what needs no attention (Tier 0), and shows the rest on a dashboard that is kept live by
server-sent events. The later tiers of `docs/SPEC.md` (triage by a model, repair sessions) are not
in this code yet: an incident's life ends, for now, in `triaging`, `filtered` or `suppressed`.

```
 GitHub --> webhook relay --> Pub/Sub --> ingestion loop --> SQLite store <-- process loop
                                                                 |                  |
                                                            replay |             publish
                                                                 v                  v
                                        browser tab <-- SSE handler <-------- SSE hub
```

### Inventory

| Component | Source | State | Operations | What makes it correct |
|---|---|---|---|---|
| SSE hub | `internal/bus` | client map, per client a bounded channel, a closed flag, `lastWasResync` | Subscribe, Unsubscribe, Publish, Close | a slow client never blocks the publisher; what it loses is announced by a resync; order; no send on a closed channel |
| Store | `internal/store` | tables `incidents`, `incident_events`, `fingerprints`, `projects`, `ingest_cursor` | IngestIncident, AppendEvent, Transition, MarkFingerprint, ObserveFingerprint, SyncProjects, reads | one row per `source_ref`; the audit trail tells what happened; windows open and reopen |
| Ingestion loop | `internal/ingest/{subscriber,pull,writer}.go` | batch in hand, ack IDs, backoff | pull, route, write, audit, ack, touch cursor | acknowledged implies stored; redelivery only counts; every message is settled |
| Routing and adapters | `internal/ingest/{router,github,gcplog}.go` | none | Normalize | the same failure gets the same `source_ref`; nothing usable is discarded |
| Process loop | `internal/orchestrator` | batch of received incidents | ProcessOnce, process, publish | oldest first; each decided once; announced only when committed |
| Tier 0, fingerprint | `internal/triage` | none | Evaluate, Fingerprint | order of filters; same bug, same hash |
| SSE handler, replay, tab | `internal/httpapi/{stream,replay}.go`, `web/src/lib/sse.ts` | a subscription per connection; the browser's Last-Event-ID and query cache | connect, replay, write, heartbeat; reconnect, refetch | a tab that reconnects misses no transition; the cache is fresh |
| Projects, reload | `internal/store/projects.go`, `internal/config/registry.go`, `cmd/sentinel` | the registry as loaded, as served and as captured by ingestion; `projects` rows, quarantine; the signal channel | start, SIGHUP, SyncProjects, `sentinel replay` | all rows or none; every routed project has a row; quarantine survives; no signal is lost; all parts see the reload |
| Migrations | `internal/store/migrate.go` | the schema, `schema_migrations` | Migrate, by every process that starts | schema and version agree after a crash, and when processes start together |
| Sessions | `internal/httpapi/auth.go` | token map | login, check, logout, sweep | a token is valid from its login to its logout or expiry, and not longer or shorter |
| Dashboard API | `internal/httpapi/{incidents,overview,health}.go` | none | list, detail, counts | several reads of a moving database still make sense together |
| Relay | `deploy/relay` | none but what its Pub/Sub client has not sent yet | verify, publish, answer | answers success only for what was published |
| Configuration, CLI, host facts, views | the rest | - | - | parsing, formatting, I/O |

### How they interact, and what is hard

* **At-least-once delivery.** Pub/Sub redelivers after a failed write, a lost or lapsed ack, a
  restart. Handling a message is up to three separate writes (count, audit row, ack), any of which
  may be the last before a crash.
* **Every store call is its own transaction.** Processing an incident is four (mark, observe,
  transition, then publish in memory); a failure between any two leaves the incident in the queue
  and is retried with whatever the first try left behind.
* **The hub's readers do not take its mutex.** `overflowLocked` drains a channel while the SSE
  handler reads the same channel.
* **The stream has two sources for one sequence**: the live channel and the replay from
  `incident_events`, joined by Last-Event-ID over connections that break anywhere.
* **Two processes on one database.** `sentinel replay` migrates the schema, syncs the projects, writes
  an incident and runs `ProcessOnce` on the database of a running or starting service, with a hub of its
  own that no tab listens to. The schema's version is read before the write lock is taken.
* **Answers that are not the whole story.** The relay may answer 500 for what is published all the same,
  or will be; only a 200 says anything.
* **Several reads per page.** The dashboard reads an incident, its timeline and its fingerprint, or page
  after page of a list, one statement at a time, while both loops write.
* **Registries.** The server's can be replaced; the resolver's and the orchestrator's were captured
  when ingestion started; the table's rows are written in between.
* **Time.** A suppression window is compared with a column of one-second resolution.

## 2. Modules

| Module | Models |
|---|---|
| `Bus` | the hub, each channel operation of `Publish` a step of its own |
| `Subscription` | abstract: what the hub promises a client; `Bus` implements it |
| `Store` | the tables, and an operator for each statement or transaction that writes them |
| `Ingest` (extends `Store`) | `Subscriber.Run`, `processBatch`, `handleMessage`, `IncidentWriter`, and Pub/Sub |
| `Orchestrator` (extends `Store`) | `ProcessOnce`, `process`, `publish` for a set of workers |
| `Relay` | the webhook relay and its Pub/Sub client |
| `Sentinel` (instances of `Relay`, `Ingest`, `Orchestrator` over one `Store`) | the pipeline from the webhook to the announcement |
| `Lifecycle` | abstract: what the pipeline promises of an incident; `Sentinel` implements it |
| `Session` | the session map of the HTTP server |
| `Dashboard` (extends `Orchestrator`, instance of `Session`) | the dashboard's requests, read by read next to the process loop |
| `Stream` (extends `Bus`) | one tab over its connections, the handler, the replay, the audit trail |
| `Triage` | from a log entry, a failed run or an issue to its incident, its fingerprint and its verdict |
| `Reload` | `serve`'s start, `watchReloads`, `SyncProjects` statement by statement, `sentinel replay` |
| `Migrate` | schema migrations by any number of processes |
| `Startup` (extends `Reload`, instance of `Migrate`) | `Reload` with the migrations before it; implements `Reload` |
| `MC*` | constants and symmetry for TLC |
| `*_proofs` | theorems and proofs |

Definitions called "Mutant of X" are what a plausible bug would make of X; they are in no
specification. They are there to see that each property can fail.

### Bus

State: `clients`, `closed`, `topics`, `ch`, `lastWasResync`, `hubClosed` are the fields of `Hub` and
`Client`. `Publish` holds the mutex over its whole range, so `todo` (clients still to serve) is
non-empty exactly while the mutex is held, and `Subscribe`, `Unsubscribe`, `Close` need it empty.
`Send` and `Overflow` are the two branches of the `select`, `Drain` one turn of the drain loop,
`Drained` what follows it. `Receive` may come between any two of these, which is the race of
interest: the handler reads without the mutex. An event is its ID; the resync is 0. `owed` and
`lastSeen` are history: what a client has neither received nor been told to refetch, and the last it
saw. `Close` is the hub's part of a shutdown, which releases the handlers `http.Server.Shutdown` waits for.

`Subscription` has the promise alone: a client gets the events it is owed in order, unless the hub has
fallen behind on it (`lossy`), and then a resync follows that settles what it is owed. `Bus` maps `lossy` to
`ResyncComing`: a resync is queued, or the client is being drained for one. All steps of `Publish` but its
first and the overflow are stutters there.

### Store

A row's id is its position. `IngestIncident` is the upsert on `(source, source_ref)`, `Transition`
the guarded UPDATE with its audit row in one transaction, `ObserveFingerprint` the sighting that
opens a window, reopens it or falls inside. `Stored(t)` is what a column gives back of a time: cut
to the second. The writer pool has one connection, so a transaction is one step.

### Ingest

Routing is abstracted to what becomes of a message: its outcome (an event of a known project or of
none, discarded, malformed, undecodable), its `source_ref`, and the set of contents its deliveries
may have (looking up the jobs of a failed workflow is best-effort, so two deliveries of one message
may differ). `HandleEvent` and `AuditRedelivery` are `IncidentWriter.Handle`'s two writes, split
because a crash may come between. `WriteFails`, `AuditFails`, `AckFails`, `TouchFails`, `PullFails`,
`Lapse`, `Restart` are everything that may go wrong; an ack may fail having reached Pub/Sub for some
of its messages.

### Orchestrator

`List` takes the `BatchSize` oldest received rows; `Begin`, `Mark`, `Observe`, `Conclude`
(`Decide`, or `DecideStale` when another worker was first) and `Publish` are the steps of `process` between which another actor or a failure can
come. `Verdict` is the order of the Tier 0 chain: a filter's rejection before suppression. The time
is read once, in `Begin`, as in the code. `Arrive` stands for the ingestion loop and `Tick` for the
clock, which may move between any two steps. `openings` is history: the sightings that found no open
window.

### Relay, Sentinel and Lifecycle

A handler of the relay publishes at most one message, so an attempt is named by the message it would
publish, and several messages may be attempts at one delivery: GitHub sends again, by itself or at the push of
a button. `handed` is what the Pub/Sub client has accepted and not sent: `PublishFails` answers 500 and leaves
it there (`late`) or takes it back, `Land` may come before, after or without the answer.

`Sentinel` composes instances: `Relay` and the log sinks fill Pub/Sub's `published`, `Ingest` stores what it
pulls of it, `Orchestrator` decides what is stored. The tables are one and the same in all of them (`Store`), and
so is the budget of faults; a restart stops both loops at once, and forgets what they hold. `Landing` is the
relay's `Land` and ingestion's `Publish` in one step. Several workers stand for the service and `sentinel
replay`s.

`Lifecycle` has no messages, batches or workers: an incident is reported once, decided at most once, then
announced at most once or, when the process stops, never. The mapping reads `stage` off the incident's row,
`news` off the workers about to publish, and `told` off the events sent.

### Session and Dashboard

`sessions` is the map, `issued` and `ended` are history. `Issue` sweeps the map as `issue` does, `Check` deletes
an expired token as `valid` does. The map's mutex is held over each of these, so each is a step. The clock is
the process loop's.

`Dashboard` lets a request in by its token (`Admit`) with the first read, since nothing can come between that
matters to either. `GetIncident`, `EventsForIncident` and `GetFingerprint` are `handleIncident`'s three
statements; the loop goes on in between. The first error of the last is passed over, as in the code.
`ListIncidents` reads a page; `Page` is the query's ORDER BY, LIMIT and OFFSET. `wanted` is history: the incidents
there were when the first page was read. A handler keeps nothing and writes nothing, so one request at a time
stands for any number.

### Stream

The audit trail is the number of rows committed; the code's guarantee that events are published in
that order is `SentInOrder`, proved of `Orchestrator` with one worker. Each connection takes a hub
client of its own. `Connect` subscribes before `Replay` reads, as the handler does, so an event may
come twice but not fall between. The tab keeps its Last-Event-ID over connections; `Restart` replaces
hub and connection and leaves what was committed and not published unpublished. `cache` is how far
the tab's query cache is fresh. `gap` records, at the step that makes it, a gap nobody will fill:
a replay that failed or met its limit, or an event delivered from under a drain.

### Triage

The pure parts of the pipeline, strung together: what the adapters make of a failure
(`MessageAndBody`, `FailedJobSteps`, `FailedSteps`), what of it is stored (`LogIncident`,
`RunIncident`, `IssueIncident`), how it is fingerprinted (`Normalize`, `ExtractFrames`, `ErrorClass`,
`SelectFrames`, `WorkflowFingerprint`) and what the chain says (`Verdict`). A line is a sequence of
words; the regular expressions are constants that say which words they match and what is left of
them (`Mark`, `Positions`, `Checkouts`, `FrameWords`, `ErrorWords`, `TransientWords`), and a path is
known by the directories in it (`DirsIn`). The loops that filter a slice are `Select`, which keeps the
elements at a set of indices (`Kept`), and not the library's recursive `SelectSeq`, so that it can be proved
about. A line has one checkout prefix at most (`CheckoutsAssumption`): of two the code would leave one, and
which depends on the order of its list. The digest is injective (its separator occurs in no part),
so it is the tuple of its parts. The one variable, `decided`, is the sequence of failures triaged within
one window, with what each came from; `Lull` ends the window. Clocks and failures are left to
`Orchestrator`, whose function from contents to fingerprints this module fills in.

### Reload

A registry is a function from its slugs to their settings; `Registries` is what `projects.yaml` may
validly hold and `Invalid` stands for everything else. `pc` is where `serve`, and after it the reload
goroutine, has got to. `loaded` is the registry in hand, `served` the server's atomic pointer,
`captured` what `startIngestion` was given. `SyncProjects` is `UpsertNext` for each row (in any order),
then `CommitSync` (deactivation and commit) or `SyncFails`; `tx` is the table as the open transaction
sees it, and whoever else writes needs `tx` to be `NoTx`: SQLite has one writer. A failed sync ends a
start and does not stop a reload, as in the code. `ReplaySync` is one step because its transaction
excludes every other write; `ReplayEnds` writes its event. `Signal` fills the one-slot channel; before
`signal.Notify`, SIGHUP ends the process, which `Stop` covers. `synced` and `fresh` are history.
A replay loads the file (`ReplayLoad`) some time before it syncs what it loaded.

### Migrate and Startup

A binary's embedded migrations are given by their number, `build`, as `loadMigrations` makes sure that they
are numbered from 1 without gaps. `ReadVersion` is the read before the loop; `ApplySQL` takes the write lock,
`Record` is the insert guarded by the primary key of `schema_migrations`, and the commit. `Ends` is an error, a
crash or the end of the process at any of these: an open transaction is rolled back. What the SQL of a migration
does when it has been applied already is left open: it may fail (`Ends`) or go through to `Record`, whose guard
then stops it.

`Startup` puts this before the sync of `Reload`, for the service and for a replay, and joins the two at
SQLite's one write lock. `sentinel migrate` is a replay that ends when it has migrated.

## 3. Runs

| Run | Asks | Bounds |
|---|---|---|
| `bus` | nothing is lost without a resync, order, no send on a closed channel; `Publish` returns though no one reads; a client that keeps reading learns of every event, and is released when the hub closes; `Subscription` is implemented | 2 clients, 1 topic, 2-slot channels, 5 events |
| `ingest` | acknowledged is stored, one row per ref, the count is accounted for, the first delivery stands; every decodable message is in the end acknowledged | 4 messages: 2 of one ref, one malformed, one never decodable; batches of 2, backoff to 3, 2 faults besides failed pulls, which are not bounded |
| `sentinel` | what GitHub was told is accepted is in the end decided; the pipeline implements `Lifecycle`; of two loops racing for an incident one moves it, and the audit trail tells that move and no other | a webhook delivery, a log entry that is not for us, 2 process loops, batches of one, clock to 1, window 1, 1 fault |
| `orch_safe` | storm, suppression, canonical incident, totals, announcements | 3 incidents, 2 fingerprints, one noisy content, clock to 5, window 3, 2 ticks to a second, 1 fault |
| `dashboard` | a token is valid exactly as long as it should be; a decided incident is shown with its move and its evidence; a reader of all pages misses nothing | 2 tokens of lifetime 0 (valid within the tick of their login), pages of one, 3 incidents of one fingerprint, clock to 1, window 1, 1 fault |
| `stream_safe` | a tab misses nothing but for the gaps named | 3 connections, 2-slot channel, 5 events, replay limit 2, 1 fault |
| `reload_safe` | the table shows one registry in whole, routed projects have rows, quarantine survives, the last signal wins; schema and version agree | 2 slugs, 2 settings, 2 registries and an invalid file, binaries with 1 and 2 migrations; nothing else is bounded |
| `triage_safe` | merged failures have a frame or a step in common and one strategy; a log entry or run that repeats but for volatile detail is not triaged again | 3 projects (declared, no and mis-declared roots), 2 failures in a window, stacks of 3 frames with `MaxFrames` 2, 2 checkouts, 2 workflows, 2 run numbers, 7 outcomes of jobs, two of them with two failing jobs |

Why these bounds are enough to be worth running. *Bus*: five events overflow a two-slot channel
twice, with a send between (full, drained to a resync, filled again, drained again), which is what
`lastWasResync` is about; a second client shows that draining one does not disturb another. One topic
leaves the filter by topic to the theorems, which hold for any. *Ingest*:
two messages of one `source_ref` in one batch and in different ones, the first of a time when its project was not
known, and two faults, so a retry can fail too. *Sentinel*: its properties are of one incident at a time;
what it adds to the runs of its parts is that two process loops and ingestion share the row, so that a loop
finds its incident decided by the other (`DecideStale`), a redelivery comes after the decision, and a restart
takes all of them. So the audit trail is checked here, where two loops race, and not in `orch_safe`, which has
the one loop that is deployed. A second incident brings nothing of that, and runs long: GitHub's resend of
a delivery is in `Relay` and its theorem, and not in this instance, nor is a delivery with a bad signature.
*Dashboard*: two tokens are enough for a login to sweep the other. With pages of one, three incidents are the least
with which an arrival shifts a page still to be read: two are there at the start, the third comes after the first
page. That is paid for with one tick of the clock and one value of quarantine. A lifetime of 0 keeps the boundary within that tick: a
token is good at the time of its expiry and not after it. Tokens that run out at different times are left to `TokensAreExact`. *Orchestrator*: three sightings of one fingerprint open a window, are suppressed by it and
reopen it, within the clock's bound; a second of two ticks makes the column's truncation real.
*Stream*: three connections let a tab break off twice, and a replay limit of two is met with five
rows. *Reload*: between its two registries a project is removed and added again and another's settings change; two
upserts leave room for a failure half-way; two builds let an older binary start after, or while, a newer one
migrates.
*Triage*: its properties are of pairs of failures, so a window of two has every case of them; a stack one
frame longer than the limit makes the cut real, and the three projects take all the steps of the ladder. A stack is repeated from another
checkout and at another line; a run with two failing jobs shows that the first is the one it is grouped by.
The theorems of section 5 remove the bounds from most of the safety properties.

Deadlock is not checked in `bus`, `stream_*` and `sentinel`: clients, events, deliveries and the clock are used up, and
then the system rightly rests.

### Runs that find a violation

Each checks one statement of the repository that the code does not keep. `PROJECT.json` quotes it.

| Run | Shows |
|---|---|
| `orch_self` | a failure between `ObserveFingerprint` and `Transition`: the retried incident is suppressed by the window it opened itself, and nothing of that fingerprint is triaged |
| `stream_cache` | every frame has an `event:` line, so the browser never calls `onmessage`, the only handler the tab sets; nothing is invalidated while the stream is up |
| `triage_runs` | runs whose jobs could not be looked up get one fingerprint per workflow, since `Normalize` turns the run's number, which stands in for the step, into `N`; all but the first are suppressed |
| `reload_stale` | after a reload the server and the table know a new project and the resolver does not, so its events are stored under no project until a restart |

Other limits of the code have no run of their own. Most are the condition of a passing property or a
theorem:

* What the relay's error means is weaker than its comment: a publish that timed out "never reached
  Pub/Sub" (`main.go:101-102`) is not so, as the client may have sent it or still send it. Nothing is lost by
  it: the resend is one more delivery of the same `source_ref`. And GitHub gives an answer ten seconds, the relay its
  publish twenty, so GitHub may report as failed what was accepted.
* The health check and the overview call ingestion stale when the *cursor* is old, and the cursor moves only
  after an acknowledged batch that was not empty (`subscriber.go:157-174`). `server.go:68-70` says "how long without a
  successful pull": a system with nothing to report for half an hour is `degraded`, and one that never received
  anything, for whatever reason, is never stale.
* `docs/SPEC.md:308-309` says that issues "are not fingerprinted at all"; the code fingerprints every incident
  it processes (`orchestrator.go:223-238`), an issue by its title and the frames in its body. So an issue may be suppressed
  by another, with the same title up to numbers. No run shows this; `RepeatIsNotTriagedAgain` is of log
  entries and runs only, so that it does not ask for what the document rules out.
* The listing's pages are cut by OFFSET. `PagesMissNothing` is of the unfiltered listing, where rows only come in
  at the top; filtered by state, a row that leaves `received` pulls the later ones up, and the next page skips
  one. `total` and the rows are two reads, and need not agree, so the property follows full pages, not `total`.
  The client that is part of the repository reads the first page only.
* Sessions are looked at when a request comes in: a stream opened before a logout, or an expiry, stays open.
* A binary starts on a schema later than the last it knows: `Migrate` finds nothing to do. `SchemaIsVersioned`
  asks only that it has all it embeds.
* A redelivery's count and its audit row are two writes; a crash or an error between them leaves the
  one without the other. `CountIsAudited` accounts for each such loss in `unaudited`.
* Nothing is suppressed for itself, and the earliest occurrence becomes canonical, only until the
  first fault: `SuppressedByAnotherUnlessFaults`, `CanonicalIsEarliestUnlessFaults`. A failed store
  call on the earliest incident lets a later one of the same pass open the window.
* `NewHub` accepts a one-slot channel. There the second overflow drops the queued resync and puts
  none back; so `LossIsAnnounced` has the hypothesis `1 < BufSize`. The deployed size is larger.
* The handler replays only for a positive Last-Event-ID, and a tab that has had no event yet has none: what
  is published while it reconnects is lost to the stream (`server.go:26-28` promises that a reconnecting
  tab does not miss transitions). So `StreamMissesNothingButGaps` speaks of a tab that has had an event.
* `SelfInflicted` reads `Metadata["author_email"]` (`orchestrator.go:174`), which nothing writes: the
  adapter sets `Event.AuthorEmail` and `IncidentWriter.Handle` does not store it. It rejects nothing, and
  `event.go:49-50` expects it to close the self-repair loop. `Triage` leaves the filter out for that reason.
* `ExtractFrames` cuts a stack to five frames before `selectFrames` looks for the project's own
  (`normalize.go:132`), so own frames further down are lost and stacks that differ only there are merged.
  `GroupsShareAFrame` holds of them: they share the frames on top.
* Numbers in job and step names are erased as in frames, so the jobs of a version matrix (`test (3.10)`,
  `test (3.11)`) are one group; `RunsShareAStep` compares names up to numbers.
* A sighting that a filter rejects has opened its fingerprint's window all the same, as
  `ObserveFingerprint` comes before the chain, and suppresses the next one that no filter rejects.
* `OneStrategyPerGroup` holds under one registry. A restart with other source roots may bring a
  sighting to an old fingerprint by another strategy.
* A replay cut off at `replayLimit` is followed by live events, over the gap, and nothing tells the tab
  to refetch (`replay.go:12-13` says such a tab does). `StreamMissesNothingButGaps` has this as a gap.
* A suppressed sighting stays an incident of its own, and `occurrence_count` of the incident that opened
  the window does not move, though `docs/SPEC.md:312-314` says it does; `TotalCountsSightings` states
  what is counted instead, `fingerprints.total_occurrences`.
* `StreamMissesNothingButGaps` names the gaps of the stream. One of them is subtle: an event the
  handler takes from under a drain moves Last-Event-ID past the events being dropped, and should the
  connection break before the resync gets through, nothing brings them back.

## 4. Fairness

* `Bus`: `WF(Publishing)`, the goroutine inside `Publish` is scheduled, and nothing it does blocks.
  Nothing is assumed of the readers: `ClientCatchesUp` has the fairness of the one client it is
  about, `WF(Receive(c))`, as its hypothesis, and the other may hang.
* `ClosingReleasesReaders` likewise: a handler that goes on reading, and no other, comes to the end of its channel.
* `Ingest`: `WF(Working)`, `Run` loops until cancelled, and no error ends it; `SF(Delivers(m))`,
  Pub/Sub goes on offering what is not acknowledged. Failed pulls are not bounded, other faults are:
  a disk that fails for ever settles nothing.
* `Sentinel`: both, `WF(IngestWorking)` with `SF` of delivery for each message, and `WF(Processing(w))` for each
  worker: the ticker calls `ProcessOnce` again, whatever the last pass returned. None is asked of GitHub, the
  relay, its client or the sinks: `AnsweredIsDecided` starts from the answer. Faults are bounded. An incident that fails for ever stays received and is retried for
  ever; a batch full of such incidents would hold up the queue, as every pass would list the same ones.

`Orchestrator` and `Ingest` state the same by themselves. `Dashboard`, `Stream`, `Triage`, `Reload`, `Migrate` and `Startup`
have safety properties only.

No fairness is assumed of the environment's clock, of arrivals or of faults.

## 5. Proofs

TLAPS proves the following for every value of the constants that meets the named assumptions
(`BusAssumption`, `StoreAssumption`, `IngestAssumption`, `OrchestratorAssumption`,
`ReloadAssumption`, `StartupAssumption`, `StreamAssumption`, `DashboardAssumption`, `SentinelAssumption` and
`Triage`'s `BoundsAssumption`, `WordsAssumption`, `InputsAssumption`, `CheckoutsAssumption`). All but the last
only say what kind of value a constant is, that sizes are positive and registries not empty, as the code
validates, and what the regular expressions have in common: no word that begins a frame is volatile, a path
stays one. `CheckoutsAssumption` is a limit of the model: it leaves out inputs that have a line with two checkout prefixes, which the
code does not rule out (section 2). The theorems on groups in `Triage_proofs` have hypotheses besides; see below.

| Theorem | States | Argument |
|---|---|---|
| `Stream_proofs!TypeCorrect` | `[]TypeOK` | inductive; a channel never exceeds `BufSize` because only `Send` under its guard and `Drained` on an empty channel add to it, and no reader adds |
| `SendsAreSafe` | `[]NeverSendsOnClosed` | inductive with `TypeOK`: `todo` is chosen among open clients, and whatever closes one needs the mutex |
| `InOrder` | `[]DeliveredInOrder` | needs `IdsBounded`: all a client has seen or queued is older than the event in hand while it is still to be served |
| `LossIsAnnounced` | `1 < BufSize => []NothingLostSilently` | needs `FlagBoundsQueue`: after a resync the queue holds at most that one event, so an overflow cannot find the flag set; with one slot it can, and nothing is promised there |
| `BusImplementsSubscription` | `1 < BufSize => ImplementsSubscription` | step by step from the invariants of the last two: an event is delivered as `Subscription` has it because `LossInv` leaves nothing owed ahead of it unless a resync is coming; every step inside `Publish` but the overflow is a stutter |
| `Ingest_proofs!TypeCorrect`, `AckedIsKept`, `RedeliveryIsOneRow` | `[]TypeOK`, `[]AckedIsDurable`, `[]OneRowPerRef` | one invariant `IInv`; `InHandPublished` keeps `acked` within `published`; rows never leave the table |
| `CountIsKept` | `[]CountIsAudited` | needs `BookedHaveRow`: what is in audit has its row, and no unaudited redelivery is booked on a ref without one; each step then changes count, audit rows and `unaudited` by the same one |
| `FirstDeliveryWins` | `FirstDeliveryStands` | action property, step by step from `IInv` |
| `Orchestrator_proofs!TypeCorrect` | `[]TypeOK` | inductive |
| `AuditIsTruthful` | `[]AuditTellsTheMove` | needs `EventsHaveIncidents`, so that a new row has no history; any number of workers, since `Transition`'s guard is all it uses |
| `StormIsContained` | `[]StormContained` | needs `WindowsCoverOpenings`: the stored end of a window is less than a second short of the window after each opening, and whoever is about to hand on opened one |
| `AnnouncedIsCommitted` | `[]SentIsCommitted` | needs `ToSendIsCommitted`: an event in a worker's hands is committed, not announced, and in no other's |
| `OneWorkerSendsInOrder` | `OneWorker => []SentInOrder` | needs `SentBelow`: all that was announced is older than the event in hand, and that is the last the worker wrote |
| `TotalIsExact` | `OneWorker => []TotalCountsSightings` | needs `InOrderInv`, for as long as nothing has failed: the worker takes incidents in the order of arrival (`WorksInOrder`), so each is sighted once, and those sighted are counted by one element of a finite set at a time |
| `NothingSuppressesItself` | `OneWorker => []SuppressedByAnotherUnlessFaults` | `InOrderInv` again: a sighting that finds the window open was not the one to open it, since each incident is observed once |
| `EarliestIsCanonical` | `OneWorker => []CanonicalIsEarliestUnlessFaults` | `InOrderInv` again: the first to be observed is the earliest, as all before it are done |
| `StreamTypeCorrect` | `[]StreamTypeOK` | with the hub's `TypeOK` and `OrderInv`, which every step of the composition keeps as it is one of `Bus` or leaves it alone |
| `StreamMissesNothing` | `1 < BufSize => []StreamMissesNothingButGaps` | needs `ConnInv` (the hub's one client is the open connection), `Contiguous` (what follows a queued event is queued, up to the one in hand) and `TabInv` (a live tab knows the rows up to the last id it saw, and the hub has in hand what else was published), on top of the hub's `LossInv` |
| `Reload_proofs!TypeCorrect` | `[]TypeOK` | inductive |
| `RoutesHaveRows` | `[]RoutedHaveRows` | needs `StartedHaveRows`, what a start has synced, and that no statement takes a row away |
| `SyncIsAtomic` | `[]TableIsWhole` | needs `UpsertedSoFar`: the open transaction holds what was upserted, so its commit shows the registry whole; the table stands still while it is open |
| `QuarantineIsKept` | `QuarantineSurvives` | `UpsertedSoFar` again: the transaction carries every quarantine |
| `SignalsAreHeeded` | `[]LastSignalWins` | needs `LoadedIsFile`: with no signal outstanding, what is loaded is what the file holds |
| `ImplementsReload` | `StartupSpec => Spec` of `Reload` | every step is one of `Reload` or none; so the theorems above hold with migrations |
| `SchemaStaysVersioned` | `[]SchemaIsVersioned` | needs `NextIsNotAhead`: what a process is to apply next is at most one past the schema, so the primary key lets it record that one or stops it |
| `Dashboard_proofs!TokensAreExact` | `[]SessionsAreExact` | `SessionInv`: what the map holds is live or has run out, with the expiry of its issue, and all that is live is in the map |
| `PagesAreComplete` | `[]PagesMissNothing` | `PagesInv`: what is wanted and not yet listed lies at or after the next offset, as arrivals only push it down; a short page has nothing after it |
| `DetailIsConsistent` | `[]DetailTellsHowItGotThere` | `GroupedInv` on the loop: a moved incident has its fingerprint and that one its row, because the marks come before the move. `DetailInv`: what a request has read stays true of what it has still to read, since moves, marks and totals are never taken back (`Later`) |
| `Sentinel_proofs!AcceptedIsInPubSub` | `[]AcceptedIsPublished` | `RelayInv`, through all steps of the composition |
| `AuditIsTruthfulInSentinel` | `[]AuditTellsTheMove` | `PipelineAudit`: audit rows are of existing rows, and told as the property has it. A step (`Effects`) adds the row of a redelivery alone (`NoMoveAudited`), or a new incident, which has no history, or a decision with its one audit row (`DecidesAudits`) |
| `SentinelImplementsLifecycle` | `ImplementsLifecycle` | `PipelineInv`: one row per ref, and a worker about to announce is the only one to do so, of a decided row and its own move. Every step is first reduced to its effect on rows, trail and announcements (`Effects`), and each effect then mapped |
| `AnnouncedOnceDecided` | `[]ToldOnceDecided` | invariant of `Lifecycle`, carried over by the refinement |
| `Triage_proofs!TypeCorrect` | `[]TypeOK` | needs `WindowInv`: what was decided is typed, is the incident of the failure it names, and has that incident's fingerprint |
| `StormCostsOneTriage` | `[]RepeatIsNotTriagedAgain` | of log entries and runs: `WindowInv` with `OnePasses`, that only the first of a fingerprint passes; and `RepeatsShareHash`, that what differs in volatile words only has one digest, by way of lines, frames and class |
| `StrategyIsTheGroups` | `NoTitleIsALabel => []OneStrategyPerGroup` | the strategy is a function of project and frames (`SelectFacts`), which the digest holds; `RunsApart` keeps runs from the rest |
| `GroupsHaveAFrameInCommon` | `NoTitleIsALabel => []GroupsShareAFrame` | a selection is empty only if there are no frames (`SelectFacts`), so the first of a group's is a frame of each |
| `RunsAreGroupedByStep` | `NoTitleIsALabel /\ PlainNames => []RunsShareAStep` | what is stored of a run is its first failing job and step (`FirstFailed`, from `KeptFirst`), and plain names that are normalised to the same are alike (`PlainAlike`) |

`Store_proofs` has the lemmas on the store's operators that the pipeline's modules cite: what an upsert, a mark,
a transition and an observation keep, add and leave alone.

`OneWorker` says that there is one worker, as `run.go` starts one; with two the first of these four is false
and the others too. `SentBelow`, `InOrderInv`, `ConnInv`, `Contiguous` and `TabInv` are inductive with the
invariants before them, and were checked by TLC on the runs of their components before they were proved.

The hypotheses of the last three are the truth about the code, not a convenience: without them there are texts
for which the properties fail. `NoTitleIsALabel`: nothing in the digest tells the class of a stack trace, which may be its whole title, from
the label of a workflow, so a title that reads `workflow:ci`, over frames that read like a job and a step, is grouped with failures of `ci`. `PlainNames`:
a job whose name is a number is grouped with one that is called `N`, and two jobs
that differ in a word that vanishes are one. `MCTriage` assumes both (`MCHypotheses`), so TLC evaluates them on the instance. `Triage_proofs`
begins with what `Kept` does: which elements, in which order, the first, and that the same choice from two
sequences corresponds. `WindowInv` was checked by TLC on the instance of `Triage_safe` before it was proved inductive.

Only model-checked: liveness (`ClientCatchesUp`, `PublishReturns`, `ClosingReleasesReaders`,
`EveryMessageSettled`, `AnsweredIsDecided`), which is beyond the prover. Every invariant and action property of
a passing run is a theorem.

## 6. What is left out

* **Payloads.** Formats, signatures and the resolution of repositories and labels to projects. In
  `Ingest` messages have outcomes and `source_ref`s: whether two deliveries get the same one is an
  input, not a result. In `Triage` the regular expressions are constants: that they match what they
  are meant to, and that no text holds the digest's separator, is not checked.
* **Issues** are fingerprinted like log entries, in the model as in the code; see section 3 for what
  `docs/SPEC.md` says of them.
* **Quarantine** is read as an arbitrary value in `Begin` and set from outside in `Reload`: nothing in
  this code sets the column.
* **Per-project windows** are one constant; a window below a second never suppresses, as `Stored`
  makes plain, and validation allows one.
* **Durability.** A commit is durable. With WAL and `synchronous=NORMAL` (`store.go:74`) that is so
  for the end of the process; power loss may take back commits made since the last checkpoint,
  those of acknowledged messages included.
* **The wall clock** does not go back.
* **'duplicate' audit rows** are not in `Stream`: they are never published live but are replayed,
  and count against the replay limit.
* **Topics** are in `Bus`, not in `Stream`: all events published have the topic `incidents`.
* **`--no-ingest`**, under which nothing is captured or routed, is not in `Reload`.
* **Configuration.** Reading and checking `projects.yaml` and the environment is a long list of independent checks
  of one file, with no state and no order that matters. A file is valid or `Invalid` in `Reload`.
* **The verdicts on health** compare two times and keep nothing; see section 3 for what they say.
* **Shutdown** is the end of the process at any step, of which the loops make nothing (a call cut short is a
  failed call), and the closing of the hub under its readers. That `serve` closes the database while the loops may
  still be in a store call is within that.
* **`SelfInflicted`** can reject nothing in this code and is not in any model; see section 3.
* **Filters and totals of the listing, the overview, heartbeats, host facts, static files, rendering**: reads and
  formatting.

## 7. Plan

Done: all modules of section 2, the three refinements (`Subscription`, `Lifecycle`, `Reload`) and the proofs above. Left, in this order:

1. `Routing`: which adapter claims a message, which `source_ref` and project it gets, against the
   registry; two projects may share a repository, of which the resolver knows the last.
2. GitHub's resend of a delivery and a third message in an instance of `Sentinel`, when the run can be afforded.
3. The listing filtered by state, and the verdict on a stale cursor, as runs that find a violation.
