------------------------------- MODULE Triage -------------------------------
(***************************************************************************)
(* What makes two failures one: from a log entry, a failed workflow run or *)
(* an issue, through the adapter, the stored incident and the fingerprint, *)
(* to the verdict of the Tier 0 chain (internal/ingest/gcplog.go,          *)
(* github.go, githubjobs.go, writer.go, internal/triage, and               *)
(* Orchestrator.fingerprint).  Fingerprints merge failures, and a merged   *)
(* failure is suppressed: merging two bugs hides one of them, and failing  *)
(* to merge two sightings of one bug lets a storm through.                 *)
(*                                                                         *)
(* A line of text is a sequence of words.  The regular expressions are the *)
(* constants that say which words they match and what they leave of them;  *)
(* the digest is injective, so it is the tuple of its parts.  Clocks,      *)
(* windows and failing store calls are in Store and Orchestrator: here all *)
(* happens within one window, until a Lull outlasts it.                    *)
(***************************************************************************)
EXTENDS Naturals, Sequences, FiniteSets

CONSTANTS
  Words,           \* the words there are in texts
  Slugs,           \* the routable projects
  RootsOf,         \* RootsOf[p]: the source roots p declares, if the registry has p
                   \* and it declares any
  DirsIn,          \* DirsIn[w]: the directories in the path w; its domain is the paths
  DependencyDirs,  \* the denylist of dependency directories
  Mark,            \* Mark[w]: what Normalize leaves of the volatile word w, "" for nothing
  Checkouts,       \* words that are absolute checkout prefixes
  Positions,       \* words that are a line and column after a file name
  FrameWords,      \* the words that begin a frame by themselves: at, File
  ErrorWords,      \* typed exceptions, and panic:
  TransientWords,  \* what the project's transient patterns match
  MaxFrames,       \* maxFrames, 5 in the code
  Entries,         \* log entries of severity ERROR or above, [text, message, stack, other]
  Runs,            \* failed runs, [id, workflow, commit, jobs]
  Issues,          \* issues, [title, body]
  MaxDecided       \* bound on the failures within one window

Line == Seq(Words)
Text == Seq(Line)
Job  == [name : Line, failed : BOOLEAN, steps : Seq([name : Line, failed : BOOLEAN])]

ASSUME BoundsAssumption == MaxFrames \in Nat \ {0} /\ MaxDecided \in Nat

\* A frame's first word and an exception's name have no number, time or
\* address in them, and a path with one in it is still a path without.
ASSUME WordsAssumption ==
  /\ {"", "unknown", "workflow:", "run:", "failed"} \subseteq Words
  /\ Mark \in [DOMAIN Mark -> Words]
  /\ Checkouts \cup Positions \subseteq DOMAIN Mark /\ Checkouts \cap Positions = {}
  /\ \A w \in Checkouts \cup Positions : Mark[w] = ""
  /\ (FrameWords \cup ErrorWords) \cap (DOMAIN Mark \cup {""}) = {}
  /\ "" \notin DOMAIN DirsIn
  /\ \A w \in DOMAIN Mark : w \in DOMAIN DirsIn <=> Mark[w] \in DOMAIN DirsIn

ASSUME InputsAssumption ==
  /\ Entries \subseteq [text : Text, message : Text, stack : Text, other : Line]
  /\ Runs \subseteq [id : Words, workflow : Words, commit : Text, jobs : Seq(Job)]
  /\ Issues \subseteq [title : Line, body : Text]

\* stripAbsolutePrefix takes one prefix from a line and would leave a second.
ASSUME CheckoutsAssumption ==
  LET OneCheckout(line) ==
        \A j, k \in DOMAIN line : {line[j], line[k]} \subseteq Checkouts => j = k
      EachOne(lines) == \A k \in DOMAIN lines : OneCheckout(lines[k])
  IN  /\ \A x \in Entries : OneCheckout(x.other) /\ EachOne(x.text)
                              /\ EachOne(x.message) /\ EachOne(x.stack)
      /\ \A x \in Issues : OneCheckout(x.title) /\ EachOne(x.body)
      /\ \A x \in Runs : \A k \in DOMAIN x.jobs :
           /\ OneCheckout(x.jobs[k].name)
           /\ \A m \in DOMAIN x.jobs[k].steps : OneCheckout(x.jobs[k].steps[m].name)

VARIABLE decided   \* the failures triaged within the window, in order

-----------------------------------------------------------------------------
(* Normalisation                                                           *)

(* What is left of s when the elements at the indices in I are kept, in    *)
(* order: the loops that append what they keep.                            *)
Kept(s, I) ==
  [n \in 1..Cardinality(I) |-> s[CHOOSE k \in I : Cardinality({j \in I : j <= k}) = n]]

Select(s, Test(_)) == Kept(s, {k \in DOMAIN s : Test(s[k])})

NotBlank(line) == line # <<>>

\* Mutant of Normalize: stripAbsolutePrefix is not called.
NormalizeKeepingCheckouts(line) ==
  Select([k \in DOMAIN line |-> IF line[k] \in DOMAIN Mark \ Checkouts THEN Mark[line[k]] ELSE line[k]],
         LAMBDA w : w # "")

\* Volatile words become their mark, or go; what the words of a line are
\* does not depend on the order the patterns run in.
Left(w) == IF w \in DOMAIN Mark THEN Mark[w] ELSE w

Normalize(line) == Select([k \in DOMAIN line |-> Left(line[k])], LAMBDA w : w # "")

NormalizeAll(lines) ==
  Select([k \in DOMAIN lines |-> Normalize(lines[k])], NotBlank)

\* Go frames are a path with a position; Python, Node and Java ones start
\* with a word of their own.
IsFrame(line) ==
  \/ line # <<>> /\ line[1] \in FrameWords
  \/ \E k \in 2..Len(line) : /\ line[k] \in Positions
                             /\ line[k - 1] \in DOMAIN DirsIn
                             /\ \A j \in 1..(k - 2) : line[j] \in Checkouts

Top(frames) == SubSeq(frames, 1, IF Len(frames) < MaxFrames THEN Len(frames) ELSE MaxFrames)

ExtractFrames(body) == Top(NormalizeAll(Select(body, IsFrame)))

FirstLine(lines) == IF lines = <<>> THEN <<>> ELSE Head(lines)

\* Only the first line that is not blank can carry the class.
ErrorClass(title, body) ==
  LET first == FirstLine(Select(body, NotBlank))
  IN  IF first # <<>> /\ first[1] \in ErrorWords THEN <<first[1]>>
      ELSE IF Normalize(title) # <<>> THEN Normalize(title) ELSE <<"unknown">>

-----------------------------------------------------------------------------
(* Fingerprints                                                            *)

Within(frame, dirs) ==
  \E k \in DOMAIN frame : frame[k] \in DOMAIN DirsIn /\ DirsIn[frame[k]] \cap dirs # {}

\* A project may have left the registry since its incident was stored.
SourceRoots(slug) == IF slug \in DOMAIN RootsOf THEN RootsOf[slug] ELSE {}

\* filterFrames with the predicate that the strategy calls for.
OwnFrames(slug, frames) ==
  Top(Select(frames, LAMBDA f : IF SourceRoots(slug) = {} THEN ~Within(f, DependencyDirs)
                                                              ELSE Within(f, SourceRoots(slug))))

\* Mutant of SelectFrames: roots that match nothing select nothing.
SelectFramesEmpty(slug, frames) ==
  [strategy |-> IF frames = <<>> THEN "no_frames"
                ELSE IF SourceRoots(slug) = {} THEN "denylist" ELSE "source_roots",
   frames   |-> OwnFrames(slug, frames)]

SelectFrames(slug, frames) ==
  LET own == OwnFrames(slug, frames)
  IN  CASE frames = <<>> -> [strategy |-> "no_frames", frames |-> <<>>]
        [] own # <<>>    -> [strategy |-> IF SourceRoots(slug) = {} THEN "denylist" ELSE "source_roots",
                             frames   |-> own]
        [] frames # <<>> /\ own = <<>> -> [strategy |-> "all_frames", frames |-> Top(frames)]

\* Mutant of ComputeFingerprint: the frames are left out of the digest.
ComputeFingerprintFrameless(incident) ==
  [hash     |-> <<incident.slug, ErrorClass(incident.title, incident.body), <<>>>>,
   strategy |-> SelectFrames(incident.slug, ExtractFrames(incident.body)).strategy]

ComputeFingerprint(incident) ==
  LET selected == SelectFrames(incident.slug, ExtractFrames(incident.body))
  IN  [hash     |-> <<incident.slug, ErrorClass(incident.title, incident.body), selected.frames>>,
       strategy |-> selected.strategy]

WorkflowFingerprint(incident) ==
  [hash     |-> <<incident.slug, <<"workflow:", incident.workflow>>, NormalizeAll(incident.steps)>>,
   strategy |-> "workflow"]

IsRun(incident) == incident.kind = "workflow_run.failed"

\* Issues are fingerprinted like log entries.
Fingerprint(incident) ==
  IF IsRun(incident) THEN WorkflowFingerprint(incident) ELSE ComputeFingerprint(incident)

-----------------------------------------------------------------------------
(* From a failure to the incident that is stored for it                    *)

\* A text payload, or else the stack trace, or else the message, or else
\* the whole of the structured payload on one line.
MessageAndBody(entry) ==
  IF entry.text # <<>> THEN [title |-> Head(entry.text), body |-> entry.text]
  ELSE IF entry.stack # <<>>
       THEN [title |-> Head(IF entry.message # <<>> THEN entry.message ELSE entry.stack),
             body  |-> entry.stack]
  ELSE IF entry.message # <<>> THEN [title |-> Head(entry.message), body |-> entry.message]
  ELSE [title |-> entry.other, body |-> IF entry.other = <<>> THEN <<>> ELSE <<entry.other>>]

\* Mutant of FailedJobSteps: every failing job, with its first failing step
\* if it has one.
FailedJobStepsAll(run) ==
  LET Failing(s) == Select(s, LAMBDA x : x.failed)
      jobs       == Failing(run.jobs)
      StepOf(j)  == IF Failing(j.steps) = <<>> THEN <<>> ELSE Head(Failing(j.steps)).name
  IN  Select([k \in 1..(2 * Len(jobs)) |->
                IF k % 2 = 1 THEN jobs[(k + 1) \div 2].name ELSE StepOf(jobs[k \div 2])],
             NotBlank)

\* The first failing job, and its first failing step if it has one.
FailedJobSteps(run) ==
  LET Failing(s) == Select(s, LAMBDA x : x.failed)
      jobs       == Failing(run.jobs)
  IN  IF jobs = <<>> THEN <<>>
      ELSE LET steps == Failing(Head(jobs).steps)
           IN  <<Head(jobs).name>> \o (IF steps = <<>> THEN <<>> ELSE <<Head(steps).name>>)

\* Should the lookup fail, or find no failing job, the run stands for itself.
FailedSteps(run, found) ==
  IF found /\ FailedJobSteps(run) # <<>> THEN FailedJobSteps(run) ELSE <<<<"run:", run.id>>>>

\* What Handle stores of an event.  The commit's author, which the adapter
\* reads, is not among it, so the chain's SelfInflicted filter has nothing to
\* match and is left out below.
Incident(slug, kind, title, body, workflow, steps) ==
  [slug |-> slug, kind |-> kind, title |-> title, body |-> body,
   workflow |-> workflow, steps |-> steps]

LogIncident(slug, entry) ==
  LET m == MessageAndBody(entry) IN Incident(slug, "log.error", m.title, m.body, "", <<>>)

\* Mutant of RunIncident: the writer does not store the job and step.
RunIncidentStepless(slug, run, found) ==
  Incident(slug, "workflow_run.failed", <<run.workflow, "failed">>, run.commit, run.workflow, <<>>)

RunIncident(slug, run, found) ==
  Incident(slug, "workflow_run.failed", <<run.workflow, "failed">>, run.commit,
           run.workflow, FailedSteps(run, found))

IssueIncident(slug, issue) == Incident(slug, "issues.opened", issue.title, issue.body, "", <<>>)

-----------------------------------------------------------------------------
(* Deciding                                                                *)

Transient(incident) ==
  \E line \in {incident.title} \cup {incident.body[k] : k \in DOMAIN incident.body} :
    \E k \in DOMAIN line : line[k] \in TransientWords

\* Every sighting opens or finds the window of its fingerprint before the
\* chain runs, so a filtered one suppresses those that come after it.
Verdict(incident, suppressed) ==
  CASE Transient(incident)                 -> "filtered"
    [] ~Transient(incident) /\ suppressed  -> "suppressed"
    [] ~Transient(incident) /\ ~suppressed -> "pass"

Process(of, found, incident) ==
  LET fp   == Fingerprint(incident)
      seen == \E i \in DOMAIN decided : decided[i].hash = fp.hash
  IN  decided' = Append(decided,
        [of |-> of, found |-> found, incident |-> incident, hash |-> fp.hash,
         strategy |-> fp.strategy, verdict |-> Verdict(incident, seen)])

Init == decided = <<>>

\* An entry without a payload is ignored by the adapter.
TriageLog(slug, entry) ==
  LET incident == LogIncident(slug, entry)
  IN  /\ incident.title # <<>> \/ incident.body # <<>>
      /\ Process(entry, TRUE, incident)

TriageRun(slug, run, found) == Process(run, found, RunIncident(slug, run, found))

TriageIssue(slug, issue) == Process(issue, TRUE, IssueIncident(slug, issue))

\* Nothing fails for longer than any window.
Lull == decided # <<>> /\ decided' = <<>>

Next ==
  \/ /\ Len(decided) < MaxDecided
     /\ \E slug \in Slugs :
          \/ \E entry \in Entries : TriageLog(slug, entry)
          \/ \E run \in Runs, found \in BOOLEAN : TriageRun(slug, run, found)
          \/ \E issue \in Issues : TriageIssue(slug, issue)
  \/ Lull

Spec == Init /\ [][Next]_decided

-----------------------------------------------------------------------------
(* Properties                                                              *)

Grouped(i, j) == i # j /\ decided[i].hash = decided[j].hash

\* Every decided failure has a strategy and a verdict the dashboard knows,
\* and is grouped on at most MaxFrames frames, or on a job and a step.
TypeOK ==
  /\ Len(decided) <= MaxDecided
  /\ \A i \in DOMAIN decided :
       LET d == decided[i]
       IN  /\ d.strategy \in {"source_roots", "denylist", "all_frames", "workflow", "no_frames"}
           /\ d.verdict \in {"pass", "filtered", "suppressed"}
           /\ Len(d.hash[3]) <= (IF IsRun(d.incident) THEN 2 ELSE MaxFrames)

FramesOf(incident) ==
  {Normalize(incident.body[k]) : k \in {m \in DOMAIN incident.body : IsFrame(incident.body[m])}}

\* No over-collapse of stack traces (SelectFrames): whatever source roots a
\* project declares, and however few of a stack's frames are its own, two
\* failures that are grouped belong to one project and have a frame in common,
\* unless neither shows any frame.
GroupsShareAFrame ==
  \A i, j \in DOMAIN decided :
    LET a == decided[i].incident
        b == decided[j].incident
    IN  Grouped(i, j) /\ ~IsRun(a) =>
          /\ ~IsRun(b)
          /\ a.slug = b.slug
          /\ FramesOf(a) \cap FramesOf(b) # {} \/ FramesOf(a) \cup FramesOf(b) = {}

\* The strategy stored with a fingerprint is the last sighting's
\* (ObserveFingerprint overwrites it) and tells how all of them were grouped:
\* under one registry no two sightings of a fingerprint got there by
\* different strategies.
OneStrategyPerGroup ==
  \A i, j \in DOMAIN decided : Grouped(i, j) => decided[i].strategy = decided[j].strategy

LikeWords(v, w) ==
  \/ v = w
  \/ {v, w} \subseteq Checkouts
  \/ {v, w} \subseteq Positions
  \/ {v, w} \subseteq DOMAIN Mark /\ Mark[v] = Mark[w] /\ Mark[v] # ""

LikeLines(l, m) == Len(l) = Len(m) /\ \A k \in DOMAIN l : LikeWords(l[k], m[k])

Like(s, t) == Len(s) = Len(t) /\ \A k \in DOMAIN s : LikeLines(s[k], t[k])

IsIssue(incident) == incident.kind = "issues.opened"

\* A second sighting of one bug: all that differs is volatile.  An issue is
\* filed by a person and repeats none: docs/SPEC.md keeps issues out of
\* fingerprinting altogether, and that the code does not is no part of what is
\* asked here.
Repeats(a, b) ==
  /\ ~IsIssue(a)
  /\ a.slug = b.slug
  /\ a.kind = b.kind
  /\ a.workflow = b.workflow
  /\ IF IsRun(a) THEN Like(a.steps, b.steps)
                 ELSE Like(a.body, b.body) /\ LikeLines(a.title, b.title)

\* A storm costs one triage: a log entry or a failed run that repeats an
\* earlier one of the window, from another checkout or machine, at another line
\* or time, never passes the chain again (Normalize, ExtractFrames, ErrorClass and the Fingerprint filter).
RepeatIsNotTriagedAgain ==
  \A i, j \in DOMAIN decided :
    i < j /\ Repeats(decided[i].incident, decided[j].incident) => decided[j].verdict # "pass"

FirstFailing(s) == CHOOSE k \in DOMAIN s : s[k].failed /\ \A m \in 1..(k - 1) : ~s[m].failed

Fails(s) == \E k \in DOMAIN s : s[k].failed

\* Two runs failed in the same job and, when they say which, the same step.
SameStep(r, s) ==
  /\ Fails(r.jobs) /\ Fails(s.jobs)
  /\ LET a == r.jobs[FirstFailing(r.jobs)]
         b == s.jobs[FirstFailing(s.jobs)]
     IN  /\ LikeLines(a.name, b.name)
         /\ Fails(a.steps) <=> Fails(b.steps)
         /\ Fails(a.steps) => LikeLines(a.steps[FirstFailing(a.steps)].name,
                                        b.steps[FirstFailing(b.steps)].name)

\* No over-collapse of a workflow: CI failures whose jobs were looked up are
\* grouped only if they failed in the same job and step of the same workflow,
\* numbers in the names aside (FailedJobSteps, Handle, WorkflowFingerprint).
RunsShareAStep ==
  \A i, j \in DOMAIN decided :
    LET d == decided[i]
        e == decided[j]
    IN  /\ Grouped(i, j) /\ IsRun(d.incident) /\ d.found /\ e.found
        /\ Fails(d.of.jobs) /\ Fails(e.of.jobs)
        => d.of.workflow = e.of.workflow /\ SameStep(d.of, e.of)

\* What normalizeWorkflowRun says of the fallback, that the run's identity is
\* narrower than the workflow name: runs whose jobs could not be looked up are
\* grouped only with themselves.  Does not hold: Normalize turns the run's
\* number into the mark every number gets.
FallbackIsNarrow ==
  \A i, j \in DOMAIN decided :
    LET d == decided[i]
        e == decided[j]
    IN  Grouped(i, j) /\ IsRun(d.incident) /\ ~d.found => d.of.id = e.of.id

-----------------------------------------------------------------------------
(* What Triage_proofs assumes of the inputs, where it does                 *)

\* Nothing in the digest tells a title from the label of a workflow.
NoTitleIsALabel ==
  \A run \in Runs :
    /\ \A entry \in Entries : Normalize(MessageAndBody(entry).title) # <<"workflow:", run.workflow>>
    /\ \A issue \in Issues : Normalize(issue.title) # <<"workflow:", run.workflow>>

Plain(line) ==
  /\ line # <<>>
  /\ \A k \in DOMAIN line : Left(line[k]) # "" /\ \A w \in DOMAIN Mark : Mark[w] # line[k]

\* A job or a step has a name, without words that vanish or look like marks.
PlainNames ==
  \A run \in Runs : \A k \in DOMAIN run.jobs :
    /\ Plain(run.jobs[k].name)
    /\ \A m \in DOMAIN run.jobs[k].steps : Plain(run.jobs[k].steps[m].name)
=============================================================================
