# Homeschool Hero in TLA+

Specifications of Homeschool Hero, a FastAPI and PostgreSQL application (with a
React front end) in which families plan their school year, upload student work
that an AI grades and teachers review, keep records, and import and export their
data. The modules are translated from the source under `src/backend` and
`src/frontend`; TLC checks them on small instances and TLAPS proves the main safety
properties for every value of the constants.

`tlc -config MCGrading_live.cfg MCGrading` checks one run; `tlapm
GradingProofs.tla` checks the proofs of one module. `PROJECT.json` lists the
components, the runs, the source lines behind every definition, the hazards with
the properties that cover them, and the theorems.

## The system

### Processes

- **Request handlers.** Each HTTP request runs in a session of its own
  (`database.py`, `get_db`), at PostgreSQL's READ COMMITTED. Most handlers take no
  row lock: they SELECT, compute and commit. SQLAlchemy writes only the columns
  whose value changed, and an UPDATE of a row that is gone fails.
- **The grading worker.** One daemon thread (`GradingWorkerThread`) polls for the
  oldest `pending` job, grades it for seconds or minutes with no transaction on
  its result, and commits. Between jobs it sends the due-date notices.
- **Tasks in the event loop.** AI drafts of curricula and of assignments, imports,
  exports, and backups on request are `asyncio` tasks that live only in memory; what
  they are about is a row. A restart loses the tasks and keeps the rows.
- **The backup scheduler.** A thread that starts a backup when its time has come.
- **The middleware** (`main.py`) sees every request and answer: session and its
  rotation, maintenance mode, rate limits.
- **Clients.** Web pages that retry, poll, send several requests for one click, and
  act from several devices; an identity provider that provisions users by SCIM.

### Components, their state, and what makes them correct

| Component | State | Operations | What makes it correct |
|---|---|---|---|
| Uploads and versions (`routers/submissions.py`) | `submissions`: lineage, `submission_version`, `is_current` | upload, resubmit | one newest version per lineage is current, numbers are 1, 2, 3... |
| Grading worker (`services/grading_worker.py`) | `grading_jobs` | claim, load, close superseded, store, fail | no job is lost by a crash; results go where they belong |
| Pipeline of a job (`grading_pipeline.py`) | job dictionary, retry counters, circuit breaker | OCR, AI, timeout, retry, breaker | legal transitions, bounded retries, breaker opens exactly when it should |
| Review items and legacy queue (`routers/reviews.py`, `services/reviews.py`, `routers/grading.py`) | `review_items`, jobs, grades | approve, reject, re-grade, view, comment, assign, bulk forms; modify | work for humans is listed; an approval has a grade; a re-grade is answered |
| Grades (`routers/grades.py`) | `grades` (unique `submission_id`) | create, update, delete | a grade belongs to the current version |
| Gradebook (`services/gradebook.py`) | saved categories, weights, drops | averages, overall, letter, trend | percentages that a student can have earned, and a trend that agrees with them |
| Cache (`services/cache.py`) | keyed views with expiry | get_or_set, invalidate | a read shows the writes that were answered before it |
| Attendance (`routers/attendance.py`) | one record per student and day | day page, hours page, summaries | nobody's hours are lost; every page adds up to the same |
| Compliance and notifications | status rows, notifications | check, remind, maintenance | one notice in its window |
| Calendar, schedule, lesson plans (`routers/calendar.py`, `schedule.py`, `lesson_plans.py`, `curriculum.py`) | years, terms, periods, events; blocks and overrides; plans and pacing targets | create, change, delete, generate | intervals nest; no unexplained double booking; a target says what its plans say |
| School year wizard (`SchoolYearSetupWizard.tsx`, `lib/schoolYearWizard.ts`) | a form, and which requests were answered | fill in, review, save request by request | a year said to be ready is the one reviewed; holidays fall on their dates |
| Report cards, transcripts, compliance reports | documents and their lines | generate, edit, finalize, archive, delete | a final document is frozen; totals are those of the lines |
| AI import sessions (`curriculum_ai_import_sessions.py`) | session row: `status`, `revision`, `expires_at`; task registry | create, draft, read, delete, confirm, expire | the life cycle; nothing revived; nothing left processing |
| Curriculum import and its gate (`curriculum_imports.py`, `curriculum_duplicates.py`) | `imported_curricula`, the family lock | claim, gate, insert | no duplicate that its importer was not told of |
| Curriculum import page (`CurriculumImportWizard.tsx`, `lib/curriculumImportSession.ts`) | its text, step and session | analyse, edit, check, import, close | no session left behind; what is imported was checked |
| Curriculum packages (`routers/curriculum.py`) | packages, units, lessons, resources and files | create, activate, delete | a resource has its file |
| Assignment import (`bulk_assignment_import.py`, `weekly_assignment_import.py`) | session row and task | create, process, edit, delete, confirm | one assignment per activity; a deleted draft stays so |
| Backup and restore | job rows, artifacts, tokens | back up, prune, validate, restore | artifacts are whole; the newest is kept; what is restored is there, once |
| Export and import jobs | job rows, files | run, delete; validate, execute | no row falls between two exports, or is imported twice |
| Members of a family (`invitations.py`, `auth_provisioning.py`, `scim.py`) | users, memberships, invitations, groups | invite, accept, revoke, sign in, provision | one person per invitation; nobody by a revoked one; who is managed is a member |
| Portfolio (`routers/portfolio.py`, `routers/files.py`) | entries with attachments, collections, share tokens, files | create, attach, move, delete, collect, share | what was attached is served, a link opens its collection until it is withdrawn |
| Front door (`main.py`, `security.py`, `rate_limit.py`, `maintenance.py`, `auth.py`) | sessions, buckets, failed sign-ins, maintenance | every request, sign in and out, switch | nobody who should be in is shut out |

The remaining parts (quizzes, search, audit, API tokens, ...) are under "Not
modelled".

The parts meet in the database. An upload creates a submission, its job and the
target's status in one transaction; the worker and three routers change the job,
the grade, the review item and the target, each from rows it has read some time
before. A drafting task, the page that polls it, a deletion and a confirmation
all change one session row. A backup dumps the rows that describe its own run. The
wizards of the front end make one click out of many requests, any of which may be
lost after the server has handled it.

The behaviours that are hard: state read in one statement and used in a later
one, with another request in between; a crash between two steps; an answer lost
after the work was done, and the retry; a task that finishes after its session was
deleted; two artifacts (database and files, row and file) that must agree; a long
sequence of edits after which a derived value must still be right.

## Modules

| Module | Models | Checked in |
|---|---|---|
| `GradingStatus` | statuses of a job and the transition table | (used by the next two) |
| `Grading` | uploads, worker, reviewers, crashes, as transactions over the rows of one (assignment, student) pair | `MCGrading`, `MCPeople`, `MCPlanning` |
| `VersionHistory` | what uploads promise; refined by `Grading` | `MCPlanning` |
| `GradingPipeline` | one job after another through OCR, the provider, retries and the breaker, with time | `MCPlanning`, `MCGradingPipeline` |
| `CurriculumImport` | AI import sessions, their tasks and requests, and the import of curricula under the family lock | `MCCurriculum`, `MCCurriculumImport` |
| `DraftLifecycle` | what a session promises; refined by `CurriculumImport` | `MCCurriculum` |
| `CurriculumDuplicates` | how two curricula are compared | `MCCurriculum` |
| `CurriculumPackages` | packages, resources and files, activation | `MCCurriculum` |
| `CurriculumWizard` | the import page and its runner, against the server's sessions | `MCCurriculum` |
| `Membership` | invitations, sign-in, SCIM | `MCPeople` |
| `Portfolio` | entries, attachments, collections and their links | `MCPeople` |
| `Records` | report cards, transcripts, compliance reports | `MCPeople` |
| `SchoolYearWizard`, `Holidays` | the set-up of a year, against `Calendar`'s handlers; its holidays | `MCPeople` |
| `Calendar`, `Schedule`, `LessonPlans` | planning | `MCPlanning` |
| `Attendance`, `Gradebook`, `ReadCache` | attendance, averages, cached views | `MCPlanning` |
| `PackageRestore` | export packages and their selective restore | `MCPlanning` |
| `AssignmentImport`, `ImportJobs`, `ExportJobs` | data coming in and going out | `MCServices` |
| `BackupRestore` | backups, retention, full restores | `MCServices` |
| `Compliance` | checks and notifications | `MCServices` |
| `FrontDoor` | sessions, maintenance, rate limits | `MCPeople` |
| `GradingProofs`, `GradingReviewProofs`, `GradingPipelineProofs` | theorems about grading | TLAPS |
| `CurriculumImportProofs` | theorems about `CurriculumImport` | TLAPS |
| `CurriculumProofs` | theorems about `CurriculumPackages`, `CurriculumWizard` | TLAPS |
| `PlanningProofs` | theorems about `Calendar`, `Schedule`, `LessonPlans`, `ReadCache` | TLAPS |
| `PeopleProofs` | theorems about `Portfolio`, `Membership`, `Records`, `FrontDoor`, `SchoolYearWizard` | TLAPS |
| `ServicesProofs` | theorems about `BackupRestore`, `AssignmentImport`, `ExportJobs`, `ImportJobs`, `Compliance` | TLAPS |

Every component is a module of its own, with its variables, constants and
specification. Components that share no state are checked together, to keep the
runs few: `MCPeople`, `MCPlanning`, `MCServices` and `MCCurriculum` put several
modules together, and the variable `part`, chosen at the start and never changed,
says which one is at work. The state space is the sum of those of the parts, not
their product. A suite EXTENDS the modules that have theorems, so that TLC
evaluates the assumptions of the proofs and checks the very property that a
theorem states; their variables rest at one initial state while another part
works. The others are instantiated, their variables are mapped to `s1`, `s2`, ...,
which are constant in every other part, and a property of theirs reads
`part = "..." => M!Property`.

`Grading` and `GradingPipeline` meet in `GradingStatus`: the pipeline's last
status is one of `Results`, from which `CommitResult` of `Grading` chooses.
`SchoolYearWizard` instantiates `Calendar`, and its requests are the calendar's
handlers. `CurriculumImport` takes what the gate matches as the constant
`Matching`, which `CurriculumDuplicates` computes; `CurriculumWizard` sees the
sessions of `CurriculumImport` through the answers of its routes. `DraftLifecycle`
and `VersionHistory` are the abstract specifications.

The definitions of modules that are extended together carry the component's name
(`PipelineInit`, `CalendarNext`, `backupVars`).

### `Grading`

A handler is split where another transaction can commit. `Start...` does the
handler's SELECTs and checks, and keeps the rows it has loaded in
`request[c].rows`; `LoadGrades` is the later SELECT of the grade and the target in
the handlers that need it; `Commit...` writes. `Write(read, new, now)` is
SQLAlchemy's unit of work: a column whose assigned value equals the value read is
not in the UPDATE, and keeps what another transaction made of it. `Abort...` is
any error before the commit. An UPDATE of a grade row that another transaction
deleted matches nothing and fails (`CanSave`), one that changes nothing is not sent.

The worker's `ClaimJob`, `LoadJob`/`CloseSuperseded`, `CommitResult` and `FailJob`
are `_claim_next_job`, the first and last part of `process_queued_job_once`, and its
exception handler. `CrashWorker` is the loop's own handler or a thread that dies
between two steps; `Restart` loses every request and upload as well. Claiming
writes nothing, so a crash repeats the job.

Abstractions: scores, texts, comments, assignees and priorities are left out; a
grade is who gave it and which row it is. `approve_review` and
`bulk_approve_reviews` are one action over a set of submissions (the items of a
bulk request are read together). The worker's SELECTs at load are one step, and
those of the grade and the item at the end are one step with its commit. Ids of
rolled back uploads are reused (in PostgreSQL they leave gaps), and `created_at`
follows ids. Excused targets and the deletion of assignments and students are not
modelled. There is one worker process (`Dockerfile`, `main.py`).

### `GradingPipeline`

Time is discrete: `Tick` lets a unit pass for the call, the backoff and the
breaker, saturating at the bound each is compared with. `run_with_timeout`
notices an overdue call only when the call ends, because leaving the
`ThreadPoolExecutor` waits for it. `RestartPipeline` loses the breaker. The score is
abstracted to whether the confidence reaches the threshold; the threshold is
taken to lie above the value that a failed OCR contributes, as the defaults do.
`Threshold` and `Attempts` are at least 1.

`append_status_history` reads the history with `getattr`, so for the dictionary
that `process_grading_job` passes it starts an empty list at every step: the row
ends up with a history of one entry. Nothing documents the history of such a job,
so `steps` models the sequence of statuses itself and not that column.

### Curricula: `CurriculumImport`, `CurriculumDuplicates`, `CurriculumWizard`, `CurriculumPackages`

In `CurriculumImport` a request on a session reads it, and later does a
compare-and-set on what it read; both are actions. `MoveRow` is every
compare-and-set that succeeds. `TakeFamily` is the family lock with the claim
inside the transaction, `PassGate` and `Insert` the rest, `Abort` every way out.
While the transaction is open other sessions read the old row (READ COMMITTED) and
updates of it wait (`~Claimed`). Ages of a session stand for
`processing_stale_after()`, `SESSION_TTL` and `PURGE_AFTER_EXPIRY` (the first is
shorter than the second by construction of the defaults). `cancel_processing` kills
a task that drafts, and a task whose transaction is under way may still commit.
Which pairs of curricula the gate calls duplicates is the constant `Matching`, an
arbitrary relation: partial matches are neither mutual nor transitive. Creating the
row and scheduling its task are one step; a `client_revision` that does not match is
a refusal that changes nothing; a curriculum is a name and a content.

`CurriculumDuplicates` is the relation itself, computed as the code does: from the
payload on the one side and from the rows on the other, with the inheritance of
grades and editions, and with unstated facets that agree with anything. A name is a
pair of its normal form and its spelling. The documents of the instance vary one
facet at a time.

`CurriculumWizard` is the other end of those sessions: the page, its runner, the
requests in flight, and what the reader clicks while they are. The page's effects
run with the click that causes them; the server is what its routes answer.

`CurriculumPackages` splits three requests that do work in between (activation,
creation and deletion of a resource); every other handler is one action. A name
stands for its row where the tables make it unique.

### Planning and records: `Calendar`, `Schedule`, `LessonPlans`, `Attendance`, `Gradebook`, `ReadCache`, `Compliance`, `Records`

In the first three each handler is one action: their hazard is not two requests at
once but a long sequence of legal edits. Dates are numbered; weekdays are a set of
them. `Schedule` keeps in `exposed` which block came back over which override, and
`LessonPlans` in `stale` which targets the code itself no longer follows.

`Attendance`, `ReadCache`, `Compliance` and `Records` interleave: a request reads
and commits in two actions (a cached read has four). The page's sums in
`Attendance` are computed once as the summary does, bucket by bucket, and once as
the hours page and the compliance check do. `ReadCache` numbers the writes, and a view is the number of the
last write it contains; the worker and the reviewers commit without invalidating,
which is why only writes that invalidate count as answered. `Compliance` keeps
the transaction's own rows apart until the commit, and waits where the flush waits
for a row. `Gradebook` and `Holidays` are algorithms over bounded inputs: their
inputs are chosen by the actions, and the property is a second definition; a letter
is that of the default scale, and a trend is the overall percentage after each grade
in the order in which the grades were created.
`Records` is one module for three kinds of documents, because their handlers do
the same with different columns.

### Data in and out: `AssignmentImport`, `ImportJobs`, `ExportJobs`, `BackupRestore`, `PackageRestore`

Each has its tasks, its requests, and the loss of the server between any two
steps. `AssignmentImport` keeps apart what is a compare-and-set (edits,
confirmations) and what overwrites (the task, deletion, expiry, and the refresh of
a session that was read as stale processing: `AtWork`). `ImportJobs`
commits batch by batch, so that a task can end half way. `ExportJobs` has a clock,
and transactions that write with the time at which they began and commit in any
order; of its tables, some are filtered by `created_at` or `updated_at`, the others
(report cards, transcripts, compliance reports) by `generated_at` alone.
`BackupRestore` has the database as a value that is dumped and put back, with the job
of the very run inside it, and the target as a set of directories: each has the time
it was modified at, by which a run prunes, and, once its manifest is there, the time
it was completed at, by which a clean-up on request does. A run that fails leaves a
directory without a manifest. `PackageRestore` is about names: a restore is one action.

### People: `Membership`, `Portfolio`, `FrontDoor`, `SchoolYearWizard`, `Holidays`

`Membership` has the requests of persons in two actions, those of the provisioner
in one. Identity tokens are external: what they say is an input. In `Portfolio` the
requests that write what they have read (attach, move, delete, save, share) are two
actions, and `Written` is SQLAlchemy's unit of work: a column that the request leaves
as it was read is not written. `FrontDoor` is
one request from its arrival to its answer, with the middleware's read of the
maintenance mode and of the session at the start and its rotation at the end.
`SchoolYearWizard` sends one request at a time to `Calendar`'s actions; the request
or its answer may be lost. `Holidays` computes days of the proleptic Gregorian
calendar, and compares Easter with the computation by epact and golden number.

## Runs

| Run | Parts | Shows |
|---|---|---|
| `live` | `Grading`, 2 submissions, 1 reviewer, 2 requests, 1 crash, fair worker | approvals have grades, final jobs are explained, queued jobs are served, re-grades are answered |
| `people` | `Grading` with 2 reviewers; `Membership`, `Portfolio`, `Records`, `SchoolYearWizard`, `Holidays`, `FrontDoor` | work for review has an item; invitations and provisioning; portfolios; documents; the set-up of a year; sessions |
| `planning` | `GradingPipeline`, `Grading` with 4 submissions; `Attendance`, `Gradebook`, `ReadCache`, `Calendar`, `Schedule`, `LessonPlans`, `PackageRestore` | the breaker; every job is answered; refinement of `VersionHistory`; planning and records; selective restores |
| `services` | `AssignmentImport`, `BackupRestore`, `ImportJobs`, `ExportJobs`, `Compliance` | what background services may not lose, repeat or delete |
| `drafts` | `CurriculumImport` with 2 sessions, 2 clients; `CurriculumPackages`, `CurriculumDuplicates`, `CurriculumWizard` | deletions are final; refinement of `DraftLifecycle`; resources, the gate, the page |
| `imports` | `CurriculumImport`, 1 session, 2 clients, 2 names, 2 curricula, fair | the gate cannot be raced; no session stays in processing |

What the properties say:

| Property | In words |
|---|---|
| `ApprovedHasGrade`, `FinalIsExplained` | an approved item has a grade; a job is final because of a grade, a rejection or a deletion |
| `PendingIsServed`, `RegradeIsAnswered` | liveness of the worker: every queued job is served, every re-grade answered |
| `ReviewNeededHasItem` | a job that waits for review can be found in the list |
| `BurstsAreBounded`, `EveryJobIsAnswered` | the breaker opens when it should; every job of the pipeline ends |
| `PublishesVersions`, `FollowsLifecycle` | the refinements of `VersionHistory` and `DraftLifecycle` |
| `DeletedStaysDeleted`, `NoUnseenDuplicate`, `ProcessingEnds` | sessions are not revived; the gate is not raced; processing ends |
| `CopiesAreCaught` | the same material, however spelled or annotated, is reported as an exact copy |
| `NothingIsLeftBehind`, `ImportsWhatWasChecked` | the page deletes every session it has made; what it sends is what was checked and acknowledged |
| `ResourceHasFile` | a file resource has its file, and no two share one |
| `OneAssignmentPerActivity`, `DeletionIsKept` | weekly imports skip each other's work; a deleted draft stays expired |
| `RowsImportedOnce`, `NothingFallsBetween` | a retried import copies no row twice; no change falls between two exports, but one that no date of its row tells of |
| `ArtifactsAreWhole`, `NewestArtifactIsKept` | an artifact has the file of every submission it holds; no clean-up removes the artifact that was completed last |
| `RestoredIsThere`, `SecondRestoreIsIdle` | what was asked for is there after a restore; restoring again changes nothing |
| `MembershipIsSound`, `KeepsTheDoor` | one person per invitation, and a managed user is a member; none joins by a revoked one, the owner stays |
| `PortfolioIsKept` | an attachment that was answered is served; a link opens its one collection until it is withdrawn |
| `NobodyIsShutOut` | an active session stays alive through rotation; maintenance lets administrators in |
| `FinalIsFrozen`, `TotalsMatchEntries` | a final document's lines do not change; totals are those of the lines |
| `ReadyIsAsReviewed`, `HolidaysAreRight` | a year said to be ready is the one reviewed; holidays are on their dates |
| `CalendarNests`, `ClashesAreExplained`, `PacingIsTrue` | intervals nest and do not overlap; a double booking has one possible origin; a target agrees with its plans |
| `SummaryAddsUp`, `HoursAreKept` | all pages count the same; hours logged by one request are not lost by another |
| `AveragesAreFair`, `AnsweredWritesShow`, `NoticeOnce` | dropping never lowers an average, the overall is within the marks, its letter is theirs, and the trend ends at it; a read shows answered writes; one notice in its window |

Several properties name an exception ("unless a request that overlapped another
wrote to it"): there the code makes no provision, and the exception is as narrow
as TLC let it be. The history variables (`raced`, `cut`, `renamed`, `stale`, `lost`,
`exposed`, `removed`, `crossed`, ...) exist for that, and no action reads them to
decide what it does. The section "What the models showed" lists what happens in the
exceptions.

Six runs end in a counterexample, each a disagreement between the code and what the
repository says of it (`PROJECT.json`, "findings", quotes the lines):

| Run | Counterexample |
|---|---|
| `unlisted` | a job whose processing raised goes to review without a review item |
| `late` | a resubmission during grading gives the superseded version a grade |
| `devices` | two overlapping uploads leave two current versions, or one number twice |
| `approvals` | an approval commits over a rejection that deleted its grade |
| `overdue` | a call past its timeout keeps the worker for as long as it runs |
| `ocr` | a file that OCR cannot read is graded by the AI and can be final |

### Bounds

- `Grading`: two submissions are a version and its resubmission, or two lineages;
  every property of the review part is about one submission and what a newer version
  does to it. Four give three-version lineages and two lineages at once. Two
  requests let each reviewer act once, or one act twice, on work that the worker is
  grading; three are needed for `approvals`. One crash reaches every point of the
  worker, and the state after it is not distinguishable from one before a first
  crash.
- `GradingPipeline`: three attempts have a first, a middle and a last one; the
  threshold of 3 lets failures of different jobs add up, and the reset time is longer
  than one job.
- `CurriculumImport`: two clients suffice for any race between two requests, and the
  task, time and restarts are further actors; a second session is created when the
  other one is gone or is purged by that creation (the properties of `drafts` are about
  one session each; `GateHolds` is proved for any number of sessions). `CurriculumWizard`: two analyses
  are one given up and one that follows it, with one text (part `analyses`); one analysis
  with two texts that parse and one that does not, and several checks at once (`texts`).
- `AssignmentImport`: two drafts and two teachers are the race of two imports; one
  activity with two days is the conflict that the lookups find. All drafts are weekly
  or none is. A draft is edited at the first two revisions and deleted at the next one
  as well: with one revision less, a deleted draft that comes back (see "What the
  models showed") is out of reach. `ImportJobs`: batches
  of one row and a file of two make a half-imported file; attendance and grades start with an empty table and whole rows, the
  other kinds with any. `ExportJobs`: a row is in one
  table and its history is its own, so of two rows, an assignment and a report card,
  one is written; the clock moves once, which separates before from after. While a
  transaction is open no export has been deleted, lost or has failed, and of the two
  exports one at most is. `BackupRestore` has two parts. In `backups` nothing is
  submitted or restored: two runs overlap, and finish in any order, or three follow one
  another; the retention is of one and of two. In
  `restores` there are two jobs, one of them the safety snapshot, a retention of one,
  and no directory stays without its manifest; either no artifact gets old, or nothing
  is submitted and only the database is put back.
- `Compliance`: two years and one rule, two transactions; windows of 0 ticks, in
  which two notices are too many. Transactions that overlap are of one kind, since a
  title belongs to a kind. `FrontDoor`: two requests of one browser, two users,
  a session that lives two ticks and is rotated after one; a member changes, or the
  server restarts, before the last request comes.
- `Portfolio`: two entries of two students and one collection, two editors: any two
  requests overlap, and an entry can be moved out of a collection; five changes let a
  third request follow the two.
- `Membership`: two families, persons and clients, one invitation, four requests;
  three users let a third one be provisioned. `Records`: one subject in two years,
  two documents, four steps (generate, change, generate again, finalize).
  `SchoolYearWizard`: a year of four days, one of them on a weekend, one on which the
  clock skips an hour; three edits, and a save that may be repeated without another one.
  The reviewers of `Grading` in `people` have two submissions of which the second is a
  resubmission or missing, and a crash only while there is one. `Holidays`: the years 1990 to 2060
  and the states with days of their own.
- Planning: two days are a record before and after, two schedules and slots are a
  clash; three lessons in two units; three assignments in two categories. `ReadCache`:
  two reads and two writes with a life of two ticks, and as many ticks, so that an entry
  is used, expires and is replaced.
- The bounds that a suite adds to a part are operators of the suite, named and
  commented there (`OneLineage`, `SavesAgain`, `UpsetsTheFirst`, `OneParses`,
  `OneAtWork`, `RunsOverlap`, `RestoresSome`, `OneRow`, `OneIsGivenUp`, `OneKind`,
  `FollowsAPurge`, `OneText`, `OneAnalysis`). They keep a run within minutes; nearly all
  properties of these parts are theorems, which know no bounds.

Symmetry is used in runs of safety properties only, on sets whose members no
definition orders.

Every property of a passing run has a mutant (`PROJECT.json`, "mutants"): a
definition of the model is replaced by what a plausible bug would make of it, and
TLC finds the property violated. The mutants are the definitions with a comment
that begins with "Mutant".

Deadlock is not checked where the bounds on uploads, requests, edits or time really
stop the system; it is checked in `imports`, `overdue` and `ocr`, whose systems never
stop.

### Fairness

- `Grading`: `WF(Worker)`. `_worker_loop` runs as long as the process does and
  catches everything; each of its steps ends. Nothing is assumed of devices and
  reviewers, and crashes are limited by their bound.
- `GradingPipeline`: `WF(Tick)` and `WF(CallAgain)` (time passes, a sleep ends) in
  `TimedSpec`, and `WF(CallEnds)` in `FairPipelineSpec`, which `planning` assumes of its
  pipeline. That every call ends by itself is an assumption about the provider, which
  the code does not enforce: `overdue` checks `TimedSpec`, without it, against the
  documented timeout.
- `CurriculumImport`: time passes, the server goes on with a request or drops it,
  and the page of a session polls it until an answer comes through (strong
  fairness: a poll can lose its compare-and-set or its connection and is repeated
  every two seconds, `lib/curriculumImportSession.ts`). Without polling a session
  whose task is lost stays `processing`: staleness is applied on read only.

The other modules assume no fairness and have safety properties only. For a
backup, an import or an export there is nothing to promise: a task that is lost with
its process leaves its row as it is, for ever.

## Proofs

All theorems hold for every value of the constants under the `...Assumption` of their
modules, which say what the code's configuration does (counts are natural numbers, a
day is not the mark of a missing one) and which TLC evaluates in the runs. Each
proof has the same form: an inductive invariant that holds at the start, one lemma per
action or group of actions that keep it alike, and the property from the invariant.

- **`TypeCorrect`, `Durable`, `ReviewIsFound`** (`GradingProofs`). Typing is
  inductive alone. For the others, lemma `JobMoves` lists the moves of a job's
  status that any action can make, and `ItemsPersist` that a review item, once
  there, stays.
- **`NewestVersionIsCurrent`, `UploadsPublishVersions`** (assumption
  `SingleDevice`). `NewestIsCurrent` is not inductive: an upload commits what it
  read earlier. `UploadsUpToDate` says that what an upload holds is still so (its
  number follows the stored ones, its priors are the current versions), which is
  where the assumption enters; with two devices it fails, as run `devices` shows.
  The refinement maps `CommitUpload` to `Publish` and every other step to a
  stutter.
- **`ApprovalsAreGraded`, `FinalJobsAreExplained`** (`GradingReviewProofs`,
  assumption `SingleReviewer`). The strengthening says what each process in
  flight may rely on: `RequestsUpToDate` for the reviewer against the worker and
  the uploads, `WorkerInformed` and `UploadsInformed` for those two. With two
  reviewers `RequestsUpToDate` fails, and so does `ApprovedHasGrade` (run
  `approvals`).
- **`BreakerIsSound`, `PipelineTypeCorrect`, `PipelineIsLegal`**
  (`GradingPipelineProofs`). `BreakerConsistent` relates the count of the breaker to the
  failures it stands for: open exactly at the threshold, and a run of quick
  failures is never longer than the count unless a whole reset time has passed.
  `PipelineIsLegal` is by the path so far: each phase ends a legal sequence in one
  given status.
- **`ImportsTypeCorrect`, `DeletionIsFinal`, `GateHolds`,
  `SessionsFollowLifecycle`** (`CurriculumImportProofs`). The invariant `IInv` adds
  what a request may rely on: a refresh or a deletion holds a status it may move
  from (`Requests`), an import past its claim has the lock and its row is
  unchanged (`Claims`), and what it saw at the gate still holds when it inserts
  (`Passed`). Each step then maps to one move of `DraftLifecycle` or to a stutter,
  and from that follow `Makings` and `DeletedStaysDeleted`.
- **`ResourcesHaveFiles`** (`CurriculumProofs`). Between its row and its file a resource
  is in the hands of one request: `CarriedIsOwn` says that a file which a request has
  stored or is to remove belongs to no row and to no other request.
- **`NothingStaysBehind`, `ImportsWereChecked`** (`CurriculumProofs`). `RunnerInv` says
  who knows a session. At most one deletion is the newest cancel (`OneNewest`), and
  while it may give its session back nothing else is held and no analysis is about to
  hold one (`HeldAlone`, `WaitsForNewest`): otherwise the session given back would
  replace one that nobody deletes. An import in flight keeps the page on its review, so
  no analysis is at work, and the answer that makes the runner let go comes after the
  session is confirmed (`SavingIsHeld`). For what is imported, `Sound` relates the
  matches, what was validated and what was acknowledged to the text at every step.
- **`CalendarIsNested`, `ScheduleClashesAreExplained`, `AnswersAreShown`**
  (`PlanningProofs`). `CalendarNests` is inductive with the typing: every handler
  checks what it moves against what is around it, and what lies inside it. The
  invariant of the schedule speaks of blocks that stand, whether an override hides them
  or not (`BlocksApart`, `ExtrasApart`), and of a clash that `exposed` remembers
  (`ClashesExposed`); `OverridesOwn`, that an override hides a block of its own schedule,
  takes it to the agendas of the property. A cached view is as new as the
  write that its computation had seen, which the invalidations in between bound
  (`EntryIsFresh`, `ReadsAreFresh`).
- **`PacingStaysTrue`** (`PlanningProofs`). The lemma that carries it is `DoneIsFinished`:
  `_refresh_pacing_targets` compares two counts, and they are equal exactly when every
  lesson of the unit has a plan, because a plan is unique for its student and lesson and
  its lesson exists (`CountingPairs`). Every handler then refreshes what its plans touch
  (`SameElsewhere`), or the target is among the `stale` ones. `PaceIsFair` bounds what
  the page says of it, for any lengths and days.
- **`PortfolioKeepsItsWord`** (`PeopleProofs`). The invariant says of each request in
  flight that what it has read is still so, or that it was overtaken; tokens and the
  names of stored files are never used twice.
- **`MembershipsAreSound`, `DoorIsKeptAlways`** (`PeopleProofs`). An accept or a
  sign-in that holds an invitation is by the one user of its email, or that user's
  email has changed since (`renamed`); an invitation in use is no longer open. That a
  managed user is a member needs that what the provisioner manages has been given the
  default family, by every way users come to be managed.
- **`TranscriptsAddUp`, `FinalDocumentsStay`** (`PeopleProofs`). A request that writes to a
  document and is not late still has the document as it is (`KnowsDocument`), and the
  lines as they are, but for the one it edits (`KnowsLines`); a commit makes the others
  about the document late (`CommitsAreNews`), so what a request computes from the lines
  it has read is what they come to. The totals are a function of the lines and nothing
  else is needed of them. A late generation still finds every line that it keeps a
  comment of, unless the document has another edition by then; and a line is always of
  a document that is there (`LinesBelong`).
- **`NobodyIsShutOutEver`** (`PeopleProofs`). Between two answers within a session that
  gave it no new term lie less than `RotateAfter` ticks of its life (`UsedInTime`); that
  an answer may look at an older session than the browser holds does no harm, since what
  the browser holds is never older than what a request came with (`CameBefore`). That
  whoever could end the maintenance mode gets through is a fact about roles: the bypass
  asks for a parent, and only parents, or those the provider calls administrators, are.
- **`ReadyYearsAreAsReviewed`** (`PeopleProofs`). `SavesWhatWasReviewed` adds up: what a
  save has made of its year so far (terms, days off) and what it still holds are together
  what was reviewed, so nothing is missing when nothing is held any more; `KeepsPromise`
  is the same of a finished year, and by `BelongToYears` a year that is made starts with
  nothing, because what an earlier one of its name had went with it. While a year is there
  the server refuses another one of its name, so no other save adds to it. The count of days needs that the
  days off of one date count once on both sides, and that the days of the form are those
  of the year when no clock change lies between (`exact`).
- **`BackupsAreWhole`, `BackupsKeepTheNewest`** (`ServicesProofs`). `RunIsWhole`
  follows a run between its dump and its copy: the files of what it has dumped are in
  the uploads until they are in its artifact, because files only come, except in a
  restore, which makes the run one that was touched. Of the artifact completed last, call
  it newest, a clean-up on request sees that none is newer, and the count is at least 1.
  A run prunes by another order, that of the times modified, and directories without a
  manifest take places that the count protects, so its count says nothing of the newest
  artifact. Its age does: what the run removes was old when it looked, and what is old
  was modified before the start of every run at work (`ClearedIsEmpty`, `Fresh`), since
  no run lasts the retention days, which are at least one; an artifact is modified
  after it was completed (`TargetIsTimed`); and a run that prunes has completed an
  artifact after its own start (`HasNewest`). So an artifact that is removed was
  completed before one that is not.
- **`ActivitiesAreAssignedOnce`, `DeletionsAreKept`** (`ServicesProofs`). `LockIsHeld`
  is the argument: one request at a time holds the family's row, and what it has
  looked up under the lock is all that is there when it commits. For deletions, a
  removed draft can be written only by somebody who was at work on it.
- **`ExportsMissNothing`** (`ServicesProofs`). Versions, dates and time are related
  row by row: whatever came since the full export took the row came quietly, or has
  given the row a date not before that export was created (`Seen`), so the
  incremental one, whose date is not later, takes it; `Passed` says what it had reason
  to pass over. That a version is quiet has three reasons, and each is an action: the
  edit of a document, a change of what its record repeats, a commit whose time is past.
  The full export's date is 0, so it leaves nothing out of the tables that it has
  collected (`Collected`), and one that is complete has collected all (`CollectsAll`).
- **`RowsAreImportedOnce`** (`ServicesProofs`). While no request overlaps another one,
  one thing at most is under way (`OneUnderWay`), and the rows made so far are exactly
  those before the next row of the task that applies them (`CopiedSoFar`): none until
  a task has passed the second validation, and a batch is disjoint from what is before
  it, so how often a key was made never exceeds how often the file has it.
- **`UsersAreToldOnce`** (`ServicesProofs`). `WrittenIsApart` is `NoticeOnce` for what a
  transaction has written and not committed: near to a notice that was sent only if
  others overlapped both. A writer has just looked, so what it adds is near to nothing
  it saw; a commit turns the pair of two writers into one of a writer and a sent
  notice, and `SendersOverlap` says why they are apart: the maintenance is one, and two
  checks of a year cannot both hold its rows. `IdsTellApart` shows that "another
  notice" means what it says: the bound leaves an id free for a new one (pigeonhole).

Some of these (type correctness, `DurableStatus`, `NewestIsCurrent`, `LegalSteps`,
`OpensOnStreak`) are proved for all constants and are in no run any more, but for
`NewestIsCurrent` in `devices`.

Two attempts failed for a reason and changed the models. In `Membership` the
invariant that an invitation is held by one person is broken when the email of a user
changes under a request (two clients with two emails do not reach it in the bounds of
the run); such users are now remembered in `renamed`. In `AssignmentImport` the
deletion of a draft was not kept with two revisions, though TLC had found nothing with
one: a second request that had read it as stale processing writes it as failed.
`AtWork` is the exception, and the bound reaches it now.

Only model-checked, and why:

- liveness (`PendingIsServed`, `RegradeIsAnswered`, `EveryJobIsAnswered`,
  `ProcessingEnds`): leads-to under fairness and ENABLED are outside the prover's reach;
- sums and recursive functions (`SummaryAddsUp`, `AveragesAreFair`, `HolidaysAreRight`):
  they need induction over data, which the installed provers cannot do;
- `CopiesAreCaught`, `RestoredIsThere`, `SecondRestoreIsIdle`, `HoursAreKept`:
  algorithms over bounded inputs and their second definitions;
- the six counterexamples. No module declares a RECURSIVE operator.

## What the models showed

Besides the six counterexamples, behaviours that the code has and that no document
speaks about; each is a step of a model, and an exception in the property next to it.

- **Selective restore.** The versions of a work are matched by assignment and
  student, so a grade goes to whichever version the work was last mapped to; a restored
  version has no parent, so the history of a work falls into works of one version; two
  assignments of one title share their submissions; a score of 0 overwrites nothing.
  (The export lists assignments by due date and id, the model by id: the order tells
  only which of two assignments of one title is meant.)
- **Exports.** An incremental export passes over the edit or archiving of a report card
  or a transcript (`services/report_cards.py`, 367-397, `services/transcripts.py`,
  391-441): both are filtered by `generated_at` (`services/export_service.py`, 765, 817),
  which an edit leaves. Compliance reports are filtered so too (950), but all that is
  done to one is to finalise it, which dates it. The targets of an assignment, the names
  in a record and the summary of grades in the CSV (562-575) change without their row. A
  change that commits after the clock has moved on is passed over when the next date
  asked for lies between; a later date may be replaced by an earlier. The family itself
  is in every export. The clocks of the application and of the database are taken as one.
- **Backups.** The two clean-ups order the artifacts differently, by the time a
  directory was modified (`services/backup_service.py`, 473-477) and by the time the
  manifest says it was completed (`services/restore_service.py`, 393). The former counts
  directories without a manifest among those it protects, so fewer old artifacts stay than
  the count says; the one completed last always does. A curriculum resource that is
  deleted between the dump and the copy of a run is in the artifact without its file
  (`routers/curriculum.py`, 1248-1251): what `ArtifactsAreWhole` says is of submissions, whose
  files nothing but a restore removes. A retention of 0 days, which the environment may set though
  a request may not, and the restic mode are not modelled.
- **Membership.** Removing a member from the viewers' group has no effect. A SCIM user
  without `externalId` who then signs in by SSO is no longer listed to the provisioner.
  Two overlapping creations leave two pending invitations, and later creations fail.
  A change of email under an accept in flight lets one invitation admit two.
- **Portfolio.** Two attachments at once lose one; giving an entry another student makes
  its attachments unservable (`routers/files.py`, 91-113) and leaves it in the old
  collection; the files of a deleted entry stay on the disk.
- **Assignment import.** A deleted session comes back as failed when a request that had
  read it as stale processing writes after the deletion
  (`routers/bulk_assignment_import.py`, 84-101).
- **Records.** A subject on a report card or a transcript cannot be deleted; deleting a
  school year leaves a final transcript's totals as they were; an update that has read
  a draft writes to a document that was finalized meanwhile; two edits of totals lose
  one. The rank in a transcript counts superseded versions.
- **School year wizard.** `differenceInDaysInclusive` loses a day across the spring
  change of the clock. A year shorter than its terms, and two custom terms of one
  name, are refused by the server only after the year exists. After a lost answer the
  year exists and the wizard says that it was not created.
- **Front door.** Rotation drops the roles the identity provider gave. The answer to a
  sign-out of a session due for rotation carries new cookies. An answer under way when
  another user signs in may restore the earlier session. An external administrator
  whose family role is tutor cannot sign in during maintenance, though a session that
  exists passes. Rate buckets live in the memory of each process.
- **Gate.** The edition that a subject has among its metadata extensions is read from
  the rows but not from the payload. Names that differ only in spelling make the
  comparison asymmetric.
- **Curriculum import page.** After a lost answer to a confirmation, or a Close that
  overtakes a `HandleImport`, the runner holds a confirmed session, whose DELETE is refused
  with 409 every time: Close never closes the page. A Close answered late closes a page
  on which a new analysis has begun.
- **Assignment import page.** Rows edited while a save is in flight are overwritten by
  its answer (not modelled, seen in the source).
- **Gradebook.** The percentage of a subject is not rounded before its letter is looked
  up, and the ranges of the default scale leave gaps: marks of 90 in two categories of
  weights 0.2 and 0.1 make 89.99999999999999, which is shown as 90.0 and has neither a
  letter nor points (`services/gradebook.py`, 310-311; the model's arithmetic is exact,
  so its property leaves "none" open). Every point of a trend carries the letter of now.
- **Grade scales** (not modelled, seen in the source). Two overlapping saves of the
  scales, one of which deletes what the other has just made the default, leave none; two
  overlapping requests that each make a default then leave two, and every read fails
  (`ensure_default_grade_scale`, 61-88, `scalar_one_or_none`).
- **Attendance.** The summary by term of a student without records, in a family
  without school years, takes the first of no records and raises
  (`routers/attendance.py`, 368).

## Not modelled

The components marked `not_modelled` in `PROJECT.json`, with the reason there, and of
those marked `partly` what their notes name. In short:

- pure functions over texts (answer keys, OCR, prompts, parsing of documents) whose
  outcome is an input of a model;
- protocols of libraries (OIDC, SAML, restic, pg_dump, SMTP): external;
- components whose requests are one row each and relate nothing two requests share:
  API tokens, quizzes, students and subjects, search, dashboards, audit and SIEM,
  health, capabilities, migrations;
- the pages of the front end other than the two wizards: forms over one request.

Row locks within one transaction are below the grain of `Grading`, so the deadlocks
that PostgreSQL resolves by aborting a transaction appear as `AbortRequest` and
`FailJob`.

## Plan

Done: every module above, the proofs of the core, and of curricula, planning, people
and services. Next, in order of weight:

1. An abstract specification of a restore (before, or after, never between) with the
   exceptions of `BackupRestore` as its steps, and an abstract register for `ReadCache`.
2. The composition of `Grading` with `GradingPipeline` in place of the free choice of
   `Results`.
3. The grade scales of a family, the GPA over subjects, and the ranks and summaries of `Records`.
