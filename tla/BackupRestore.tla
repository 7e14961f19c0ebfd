---------------------------- MODULE BackupRestore ----------------------------
(***************************************************************************)
(* Backups and restores (services/backup_service.py,                       *)
(* services/restore_service.py, routers/backups.py, routers/restore.py).   *)
(*                                                                         *)
(* A run of a backup dumps the database, copies the uploads, and copies    *)
(* both to a directory of the backup target: an artifact once its manifest *)
(* is there, which is written last.  A run that fails or stops before it   *)
(* leaves a directory without one.  Then the run prunes the target, by the *)
(* times its directories were modified; a clean-up on request looks at the *)
(* artifacts only, by the time in the manifest.  The job of a run is a row *)
(* of the very database it dumps.  A restore validates an artifact, takes  *)
(* a safety snapshot, puts the database back and then the uploads; a       *)
(* selective one merges rows of the artifact's export into what there is.  *)
(* Runs, requests and the clean-up of the target go on at once, and the    *)
(* process may stop anywhere.                                              *)
(***************************************************************************)
EXTENDS Naturals, FiniteSets

CONSTANTS
    Works,      \* submissions: a row of the database and a file of the uploads
    Runners,    \* tasks and the scheduler's thread, each with one run at a time
    MaxJobs,    \* bound on the ids of backup jobs
    MaxMoment,  \* bound on the times told apart
    MaxTokens,  \* bound on the validations that wait to be used
    MaxKeep     \* bound on the retention count

\* What the constants must satisfy; assumed by the modules that give them values.
BackupRestoreAssumption ==
    /\ MaxJobs \in Nat /\ MaxMoment \in Nat /\ MaxTokens \in Nat /\ MaxKeep \in Nat \ {0}
    /\ "snapshot" \notin Runners

\* The run a restore waits for is one more runner.
AllRunners == Runners \cup {"snapshot"}
JobIds     == 1..MaxJobs

BackupJobStatus == {"none", "pending", "running", "complete", "failed"}
Database == [rows : SUBSET Works, jobs : [JobIds -> BackupJobStatus], next : 1..MaxJobs + 1]
RunStep  == {"idle", "created", "running", "dumped", "copied", "placed", "described", "published",
             "listed", "pruned", "ended"}

VARIABLES
    live,       \* the database: submissions, backup jobs, the next id of a job
    uploads,    \* the submissions whose file is in the uploads
    target,     \* the directories of the backup target
    keep,       \* backup_retention_count
    backup,     \* runner -> its run
    moment,     \* the latest of the times that are told apart
    tokens,     \* validations not consumed: the ids of the artifacts looked at
    restore     \* the restore at work

backupVars == <<live, uploads, target, keep, backup, moment, tokens, restore>>

EmptyDatabase == [rows |-> {}, jobs |-> [i \in JobIds |-> "none"], next |-> 1]
IdleRun == [step |-> "idle", id |-> 0, started |-> 0, completed |-> 0, dump |-> EmptyDatabase,
            files |-> {}, untouched |-> FALSE, expired |-> {}]
NoRestore == [step |-> "idle", source |-> 0, parts |-> {}]

\* A directory is named by the run that made it, modified at some time, old when that is
\* before the retention days, and completed, by its manifest, at another or never (zero).
Artifacts == {d \in target : d.completed # 0}

BackupInit ==
    /\ live = EmptyDatabase
    /\ uploads = {}
    /\ target = {}
    /\ keep \in 1..MaxKeep
    /\ backup = [r \in AllRunners |-> IdleRun]
    /\ moment = 0
    /\ tokens = {}
    /\ restore = NoRestore

\* What a restore does to the database and to the uploads keeps the event loop,
\* so that no request is served meanwhile.  The scheduler has a thread of its own.
LoopIsFree == restore.step \notin {"clear", "fill"}

\* Something happens at a time of its own.
Tick == moment < MaxMoment /\ moment' = moment + 1

-----------------------------------------------------------------------------
(* The application at work: an upload is a file and a row *)

Submit(w) ==
    /\ LoopIsFree
    /\ w \notin live.rows
    /\ live' = [live EXCEPT !.rows = @ \cup {w}]
    /\ uploads' = uploads \cup {w}
    /\ UNCHANGED <<target, keep, backup, moment, tokens, restore>>

-----------------------------------------------------------------------------
(* A run of a backup *)

\* trigger_backup, run_scheduled_backups, _create_safety_snapshot: create_backup_job
\* and commit, which the run follows.
CreateJob(r) ==
    /\ backup[r].step = "idle"
    /\ live.next <= MaxJobs
    /\ live' = [live EXCEPT !.jobs[live.next] = "pending", !.next = @ + 1]
    /\ backup' = [backup EXCEPT ![r] = [IdleRun EXCEPT !.step = "created", !.id = live.next]]

CreateBackup(r) ==
    /\ LoopIsFree
    /\ CreateJob(r)
    /\ UNCHANGED <<uploads, target, keep, moment, tokens, restore>>

\* A run is over; a restore looks at its snapshot first.
Ended(r) == IF r \in Runners THEN IdleRun
            ELSE [IdleRun EXCEPT !.step = "ended", !.id = backup[r].id]

\* When the job's row is gone, or complete, the run is over.
StartRun(r) ==
    LET i == backup[r].id IN
    /\ backup[r].step = "created"
    /\ IF live.jobs[i] \in {"none", "complete"}
       THEN /\ backup' = [backup EXCEPT ![r] = Ended(r)]
            /\ UNCHANGED <<live, moment>>
       ELSE /\ live' = [live EXCEPT !.jobs[i] = "running"]
            /\ Tick
            /\ backup' = [backup EXCEPT ![r] = [@ EXCEPT !.step = "running", !.started = moment + 1]]
    /\ UNCHANGED <<uploads, target, keep, tokens, restore>>

\* _write_database_backup: pg_dump.
DumpDatabase(r) ==
    /\ backup[r].step = "running"
    /\ backup' = [backup EXCEPT ![r] = [@ EXCEPT !.step = "dumped", !.dump = live,
                                                !.untouched = live.rows \subseteq uploads]]
    /\ UNCHANGED <<live, uploads, target, keep, moment, tokens, restore>>

\* _copy_upload_tree; the export archive is built next, from the database.
CopyUploads(r) ==
    /\ backup[r].step = "dumped"
    /\ backup' = [backup EXCEPT ![r] = [@ EXCEPT !.step = "copied", !.files = uploads]]
    /\ UNCHANGED <<live, uploads, target, keep, moment, tokens, restore>>

\* The directory a run makes in the target, and what tells it from the others.
Directory(r, modified) ==
    [name |-> backup[r].started, modified |-> modified, old |-> FALSE, completed |-> 0, id |-> 0,
     dump |-> EmptyDatabase, files |-> {}, untouched |-> FALSE]

\* copytree: a directory that nothing reads before it has its manifest.  It is modified as
\* files come into it; at the end it gets the time of the staged one, of the run's start.
Place(r) ==
    /\ backup[r].step = "copied"
    /\ \/ target' = target \cup {Directory(r, backup[r].started)} /\ UNCHANGED moment
       \/ target' = target \cup {Directory(r, moment + 1)} /\ Tick
    /\ backup' = [backup EXCEPT ![r].step = "placed"]
    /\ UNCHANGED <<live, uploads, keep, tokens, restore>>

\* _build_manifest, which takes the time.
Describe(r) ==
    /\ backup[r].step = "placed"
    /\ Tick
    /\ backup' = [backup EXCEPT ![r] = [@ EXCEPT !.step = "described", !.completed = moment + 1]]
    /\ UNCHANGED <<live, uploads, target, keep, tokens, restore>>

\* The directory that run r has yet to make an artifact.
Bare(r) == {d \in target : d.name = backup[r].started /\ d.completed = 0}

\* Mutant: the uploads are copied before the database is dumped.
DumpedLast(r) ==
    [Directory(r, moment + 1) EXCEPT !.completed = backup[r].completed, !.id = backup[r].id,
        !.dump = live, !.files = backup[r].files, !.untouched = backup[r].untouched]

\* What the directory is with its manifest.
Artifact(r) ==
    [Directory(r, moment + 1) EXCEPT !.completed = backup[r].completed, !.id = backup[r].id,
        !.dump = backup[r].dump, !.files = backup[r].files, !.untouched = backup[r].untouched]

\* _write_manifest: the directory is modified, and an artifact.
Publish(r) ==
    /\ backup[r].step = "described"
    /\ Tick
    /\ target' = (target \ Bare(r)) \cup {Artifact(r)}
    /\ backup' = [backup EXCEPT ![r] = [IdleRun EXCEPT !.step = "published", !.id = backup[r].id,
                                                      !.started = backup[r].started]]
    /\ UNCHANGED <<live, uploads, keep, tokens, restore>>

\* _cleanup_old_backups: past the cutoff, and not one of the directories modified last,
\* whether artifacts or not.
Outdated(d) == d.old /\ Cardinality({e \in target : e.modified > d.modified}) >= keep

\* Its thread lists the directories and sorts them, and then removes some.
ListOld(r) ==
    /\ backup[r].step = "published"
    /\ backup' = [backup EXCEPT ![r] = [@ EXCEPT !.step = "listed",
                                                !.expired = {d \in target : Outdated(d)}]]
    /\ UNCHANGED <<live, uploads, target, keep, moment, tokens, restore>>

Prune(r) ==
    /\ backup[r].step = "listed"
    /\ target' = target \ backup[r].expired
    /\ backup' = [backup EXCEPT ![r] = [@ EXCEPT !.step = "pruned", !.expired = {}]]
    /\ UNCHANGED <<live, uploads, keep, moment, tokens, restore>>

\* The end of _run_backup_job: the row may be gone by now.
Settle(r, status) ==
    LET i == backup[r].id IN
    /\ live' = IF live.jobs[i] = "none" THEN live ELSE [live EXCEPT !.jobs[i] = status]
    /\ backup' = [backup EXCEPT ![r] = Ended(r)]
    /\ UNCHANGED <<uploads, target, keep, moment, tokens, restore>>

Complete(r) == backup[r].step = "pruned" /\ Settle(r, "complete")

\* The target is not writable, pg_dump fails, a copy fails, the target is full: what is
\* in the target stays.
Fail(r) ==
    /\ backup[r].step \in {"running", "dumped", "copied", "placed", "described", "published", "listed"}
    /\ Settle(r, "failed")

-----------------------------------------------------------------------------
(* Retention *)

\* The directory modified longest ago, of those that are not, gets past the retention
\* days.  No run takes as long as these, which are at least one: what was modified
\* since the start of a run that is at work is not that old.
Age ==
    /\ \E d \in target :
        /\ ~d.old
        /\ \A e \in target : e.modified < d.modified => e.old
        /\ \A r \in AllRunners : backup[r].started # 0 => d.modified < backup[r].started
        /\ target' = (target \ {d}) \cup {[d EXCEPT !.old = TRUE]}
    /\ UNCHANGED <<live, uploads, keep, backup, moment, tokens, restore>>

Newer(a) == {b \in Artifacts : b.completed > a.completed}

\* Mutant: the oldest artifacts are the protected ones.
ExpiredOldestKept(a) ==
    a.old /\ Cardinality({b \in Artifacts : b.completed < a.completed}) >= keep

\* cleanup_retained_backups, on request: past the cutoff, and not one of the artifacts
\* completed last.
Expired(a) == a.old /\ Cardinality(Newer(a)) >= keep

Cleanup ==
    /\ LoopIsFree
    /\ \E a \in Artifacts : Expired(a)
    /\ target' = {d \in target : ~(d \in Artifacts /\ Expired(d))}
    /\ UNCHANGED <<live, uploads, keep, backup, moment, tokens, restore>>

\* update_retention_policy: the count; the days are fixed here.
SetRetention(n) ==
    /\ LoopIsFree
    /\ n # keep
    /\ keep' = n
    /\ UNCHANGED <<live, uploads, target, backup, moment, tokens, restore>>

-----------------------------------------------------------------------------
(* Restores *)

\* get_backup_artifact: the artifact completed last of those with the id.
Found(i) == {a \in Artifacts : a.id = i /\ \A b \in Newer(a) : b.id # i}

\* validate_backup: every check passes, and a token is stored.
Validate(i) ==
    /\ LoopIsFree
    /\ Cardinality(tokens) < MaxTokens
    /\ Found(i) # {}
    /\ tokens' = tokens \cup {i}
    /\ UNCHANGED <<live, uploads, target, keep, backup, moment, restore>>

\* _VALIDATION_TTL, fifteen minutes, goes by.
ExpireToken ==
    /\ \E i \in tokens : tokens' = tokens \ {i}
    /\ UNCHANGED <<live, uploads, target, keep, backup, moment, restore>>

\* The parts of execute_restore, and the merge of selective_restore.
Parts == {{"database"}, {"uploads"}, {"database", "uploads"}, {"merge"}}

NextPart(parts) ==
    IF "database" \in parts THEN "database"
    ELSE IF "uploads" \in parts THEN "clear"
    ELSE IF "merge" \in parts THEN "merge"
    ELSE "idle"

\* execute_restore, selective_restore: the artifact is looked up again by its id,
\* and the token, which names the id, is consumed.
BeginRestore(i) ==
    /\ restore.step = "idle"
    /\ \E a \in Found(i), parts \in Parts :
        \/ /\ restore' = [step |-> NextPart(parts), source |-> a.name, parts |-> parts]
           /\ UNCHANGED <<live, backup>>
        \/ /\ restore' = [step |-> "snapshot", source |-> a.name, parts |-> parts]
           /\ CreateJob("snapshot")
    /\ tokens' = tokens \ {i}
    /\ UNCHANGED <<uploads, target, keep, moment>>

\* _create_safety_snapshot: the run must have completed its job.
CheckSnapshot ==
    /\ restore.step = "snapshot"
    /\ backup["snapshot"].step = "ended"
    /\ restore' = IF live.jobs[backup["snapshot"].id] = "complete"
                  THEN [restore EXCEPT !.step = NextPart(restore.parts)] ELSE NoRestore
    /\ backup' = [backup EXCEPT !["snapshot"] = IdleRun]
    /\ UNCHANGED <<live, uploads, target, keep, moment, tokens>>

\* The artifact the restore has found, unless it has been pruned meanwhile.
Source == {a \in Artifacts : a.name = restore.source}

\* _restore_database_from_artifact: pg_restore, everything back as it was dumped.
RestoreDatabase ==
    /\ restore.step = "database"
    /\ \E a \in Source : live' = a.dump
    /\ restore' = IF "uploads" \in restore.parts THEN [restore EXCEPT !.step = "clear"] ELSE NoRestore
    /\ UNCHANGED <<uploads, target, keep, backup, moment, tokens>>

\* _restore_uploads_from_artifact: everything is removed, and then copied.
ClearUploads ==
    /\ restore.step = "clear"
    /\ Source # {}
    /\ uploads' = {}
    /\ restore' = [restore EXCEPT !.step = "fill"]
    /\ backup' = [r \in AllRunners |-> [backup[r] EXCEPT !.untouched = FALSE]]
    /\ UNCHANGED <<live, target, keep, moment, tokens>>

FillUploads ==
    /\ restore.step = "fill"
    /\ \E a \in Source : uploads' = a.files
    /\ restore' = NoRestore
    /\ UNCHANGED <<live, target, keep, backup, moment, tokens>>

\* selective_restore: rows that are missing are created, with the files of the export.
MergeRows ==
    /\ restore.step = "merge"
    /\ \E a \in Source, some \in SUBSET Works :
        /\ some \subseteq a.dump.rows
        /\ live' = [live EXCEPT !.rows = @ \cup some]
        /\ uploads' = uploads \cup some
    /\ restore' = NoRestore
    /\ UNCHANGED <<target, keep, backup, moment, tokens>>

\* A file of the artifact is missing, or a copy or pg_restore fails: what was done
\* stays done.
RestoreFails ==
    /\ restore.step \in {"database", "clear", "fill", "merge"}
    /\ restore' = NoRestore
    /\ UNCHANGED <<live, uploads, target, keep, backup, moment, tokens>>

\* The process stops: runs, the restore and the tokens are gone.
StopProcess ==
    /\ backup' = [r \in AllRunners |-> IdleRun]
    /\ restore' = NoRestore
    /\ tokens' = {}
    /\ UNCHANGED <<live, uploads, target, keep, moment>>

-----------------------------------------------------------------------------

Run(r) == \/ StartRun(r) \/ DumpDatabase(r) \/ CopyUploads(r)
          \/ Place(r) \/ Describe(r) \/ Publish(r)
          \/ ListOld(r) \/ Prune(r) \/ Complete(r) \/ Fail(r)

Restoring == \/ CheckSnapshot \/ RestoreDatabase \/ ClearUploads \/ FillUploads
             \/ MergeRows \/ RestoreFails

BackupNext ==
    \/ \E w \in Works : Submit(w)
    \/ \E r \in Runners : CreateBackup(r)
    \/ \E r \in AllRunners : Run(r)
    \/ Age \/ Cleanup
    \/ \E n \in 1..MaxKeep : SetRetention(n)
    \/ \E i \in JobIds : Validate(i)
    \/ ExpireToken
    \/ \E i \in tokens : BeginRestore(i)
    \/ Restoring
    \/ StopProcess

BackupSpec == BackupInit /\ [][BackupNext]_backupVars

-----------------------------------------------------------------------------
(* Properties *)

\* The database is dumped before the uploads are copied, so every submission of an
\* artifact's dump has its file in the artifact, whatever is submitted meanwhile;
\* only a restore that clears the uploads under the run may take files away.
ArtifactsAreWhole ==
    \A a \in Artifacts : a.untouched => a.dump.rows \subseteq a.files

\* No clean-up, of a run, of a snapshot or on request, however they overlap, and no
\* change of the policy ever removes the artifact that was completed last: neither when
\* runs end in another order than they began, nor when directories of failed runs are
\* newer and take the places that the policy protects.
KeepsNewest ==
    Artifacts # {} => \E a \in Artifacts' : \A b \in Artifacts : a.completed >= b.completed

NewestArtifactIsKept == [][KeepsNewest]_backupVars

=============================================================================
