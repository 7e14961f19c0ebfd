----------------------------- MODULE MCServices -----------------------------
(***************************************************************************)
(* Small instances of five services that share no state, checked in one    *)
(* run: part says which one is at work.  TLC visits the sum of their state *)
(* spaces.                                                                 *)
(***************************************************************************)
EXTENDS AssignmentImport, BackupRestore, Compliance, ExportJobs, ImportJobs, TLC

VARIABLE part

servicesVars == <<part, assignmentImportVars, backupVars, exportJobsVars, importJobsVars, complianceVars>>

ASSUME AssignmentsAssumption == AssignmentImportAssumption
ASSUME BackupsAssumption     == BackupRestoreAssumption
ASSUME ExportsAssumption     == ExportJobsAssumption
ASSUME ImportsAssumption     == ImportJobsAssumption
ASSUME RemindersAssumption   == ComplianceAssumption

\* Of the drafts, all are weekly or none is.  A part at rest starts in one way only: the
\* week's mode, the retention and the file are the work's to choose; what is
\* validated as names are is imported into an empty table.
ServicesInit ==
    /\ part \in {"assignments", "backups", "exports", "imports", "reminders", "restores"}
    /\ AssignmentImportInit /\ BackupInit /\ ExportJobsInit /\ ImportJobsInit /\ ComplianceInit
    /\ weekly \in IF part = "assignments" THEN {{}, Drafts} ELSE {{}}
    /\ part # "backups" => keep = 1
    /\ kind \in {"attendance", "grades"} => table = [k \in Keys |-> 0] /\ \A i \in DOMAIN file : file[i] \in Keys
    /\ part # "imports" => kind = "names" /\ file = << >> /\ table = [k \in Keys |-> 0]

\* Bounds of the parts.  A second draft is weekly as the first one is, and no task of either
\* goes on.  Of the backups two overlap, or three follow one another.  Two do, one the safety
\* snapshot, and none leaves half a directory, where something is restored: either no artifact
\* gets old, or nothing is submitted and only the database is put back.  Transactions that
\* overlap are of one kind, since the titles are, and a check that finds nothing to remind of
\* begins alone.  Of the rows exported one is written, and while it is no export is deleted,
\* fails or is lost, and only one of the two is.
OneParses == \A s, t \in Drafts :
    \/ s = t \/ draft[s].status = "none" \/ draft[t].status = "none"
    \/ weekly = Drafts /\ parse[s] = NoParse /\ parse[t] = NoParse
OneAtWork == \A r, s \in Runners : r = s \/ backup[r].step = "idle" \/ backup[s].step = "idle"
RunsOverlap ==
    /\ live.rows = {} /\ uploads = {} /\ restore = NoRestore /\ tokens = {}
    /\ live.next > 3 => OneAtWork /\ \A d, e \in target : d.name < e.name => d.modified < e.name
RestoresSome ==
    /\ OneAtWork /\ live.next <= 3 /\ moment <= 6 /\ keep = 1
    /\ \A d \in target : d.completed = 0 =>
          d.modified = d.name /\ \E r \in AllRunners : backup[r].started = d.name
    /\ \/ /\ \A d \in target : ~d.old
          /\ tokens = {} \/ (live.next <= 2 /\ restore = NoRestore)
       \/ /\ live.rows = {} /\ uploads = {} /\ restore.parts \subseteq {"database"}
          /\ restore = NoRestore \/ tokens = {}
OneKind == \A t, u \in {t \in Senders : Open(t)} :
    /\ sender[t].kind = sender[u].kind
    /\ sender[t].step = "computed" /\ DOMAIN sender[t].unmet = {} => t = u
OneRow == \A r, s \in Rows :
    LET IsWritten(q) == record[q].version # 0 \/ \E w \in writer : w.row = q IN
    IsWritten(r) /\ IsWritten(s) => r = s
OneIsGivenUp ==
    LET gone == {e \in Exports : \/ deletion[e].step # "none" \/ export[e].status \in {"deleted", "failed"}
                                 \/ task[e].state = "ended" /\ export[e].status # "complete"} IN
    gone # Exports /\ (gone # {} => writer = {})

ServicesNext ==
    \/ /\ UNCHANGED <<part, importJobsVars, complianceVars>>
       /\ \/ part = "assignments" /\ AssignmentImportNext /\ OneParses' /\ UNCHANGED <<backupVars, exportJobsVars>>
          \/ /\ part \in {"backups", "restores"} /\ BackupNext
             /\ (IF part = "backups" THEN RunsOverlap ELSE RestoresSome)'
             /\ UNCHANGED <<assignmentImportVars, exportJobsVars>>
          \/ part = "exports" /\ ExportJobsNext /\ OneRow' /\ OneIsGivenUp' /\ UNCHANGED <<assignmentImportVars, backupVars>>
    \/ /\ UNCHANGED <<part, assignmentImportVars, backupVars, exportJobsVars>>
       /\ \/ part = "imports" /\ ImportJobsNext /\ UNCHANGED complianceVars
          \/ part = "reminders" /\ ComplianceNext /\ OneKind' /\ UNCHANGED importJobsVars

ServicesSpec == ServicesInit /\ [][ServicesNext]_servicesVars

-----------------------------------------------------------------------------
(* Values for the constants. *)

Interchangeable == Permutations(Drafts) \cup Permutations(Teachers)

\* The rows exported, the family's compliance rules and the calendar they read.
SomeTables   == [r \in Rows |-> IF r = "card" THEN 2 ELSE 1]
SomeRules    == <<[type |-> "attendance", required |-> 1]>>
SomeProgress == [y \in Years |-> [t \in 0..CheckTime |->
    IF y = "y1" THEN (IF t = 0 THEN 30 ELSE 85) ELSE (IF t = 0 THEN 80 ELSE 100)]]
NoWindow     == [title \in {"Compliance warning", "Compliance non compliant", "Due soon",
                              "Grading complete"} |-> 0]
=============================================================================
