------------------------------ MODULE ImportJobs ------------------------------
(***************************************************************************)
(* Import of CSV and JSON files (routers/imports.py,                       *)
(* services/import_service.py).                                            *)
(*                                                                         *)
(* A file is uploaded, validated on request (a dry run), and executed by a *)
(* task of the event loop, which validates it again and commits it batch   *)
(* by batch.  The two requests read the status of the job, and write it in *)
(* a later statement, and nothing takes the job while a validation goes    *)
(* on.  A task has no handler of exceptions.                               *)
(*                                                                         *)
(* A row of a file is the key it would have in its table (the name of a    *)
(* student or subject, student and date, student and assignment, ...), or  *)
(* "bad" when a field of it is refused whatever the table holds.           *)
(***************************************************************************)
EXTENDS Naturals, Sequences, FiniteSets

CONSTANTS
    Keys,        \* the keys of the rows of the table imported into
    Clients,     \* browsers of the family's teachers
    BatchSize,   \* 25 in the code
    FileRows,     \* bound on the rows of the file
    MaxImports      \* bound on the executions accepted

\* What the constants must satisfy; assumed by the modules that give them values.
ImportJobsAssumption ==
    /\ BatchSize \in Nat \ {0}
    /\ FileRows \in Nat
    /\ MaxImports \in Nat
    /\ "bad" \notin Keys

\* What is imported.  Students and subjects are one kind here: both have a name
\* that is theirs in the family.
EntityKinds == {"names", "attendance", "grades", "packages", "assignments"}

\* The tables with a unique constraint on the key.
Unique == {"names", "attendance", "packages"}

ImportStatus == {"pending", "validating", "importing", "complete", "failed"}
Files        == UNION {[1..n -> Keys \cup {"bad"}] : n \in 0..FileRows}
Runs         == 1..MaxImports

VARIABLES
    kind,      \* what the job imports
    file,      \* the rows of its file
    table,     \* key -> rows of the table with it
    import,    \* the status of the job (its counts of rows and errors are left out)
    asked,     \* client -> its request in flight and the status it has loaded
    run,       \* task -> its state, the status it has loaded and its next row
    copied,    \* history: key -> rows made by the executions of the job
    raced,     \* history: a request was in flight while another one was, or a task
    reopened   \* history: a job that was complete has been validated again

importJobsVars == <<kind, file, table, import, asked, run, copied, raced, reopened>>

NoRequest  == [step |-> "none", loaded |-> "none"]
NotStarted == [state |-> "none", loaded |-> "none", next |-> 1]

\* create_import_job.
ImportJobsInit ==
    /\ kind \in EntityKinds
    /\ file \in Files
    /\ table \in [Keys -> 0..1]
    /\ import = "pending"
    /\ asked = [c \in Clients |-> NoRequest]
    /\ run = [r \in Runs |-> NotStarted]
    /\ copied = [k \in Keys |-> 0]
    /\ raced = FALSE /\ reopened = FALSE

RunEnded(r, how) == [run EXCEPT ![r] = [state |-> how, loaded |-> "none", next |-> 1]]

Active == {r \in Runs : run[r].state \in {"scheduled", "loaded", "applying"}}

Unreadable(i) == file[i] = "bad"
Taken(i)      == file[i] \in Keys /\ table[file[i]] > 0
Repeated(i)   == \E j \in 1..i-1 : file[j] = file[i]

\* _validate_students_csv, _validate_subjects_csv.
NameRefused(i) == Unreadable(i) \/ Repeated(i) \/ Taken(i)

\* _validate_attendance_csv: a student and a date.
AttendanceRefused(i) == Unreadable(i) \/ Repeated(i) \/ Taken(i)

\* _validate_grades_csv: a student and an assignment, and whether the current
\* submission has a grade.
GradeRefused(i) == Unreadable(i) \/ Repeated(i) \/ Taken(i)

\* _validate_curriculum_packages_json: a school year and a name.
PackageRefused(i) == Unreadable(i) \/ Taken(i)

\* _validate_assignments_csv: only the fields and what they name.
AssignmentRefused(i) == Unreadable(i)

Refused(i) ==
    \/ kind = "names"       /\ NameRefused(i)
    \/ kind = "attendance"  /\ AttendanceRefused(i)
    \/ kind = "grades"      /\ GradeRefused(i)
    \/ kind = "packages"    /\ PackageRefused(i)
    \/ kind = "assignments" /\ AssignmentRefused(i)

Invalid == \E i \in DOMAIN file : Refused(i)

-----------------------------------------------------------------------------
(* The requests *)

\* SQLAlchemy writes the columns that differ from what was loaded.
Saved(status, loaded) == IF status = loaded THEN import ELSE status

AskFor(c, step) ==
    /\ asked[c].step = "none"
    /\ asked' = [asked EXCEPT ![c] = [step |-> step, loaded |-> import]]
    /\ raced' = (raced \/ Active # {} \/ \E d \in Clients : asked[d].step # "none")
    /\ UNCHANGED <<kind, file, table, import, run, copied>>

\* Mutant: a job that is complete is executed again.
AskExecutionAgain(c) ==
    import # "importing" /\ AskFor(c, "execute") /\ UNCHANGED reopened

AskValidation(c) ==
    /\ import # "importing"
    /\ AskFor(c, "validate")
    /\ reopened' = (reopened \/ import = "complete")

AskExecution(c) ==
    /\ import \notin {"importing", "complete"}
    /\ AskFor(c, "execute")
    /\ UNCHANGED reopened

\* validate_import_job, to the commit and the refresh.
MarkValidating(c) ==
    /\ asked[c].step = "validate"
    /\ LET status == Saved("validating", asked[c].loaded) IN
        /\ import' = status
        /\ asked' = [asked EXCEPT ![c] = [step |-> "validating", loaded |-> status]]
    /\ UNCHANGED <<kind, file, table, run, copied, raced, reopened>>

FinishValidation(c) ==
    /\ asked[c].step = "validating"
    /\ import' = Saved(IF Invalid THEN "failed" ELSE "pending", asked[c].loaded)
    /\ asked' = [asked EXCEPT ![c] = NoRequest]
    /\ UNCHANGED <<kind, file, table, run, copied, raced, reopened>>

\* execute_import, to its first commit.
MarkImporting(c) ==
    /\ asked[c].step = "execute"
    /\ import' = Saved("importing", asked[c].loaded)
    /\ asked' = [asked EXCEPT ![c] = [step |-> "importing", loaded |-> "none"]]
    /\ UNCHANGED <<kind, file, table, run, copied, raced, reopened>>

\* execute_import, the audit event's commit and schedule_import_execution.
Schedule(c) ==
    /\ asked[c].step = "importing"
    /\ \E r \in Runs :
        /\ run[r].state = "none" /\ \A q \in 1..r-1 : run[q].state # "none"
        /\ run' = [run EXCEPT ![r].state = "scheduled"]
    /\ asked' = [asked EXCEPT ![c] = NoRequest]
    /\ UNCHANGED <<kind, file, table, import, copied, raced, reopened>>

-----------------------------------------------------------------------------
(* _run_import_job *)

LoadJob(r) ==
    /\ run[r].state = "scheduled"
    /\ run' = [run EXCEPT ![r].state = "loaded", ![r].loaded = import]
    /\ UNCHANGED <<kind, file, table, import, asked, copied, raced, reopened>>

\* The second validation, and _finalize_job when it finds errors.
CheckRows(r) ==
    /\ run[r].state = "loaded"
    /\ import' = IF Invalid THEN Saved("failed", run[r].loaded) ELSE import
    /\ run' = IF Invalid THEN RunEnded(r, "ended") ELSE [run EXCEPT ![r].state = "applying"]
    /\ UNCHANGED <<kind, file, table, asked, copied, raced, reopened>>

\* rows[start : start + batch_size].
Batch(r) == {i \in DOMAIN file : i \in run[r].next .. run[r].next + BatchSize - 1}
Times(k, rows) == Cardinality({i \in rows : file[i] = k})

\* The database refuses the transaction of a batch.
Conflict(rows) ==
    kind \in Unique /\ \E k \in Keys : Times(k, rows) > 0 /\ table[k] + Times(k, rows) > 1

\* _apply_rows and the commit of a batch.
ApplyBatch(r) ==
    /\ run[r].state = "applying" /\ run[r].next <= Len(file)
    /\ ~Conflict(Batch(r))
    /\ table' = [k \in Keys |-> table[k] + Times(k, Batch(r))]
    /\ copied' = [k \in Keys |-> copied[k] + Times(k, Batch(r))]
    /\ run' = [run EXCEPT ![r].next = @ + BatchSize]
    /\ UNCHANGED <<kind, file, import, asked, raced, reopened>>

\* An IntegrityError ends the task; the job keeps its status.
ConflictEndsRun(r) ==
    /\ run[r].state = "applying" /\ run[r].next <= Len(file)
    /\ Conflict(Batch(r))
    /\ run' = RunEnded(r, "conflict")
    /\ UNCHANGED <<kind, file, table, import, asked, copied, raced, reopened>>

\* range(0, len(rows), batch_size) is exhausted.
Exhausted(r) == run[r].next > Len(file)

FinishRun(r) ==
    /\ run[r].state = "applying" /\ Exhausted(r)
    /\ import' = Saved("complete", run[r].loaded)
    /\ run' = RunEnded(r, "ended")
    /\ UNCHANGED <<kind, file, table, asked, copied, raced, reopened>>

-----------------------------------------------------------------------------
(* What happens around it *)

\* Another exception, or the process stops.
LoseRun(r) ==
    /\ r \in Active
    /\ run' = RunEnded(r, "lost")
    /\ UNCHANGED <<kind, file, table, import, asked, copied, raced, reopened>>

LoseRequest(c) ==
    /\ asked[c].step # "none"
    /\ asked' = [asked EXCEPT ![c] = NoRequest]
    /\ raced' = TRUE
    /\ UNCHANGED <<kind, file, table, import, run, copied, reopened>>

\* A teacher enters the same student, grade, ... by hand.
AddElsewhere(k) ==
    /\ table[k] = 0
    /\ table' = [table EXCEPT ![k] = 1]
    /\ UNCHANGED <<kind, file, import, asked, run, copied, raced, reopened>>

TaskStep(r) == LoadJob(r) \/ CheckRows(r) \/ ApplyBatch(r) \/ ConflictEndsRun(r) \/ FinishRun(r)

RequestStep(c) == MarkValidating(c) \/ FinishValidation(c) \/ MarkImporting(c) \/ Schedule(c)

ImportJobsNext ==
    \/ \E c \in Clients : AskValidation(c) \/ AskExecution(c) \/ RequestStep(c) \/ LoseRequest(c)
    \/ \E r \in Runs : TaskStep(r) \/ LoseRun(r)
    \/ \E k \in Keys : AddElsewhere(k)

ImportJobsSpec == ImportJobsInit /\ [][ImportJobsNext]_importJobsVars

-----------------------------------------------------------------------------
(* Properties *)

\* A row of the file is imported once, however often the import is executed,
\* while no request comes before the answer of another one, no task is cut off
\* and no complete job is validated again: a job that failed has imported
\* nothing, and one that is complete is not executed.  (Nothing else keeps the
\* assignments of a file from being made twice: their table has no unique key.)
RowsImportedOnce ==
    raced \/ reopened \/ \A k \in Keys : copied[k] <= Times(k, DOMAIN file)
=============================================================================
