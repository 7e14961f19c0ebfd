------------------------------ MODULE ExportJobs ------------------------------
(***************************************************************************)
(* Export of a family's data (routers/exports.py,                          *)
(* services/export_service.py): a full export and, later, an incremental   *)
(* one from a date that is not after the creation of the first.            *)
(*                                                                         *)
(* A task of the event loop collects table after table, each with the      *)
(* query of its own that sees what is committed then, writes the file and  *)
(* commits the job.  With a date, most queries take the rows whose         *)
(* created_at or updated_at is not before it: the database's time at the   *)
(* start of the transaction that wrote the row.  Report cards, transcripts *)
(* and compliance reports are taken by generated_at alone, which an edit   *)
(* leaves.  A record also repeats values of other rows, which do not touch *)
(* its own.  The family itself is in every export, and is no row here.     *)
(***************************************************************************)
EXTENDS Naturals

CONSTANTS
    Rows,        \* the rows of the tables exported
    TableOf,     \* row -> the table it is in: 1..Tables, in the order collected
    Tables,      \* number of tables
    DocumentTables, \* the tables filtered by the time a document was generated
    MaxVersion,  \* bound on the changes of a row
    MaxTime      \* bound on the clock

\* What the constants must satisfy; assumed by the modules that give them values.
ExportJobsAssumption ==
    /\ Tables \in Nat \ {0}
    /\ TableOf \in [Rows -> 1..Tables]
    /\ DocumentTables \subseteq 1..Tables
    /\ MaxVersion \in Nat /\ MaxTime \in Nat

Full        == 1
Incremental == 2
Exports     == {Full, Incremental}

ExportStatus == {"none", "pending", "processing", "complete", "failed", "deleted"}

VARIABLES
    record,    \* row -> its version, its dates, and the versions that came quietly
    writer,    \* the transactions that change a row: the row and the transaction's time
    now,       \* the database's clock
    export,    \* export -> the row of its job: [status, since, created]
    task,      \* export -> its task: the next table, and the versions it has
    filed,     \* the exports whose file is on the disk
    deletion   \* export -> a deletion in flight: its step, and whether it has the path

exportJobsVars == <<record, writer, now, export, task, filed, deletion>>

NoExport   == [status |-> "none", since |-> 0, created |-> 0]
NoTask     == [state |-> "none", next |-> 1, taken |-> [r \in Rows |-> 0],
               passed |-> [r \in Rows |-> 0]]
NoDeletion == [step |-> "none", path |-> FALSE]

\* No row is there yet: its version is zero.
ExportJobsInit ==
    /\ record = [r \in Rows |-> [version |-> 0, created |-> 0, changed |-> 0, quiet |-> {}]]
    /\ writer = {}
    /\ now = 0
    /\ export = [e \in Exports |-> NoExport]
    /\ task = [e \in Exports |-> NoTask]
    /\ filed = {}
    /\ deletion = [e \in Exports |-> NoDeletion]

-----------------------------------------------------------------------------
(* The rows *)

\* A row is to be created or changed, a document generated, again or for good.
BeginWrite(r) ==
    /\ record[r].version < MaxVersion
    /\ writer' = writer \cup {[row |-> r, at |-> now]}
    /\ UNCHANGED <<record, now, export, task, filed, deletion>>

\* The versions that no date tells of once w has committed: its own, when the clock
\* has moved on since w began; and all before it, whose date w replaces by an earlier.
Hidden(w, row) ==
    IF w.at = now THEN row.quiet
    ELSE IF w.at < row.changed THEN 1..row.version + 1
    ELSE row.quiet \cup {row.version + 1}

\* Transactions commit in any order: a row comes into sight with a time that is past.
CommitWrite ==
    \E w \in writer :
        /\ record[w.row].version < MaxVersion
        /\ record' = [record EXCEPT ![w.row] =
                        [version |-> @.version + 1,
                         created |-> IF @.version = 0 THEN w.at ELSE @.created,
                         changed |-> w.at,
                         quiet   |-> Hidden(w, @)]]
        /\ writer' = writer \ {w}
        /\ UNCHANGED <<now, export, task, filed, deletion>>

\* A change of what is exported that leaves the dates of the row.
ChangeUndated(r) ==
    /\ record[r].version \in 1..MaxVersion - 1
    /\ record' = [record EXCEPT ![r].version = @ + 1, ![r].quiet = @ \cup {record[r].version + 1}]
    /\ UNCHANGED <<writer, now, export, task, filed, deletion>>

\* update_report_card, update_transcript: notes, comments, credits, the status.
EditDocument(r) == TableOf[r] \in DocumentTables /\ ChangeUndated(r)

\* What a record repeats of other rows: names and titles, an assignment's targets and
\* the summary of its grades.
ChangeRelated(r) == ChangeUndated(r)

Pass ==
    /\ now < MaxTime
    /\ now' = now + 1
    /\ UNCHANGED <<record, writer, export, task, filed, deletion>>

-----------------------------------------------------------------------------
(* An export *)

\* create_export, create_export_job: a full export first, then an incremental
\* one whose date is not after the creation of the full one.
Create(e) ==
    /\ export[e].status = "none"
    /\ e = Incremental => export[Full].status # "none"
    /\ \E since \in IF e = Full THEN {0} ELSE 0..export[Full].created :
        export' = [export EXCEPT ![e] = [status |-> "pending", since |-> since, created |-> now]]
    /\ UNCHANGED <<record, writer, now, task, filed, deletion>>

\* schedule_export_execution, once the job and the audit event are committed.
ScheduleExport(e) ==
    /\ export[e].status = "pending" /\ task[e].state = "none"
    /\ task' = [task EXCEPT ![e].state = "scheduled"]
    /\ UNCHANGED <<record, writer, now, export, filed, deletion>>

StartExport(e) ==
    /\ task[e].state = "scheduled"
    /\ IF export[e].status = "deleted"
       THEN /\ task' = [task EXCEPT ![e].state = "ended"]
            /\ UNCHANGED export
       ELSE /\ task' = [task EXCEPT ![e].state = "collecting"]
            /\ export' = [export EXCEPT ![e].status = "processing"]
    /\ UNCHANGED <<record, writer, now, filed, deletion>>

\* Mutant: rows changed at the date itself are left out.
SinceAfter(e, r) ==
    \/ export[e].since = 0
    \/ record[r].changed > export[e].since
    \/ TableOf[r] \notin DocumentTables /\ record[r].created > export[e].since

\* _apply_since: updated_at or generated_at, or else created_at, at the date or after.
Since(e, r) ==
    \/ record[r].changed >= export[e].since
    \/ TableOf[r] \notin DocumentTables /\ record[r].created >= export[e].since

\* _collect_students ... _collect_audit_events: what the query of one table returns.
Selected(e, rows) == {r \in rows : Since(e, r)}

\* _collect_export_bundle: one table after the other.
CollectTable(e) ==
    /\ task[e].state = "collecting" /\ task[e].next <= Tables
    /\ LET rows   == {r \in Rows : TableOf[r] = task[e].next /\ record[r].version # 0}
           chosen == Selected(e, rows) IN
        task' = [task EXCEPT ![e] =
            [state  |-> "collecting",
             next   |-> @.next + 1,
             taken  |-> [r \in Rows |-> IF r \in chosen THEN record[r].version ELSE @.taken[r]],
             passed |-> [r \in Rows |-> IF r \in rows \ chosen THEN record[r].version ELSE @.passed[r]]]]
    /\ UNCHANGED <<record, writer, now, export, filed, deletion>>

\* destination.write_bytes.
WriteFile(e) ==
    /\ task[e].state = "collecting" /\ task[e].next > Tables
    /\ task' = [task EXCEPT ![e].state = "written"]
    /\ filed' = filed \cup {e}
    /\ UNCHANGED <<record, writer, now, export, deletion>>

\* The commit of the complete job.  When the row is deleted the commit fails, and
\* so does the one of the exception handler.
CompleteExport(e) ==
    /\ task[e].state = "written"
    /\ export' = [export EXCEPT ![e].status = IF @ = "deleted" THEN @ ELSE "complete"]
    /\ task' = [task EXCEPT ![e].state = "ended"]
    /\ UNCHANGED <<record, writer, now, filed, deletion>>

\* An exception in the collection or the disk, and the handler's commit.
FailExport(e) ==
    /\ task[e].state \in {"collecting", "written"}
    /\ export' = [export EXCEPT ![e].status = IF @ = "deleted" THEN @ ELSE "failed"]
    /\ task' = [task EXCEPT ![e].state = "ended"]
    /\ UNCHANGED <<record, writer, now, filed, deletion>>

\* The process stops: the tasks and requests are gone, the rows and files stay.
StopExports ==
    /\ \E e \in Exports :
        task[e].state \in {"scheduled", "collecting", "written"} \/ deletion[e].step # "none"
    /\ task' = [e \in Exports |->
                  IF task[e].state \in {"none", "ended"} THEN task[e]
                  ELSE [task[e] EXCEPT !.state = "ended"]]
    /\ deletion' = [e \in Exports |-> NoDeletion]
    /\ UNCHANGED <<record, writer, now, export, filed>>

-----------------------------------------------------------------------------
(* remove_export, delete_export_job *)

\* The row is loaded: until it is complete its path is the placeholder's.
AskDeletion(e) ==
    /\ export[e].status \notin {"none", "deleted"}
    /\ deletion[e].step = "none"
    /\ deletion' = [deletion EXCEPT ![e] = [step |-> "loaded",
                                            path |-> export[e].status = "complete"]]
    /\ UNCHANGED <<record, writer, now, export, task, filed>>

Unlink(e) ==
    /\ deletion[e].step = "loaded"
    /\ deletion' = [deletion EXCEPT ![e].step = "unlinked"]
    /\ filed' = IF deletion[e].path THEN filed \ {e} ELSE filed
    /\ UNCHANGED <<record, writer, now, export, task>>

CommitDeletion(e) ==
    /\ deletion[e].step = "unlinked"
    /\ export' = [export EXCEPT ![e].status = "deleted"]
    /\ deletion' = [deletion EXCEPT ![e] = NoDeletion]
    /\ UNCHANGED <<record, writer, now, task, filed>>

ExportJobsNext ==
    \/ \E r \in Rows : BeginWrite(r) \/ EditDocument(r) \/ ChangeRelated(r)
    \/ CommitWrite \/ Pass \/ StopExports
    \/ \E e \in Exports :
        \/ Create(e) \/ ScheduleExport(e) \/ StartExport(e) \/ CollectTable(e)
        \/ WriteFile(e) \/ CompleteExport(e) \/ FailExport(e)
        \/ AskDeletion(e) \/ Unlink(e) \/ CommitDeletion(e)

ExportJobsSpec == ExportJobsInit /\ [][ExportJobsNext]_exportJobsVars

-----------------------------------------------------------------------------
(* Properties *)

\* Nothing falls between a full export and an incremental one: a row that the second
\* passes over has the version that the first took -- or a later one that no date tells
\* of: by the edit of a document, by a change of another row that the record repeats,
\* or by a transaction that commits after the clock's next tick, or hidden by one.
NothingFallsBetween ==
    \A r \in Rows :
        LET passed == task[Incremental].passed[r] IN
        (passed # 0 /\ export[Full].status = "complete") =>
            task[Full].taken[r]+1 .. passed \subseteq record[r].quiet
=============================================================================
