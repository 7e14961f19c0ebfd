--------------------------- MODULE AssignmentImport ---------------------------
(***************************************************************************)
(* Import of assignments from uploaded plans                               *)
(* (routers/bulk_assignment_import.py, services/bulk_assignment_import.py, *)
(* services/weekly_assignment_import.py).                                  *)
(*                                                                         *)
(* An upload becomes a session with a draft: at once when it can be parsed *)
(* here, by a task of the event loop when the AI has to.  Teachers read,   *)
(* edit, delete and confirm the draft.  Edits and confirmations are        *)
(* compare-and-sets on status and revision; the task, the checks of age    *)
(* made by every read, and deletion write what they have computed from a   *)
(* row read before.  A confirmation holds the lock of the family from its  *)
(* claim to its commit; in weekly mode it looks up the lesson plans and    *)
(* assignments that are there and creates the missing ones.                *)
(*                                                                         *)
(* A row of a draft is an activity of a student and the day it is for.     *)
(***************************************************************************)
EXTENDS Naturals, FiniteSets

CONSTANTS
    Drafts,       \* ids of the import sessions
    Teachers,     \* devices of the family's teachers
    Activities,   \* a student's curriculum lessons
    Days,         \* the days of the planned week
    MaxRows,      \* bound on the rows of a draft
    MaxRevision   \* bound on the revision at which a draft is still edited, or at the next one deleted

\* What the constants must satisfy; assumed by the modules that give them values.
AssignmentImportAssumption ==
    /\ MaxRows \in Nat
    /\ MaxRevision \in Nat
    /\ "missing" \notin Days
    /\ "nobody" \notin Teachers

\* What a row says of its day: one of the week, or nothing (to the draft a field
\* that is missing is the same as one that the validation refuses).
Row       == [activity : Activities, day : Days \cup {"missing"}]
Documents == {rows \in SUBSET Row : Cardinality(rows) <= MaxRows}

DraftStatus == {"none", "processing", "needs_clarification", "ready",
                "confirmed", "expired", "failed"}

VARIABLES
    draft,     \* session -> its row: [status, revision, rows]
    weekly,    \* the sessions uploaded in weekly mode
    over,      \* sessions whose expires_at has passed
    stalled,   \* sessions whose updated_at is too old for one in processing
    parse,     \* session -> its task in the event loop
    ask,       \* teacher -> the request in flight and the rows it has read
    family,    \* the teacher whose transaction holds the family's row
    plan,      \* activity -> the day of its lesson plan, or "missing"
    assigned,  \* the assignments made: [draft, activity, day]
    removed    \* history: sessions deleted while nobody was at work on them as processing

assignmentImportVars ==
    <<draft, weekly, over, stalled, parse, ask, family, plan, assigned, removed>>

NoDraft == [status |-> "none", revision |-> 0, rows |-> {}]
NoParse == [state |-> "none", revision |-> 0]
NoAsk   == [draft |-> "none", seen |-> NoDraft, step |-> "none",
            rows |-> {}, plan |-> <<>>, done |-> {}]

AssignmentImportInit ==
    /\ draft = [s \in Drafts |-> NoDraft]
    /\ over = {} /\ stalled = {}
    /\ parse = [s \in Drafts |-> NoParse]
    /\ ask = [c \in Teachers |-> NoAsk]
    /\ family = "nobody"
    /\ plan = [a \in Activities |-> "missing"]
    /\ weekly \in SUBSET Drafts
    /\ assigned = {}
    /\ removed = {}

-----------------------------------------------------------------------------
(* Validation of a draft against what the family has *)

\* The activities that have an assignment linked to their lesson plan.
Linked == {a.activity : a \in {b \in assigned : b.draft \in weekly}}

\* The lesson plan and the assignment that are there are not moved.
MovesNothing(row, plans) == plans[row.activity] \in {"missing", row.day}

\* The rows for one activity are of one date.
OneDate(row, rows) == \A other \in rows : other.activity = row.activity => other.day = row.day

\* resolve_items: a weekly row agrees with what is there and with the other rows.
Agrees(row, rows, plans) == MovesNothing(row, plans) /\ OneDate(row, rows)

\* _validate_item: neither an error nor a missing field.
RowReady(row, rows, isWeekly, plans) ==
    row.day # "missing" /\ (isWeekly => Agrees(row, rows, plans))

\* _summary, _status_from_summary.
Assessed(rows, isWeekly, plans) ==
    IF rows = {} THEN "failed"
    ELSE IF \A r \in rows : RowReady(r, rows, isWeekly, plans) THEN "ready"
    ELSE "needs_clarification"

-----------------------------------------------------------------------------
(* Uploads and the task that parses *)

\* A transaction has written the row of the session and not committed yet.
RowLocked(s) == family # "nobody" /\ ask[family].draft = s

\* create_draft_session
NewDraft(s, rows) == [status |-> Assessed(rows, s \in weekly, plan), revision |-> 1, rows |-> rows]

\* Structured JSON, the weekly template or the grid.
UploadParsed(s) ==
    /\ draft[s].status = "none"
    /\ \E rows \in Documents : draft' = [draft EXCEPT ![s] = NewDraft(s, rows)]
    /\ UNCHANGED <<weekly, over, stalled, parse, ask, family, plan, assigned, removed>>

\* create_processing_session, schedule_assignment_import_processing.
UploadForAi(s) ==
    /\ draft[s].status = "none"
    /\ draft' = [draft EXCEPT ![s] = [status |-> "processing", revision |-> 1, rows |-> {}]]
    /\ parse' = [parse EXCEPT ![s].state = "scheduled"]
    /\ UNCHANGED <<weekly, over, stalled, ask, family, plan, assigned, removed>>

\* Mutant: the task takes a deleted session as well.
BeginAnyParse(s) ==
    /\ parse[s].state = "scheduled"
    /\ parse' = [parse EXCEPT ![s] = [state |-> "asking", revision |-> draft[s].revision]]
    /\ UNCHANGED <<weekly, draft, over, stalled, ask, family, plan, assigned, removed>>

\* The task reads the row, once, before it asks the AI.
BeginParse(s) ==
    /\ parse[s].state = "scheduled"
    /\ parse' = [parse EXCEPT ![s] =
                    IF draft[s].status = "processing"
                    THEN [state |-> "asking", revision |-> draft[s].revision] ELSE NoParse]
    /\ UNCHANGED <<weekly, draft, over, stalled, ask, family, plan, assigned, removed>>

\* complete_processing_session: whatever has become of the session meanwhile,
\* it is overwritten.
StoreParse(s) ==
    /\ parse[s].state = "asking"
    /\ ~RowLocked(s)
    /\ \E rows \in Documents :
        draft' = [draft EXCEPT ![s] = [status |-> Assessed(rows, s \in weekly, plan),
                                       revision |-> parse[s].revision + 1, rows |-> rows]]
    /\ parse' = [parse EXCEPT ![s] = NoParse]
    /\ UNCHANGED <<weekly, over, stalled, ask, family, plan, assigned, removed>>

\* The AI or the validation raises; fail_processing_session reads the row again.
ParseFails(s) ==
    /\ parse[s].state = "asking"
    /\ parse' = [parse EXCEPT ![s] =
                    IF draft[s].status = "processing"
                    THEN [state |-> "failing", revision |-> draft[s].revision] ELSE NoParse]
    /\ UNCHANGED <<weekly, draft, over, stalled, ask, family, plan, assigned, removed>>

Failed(row, revision) == [row EXCEPT !.status = "failed", !.revision = revision, !.rows = {}]

StoreFailure(s) ==
    /\ parse[s].state = "failing"
    /\ ~RowLocked(s)
    /\ draft' = [draft EXCEPT ![s] = Failed(@, parse[s].revision + 1)]
    /\ parse' = [parse EXCEPT ![s] = NoParse]
    /\ UNCHANGED <<weekly, over, stalled, ask, family, plan, assigned, removed>>

\* bulk_assignment_processing_stale_minutes and bulk_assignment_ttl_hours go by.
Stall(s) ==
    /\ draft[s].status = "processing"
    /\ s \notin stalled
    /\ stalled' = stalled \cup {s}
    /\ UNCHANGED <<weekly, draft, over, parse, ask, family, plan, assigned, removed>>

RunOut(s) ==
    /\ draft[s].status # "none"
    /\ s \notin over
    /\ over' = over \cup {s}
    /\ UNCHANGED <<weekly, draft, stalled, parse, ask, family, plan, assigned, removed>>

\* The server restarts: tasks and requests are gone.
LoseServer ==
    /\ parse' = [s \in Drafts |-> NoParse]
    /\ ask' = [c \in Teachers |-> NoAsk]
    /\ family' = "nobody"
    /\ UNCHANGED <<weekly, draft, over, stalled, plan, assigned, removed>>

-----------------------------------------------------------------------------
(* Requests *)

\* A request reads its session; which operation it is shows in what it does next.
Ask(c, s) ==
    /\ ask[c].step = "none"
    /\ draft[s].status # "none"
    /\ ask' = [ask EXCEPT ![c] = [NoAsk EXCEPT !.draft = s, !.seen = draft[s], !.step = "read"]]
    /\ UNCHANGED <<weekly, draft, over, stalled, parse, family, plan, assigned, removed>>

\* What _get_session_or_404 finds to be done about the age of what it has read.
Lapsed(c)  == /\ ask[c].step = "read"
              /\ ask[c].draft \in over
              /\ ask[c].seen.status \notin {"confirmed", "expired"}
Starved(c) == /\ ask[c].step = "read"
              /\ ~Lapsed(c)
              /\ ask[c].draft \in stalled
              /\ ask[c].seen.status = "processing"

\* The session has expired: its status alone is written, and 410 answered.
Lapse(c) ==
    LET s == ask[c].draft IN
    /\ Lapsed(c)
    /\ ~RowLocked(s)
    /\ draft' = [draft EXCEPT ![s].status = "expired"]
    /\ ask' = [ask EXCEPT ![c] = NoAsk]
    /\ UNCHANGED <<weekly, over, stalled, parse, family, plan, assigned, removed>>

\* Processing has taken too long: the session fails, and the request goes on
\* with the row as it is then.
Starve(c) ==
    LET s == ask[c].draft IN
    /\ Starved(c)
    /\ ~RowLocked(s)
    /\ draft' = [draft EXCEPT ![s] = Failed(@, ask[c].seen.revision + 1)]
    /\ ask' = [ask EXCEPT ![c] = [@ EXCEPT !.seen = draft'[s], !.step = "checked"]]
    /\ UNCHANGED <<weekly, over, stalled, parse, family, plan, assigned, removed>>

\* The handler of an operation has its row.
Handles(c) ==
    /\ ask[c].step \in {"read", "checked"}
    /\ ~Lapsed(c) /\ ~Starved(c)

\* The row is still what the request has read.
Unmoved(c) ==
    /\ draft[ask[c].draft].status = ask[c].seen.status
    /\ draft[ask[c].draft].revision = ask[c].seen.revision

\* Every other way out: the draft is returned, or the request is refused, fails
\* or is dropped before it has written anything.
Answered(c) ==
    /\ ask[c].step \in {"read", "checked"}
    /\ ask' = [ask EXCEPT ![c] = NoAsk]
    /\ UNCHANGED <<weekly, draft, over, stalled, parse, family, plan, assigned, removed>>

\* patch_assignment_import_session: answers and edited rows are put into the
\* draft that was read, which is validated and stored if the row is unmoved.
Patch(c) ==
    LET s    == ask[c].draft
        seen == ask[c].seen
    IN  /\ Handles(c)
        /\ seen.status \in {"needs_clarification", "ready"}
        /\ seen.revision <= MaxRevision
        /\ ~RowLocked(s)
        /\ Unmoved(c)
        /\ \E r \in seen.rows, edited \in Row :
            LET rows == (seen.rows \ {r}) \cup {edited} IN
            draft' = [draft EXCEPT ![s] = [status |-> Assessed(rows, s \in weekly, plan),
                                           revision |-> seen.revision + 1, rows |-> rows]]
        /\ ask' = [ask EXCEPT ![c] = NoAsk]
        /\ UNCHANGED <<weekly, over, stalled, parse, family, plan, assigned, removed>>

\* A task parses the session, or another request has read it while it was processing:
\* they write what they then make of it, whatever has become of it.
AtWork(s, c) ==
    \/ parse[s].state \in {"asking", "failing"}
    \/ \E d \in Teachers \ {c} :
          ask[d].draft = s /\ ask[d].step = "read" /\ ask[d].seen.status = "processing"

\* delete_assignment_import_session: a column is written when its value is not
\* the one read.
Delete(c) ==
    LET s    == ask[c].draft
        seen == ask[c].seen
    IN  /\ Handles(c)
        /\ seen.status # "confirmed"
        /\ seen.revision <= MaxRevision + 1
        /\ ~RowLocked(s)
        /\ draft' = [draft EXCEPT ![s] =
                [draft[s] EXCEPT !.status = IF seen.status = "expired" THEN draft[s].status ELSE "expired",
                                 !.revision = seen.revision + 1]]
        /\ removed' = IF AtWork(s, c) THEN removed ELSE removed \cup {s}
        /\ ask' = [ask EXCEPT ![c] = NoAsk]
        /\ UNCHANGED <<weekly, over, stalled, parse, family, plan, assigned>>

\* confirm_assignment_import_session up to the claim: a ready draft, or chosen
\* rows of a weekly one.  The lookups of confirm follow under the lock.
MayConfirm(s, seen, rows) ==
    /\ rows # {}
    /\ seen.status = "ready" \/ (s \in weekly /\ seen.status = "needs_clarification")

\* The family's row is held, and the lookups of confirm follow.
TakesFamily(c) ==
    /\ \E rows \in SUBSET ask[c].seen.rows :
        /\ MayConfirm(ask[c].draft, ask[c].seen, rows)
        /\ ask' = [ask EXCEPT ![c] = [@ EXCEPT !.step = "claimed", !.rows = rows,
                                               !.plan = plan, !.done = Linked]]
    /\ family' = c
    /\ UNCHANGED <<weekly, draft, over, stalled, parse, plan, assigned, removed>>

\* Mutant: nobody waits for the row of the family.
ClaimUnlocked(c) == Handles(c) /\ Unmoved(c) /\ TakesFamily(c)

Claim(c) ==
    /\ Handles(c)
    /\ family = "nobody"
    /\ Unmoved(c)
    /\ TakesFamily(c)

\* confirm, create_links: every chosen row is ready; a weekly one that is there
\* already is skipped, and the others get a lesson plan and an assignment.
CommitConfirm(c) ==
    LET s      == ask[c].draft
        seen   == ask[c].seen
        chosen == ask[c].rows
        fresh  == {r \in chosen : ~(s \in weekly /\ r.activity \in ask[c].done)}
        planned(a) == CHOOSE r \in fresh : r.activity = a
    IN  /\ ask[c].step = "claimed"
        /\ \A r \in chosen : RowReady(r, chosen, s \in weekly, ask[c].plan)
        /\ assigned' = assigned \cup
                {[draft |-> s, activity |-> r.activity, day |-> r.day] : r \in fresh}
        /\ plan' = [a \in Activities |->
                IF s \in weekly /\ \E r \in fresh : r.activity = a THEN planned(a).day ELSE plan[a]]
        /\ draft' = [draft EXCEPT ![s] =
                [@ EXCEPT !.status = "confirmed", !.revision = seen.revision + 1]]
        /\ family' = "nobody"
        /\ ask' = [ask EXCEPT ![c] = NoAsk]
        /\ UNCHANGED <<weekly, over, stalled, parse, removed>>

\* A row is not ready, an id is unknown, or the database refuses: rollback.
RollBackConfirm(c) ==
    /\ ask[c].step = "claimed"
    /\ ask' = [ask EXCEPT ![c] = NoAsk]
    /\ family' = "nobody"
    /\ UNCHANGED <<weekly, draft, over, stalled, parse, plan, assigned, removed>>

-----------------------------------------------------------------------------

Tasks(s) == \/ UploadParsed(s) \/ UploadForAi(s) \/ BeginParse(s) \/ StoreParse(s)
            \/ ParseFails(s) \/ StoreFailure(s) \/ Stall(s) \/ RunOut(s)

Handling(c) == \/ Lapse(c) \/ Starve(c) \/ Answered(c) \/ Patch(c) \/ Delete(c)
               \/ Claim(c) \/ CommitConfirm(c) \/ RollBackConfirm(c)

AssignmentImportNext ==
    \/ \E s \in Drafts : Tasks(s)
    \/ \E c \in Teachers, s \in Drafts : Ask(c, s)
    \/ \E c \in Teachers : Handling(c)
    \/ LoseServer

AssignmentImportSpec == AssignmentImportInit /\ [][AssignmentImportNext]_assignmentImportVars

-----------------------------------------------------------------------------
(* Properties *)

\* Two weekly imports of the same work, at once or one after the other, make one
\* assignment: the second skips what the first has scheduled
\* (docs/design/bulk-assignment-import.md, "skips existing scheduled work").
OneAssignmentPerActivity ==
    \A a, b \in assigned :
        {a.draft, b.draft} \subseteq weekly /\ a.activity = b.activity => a = b

\* A deleted draft stays expired (docs/design/bulk-assignment-import.md, "marks the
\* draft expired"), unless it was deleted under a task, or another request, that was at
\* work on it already.
StaysExpired ==
    \A s \in removed : draft[s].status = "expired" => draft'[s].status = "expired"

DeletionIsKept == [][StaysExpired]_assignmentImportVars

=============================================================================
