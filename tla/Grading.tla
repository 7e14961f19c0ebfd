------------------------------- MODULE Grading -------------------------------
(***************************************************************************)
(* Submissions, grading jobs, grades and review items of one               *)
(* (assignment, student) pair, as they stand in the database, and the      *)
(* three kinds of process that change them: devices that upload work       *)
(* (routers/submissions.py), reviewers who call the review, grading and    *)
(* grades routers, and the one background grading worker                   *)
(* (services/grading_worker.py).                                           *)
(*                                                                         *)
(* Nothing is locked: a request SELECTs rows, computes, and commits its    *)
(* UPDATEs, and other transactions commit in between (PostgreSQL at READ   *)
(* COMMITTED).  So a handler is several actions: a Start that reads the    *)
(* rows and checks the code's conditions, for some handlers a later read   *)
(* (StoreUpload, LoadGrades), and a Commit that writes from what was read. *)
(* SQLAlchemy writes only the columns whose value the handler changed,     *)
(* which is Write below.  An error response or a failed statement rolls    *)
(* the whole transaction back: Abort.                                      *)
(***************************************************************************)
EXTENDS GradingStatus, Naturals

CONSTANTS
    MaxSubmissions, \* submission ids are 1..MaxSubmissions
    Devices,        \* clients that upload work
    Reviewers,      \* parents, co-parents and tutors
    MaxRequests,    \* bound on the requests reviewers make
    MaxRestarts     \* bound on the crashes of the worker or of the process

ASSUME GradingAssumption ==
    /\ MaxSubmissions \in Nat
    /\ MaxRequests \in Nat
    /\ MaxRestarts \in Nat

Submissions == 1..MaxSubmissions

None == "none"

GradedBy         == {"human", "ai", "ai_human"}
ReviewItemStatus == {"pending_review", "in_review", "approved", "rejected",
                     "needs_regrade"}
TargetStatus     == {"assigned", "submitted", "graded"}

OpenReviewStatuses == {"pending_review", "in_review", "needs_regrade"}

\* The unresolved statuses a newer version supersedes.
Supersedable == GradingJobStatus \ {"reviewed", "final"}

VARIABLES
    root,       \* submission -> first version of its lineage, 0 before upload
    version,    \* submission -> submission_version, 0 before upload
    current,    \* submission -> is_current
    job,        \* submission -> status of its grading job
    grade,      \* submission -> [by, row]: graded_by, and which row it is
    item,       \* submission -> status of its review item
    target,     \* status of the AssignmentTarget
    upload,     \* device -> its upload in flight
    request,    \* reviewer -> the request in flight
    worker,     \* the grading worker: where it is, on what, what it loaded
    failed,     \* history: jobs the worker's exception handler sent to review
    erased,     \* history: submissions whose grade was deleted by hand
    requests,   \* number of reviewer requests made
    restarts    \* number of crashes

db     == <<root, version, current, job, grade, item, target>>
ghosts == <<failed, erased>>
counts == <<requests, restarts>>
vars   == <<db, upload, request, worker, ghosts, counts>>

-----------------------------------------------------------------------------
(* Values *)

NoGrade   == [by |-> None, row |-> 0]
NoUpload  == [id |-> 0, root |-> 0, version |-> 0, priors |-> {},
              unresolved |-> {}, target |-> None]
Unread    == [job |-> None, item |-> None, grade |-> NoGrade]
NoRequest == [op |-> None, by |-> None, on |-> {}, loaded |-> FALSE,
              rows |-> [s \in Submissions |-> Unread], target |-> None]
IdleWorker == [pc |-> "idle", sub |-> 0, seen |-> None]

\* A column keeps the value another transaction gave it unless this one
\* changed it: read is the value loaded, new the value assigned, now the value
\* in the database at commit.
Write(read, new, now) == IF new = read THEN now ELSE new

Uploaded   == {s \in Submissions : version[s] > 0}
Lineage(r) == {s \in Uploaded : root[s] = r}
Reserved   == {upload[d].id : d \in Devices}

Graded(s) == grade[s].by # None

Init ==
    /\ root    = [s \in Submissions |-> 0]
    /\ version = [s \in Submissions |-> 0]
    /\ current = [s \in Submissions |-> FALSE]
    /\ job     = [s \in Submissions |-> None]
    /\ grade   = [s \in Submissions |-> NoGrade]
    /\ item    = [s \in Submissions |-> None]
    /\ target  = "assigned"
    /\ upload  = [d \in Devices |-> NoUpload]
    /\ request = [c \in Reviewers |-> NoRequest]
    /\ worker  = IdleWorker
    /\ failed = {} /\ erased = {}
    /\ requests = 0 /\ restarts = 0

-----------------------------------------------------------------------------
(* Uploads: upload_submission and _mark_superseded_versions *)

\* A first upload, or one that does not say what it resubmits, starts a
\* lineage of its own.
StartFirstUpload(d) ==
    /\ upload[d] = NoUpload
    /\ upload' = [upload EXCEPT ![d] = [@ EXCEPT !.version = 1, !.target = target]]
    /\ UNCHANGED <<db, request, worker, ghosts, counts>>

\* Mutant: a resubmission belongs to the version it follows, not to the first one.
StartResubmissionUnder(d) ==
    /\ upload[d] = NoUpload
    /\ \E newest \in Uploaded :
        /\ \A q \in Lineage(root[newest]) : version[q] <= version[newest]
        /\ upload' = [upload EXCEPT ![d] = [@ EXCEPT !.root    = newest,
                                                     !.version = version[newest] + 1,
                                                     !.target  = target]]
    /\ UNCHANGED <<db, request, worker, ghosts, counts>>

\* A resubmission reads the version history and takes the next version number.
StartResubmission(d) ==
    /\ upload[d] = NoUpload
    /\ \E newest \in Uploaded :
        /\ \A q \in Lineage(root[newest]) : version[q] <= version[newest]
        /\ upload' = [upload EXCEPT ![d] = [@ EXCEPT !.root    = root[newest],
                                                     !.version = version[newest] + 1,
                                                     !.target  = target]]
    /\ UNCHANGED <<db, request, worker, ghosts, counts>>

\* Ids come from a sequence: the next one not stored and not in flight.
FreshId(s) ==
    /\ s \notin Uploaded \cup Reserved
    /\ s = 1 \/ s - 1 \in Uploaded \cup Reserved

\* The submission is inserted, the file stored, and the versions to supersede
\* are read.
StoreUpload(d) ==
    /\ upload[d].version > 0
    /\ upload[d].id = 0
    /\ \E s \in Submissions :
        LET first  == IF upload[d].root = 0 THEN s ELSE upload[d].root
            priors == {q \in Lineage(first) : current[q]}
        IN  /\ FreshId(s)
            /\ upload' = [upload EXCEPT ![d] = [@ EXCEPT
                   !.id = s, !.root = first, !.priors = priors,
                   !.unresolved = {q \in priors : job[q] \in Supersedable}]]
    /\ UNCHANGED <<db, request, worker, ghosts, counts>>

\* The transaction that inserts the submission and its pending job, and marks
\* the versions it read as superseded.
CommitUpload(d) ==
    LET u == upload[d] IN
    /\ u.id # 0
    /\ root'    = [root EXCEPT ![u.id] = u.root]
    /\ version' = [version EXCEPT ![u.id] = u.version]
    /\ current' = [s \in Submissions |->
                     s = u.id \/ (s \notin u.priors /\ current[s])]
    /\ job'     = [s \in Submissions |->
                     IF s = u.id THEN "pending"
                     ELSE IF s \in u.unresolved THEN "final" ELSE job[s]]
    /\ target'  = Write(u.target, "submitted", target)
    /\ upload'  = [upload EXCEPT ![d] = NoUpload]
    /\ UNCHANGED <<grade, item, request, worker, ghosts, counts>>

\* The file cannot be stored, or a statement fails.
AbortUpload(d) ==
    /\ upload[d] # NoUpload
    /\ upload' = [upload EXCEPT ![d] = NoUpload]
    /\ UNCHANGED <<db, request, worker, ghosts, counts>>

-----------------------------------------------------------------------------
(* Reviewer requests: what they read *)

\* The handlers that read the grade (and the target) after the other rows, and
\* those that start from the grade.
LateReaders  == {"approve", "reject", "submit_review", "create_grade"}
GradeHandlers == {"update_grade", "delete_grade"}

Row(s, op) == [job |-> job[s], item |-> item[s],
               grade |-> IF op \in GradeHandlers THEN grade[s] ELSE NoGrade]

Read(c, op, by, on) ==
    /\ request[c] = NoRequest
    /\ requests < MaxRequests
    /\ requests' = requests + 1
    /\ request' = [request EXCEPT ![c] =
                     [op |-> op, by |-> by, on |-> on,
                      loaded |-> op \notin LateReaders, target |-> None,
                      rows |-> [s \in Submissions |->
                                  IF s \in on THEN Row(s, op) ELSE Unread]]]
    /\ UNCHANGED <<db, upload, worker, ghosts, restarts>>

\* create_grade then finds that there is no grade yet.
LoadGrades(c) ==
    LET r == request[c] IN
    /\ r.op \in LateReaders
    /\ ~r.loaded
    /\ r.op = "create_grade" => \A s \in r.on : ~Graded(s)
    /\ request' = [request EXCEPT
           ![c].loaded = TRUE, ![c].target = target,
           ![c].rows = [s \in Submissions |->
                          IF s \in r.on THEN [r.rows[s] EXCEPT !.grade = grade[s]]
                                        ELSE r.rows[s]]]
    /\ UNCHANGED <<db, upload, worker, ghosts, counts>>

\* approve_review, and bulk_approve_reviews when there are several items.
StartApprove(c) ==
    \E on \in SUBSET Submissions \ {{}}, by \in {"ai_human", "human"} :
        /\ \A s \in on : item[s] \in OpenReviewStatuses /\ current[s]
        /\ Read(c, "approve", by, on)

StartReject(c) ==
    \E s \in Submissions : /\ item[s] \in OpenReviewStatuses
                           /\ Read(c, "reject", None, {s})

\* No status and no version is asked for.
StartRegrade(c) ==
    \E s \in Submissions : /\ item[s] # None
                           /\ Read(c, "regrade", None, {s})

\* get_review, add_review_comment, assign_review and bulk_assign_reviews: what
\* they change is a pending_review item.
StartView(c) ==
    \E s \in Submissions : /\ item[s] = "pending_review"
                           /\ Read(c, "view", None, {s})

\* submit_review with action approve (ai_human) or modify (human).
StartSubmitReview(c) ==
    \E s \in Submissions, by \in {"ai_human", "human"} :
        /\ job[s] = "review_needed"
        /\ current[s]
        /\ Read(c, "submit_review", by, {s})

\* submit_review with action reject.
StartSubmitReject(c) ==
    \E s \in Submissions : /\ job[s] = "review_needed"
                           /\ Read(c, "submit_reject", None, {s})

\* The client says who graded.
StartCreateGrade(c) ==
    \E s \in Submissions, by \in GradedBy :
        current[s] /\ Read(c, "create_grade", by, {s})

StartUpdateGrade(c) ==
    \E s \in Submissions, by \in GradedBy :
        Graded(s) /\ Read(c, "update_grade", by, {s})

StartDeleteGrade(c) ==
    \E s \in Submissions : Graded(s) /\ Read(c, "delete_grade", None, {s})

-----------------------------------------------------------------------------
(* Reviewer requests: what they write *)

Respond(c, op) ==
    /\ request[c].op = op
    /\ request[c].loaded
    /\ request' = [request EXCEPT ![c] = NoRequest]
    /\ UNCHANGED <<root, version, current, upload, worker, failed, counts>>

\* INSERT needs the submission to have no grade (submission_id is unique);
\* UPDATE needs the row that was read, and is not sent when the values assigned
\* are the ones that were read.
CanSave(read, by, now) ==
    IF read.by = None THEN now.by = None
                      ELSE (now.by # None /\ now.row = read.row) \/ by = read.by

\* The grade row after the upsert of a request that writes graded_by.
SavedGrade(read, by, now) ==
    [now EXCEPT !.by = IF read.by = None THEN by ELSE Write(read.by, by, now.by)]

DeletedGrade(read, now) ==
    IF read.by # None /\ now.by # None /\ now.row = read.row
    THEN [by |-> None, row |-> now.row + 1] ELSE now

\* Upsert the grade of every submission of the request, or fail.
SaveGrades(c) ==
    LET r == request[c] IN
    /\ \A s \in r.on : CanSave(r.rows[s].grade, r.by, grade[s])
    /\ grade' = [s \in Submissions |->
                   IF s \in r.on THEN SavedGrade(r.rows[s].grade, r.by, grade[s])
                                 ELSE grade[s]]
    /\ erased' = {s \in erased : grade'[s].by = None}

DeleteGrades(c) ==
    grade' = [s \in Submissions |->
                IF s \in request[c].on
                THEN DeletedGrade(request[c].rows[s].grade, grade[s]) ELSE grade[s]]

\* The jobs of the request's submissions: what was loaded and what is assigned.
SetJobs(c, assigned) ==
    job' = [s \in Submissions |->
              IF s \in request[c].on
              THEN Write(request[c].rows[s].job, assigned[s], job[s]) ELSE job[s]]

\* A reviewed job goes review_needed -> reviewed -> final in one transaction.
FinalizeJobs(c) ==
    SetJobs(c, [s \in Submissions |->
                  IF request[c].rows[s].job = "review_needed" THEN "final"
                  ELSE request[c].rows[s].job])

RequeueJobs(c) == SetJobs(c, [s \in Submissions |-> "pending"])

SetItems(c, status) ==
    item' = [s \in Submissions |->
               IF s \in request[c].on
               THEN Write(request[c].rows[s].item, status, item[s]) ELSE item[s]]

\* sync_review_item_for_job turns the approval of an item whose job is pending
\* back into needs_regrade.
ApprovedItem(row) == IF row.job = "pending" THEN "needs_regrade" ELSE "approved"

\* The item was first flushed as approved, so it is written whatever was read.
CommitApprove(c) ==
    LET r == request[c] IN
    /\ SaveGrades(c)
    /\ target' = Write(r.target, "graded", target)
    /\ FinalizeJobs(c)
    /\ item' = [s \in Submissions |->
                  IF s \in r.on THEN ApprovedItem(r.rows[s]) ELSE item[s]]
    /\ Respond(c, "approve")

\* Mutant: the grade is cleared and the item left open.
CommitRejectLeavingItem(c) ==
    /\ DeleteGrades(c)
    /\ FinalizeJobs(c)
    /\ Respond(c, "reject")
    /\ UNCHANGED <<item, target, erased>>

CommitReject(c) ==
    /\ DeleteGrades(c)
    /\ FinalizeJobs(c)
    /\ SetItems(c, "rejected")
    /\ Respond(c, "reject")
    /\ UNCHANGED <<target, erased>>

\* reset_job_for_regrade: every status goes back to pending.
CommitRegrade(c) ==
    /\ RequeueJobs(c)
    /\ SetItems(c, "needs_regrade")
    /\ Respond(c, "regrade")
    /\ UNCHANGED <<grade, target, erased>>

CommitView(c) ==
    /\ SetItems(c, "in_review")
    /\ Respond(c, "view")
    /\ UNCHANGED <<job, grade, target, erased>>

\* Neither the review item nor the target is touched.
CommitSubmitReview(c) ==
    /\ SaveGrades(c)
    /\ FinalizeJobs(c)
    /\ Respond(c, "submit_review")
    /\ UNCHANGED <<item, target>>

CommitSubmitReject(c) ==
    /\ RequeueJobs(c)
    /\ Respond(c, "submit_reject")
    /\ UNCHANGED <<item, grade, target, erased>>

CommitCreateGrade(c) ==
    /\ SaveGrades(c)
    /\ target' = Write(request[c].target, "graded", target)
    /\ Respond(c, "create_grade")
    /\ UNCHANGED <<job, item>>

CommitUpdateGrade(c) ==
    /\ SaveGrades(c)
    /\ Respond(c, "update_grade")
    /\ UNCHANGED <<job, item, target>>

CommitDeleteGrade(c) ==
    /\ DeleteGrades(c)
    /\ erased' = erased \cup request[c].on
    /\ Respond(c, "delete_grade")
    /\ UNCHANGED <<job, item, target>>

\* An error response, a lost connection, or a statement that fails.
AbortRequest(c) ==
    /\ request[c] # NoRequest
    /\ request' = [request EXCEPT ![c] = NoRequest]
    /\ UNCHANGED <<db, upload, worker, ghosts, counts>>

-----------------------------------------------------------------------------
(* The grading worker: one thread, process_queued_job_once in a loop *)

\* The oldest pending job.  Claiming it writes nothing.
ClaimJob ==
    /\ worker = IdleWorker
    /\ \E s \in Submissions :
        /\ job[s] = "pending"
        /\ \A t \in Submissions : job[t] = "pending" => s <= t
        /\ worker' = [worker EXCEPT !.pc = "claimed", !.sub = s]
    /\ UNCHANGED <<db, upload, request, ghosts, counts>>

\* Mutant: the superseded job is skipped and not closed.
SkipSuperseded ==
    /\ worker.pc = "claimed"
    /\ ~current[worker.sub]
    /\ worker' = IdleWorker
    /\ UNCHANGED <<db, upload, request, ghosts, counts>>

\* The claimed submission has been superseded: its job is closed ungraded.
CloseSuperseded ==
    /\ worker.pc = "claimed"
    /\ ~current[worker.sub]
    /\ "final" \in AllowedTransitions[job[worker.sub]]
    /\ job' = [job EXCEPT ![worker.sub] = "final"]
    /\ worker' = IdleWorker
    /\ UNCHANGED <<root, version, current, grade, item, target, upload, request,
                   ghosts, counts>>

\* OCR and AI grading start, on what this transaction has read.  No status of
\* their progress is written.
LoadJob ==
    /\ worker.pc = "claimed"
    /\ current[worker.sub]
    /\ worker' = [worker EXCEPT !.pc = "grading", !.seen = job[worker.sub]]
    /\ UNCHANGED <<db, upload, request, ghosts, counts>>

\* Mutant: an item is reopened but never inserted.
SyncedIfPresent(status, now) ==
    CASE status = "review_needed" ->
            IF now \in {None, "pending_review", "in_review"} THEN now ELSE "pending_review"
      [] status = "final" ->
            IF now = "needs_regrade" THEN "approved" ELSE now

\* Mutant: the final result does not close the re-grade.
SyncedOnReview(status, now) ==
    IF status = "review_needed" /\ now \notin {"pending_review", "in_review"}
    THEN "pending_review" ELSE now

\* sync_review_item_for_job, called with the status of the job in memory.
SyncedItem(status, now) ==
    CASE status = "review_needed" ->
            IF now \in {"pending_review", "in_review"} THEN now ELSE "pending_review"
      [] status = "final" ->
            IF now = "needs_regrade" THEN "approved" ELSE now

\* Mutant: the job and its item are finished and the grade is not stored.
CommitWithoutGrade(result) ==
    LET s == worker.sub IN
    /\ worker.pc = "grading"
    /\ job'  = [job EXCEPT ![s] = Write(worker.seen, result, @)]
    /\ item' = [item EXCEPT ![s] = SyncedItem(result, @)]
    /\ target' = IF result = "final" THEN "graded" ELSE target
    /\ failed' = failed \ {s}
    /\ worker' = IdleWorker
    /\ UNCHANGED <<root, version, current, upload, request, grade, erased, counts>>

\* The result of process_grading_job is stored: whatever has happened to the
\* job, the submission and the grade meanwhile is not looked at.
CommitResult(result) ==
    LET s == worker.sub IN
    /\ worker.pc = "grading"
    /\ job'  = [job EXCEPT ![s] = Write(worker.seen, result, @)]
    /\ item' = [item EXCEPT ![s] = SyncedItem(result, @)]
    /\ IF result = "final"
       THEN /\ grade'  = [grade EXCEPT ![s].by = "ai"]
            /\ target' = "graded"
            /\ erased' = erased \ {s}
            /\ UNCHANGED failed
       ELSE /\ failed' = failed \ {s}
            /\ UNCHANGED <<grade, target, erased>>
    /\ worker' = IdleWorker
    /\ UNCHANGED <<root, version, current, upload, request, counts>>

\* Any exception after the claim: a fresh session sends the job to review if
\* its status allows it, and leaves the review item alone.
FailJob ==
    LET s == worker.sub IN
    /\ worker.pc \in {"claimed", "grading"}
    /\ IF "review_needed" \in AllowedTransitions[job[s]]
       THEN /\ job' = [job EXCEPT ![s] = "review_needed"]
            /\ failed' = failed \cup {s}
       ELSE UNCHANGED <<job, failed>>
    /\ worker' = IdleWorker
    /\ UNCHANGED <<root, version, current, grade, item, target, upload, request,
                   erased, counts>>

\* The exception handler fails too: the loop ends and the thread starts again.
CrashWorker ==
    /\ worker # IdleWorker
    /\ restarts < MaxRestarts
    /\ restarts' = restarts + 1
    /\ worker' = IdleWorker
    /\ UNCHANGED <<db, upload, request, ghosts, requests>>

\* The process serves the API and runs the worker thread: all of it is lost,
\* and what was not committed is rolled back.
Restart ==
    /\ restarts < MaxRestarts
    /\ restarts' = restarts + 1
    /\ worker'  = IdleWorker
    /\ upload'  = [d \in Devices |-> NoUpload]
    /\ request' = [c \in Reviewers |-> NoRequest]
    /\ UNCHANGED <<db, ghosts, requests>>

-----------------------------------------------------------------------------

Device(d) == \/ StartFirstUpload(d) \/ StartResubmission(d)
             \/ StoreUpload(d)
             \/ CommitUpload(d) \/ AbortUpload(d)

Reviewer(c) ==
    \/ StartApprove(c)      \/ CommitApprove(c)
    \/ StartReject(c)       \/ CommitReject(c)
    \/ StartRegrade(c)      \/ CommitRegrade(c)
    \/ StartView(c)         \/ CommitView(c)
    \/ StartSubmitReview(c) \/ CommitSubmitReview(c)
    \/ StartSubmitReject(c) \/ CommitSubmitReject(c)
    \/ StartCreateGrade(c)  \/ CommitCreateGrade(c)
    \/ StartUpdateGrade(c)  \/ CommitUpdateGrade(c)
    \/ StartDeleteGrade(c)  \/ CommitDeleteGrade(c)
    \/ LoadGrades(c)       \/ AbortRequest(c)

Worker == \/ ClaimJob \/ CloseSuperseded \/ LoadJob
          \/ \E result \in Results : CommitResult(result)
          \/ FailJob

Next == \/ \E d \in Devices : Device(d)
        \/ \E c \in Reviewers : Reviewer(c)
        \/ Worker
        \/ CrashWorker
        \/ Restart

Spec == Init /\ [][Next]_vars

\* The worker thread runs for as long as the process does.
FairSpec == Spec /\ WF_vars(Worker)

-----------------------------------------------------------------------------
(* Properties *)

GradeType   == [by : GradedBy \cup {None}, row : Nat]
RowType     == [job : GradingJobStatus \cup {None},
                item : ReviewItemStatus \cup {None}, grade : GradeType]
Operations  == {"approve", "reject", "regrade", "view", "submit_review",
                "submit_reject", "create_grade", "update_grade", "delete_grade"}
RequestType == [op : Operations \cup {None}, by : GradedBy \cup {None}, on : SUBSET Submissions, loaded : BOOLEAN,
                rows : [Submissions -> RowType], target : TargetStatus \cup {None}]
UploadType  == [id : 0..MaxSubmissions, root : 0..MaxSubmissions, version : Nat,
                priors : SUBSET Submissions, unresolved : SUBSET Submissions,
                target : TargetStatus \cup {None}]
WorkerType  == [pc : {"idle", "claimed", "grading"}, sub : 0..MaxSubmissions,
                seen : GradingJobStatus \cup {None}]

\* Every column, and everything a process holds, has its type; a worker that is
\* not idle has a submission.
TypeOK ==
    /\ root    \in [Submissions -> 0..MaxSubmissions]
    /\ version \in [Submissions -> Nat]
    /\ current \in [Submissions -> BOOLEAN]
    /\ job     \in [Submissions -> GradingJobStatus \cup {None}]
    /\ grade   \in [Submissions -> GradeType]
    /\ item    \in [Submissions -> ReviewItemStatus \cup {None}]
    /\ target  \in TargetStatus
    /\ upload  \in [Devices -> UploadType]
    /\ request \in [Reviewers -> RequestType]
    /\ worker  \in WorkerType
    /\ worker.pc # "idle" => worker.sub \in Submissions
    /\ failed \subseteq Submissions
    /\ erased \subseteq Submissions
    /\ requests \in Nat
    /\ restarts \in Nat

\* Whatever process stops, and wherever, the job it was working on is left in a
\* status from which it is still served: a status the worker selects, a status
\* a reviewer acts on, or the end.  (_claim_next_job selects only pending jobs,
\* and nothing repairs a job left in ocr_processing, ai_grading or reviewed.)
DurableStatus ==
    \A s \in Submissions : job[s] \in {None, "pending", "review_needed", "final"}

\* In each lineage the versions are numbered without repetition, and exactly
\* the newest one is current: what teachers see, grade and review
\* (_mark_superseded_versions).
NewestIsCurrent ==
    \A s \in Uploaded :
        /\ \A q \in Lineage(root[s]) : version[q] = version[s] => q = s
        /\ current[s] <=> \A q \in Lineage(root[s]) : version[q] <= version[s]

\* Uploads publish the versions of a lineage in order, each in one step: the
\* numbers are 1, 2, 3, ..., the new version is the one shown and no other is.
Published == [r \in Submissions |-> {version[s] : s \in Lineage(r)}]
Shown     == [r \in Submissions |-> {version[s] : s \in {q \in Lineage(r) : current[q]}}]

History == INSTANCE VersionHistory
           WITH Lineages <- Submissions, published <- Published, shown <- Shown

PublishesVersions == History!Spec

\* An approved review has its grade, unless a teacher has deleted that grade
\* since: no interleaving of approvals, rejections, re-grades and the worker
\* leaves an approval without one.
ApprovedHasGrade ==
    \A s \in Submissions : item[s] = "approved" => Graded(s) \/ s \in erased

\* A job that waits for review has a review item, so that somebody can find
\* it, except when the worker's exception handler put it there.
ReviewNeededHasItem ==
    \A s \in Submissions : job[s] = "review_needed" => item[s] # None \/ s \in failed

\* The grading of a current version ends for a reason: it has a grade, or a
\* reviewer rejected the work, or a teacher deleted the grade.
FinalIsExplained ==
    \A s \in Submissions :
        job[s] = "final" /\ current[s] => \/ Graded(s)
                                          \/ item[s] = "rejected"
                                          \/ s \in erased

\* Work that needs a human is on the review page, which lists the open review
\* items (docs/teacher-guide.md, "This page helps you manage work that needs
\* human attention").
ReviewWorkIsListed ==
    \A s \in Uploaded :
        job[s] = "review_needed" /\ current[s] => item[s] \in OpenReviewStatuses

\* A grade is made only for the version that is current ("Grading and review
\* use the current version", docs/teacher-guide.md).
GradesTheCurrentVersion ==
    [][\A s \in Submissions : ~Graded(s) /\ Graded(s)' => current[s]]_vars

\* Every job queued for grading is served, whatever crashes.
PendingIsServed ==
    \A s \in Submissions : job[s] = "pending" ~> job[s] # "pending"

\* A re-grade that has been queued gets its answer: the review item says so,
\* or the job is back with the reviewers, or a newer version makes it moot.
RegradeIsAnswered ==
    \A s \in Submissions :
        job[s] = "pending" /\ item[s] = "needs_regrade" /\ current[s]
            ~> \/ item[s] # "needs_regrade"
               \/ job[s] = "review_needed"
               \/ ~current[s]

-----------------------------------------------------------------------------
(* What makes the safety properties inductive (GradingProofs) *)

\* A request that writes a grade says who grades, and a rejection has read an
\* open item.
GradingOperations == {"approve", "submit_review", "create_grade", "update_grade"}

RequestsInformed ==
    \A c \in Reviewers :
        LET r == request[c] IN
        /\ r.op \in GradingOperations => r.by # None
        /\ r.op = "reject"  => \A s \in r.on : r.rows[s].item \in OpenReviewStatuses

\* What a request in flight has read is still so when nobody else reviews: the
\* grade is there, an item to open has not been rejected, and a pending job that
\* has become final meanwhile was graded by the worker.
RequestsUpToDate ==
    \A c \in Reviewers :
        LET r == request[c] IN
        \A s \in r.on :
            /\ r.rows[s].grade.by # None => Graded(s)
            /\ r.op = "view" => item[s] # "rejected"
            /\ r.op = "regrade" /\ r.rows[s].job = "pending"
                 /\ job[s] = "final" /\ current[s] => Graded(s) \/ s \in erased

\* A job that reviewers wait for is not the worker's.
WorkerInformed ==
    /\ worker.pc = "claimed" => job[worker.sub] # "review_needed"
    /\ worker.pc = "grading" => worker.seen # "review_needed"

\* An upload closes only jobs of versions it supersedes.
UploadsInformed == \A d \in Devices : upload[d].unresolved \subseteq upload[d].priors

\* A lineage is named by its first version, which is stored.
LineagesRooted ==
    \A s \in Uploaded : root[s] \in Uploaded /\ root[root[s]] = root[s]

\* What an upload in flight holds is still so when nobody else uploads: its
\* lineage exists or is its own, its version number follows the stored ones, and
\* once it is stored its id is free and its priors are the current
\* versions of its lineage.
UploadUpToDate(u) ==
    /\ u.version > 0
    /\ \/ u.root = u.id
       \/ u.root \in Uploaded /\ root[u.root] = u.root
    /\ \A q \in Lineage(u.root) : version[q] < u.version
    /\ u.version = 1 \/ \E q \in Lineage(u.root) : version[q] = u.version - 1
    /\ u.id # 0 => /\ u.id \in Submissions \ Uploaded
                   /\ u.priors = {q \in Lineage(u.root) : current[q]}

UploadsUpToDate ==
    \A d \in Devices : upload[d] # NoUpload => UploadUpToDate(upload[d])

SingleDevice   == \A d, e \in Devices : d = e
SingleReviewer == \A b, c \in Reviewers : b = c

=============================================================================
