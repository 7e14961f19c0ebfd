---------------------------- MODULE GradingProofs ----------------------------
(***************************************************************************)
(* Theorems of Grading, for every number of submissions, devices,          *)
(* reviewers, requests and restarts.                                       *)
(***************************************************************************)
EXTENDS Grading, TLAPS

-----------------------------------------------------------------------------
(* The types of what requests, uploads and the worker carry. *)

LEMMA UnreadTyped == Unread \in RowType
BY DEF Unread, RowType, GradeType, NoGrade, None

LEMMA RowTyped ==
    ASSUME TypeOK, NEW s \in Submissions, NEW op \in Operations
    PROVE  Row(s, op) \in RowType
<1>1. NoGrade \in GradeType
  BY DEF NoGrade, GradeType
<1> QED
  BY <1>1 DEF TypeOK, Row, RowType

LEMMA NoRequestTyped == NoRequest \in RequestType
<1>1. [s \in Submissions |-> Unread] \in [Submissions -> RowType]
  BY UnreadTyped
<1> QED
  BY <1>1 DEF NoRequest, RequestType

LEMMA NoUploadTyped == NoUpload \in UploadType
BY GradingAssumption DEF NoUpload, UploadType

LEMMA IdleWorkerTyped == IdleWorker \in WorkerType /\ IdleWorker.pc = "idle"
BY GradingAssumption DEF IdleWorker, WorkerType

\* Reading rows stores well-typed rows.
LEMMA ReadTyped ==
    ASSUME TypeOK, NEW c \in Reviewers, NEW op \in Operations,
           NEW by \in GradedBy \cup {None}, NEW on \in SUBSET Submissions,
           Read(c, op, by, on)
    PROVE  TypeOK'
<1> DEFINE r == [op |-> op, by |-> by, on |-> on,
                 loaded |-> op \notin LateReaders, target |-> None,
                 rows |-> [s \in Submissions |->
                             IF s \in on THEN Row(s, op) ELSE Unread]]
<1>1. r.rows \in [Submissions -> RowType]
  BY RowTyped, UnreadTyped
<1>2. r \in RequestType
  BY <1>1 DEF RequestType, TypeOK
<1>3. request' = [request EXCEPT ![c] = r]
  BY DEF Read
<1>4. request' \in [Reviewers -> RequestType]
  BY <1>2, <1>3 DEF TypeOK
<1> HIDE DEF r
<1> QED
  BY <1>4, GradingAssumption DEF Read, TypeOK, db, ghosts

LEMMA LoadTyped ==
    ASSUME TypeOK, NEW c \in Reviewers, LoadGrades(c)
    PROVE  TypeOK'
<1> DEFINE rows == [s \in Submissions |->
                      IF s \in request[c].on
                      THEN [request[c].rows[s] EXCEPT !.grade = grade[s]]
                      ELSE request[c].rows[s]]
<1>1. rows \in [Submissions -> RowType]
  <2>1. request[c].rows \in [Submissions -> RowType] /\ grade \in [Submissions -> GradeType]
    BY DEF TypeOK, RequestType
  <2>2. \A s \in Submissions : [request[c].rows[s] EXCEPT !.grade = grade[s]] \in RowType
    BY <2>1 DEF RowType
  <2> QED
    BY <2>1, <2>2
<1>2. request' = [request EXCEPT ![c] = [request[c] EXCEPT !.loaded = TRUE, !.target = target,
                                                          !.rows = rows]]
  BY DEF LoadGrades, TypeOK
<1> HIDE DEF rows
<1>3. [request[c] EXCEPT !.loaded = TRUE, !.target = target, !.rows = rows] \in RequestType
  BY <1>1 DEF TypeOK, RequestType
<1>4. request' \in [Reviewers -> RequestType]
  BY <1>2, <1>3 DEF TypeOK
<1> QED
  BY <1>4 DEF LoadGrades, TypeOK, db, ghosts, counts

\* What every commit of a request leaves well typed.
LEMMA RespondTyped ==
    ASSUME TypeOK, NEW c \in Reviewers, NEW op, Respond(c, op)
    PROVE  /\ request' \in [Reviewers -> RequestType]
           /\ UNCHANGED <<root, version, current, upload, worker, failed, requests, restarts>>
BY NoRequestTyped DEF TypeOK, Respond, counts

LEMMA SaveGradesTyped ==
    ASSUME TypeOK, NEW c \in Reviewers, SaveGrades(c)
    PROVE  /\ grade' \in [Submissions -> GradeType]
           /\ erased' \subseteq Submissions
<1>1. ASSUME NEW s \in request[c].on
      PROVE  SavedGrade(request[c].rows[s].grade, request[c].by, grade[s]) \in GradeType
  <2>1. /\ request[c].rows[s].grade \in GradeType
        /\ grade[s] \in GradeType
        /\ request[c].by \in GradedBy \cup {None}
    BY DEF TypeOK, RequestType, RowType
  <2> QED
    BY <2>1 DEF SavedGrade, Write, GradeType
<1>2. grade' \in [Submissions -> GradeType]
  BY <1>1 DEF SaveGrades, TypeOK
<1> QED
  BY <1>2 DEF SaveGrades, TypeOK

LEMMA DeleteGradesTyped ==
    ASSUME TypeOK, NEW c \in Reviewers, DeleteGrades(c)
    PROVE  grade' \in [Submissions -> GradeType]
BY DEF TypeOK, DeleteGrades, DeletedGrade, GradeType

LEMMA SetJobsTyped ==
    ASSUME TypeOK, NEW c \in Reviewers, FinalizeJobs(c) \/ RequeueJobs(c)
    PROVE  job' \in [Submissions -> GradingJobStatus \cup {None}]
BY DEF TypeOK, FinalizeJobs, RequeueJobs, SetJobs, Write, GradingJobStatus,
       RequestType, RowType

LEMMA SetItemsTyped ==
    ASSUME TypeOK, NEW c \in Reviewers, NEW status \in ReviewItemStatus,
           SetItems(c, status)
    PROVE  item' \in [Submissions -> ReviewItemStatus \cup {None}]
BY DEF TypeOK, SetItems, Write

-----------------------------------------------------------------------------
(* Type correctness *)

\* Uploads keep every column typed.
LEMMA DeviceTyped ==
    ASSUME TypeOK, NEW d \in Devices, Device(d)
    PROVE  TypeOK'
<1>1. CASE StartFirstUpload(d)
  <2>1. upload' \in [Devices -> UploadType]
    BY <1>1, NoUploadTyped DEF StartFirstUpload, TypeOK, UploadType
  <2> QED
    BY <1>1, <2>1 DEF StartFirstUpload, TypeOK, db, ghosts, counts
<1>2. CASE StartResubmission(d)
  <2>1. PICK newest \in Submissions :
          upload' = [upload EXCEPT ![d] =
                       [upload[d] EXCEPT !.root    = root[newest],
                                         !.version = version[newest] + 1,
                                         !.target  = target]]
    BY <1>2 DEF StartResubmission, Uploaded, TypeOK
  <2>2. /\ root[newest] \in 0..MaxSubmissions
        /\ version[newest] + 1 \in Nat
        /\ upload[d] \in UploadType
        /\ target \in TargetStatus
    BY DEF TypeOK
  <2>3. upload' \in [Devices -> UploadType]
    BY <2>1, <2>2 DEF TypeOK, UploadType
  <2> QED
    BY <1>2, <2>3 DEF StartResubmission, TypeOK, db, ghosts, counts
<1>5. CASE StoreUpload(d)
  <2> DEFINE first(s)  == IF upload[d].root = 0 THEN s ELSE upload[d].root
             priors(s) == {q \in Lineage(first(s)) : current[q]}
             stored(s) == [upload[d] EXCEPT
                             !.id = s, !.root = first(s), !.priors = priors(s),
                             !.unresolved = {q \in priors(s) : job[q] \in Supersedable}]
  <2>1. PICK s \in Submissions : upload' = [upload EXCEPT ![d] = stored(s)]
    BY <1>5 DEF StoreUpload, TypeOK
  <2>2. /\ upload[d] \in UploadType
        /\ s \in 0..MaxSubmissions
    BY GradingAssumption DEF Submissions, TypeOK
  <2>3. first(s) \in 0..MaxSubmissions /\ priors(s) \subseteq Submissions
    BY <2>2 DEF Lineage, Uploaded, UploadType
  <2> HIDE DEF first, priors
  <2>4. stored(s) \in UploadType
    BY <2>2, <2>3 DEF UploadType
  <2> HIDE DEF stored
  <2>5. upload' \in [Devices -> UploadType]
    BY <2>1, <2>4 DEF TypeOK
  <2> QED
    BY <1>5, <2>5 DEF StoreUpload, TypeOK, db, ghosts, counts
<1>3. CASE CommitUpload(d)
  <2>1. upload' \in [Devices -> UploadType]
    BY <1>3, NoUploadTyped DEF CommitUpload, TypeOK
  <2>2. /\ root' \in [Submissions -> 0..MaxSubmissions]
        /\ version' \in [Submissions -> Nat]
        /\ current' \in [Submissions -> BOOLEAN]
    BY <1>3 DEF CommitUpload, TypeOK, UploadType
  <2>3. job' \in [Submissions -> GradingJobStatus \cup {None}]
    BY <1>3 DEF CommitUpload, TypeOK, GradingJobStatus
  <2>4. target' \in TargetStatus
    BY <1>3 DEF CommitUpload, TypeOK, Write, TargetStatus
  <2> QED
    BY <1>3, <2>1, <2>2, <2>3, <2>4 DEF CommitUpload, TypeOK, ghosts, counts
<1>4. CASE AbortUpload(d)
  <2>1. upload' \in [Devices -> UploadType]
    BY <1>4, NoUploadTyped DEF AbortUpload, TypeOK
  <2> QED
    BY <1>4, <2>1 DEF AbortUpload, TypeOK, db, ghosts, counts
<1> QED
  BY <1>1, <1>2, <1>3, <1>4, <1>5 DEF Device

\* The requests of reviewers keep every column typed.
LEMMA ReviewerTyped ==
    ASSUME TypeOK, NEW c \in Reviewers, Reviewer(c)
    PROVE  TypeOK'
<1> USE DEF Operations, GradedBy
<1>1. CASE StartApprove(c)
  BY <1>1, ReadTyped DEF StartApprove
<1>2. CASE StartReject(c)
  BY <1>2, ReadTyped DEF StartReject
<1>3. CASE StartRegrade(c)
  BY <1>3, ReadTyped DEF StartRegrade
<1>4. CASE StartView(c)
  BY <1>4, ReadTyped DEF StartView
<1>5. CASE StartSubmitReview(c)
  BY <1>5, ReadTyped DEF StartSubmitReview
<1>6. CASE StartSubmitReject(c)
  BY <1>6, ReadTyped DEF StartSubmitReject
<1>7. CASE StartCreateGrade(c)
  BY <1>7, ReadTyped DEF StartCreateGrade
<1>8. CASE StartUpdateGrade(c)
  BY <1>8, ReadTyped DEF StartUpdateGrade
<1>9. CASE StartDeleteGrade(c)
  BY <1>9, ReadTyped DEF StartDeleteGrade
<1> HIDE DEF Operations, GradedBy
<1>10. CASE LoadGrades(c)
  BY <1>10, LoadTyped
<1>11. CASE CommitApprove(c)
  <2>1. item' \in [Submissions -> ReviewItemStatus \cup {None}]
    BY <1>11 DEF CommitApprove, ApprovedItem, TypeOK, ReviewItemStatus
  <2>2. target' \in TargetStatus
    BY <1>11 DEF CommitApprove, TypeOK, Write, TargetStatus
  <2> QED
    BY <1>11, <2>1, <2>2, SaveGradesTyped, SetJobsTyped, RespondTyped
    DEF CommitApprove, TypeOK
<1>12. CASE CommitReject(c)
  <2>1. "rejected" \in ReviewItemStatus
    BY DEF ReviewItemStatus
  <2> QED
    BY <1>12, <2>1, DeleteGradesTyped, SetJobsTyped, SetItemsTyped, RespondTyped
    DEF CommitReject, TypeOK
<1>13. CASE CommitRegrade(c)
  <2>1. "needs_regrade" \in ReviewItemStatus
    BY DEF ReviewItemStatus
  <2> QED
    BY <1>13, <2>1, SetJobsTyped, SetItemsTyped, RespondTyped DEF CommitRegrade, TypeOK
<1>14. CASE CommitView(c)
  <2>1. "in_review" \in ReviewItemStatus
    BY DEF ReviewItemStatus
  <2> QED
    BY <1>14, <2>1, SetItemsTyped, RespondTyped DEF CommitView, TypeOK
<1>15. CASE CommitSubmitReview(c)
  BY <1>15, SaveGradesTyped, SetJobsTyped, RespondTyped DEF CommitSubmitReview, TypeOK
<1>16. CASE CommitSubmitReject(c)
  BY <1>16, SetJobsTyped, RespondTyped DEF CommitSubmitReject, TypeOK
<1>17. CASE CommitCreateGrade(c)
  <2>1. target' \in TargetStatus
    BY <1>17 DEF CommitCreateGrade, TypeOK, Write, TargetStatus
  <2> QED
    BY <1>17, <2>1, SaveGradesTyped, RespondTyped DEF CommitCreateGrade, TypeOK
<1>18. CASE CommitUpdateGrade(c)
  BY <1>18, SaveGradesTyped, RespondTyped DEF CommitUpdateGrade, TypeOK
<1>19. CASE CommitDeleteGrade(c)
  <2>1. erased' \subseteq Submissions
    BY <1>19 DEF CommitDeleteGrade, TypeOK, RequestType
  <2> QED
    BY <1>19, <2>1, DeleteGradesTyped, RespondTyped DEF CommitDeleteGrade, TypeOK
<1>20. CASE AbortRequest(c)
  <2>1. request' \in [Reviewers -> RequestType]
    BY <1>20, NoRequestTyped DEF AbortRequest, TypeOK
  <2> QED
    BY <1>20, <2>1 DEF AbortRequest, TypeOK, db, ghosts, counts
<1> QED
  BY <1>1, <1>2, <1>3, <1>4, <1>5, <1>6, <1>7, <1>8, <1>9, <1>10, <1>11, <1>12, <1>13,
     <1>14, <1>15, <1>16, <1>17, <1>18, <1>19, <1>20 DEF Reviewer

\* The worker keeps every column typed.
LEMMA WorkerTyped ==
    ASSUME TypeOK, Worker
    PROVE  TypeOK'
<1>1. CASE ClaimJob
  <2>1. PICK s \in Submissions : worker' = [worker EXCEPT !.pc = "claimed", !.sub = s]
    BY <1>1 DEF ClaimJob
  <2>2. s \in 0..MaxSubmissions
    BY GradingAssumption DEF Submissions
  <2>3. worker' \in WorkerType /\ worker'.sub \in Submissions
    BY <2>1, <2>2 DEF TypeOK, WorkerType
  <2> QED
    BY <1>1, <2>3 DEF ClaimJob, TypeOK, db, ghosts, counts
<1>2. CASE CloseSuperseded
  <2>1. job' \in [Submissions -> GradingJobStatus \cup {None}]
    BY <1>2 DEF CloseSuperseded, TypeOK, GradingJobStatus
  <2> QED
    BY <1>2, <2>1, IdleWorkerTyped DEF CloseSuperseded, TypeOK, ghosts, counts
<1>3. CASE LoadJob
  <2>1. worker' \in WorkerType /\ worker'.sub \in Submissions
    BY <1>3 DEF LoadJob, TypeOK, WorkerType
  <2> QED
    BY <1>3, <2>1 DEF LoadJob, TypeOK, db, ghosts, counts
<1>4. ASSUME NEW result \in Results, CommitResult(result)
      PROVE  TypeOK'
  <2>1. worker.sub \in Submissions
    BY <1>4 DEF CommitResult, TypeOK
  <2>2. job' \in [Submissions -> GradingJobStatus \cup {None}]
    BY <1>4, <2>1 DEF CommitResult, TypeOK, Results, Write, GradingJobStatus
  <2>3. item' \in [Submissions -> ReviewItemStatus \cup {None}]
    <3>1. SyncedItem(result, item[worker.sub]) \in ReviewItemStatus \cup {None}
      BY <1>4, <2>1 DEF TypeOK, Results, SyncedItem, ReviewItemStatus
    <3> QED
      BY <1>4, <2>1, <3>1 DEF CommitResult, TypeOK
  <2>4. /\ grade' \in [Submissions -> GradeType]
        /\ target' \in TargetStatus
        /\ erased' \subseteq Submissions
        /\ failed' \subseteq Submissions
    <3>1. [grade[worker.sub] EXCEPT !.by = "ai"] \in GradeType
      BY <2>1 DEF TypeOK, GradeType, GradedBy
    <3>2. CASE result = "final"
      BY <1>4, <2>1, <3>1, <3>2 DEF CommitResult, TypeOK, TargetStatus
    <3>3. CASE result # "final"
      BY <1>4, <3>3 DEF CommitResult, TypeOK
    <3> QED
      BY <3>2, <3>3
  <2> QED
    BY <1>4, <2>2, <2>3, <2>4, IdleWorkerTyped DEF CommitResult, TypeOK, counts
<1>5. CASE FailJob
  <2>1. /\ job' \in [Submissions -> GradingJobStatus \cup {None}]
        /\ failed' \subseteq Submissions
    BY <1>5 DEF FailJob, TypeOK, GradingJobStatus
  <2> QED
    BY <1>5, <2>1, IdleWorkerTyped DEF FailJob, TypeOK, counts
<1> QED
  BY <1>1, <1>2, <1>3, <1>4, <1>5 DEF Worker

\* Crashes and restarts lose only what is in memory.
LEMMA CrashTyped ==
    ASSUME TypeOK, CrashWorker \/ Restart
    PROVE  TypeOK'
<1>1. CASE CrashWorker
  BY <1>1, IdleWorkerTyped DEF CrashWorker, TypeOK, db, ghosts
<1>2. CASE Restart
  BY <1>2, IdleWorkerTyped, NoUploadTyped, NoRequestTyped
  DEF Restart, TypeOK, db, ghosts
<1> QED
  BY <1>1, <1>2

\* Type correctness: every column and everything a process holds has its type,
\* whatever the processes do.
THEOREM TypeCorrect == Spec => []TypeOK
<1>1. Init => TypeOK
  <2>1. NoGrade \in GradeType /\ 0 \in 0..MaxSubmissions /\ "assigned" \in TargetStatus
    BY GradingAssumption DEF NoGrade, GradeType, TargetStatus
  <2> QED
    BY <2>1, NoUploadTyped, NoRequestTyped, IdleWorkerTyped DEF Init, TypeOK
<1>2. TypeOK /\ [Next]_vars => TypeOK'
  <2> SUFFICES ASSUME TypeOK, [Next]_vars
               PROVE  TypeOK'
    OBVIOUS
  <2>1. CASE Next
    BY <2>1, DeviceTyped, ReviewerTyped, WorkerTyped, CrashTyped DEF Next
  <2>2. CASE UNCHANGED vars
    BY <2>2 DEF vars, db, ghosts, counts, TypeOK
  <2> QED
    BY <2>1, <2>2
<1> QED
  BY <1>1, <1>2, PTL DEF Spec

-----------------------------------------------------------------------------
(* Jobs and review items *)

\* A request sets the jobs it has read to pending or to final, or not at all.
LEMMA RequestJobMoves ==
    ASSUME TypeOK, NEW c \in Reviewers, FinalizeJobs(c) \/ RequeueJobs(c),
           NEW s \in Submissions
    PROVE  job'[s] \in {job[s], "pending", "final"}
<1>1. CASE FinalizeJobs(c)
  BY <1>1 DEF FinalizeJobs, SetJobs, Write
<1>2. CASE RequeueJobs(c)
  BY <1>2 DEF RequeueJobs, SetJobs, Write
<1> QED
  BY <1>1, <1>2

LEMMA ReviewerJobMoves ==
    ASSUME TypeOK, NEW c \in Reviewers, Reviewer(c), NEW s \in Submissions
    PROVE  job'[s] \in {job[s], "pending", "final"}
<1>1. CASE FinalizeJobs(c) \/ RequeueJobs(c)
  BY <1>1, RequestJobMoves
<1>2. CASE UNCHANGED job
  BY <1>2
<1> QED
  BY <1>1, <1>2
  DEF Reviewer, Read, db, StartApprove, StartReject, StartRegrade, StartView,
      StartSubmitReview, StartSubmitReject, StartCreateGrade, StartUpdateGrade,
      StartDeleteGrade, CommitApprove, CommitReject, CommitRegrade, CommitView,
      CommitSubmitReview, CommitSubmitReject, CommitCreateGrade, CommitUpdateGrade,
      CommitDeleteGrade, LoadGrades, AbortRequest

\* An upload queues its job and closes the ones it supersedes.
LEMMA DeviceJobMoves ==
    ASSUME TypeOK, NEW d \in Devices, Device(d), NEW s \in Submissions
    PROVE  job'[s] \in {job[s], "pending", "final"}
BY DEF Device, StartFirstUpload, StartResubmission, StoreUpload, CommitUpload, AbortUpload, db

\* The only ways a job comes to wait for review are the worker's result, which
\* lists it, and the worker's exception handler, which is remembered in failed.
LEMMA JobMoves ==
    ASSUME TypeOK, [Next]_vars, NEW s \in Submissions
    PROVE  \/ job'[s] \in {job[s], "pending", "final"}
           \/ job'[s] = "review_needed" /\ (item'[s] # None \/ s \in failed')
<1>1. CASE \E d \in Devices : Device(d)
  BY <1>1, DeviceJobMoves
<1>2. CASE \E c \in Reviewers : Reviewer(c)
  BY <1>2, ReviewerJobMoves
<1>3. CASE ClaimJob \/ LoadJob \/ CrashWorker \/ Restart
  BY <1>3 DEF ClaimJob, LoadJob, CrashWorker, Restart, db
<1>4. CASE CloseSuperseded
  BY <1>4 DEF CloseSuperseded, TypeOK
<1>5. ASSUME NEW result \in Results, CommitResult(result)
      PROVE  \/ job'[s] \in {job[s], "pending", "final"}
             \/ job'[s] = "review_needed" /\ item'[s] # None
  <2>1. CASE s = worker.sub /\ result = "review_needed"
    BY <1>5, <2>1 DEF CommitResult, SyncedItem, Write, TypeOK, None
  <2>2. CASE s = worker.sub /\ result = "final"
    BY <1>5, <2>2 DEF CommitResult, Write, TypeOK
  <2>3. CASE s # worker.sub
    BY <1>5, <2>3 DEF CommitResult, TypeOK
  <2> QED
    BY <1>5, <2>1, <2>2, <2>3 DEF Results
<1>6. CASE FailJob
  BY <1>6 DEF FailJob, TypeOK
<1>7. CASE UNCHANGED vars
  BY <1>7 DEF vars, db
<1> QED
  BY <1>1, <1>2, <1>3, <1>4, <1>5, <1>6, <1>7 DEF Next, Worker

\* A review item is never deleted, and a failed job stays marked as such until
\* it has one.
LEMMA ItemsPersist ==
    ASSUME TypeOK, [Next]_vars, NEW s \in Submissions
    PROVE  /\ item[s] # None => item'[s] # None
           /\ s \in failed => s \in failed' \/ item'[s] # None
<1>1. CASE \E d \in Devices : Device(d)
  BY <1>1
  DEF Device, StartFirstUpload, StartResubmission, StoreUpload, CommitUpload, AbortUpload, db, ghosts
<1>2. ASSUME NEW c \in Reviewers, Reviewer(c)
      PROVE  failed' = failed /\ (item[s] # None => item'[s] # None)
  <2>1. failed' = failed
    BY <1>2
    DEF Reviewer, Read, Respond, ghosts, StartApprove, StartReject, StartRegrade, StartView,
        StartSubmitReview, StartSubmitReject, StartCreateGrade, StartUpdateGrade,
        StartDeleteGrade, CommitApprove, CommitReject, CommitRegrade, CommitView,
        CommitSubmitReview, CommitSubmitReject, CommitCreateGrade, CommitUpdateGrade,
        CommitDeleteGrade, LoadGrades, AbortRequest
  <2>2. CASE \E status \in ReviewItemStatus : SetItems(c, status)
    BY <2>1, <2>2 DEF SetItems, Write, ReviewItemStatus, None
  <2>3. CASE CommitApprove(c)
    BY <2>1, <2>3 DEF CommitApprove, ApprovedItem, None
  <2>4. CASE UNCHANGED item
    BY <2>1, <2>4
  <2> QED
    BY <1>2, <2>1, <2>2, <2>3, <2>4
    DEF Reviewer, Read, db, StartApprove, StartReject, StartRegrade, StartView,
        StartSubmitReview, StartSubmitReject, StartCreateGrade, StartUpdateGrade,
        StartDeleteGrade, CommitReject, CommitRegrade, CommitView,
        CommitSubmitReview, CommitSubmitReject, CommitCreateGrade, CommitUpdateGrade,
        CommitDeleteGrade, LoadGrades, AbortRequest, ReviewItemStatus
<1>3. CASE ClaimJob \/ CloseSuperseded \/ LoadJob \/ CrashWorker \/ Restart
  BY <1>3 DEF ClaimJob, CloseSuperseded, LoadJob, CrashWorker, Restart, db, ghosts
<1>4. ASSUME NEW result \in Results, CommitResult(result)
      PROVE  /\ item[s] # None => item'[s] # None
             /\ s \in failed => s \in failed' \/ item'[s] # None
  <2>1. CASE s = worker.sub /\ result = "review_needed"
    BY <1>4, <2>1 DEF CommitResult, SyncedItem, TypeOK, None
  <2>2. CASE s = worker.sub /\ result = "final"
    BY <1>4, <2>2 DEF CommitResult, SyncedItem, TypeOK, None
  <2>3. CASE s # worker.sub
    BY <1>4, <2>3 DEF CommitResult, TypeOK
  <2> QED
    BY <1>4, <2>1, <2>2, <2>3 DEF Results
<1>5. CASE FailJob
  BY <1>5 DEF FailJob
<1>6. CASE UNCHANGED vars
  BY <1>6 DEF vars, db, ghosts
<1> QED
  BY <1>1, <1>2, <1>3, <1>4, <1>5, <1>6 DEF Next, Worker

\* Wherever a process stops, the job it worked on is left where the worker or a
\* reviewer will find it.
THEOREM Durable == Spec => []DurableStatus
<1>1. Init => DurableStatus
  BY DEF Init, DurableStatus
<1>2. TypeOK /\ DurableStatus /\ [Next]_vars => DurableStatus'
  BY JobMoves DEF DurableStatus
<1> QED
  BY <1>1, <1>2, TypeCorrect, PTL DEF Spec

\* A job that waits for review has a review item, unless the worker's exception
\* handler put it there.
THEOREM ReviewIsFound == Spec => []ReviewNeededHasItem
<1>1. Init => ReviewNeededHasItem
  BY DEF Init, ReviewNeededHasItem, None
<1>2. TypeOK /\ ReviewNeededHasItem /\ [Next]_vars => ReviewNeededHasItem'
  BY JobMoves, ItemsPersist DEF ReviewNeededHasItem
<1> QED
  BY <1>1, <1>2, TypeCorrect, PTL DEF Spec

-----------------------------------------------------------------------------
(* Versions, with a single device *)

VersionInv == LineagesRooted /\ NewestIsCurrent /\ UploadsUpToDate

\* Only the commit of an upload changes a lineage.
LEMMA VersionsUnchanged ==
    ASSUME VersionInv, UNCHANGED <<root, version, current>>,
           \A d \in Devices : upload'[d] \in {upload[d], NoUpload}
    PROVE  VersionInv'
<1>1. Uploaded' = Uploaded /\ (\A r : Lineage(r)' = Lineage(r))
  BY DEF VersionInv, Uploaded, Lineage
<1>2. LineagesRooted' /\ NewestIsCurrent'
  BY <1>1 DEF VersionInv, LineagesRooted, NewestIsCurrent
<1>3. \A u : UploadUpToDate(u)' <=> UploadUpToDate(u)
  BY <1>1 DEF UploadUpToDate
<1>4. UploadsUpToDate'
  BY <1>3 DEF VersionInv, UploadsUpToDate
<1> QED
  BY <1>2, <1>4 DEF VersionInv

\* What an upload reads is up to date when it is read.
LEMMA StartedUpload ==
    ASSUME TypeOK, VersionInv, NEW d \in Devices,
           StartFirstUpload(d) \/ StartResubmission(d) \/ StoreUpload(d)
    PROVE  VersionInv'
<1>1. UNCHANGED <<root, version, current>>
  BY DEF StartFirstUpload, StartResubmission, StoreUpload, db
<1>2. Uploaded' = Uploaded /\ (\A r : Lineage(r)' = Lineage(r))
  BY <1>1 DEF Uploaded, Lineage
<1>3. LineagesRooted' /\ NewestIsCurrent'
  BY <1>1, <1>2 DEF VersionInv, LineagesRooted, NewestIsCurrent
<1>4. \A u : UploadUpToDate(u)' <=> UploadUpToDate(u)
  BY <1>1, <1>2 DEF UploadUpToDate
<1>5. \E u : upload' = [upload EXCEPT ![d] = u] /\ UploadUpToDate(u)
  <2>1. CASE StartFirstUpload(d)
    <3> DEFINE u == [upload[d] EXCEPT !.version = 1, !.target = target]
    <3>1. upload' = [upload EXCEPT ![d] = u]
      BY <2>1 DEF StartFirstUpload, TypeOK
    <3>2. u.id = 0 /\ u.root = 0 /\ u.version = 1
      BY <2>1 DEF StartFirstUpload, NoUpload
    <3>3. Lineage(0) = {}
      BY DEF VersionInv, LineagesRooted, Lineage, Uploaded, Submissions
    <3> HIDE DEF u
    <3>4. UploadUpToDate(u)
      BY <3>2, <3>3 DEF UploadUpToDate
    <3> QED
      BY <3>1, <3>4
  <2>2. CASE StartResubmission(d)
    <3> DEFINE next(newest) == [upload[d] EXCEPT !.root    = root[newest],
                                                 !.version = version[newest] + 1,
                                                 !.target  = target]
    <3>1. PICK newest \in Uploaded :
            /\ \A q \in Lineage(root[newest]) : version[q] <= version[newest]
            /\ upload' = [upload EXCEPT ![d] = next(newest)]
      BY <2>2 DEF StartResubmission, TypeOK
    <3>2. next(newest).id = 0 /\ next(newest).root = root[newest]
          /\ next(newest).version = version[newest] + 1
      <4>1. upload[d] = NoUpload
        BY <2>2 DEF StartResubmission
      <4>2. upload[d] \in UploadType
        BY DEF TypeOK
      <4> QED
        BY <4>1, <4>2 DEF UploadType, NoUpload
    <3>3. root[newest] \in Uploaded /\ root[root[newest]] = root[newest]
      BY DEF VersionInv, LineagesRooted
    <3>4. /\ version[newest] \in Nat
          /\ \A q \in Lineage(root[newest]) : version[q] \in Nat
      BY DEF TypeOK, Lineage, Uploaded
    <3> HIDE DEF next
    <3>5. newest \in Lineage(root[newest])
      BY DEF Lineage
    <3>6. UploadUpToDate(next(newest))
      BY <3>1, <3>2, <3>3, <3>4, <3>5 DEF UploadUpToDate
    <3> QED
      BY <3>1, <3>6
  <2>3. CASE StoreUpload(d)
    <3> DEFINE u         == upload[d]
               first(s)  == IF u.root = 0 THEN s ELSE u.root
               priors(s) == {q \in Lineage(first(s)) : current[q]}
               stored(s) == [u EXCEPT
                               !.id = s, !.root = first(s), !.priors = priors(s),
                               !.unresolved = {q \in priors(s) : job[q] \in Supersedable}]
    <3>1. PICK s \in Submissions : FreshId(s) /\ upload' = [upload EXCEPT ![d] = stored(s)]
      BY <2>3 DEF StoreUpload, TypeOK
    <3>2. /\ u.version \in Nat /\ u.version > 0
          /\ u.id = 0
          /\ u \in UploadType
      BY <2>3 DEF StoreUpload, TypeOK, UploadType
    <3>3. UploadUpToDate(u)
      BY <3>2 DEF VersionInv, UploadsUpToDate, NoUpload
    <3>4. s \in Submissions \ Uploaded /\ s # 0
      BY <3>1 DEF FreshId, Submissions
    <3>5. Lineage(s) = {}
      BY <3>4 DEF VersionInv, LineagesRooted, Lineage
    <3>6. u.root # 0 => u.root \in Uploaded /\ root[u.root] = u.root
      BY <3>2, <3>3 DEF UploadUpToDate
    <3>7. /\ \A q \in Lineage(first(s)) : version[q] < u.version
          /\ u.version = 1 \/ \E q \in Lineage(first(s)) : version[q] = u.version - 1
      <4>1. Lineage(0) = {}
        BY DEF VersionInv, LineagesRooted, Lineage, Uploaded, Submissions
      <4> QED
        BY <3>3, <3>5, <4>1 DEF UploadUpToDate
    <3>8. /\ stored(s).id = s /\ stored(s).root = first(s)
          /\ stored(s).version = u.version /\ stored(s).priors = priors(s)
      BY <3>2 DEF UploadType
    <3> HIDE DEF stored
    <3>9. UploadUpToDate(stored(s))
      <4>1. first(s) = s \/ (first(s) \in Uploaded /\ root[first(s)] = first(s))
        BY <3>6
      <4> HIDE DEF first
      <4> QED
        BY <3>2, <3>4, <3>7, <3>8, <4>1 DEF UploadUpToDate
    <3> QED
      BY <3>1, <3>9
  <2> QED
    BY <2>1, <2>2, <2>3
<1>6. UploadsUpToDate'
  BY <1>4, <1>5 DEF VersionInv, UploadsUpToDate, TypeOK
<1> QED
  BY <1>3, <1>6 DEF VersionInv

\* What the commit of an upload that is up to date does to the lineages.
LEMMA StoredVersion ==
    ASSUME TypeOK, VersionInv, NEW d \in Devices, CommitUpload(d), NEW u, u = upload[d]
    PROVE  /\ u.id \in Submissions \ Uploaded
           /\ u.version \in Nat /\ u.version > 0
           /\ u.root = u.id \/ (u.root \in Uploaded /\ root[u.root] = u.root)
           /\ u.version = 1 \/ \E q \in Lineage(u.root) : version[q] = u.version - 1
           /\ root'[u.id] = u.root /\ version'[u.id] = u.version /\ current'[u.id]
           /\ \A s \in Submissions \ {u.id} :
                /\ root'[s] = root[s] /\ version'[s] = version[s]
                /\ current'[s] <=> current[s] /\ s \notin Lineage(u.root)
           /\ Uploaded' = Uploaded \cup {u.id}
           /\ \A r : Lineage(r)' = IF r = u.root THEN Lineage(r) \cup {u.id} ELSE Lineage(r)
           /\ \A q \in Lineage(u.root) :
                q # u.id /\ version[q] < u.version /\ version[q] \in Nat
<1>1. UploadUpToDate(u) /\ u.id # 0
  BY DEF CommitUpload, VersionInv, UploadsUpToDate, NoUpload
<1>2. /\ root'    = [root EXCEPT ![u.id] = u.root]
      /\ version' = [version EXCEPT ![u.id] = u.version]
      /\ \A s \in Submissions : current'[s] <=> s = u.id \/ (s \notin u.priors /\ current[s])
  BY DEF CommitUpload
<1>3. u \in UploadType
  BY DEF TypeOK
<1>4. /\ u.id \in Submissions \ Uploaded
      /\ u.version \in Nat /\ u.version > 0
      /\ u.root = u.id \/ (u.root \in Uploaded /\ root[u.root] = u.root)
      /\ u.version = 1 \/ \E q \in Lineage(u.root) : version[q] = u.version - 1
      /\ u.priors = {q \in Lineage(u.root) : current[q]}
  BY <1>1, <1>3 DEF UploadUpToDate, UploadType
<1>5. /\ root'[u.id] = u.root /\ version'[u.id] = u.version /\ current'[u.id]
      /\ \A s \in Submissions \ {u.id} :
           /\ root'[s] = root[s] /\ version'[s] = version[s]
           /\ current'[s] <=> current[s] /\ s \notin Lineage(u.root)
  BY <1>2, <1>4 DEF TypeOK
<1>6. Uploaded' = Uploaded \cup {u.id}
  BY <1>4, <1>5 DEF Uploaded
<1>7. \A r : Lineage(r)' = IF r = u.root THEN Lineage(r) \cup {u.id} ELSE Lineage(r)
  BY <1>4, <1>5, <1>6 DEF Lineage, Uploaded
<1>8. \A q \in Lineage(u.root) : q # u.id /\ version[q] < u.version /\ version[q] \in Nat
  BY <1>1, <1>4 DEF UploadUpToDate, Lineage, Uploaded, TypeOK
<1> QED
  BY <1>4, <1>5, <1>6, <1>7, <1>8

\* It becomes the newest version of its lineage, and the current one.
LEMMA CommittedUpload ==
    ASSUME TypeOK, SingleDevice, VersionInv, NEW d \in Devices, CommitUpload(d)
    PROVE  VersionInv'
<1> DEFINE u == upload[d]
<1>3. UploadsUpToDate'
  BY DEF CommitUpload, UploadsUpToDate, SingleDevice, TypeOK
<1>5. /\ u.id \in Submissions \ Uploaded
      /\ u.version \in Nat /\ u.version > 0
      /\ u.root = u.id \/ (u.root \in Uploaded /\ root[u.root] = u.root)
  BY StoredVersion
<1>6. /\ root'[u.id] = u.root /\ version'[u.id] = u.version /\ current'[u.id]
      /\ \A s \in Submissions \ {u.id} :
           /\ root'[s] = root[s] /\ version'[s] = version[s]
           /\ current'[s] <=> current[s] /\ s \notin Lineage(u.root)
  BY StoredVersion
<1>7. Uploaded' = Uploaded \cup {u.id}
  BY StoredVersion
<1>9. \A r : Lineage(r)' = IF r = u.root THEN Lineage(r) \cup {u.id} ELSE Lineage(r)
  BY StoredVersion
<1>10. \A q \in Lineage(u.root) :
          q # u.id /\ version'[q] < u.version /\ version'[q] \in Nat /\ ~current'[q]
  <2>1. \A q \in Lineage(u.root) : q # u.id /\ version[q] < u.version /\ version[q] \in Nat
    BY StoredVersion
  <2> HIDE DEF u
  <2> QED
    BY <1>6, <2>1 DEF Lineage, Uploaded
<1> HIDE DEF u
<1>8. LineagesRooted'
  BY <1>5, <1>6, <1>7 DEF VersionInv, LineagesRooted, Uploaded
<1>11. ASSUME NEW s \in Uploaded'
       PROVE  /\ \A q \in Lineage(root[s])' : version'[q] = version'[s] => q = s
              /\ current'[s] <=> \A q \in Lineage(root[s])' : version'[q] <= version'[s]
  <2>1. CASE s = u.id
    BY <2>1, <1>5, <1>6, <1>9, <1>10
  <2>2. CASE s # u.id /\ root[s] = u.root
    <3>1. s \in Lineage(u.root)
      BY <2>2, <1>7 DEF Lineage
    <3>2. root'[s] = u.root /\ version'[s] = version[s]
      BY <2>2, <1>6, <3>1 DEF Lineage, Uploaded
    <3>3. \A q \in Lineage(u.root) : version[q] = version[s] => q = s
      BY <2>2, <3>1 DEF VersionInv, NewestIsCurrent, Lineage
    <3>4. \A q \in Lineage(u.root) : version'[q] = version[q]
      BY <1>6, <1>10 DEF Lineage, Uploaded
    <3> QED
      BY <1>5, <1>6, <1>9, <1>10, <3>1, <3>2, <3>3, <3>4
  <2>3. CASE s # u.id /\ root[s] # u.root
    <3>1. s \in Uploaded
      BY <2>3, <1>7
    <3>2. root'[s] = root[s] /\ version'[s] = version[s]
      BY <2>3, <1>6, <3>1 DEF Uploaded
    <3>3. \A q \in Lineage(root[s]) : version'[q] = version[q]
      BY <1>5, <1>6 DEF Lineage, Uploaded
    <3>4. current'[s] <=> current[s]
      BY <2>3, <1>6, <3>1 DEF Lineage, Uploaded
    <3> QED
      BY <2>3, <1>9, <3>1, <3>2, <3>3, <3>4 DEF VersionInv, NewestIsCurrent
  <2> QED
    BY <2>1, <2>2, <2>3
<1>12. NewestIsCurrent'
  BY <1>11 DEF NewestIsCurrent
<1> QED
  BY <1>3, <1>8, <1>12 DEF VersionInv

\* The invariant holds in every state when there is one device.
LEMMA VersionInvariant ==
    ASSUME SingleDevice
    PROVE  Spec => []VersionInv
<1>1. Init => VersionInv
  BY DEF Init, VersionInv, LineagesRooted, NewestIsCurrent, UploadsUpToDate, Uploaded
<1>2. TypeOK /\ VersionInv /\ [Next]_vars => VersionInv'
  <2> SUFFICES ASSUME TypeOK, VersionInv, [Next]_vars
               PROVE  VersionInv'
    OBVIOUS
  <2>1. ASSUME NEW d \in Devices, Device(d)
        PROVE  VersionInv'
    <3>1. CASE StartFirstUpload(d) \/ StartResubmission(d) \/ StoreUpload(d)
      BY <3>1, StartedUpload
    <3>2. CASE CommitUpload(d)
      BY <3>2, CommittedUpload
    <3>3. CASE AbortUpload(d)
      BY <3>3, VersionsUnchanged DEF AbortUpload, db, TypeOK
    <3> QED
      BY <2>1, <3>1, <3>2, <3>3 DEF Device
  <2>2. ASSUME NEW c \in Reviewers, Reviewer(c)
        PROVE  UNCHANGED <<root, version, current, upload>>
    BY <2>2
    DEF Reviewer, Read, Respond, db, StartApprove, StartReject, StartRegrade, StartView,
        StartSubmitReview, StartSubmitReject, StartCreateGrade, StartUpdateGrade,
        StartDeleteGrade, CommitApprove, CommitReject, CommitRegrade, CommitView,
        CommitSubmitReview, CommitSubmitReject, CommitCreateGrade, CommitUpdateGrade,
        CommitDeleteGrade, LoadGrades, AbortRequest
  <2>3. CASE Worker \/ CrashWorker \/ UNCHANGED vars
    <3>1. UNCHANGED <<root, version, current, upload>>
      BY <2>3 DEF Worker, ClaimJob, CloseSuperseded, LoadJob, CommitResult, FailJob,
                  CrashWorker, vars, db
    <3> QED
      BY <3>1, VersionsUnchanged
  <2>4. CASE Restart
    BY <2>4, VersionsUnchanged DEF Restart, db
  <2> QED
    BY <2>1, <2>2, <2>3, <2>4, VersionsUnchanged DEF Next
<1> QED
  BY <1>1, <1>2, TypeCorrect, PTL DEF Spec

\* With one device at a time, the versions of a lineage are numbered without
\* repetition and exactly the newest one is current, whatever reviewers, the
\* worker and crashes do.
THEOREM NewestVersionIsCurrent ==
    ASSUME SingleDevice
    PROVE  Spec => []NewestIsCurrent
<1>1. VersionInv => NewestIsCurrent
  BY DEF VersionInv
<1> QED
  BY <1>1, VersionInvariant, PTL

-----------------------------------------------------------------------------
(* Uploads implement VersionHistory *)

\* The commit of an upload publishes its version.
LEMMA CommitPublishes ==
    ASSUME TypeOK, VersionInv, NEW d \in Devices, CommitUpload(d)
    PROVE  History!Publish(upload[d].root, upload[d].version)
             /\ upload[d].root \in Submissions
             /\ upload[d].version \in History!Candidates(Published[upload[d].root])
<1> DEFINE u == upload[d]
<1>1. /\ u.id \in Submissions \ Uploaded
      /\ u.root = u.id \/ u.root \in Uploaded
      /\ u.version = 1 \/ \E q \in Lineage(u.root) : version[q] = u.version - 1
      /\ u.version \in Nat
  BY StoredVersion
<1>2. /\ root'[u.id] = u.root /\ version'[u.id] = u.version /\ current'[u.id]
      /\ \A s \in Submissions \ {u.id} :
           /\ root'[s] = root[s] /\ version'[s] = version[s]
           /\ current'[s] <=> current[s] /\ s \notin Lineage(u.root)
  BY StoredVersion
<1>3. \A r : Lineage(r)' = IF r = u.root THEN Lineage(r) \cup {u.id} ELSE Lineage(r)
  BY StoredVersion
<1>4. \A q \in Lineage(u.root) : q # u.id /\ version[q] < u.version /\ version[q] \in Nat
  BY StoredVersion
<1> HIDE DEF u
<1>5. u.root \in Submissions /\ \A r : Lineage(r) \subseteq Submissions \ {u.id}
  BY <1>1 DEF Uploaded, Lineage
<1>6. \A r \in Submissions :
        {version'[s] : s \in Lineage(r)'}
          = IF r = u.root THEN {version[s] : s \in Lineage(r)} \cup {u.version}
                          ELSE {version[s] : s \in Lineage(r)}
  <2>1. \A r : \A s \in Lineage(r) : version'[s] = version[s]
    BY <1>2, <1>5
  <2> QED
    BY <1>2, <1>3, <2>1
<1>7. Published' = [Published EXCEPT ![u.root] = @ \cup {u.version}]
  BY <1>5, <1>6 DEF Published
<1>8. \A r \in Submissions :
        {q \in Lineage(r)' : current'[q]}
          = IF r = u.root THEN {u.id} ELSE {q \in Lineage(r) : current[q]}
  <2>1. \A r \in Submissions : r # u.root =>
          \A q \in Lineage(r) : q \notin Lineage(u.root)
    BY DEF Lineage
  <2> QED
    BY <1>2, <1>3, <1>5, <2>1
<1>9. Shown' = [Shown EXCEPT ![u.root] = {u.version}]
  <2>1. \A r \in Submissions :
          {version'[s] : s \in {q \in Lineage(r)' : current'[q]}}
            = IF r = u.root THEN {u.version}
              ELSE {version[s] : s \in {q \in Lineage(r) : current[q]}}
    BY <1>2, <1>5, <1>8
  <2> QED
    BY <1>5, <2>1 DEF Shown
<1>10. Published[u.root] = {version[s] : s \in Lineage(u.root)}
  BY <1>5 DEF Published
<1>11. History!IsNext(u.version, Published[u.root])
  <2>1. u.version = 1 \/ u.version - 1 \in Published[u.root]
    BY <1>1, <1>10
  <2> QED
    BY <1>4, <1>10, <2>1 DEF History!IsNext
<1>12. u.version \in History!Candidates(Published[u.root])
  <2>1. CASE u.version = 1
    BY <2>1 DEF History!Candidates
  <2>2. CASE u.version # 1
    <3>1. PICK q \in Lineage(u.root) : version[q] = u.version - 1
      BY <1>1, <2>2
    <3>2. u.version = version[q] + 1 /\ version[q] \in Published[u.root]
      BY <1>1, <1>4, <1>10, <3>1
    <3> QED
      BY <3>2 DEF History!Candidates
  <2> QED
    BY <2>1, <2>2
<1> QED
  BY <1>5, <1>7, <1>9, <1>11, <1>12 DEF u, History!Publish

\* A step that leaves the versions alone publishes nothing.
LEMMA OtherStepsPublishNothing ==
    ASSUME UNCHANGED <<root, version, current>>
    PROVE  UNCHANGED <<Published, Shown>>
<1>1. \A r : Lineage(r)' = Lineage(r)
  BY DEF Lineage, Uploaded
<1> QED
  BY <1>1 DEF Published, Shown

\* With one device, uploads implement VersionHistory: whatever reviewers, the
\* worker and crashes do, the versions of a lineage are published in order, and
\* publishing one and withdrawing the one before is a single step.
THEOREM UploadsPublishVersions ==
    ASSUME SingleDevice
    PROVE  Spec => PublishesVersions
<1>1. Init => History!Init
  <2>1. Init => \A r : Lineage(r) = {}
    BY DEF Init, Lineage, Uploaded
  <2> QED
    BY <2>1 DEF History!Init, Published, Shown
<1>2. TypeOK /\ VersionInv /\ [Next]_vars => [History!Next]_<<Published, Shown>>
  <2> SUFFICES ASSUME TypeOK, VersionInv, [Next]_vars
               PROVE  [History!Next]_<<Published, Shown>>
    OBVIOUS
  <2>1. ASSUME NEW d \in Devices, CommitUpload(d)
        PROVE  History!Next
    BY <2>1, CommitPublishes DEF History!Next
  <2>2. CASE UNCHANGED <<root, version, current>>
    BY <2>2, OtherStepsPublishNothing
  <2>3. CASE \E c \in Reviewers : Reviewer(c)
    BY <2>2, <2>3
    DEF Reviewer, Read, Respond, db, StartApprove, StartReject, StartRegrade, StartView,
        StartSubmitReview, StartSubmitReject, StartCreateGrade, StartUpdateGrade,
        StartDeleteGrade, CommitApprove, CommitReject, CommitRegrade, CommitView,
        CommitSubmitReview, CommitSubmitReject, CommitCreateGrade, CommitUpdateGrade,
        CommitDeleteGrade, LoadGrades, AbortRequest
  <2>4. CASE Worker \/ CrashWorker \/ Restart \/ UNCHANGED vars
    BY <2>2, <2>4 DEF Worker, ClaimJob, CloseSuperseded, LoadJob, CommitResult, FailJob,
                      CrashWorker, Restart, vars, db
  <2>5. CASE \E d \in Devices : Device(d)
    BY <2>1, <2>2, <2>5
    DEF Device, StartFirstUpload, StartResubmission, StoreUpload, AbortUpload, db
  <2> QED
    BY <2>3, <2>4, <2>5, <2>2 DEF Next
<1> QED
  BY <1>1, <1>2, TypeCorrect, VersionInvariant, PTL
  DEF Spec, PublishesVersions, History!Spec

=============================================================================
