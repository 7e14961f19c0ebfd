------------------------- MODULE GradingReviewProofs -------------------------
(***************************************************************************)
(* Theorems of Grading about approvals, rejections and finished jobs, for  *)
(* any number of submissions, devices, requests and restarts and a single  *)
(* reviewer.  With two reviewers the first of them is false: see the run   *)
(* of MCGrading_approvals.cfg.                                             *)
(***************************************************************************)
EXTENDS GradingProofs

-----------------------------------------------------------------------------
(* What requests, uploads and the worker know *)

\* What a request says it does is set when it starts.
LEMMA InformedRequest ==
    ASSUME TypeOK, RequestsInformed, [Next]_vars
    PROVE  RequestsInformed'
<1>1. ASSUME NEW c \in Reviewers, NEW op \in Operations, NEW by \in GradedBy \cup {None},
             NEW on \in SUBSET Submissions, Read(c, op, by, on),
             op \in GradingOperations => by # None,
             op = "reject" => \A s \in on : item[s] \in OpenReviewStatuses
      PROVE  RequestsInformed'
  <2> DEFINE r == [op |-> op, by |-> by, on |-> on,
                   loaded |-> op \notin LateReaders, target |-> None,
                   rows |-> [s \in Submissions |->
                               IF s \in on THEN Row(s, op) ELSE Unread]]
  <2>1. request' = [request EXCEPT ![c] = r]
    BY <1>1 DEF Read
  <2>2. /\ r.op \in GradingOperations => r.by # None
        /\ r.op = "reject" => \A s \in r.on : r.rows[s].item \in OpenReviewStatuses
    BY <1>1 DEF Row
  <2> HIDE DEF r
  <2> QED
    BY <2>1, <2>2 DEF RequestsInformed, TypeOK
<1>2. ASSUME NEW c \in Reviewers, request' = [request EXCEPT ![c] = NoRequest]
      PROVE  RequestsInformed'
  BY <1>2 DEF RequestsInformed, GradingOperations, TypeOK, NoRequest, None
<1>3. CASE UNCHANGED request
  BY <1>3 DEF RequestsInformed
<1>4. ASSUME NEW c \in Reviewers, Reviewer(c)
      PROVE  RequestsInformed'
  <2> USE DEF Operations, GradingOperations, GradedBy, None
  <2>1. CASE StartApprove(c)
    BY <2>1, <1>1 DEF StartApprove
  <2>2. CASE StartReject(c)
    BY <2>2, <1>1 DEF StartReject
  <2>3. CASE StartRegrade(c)
    BY <2>3, <1>1 DEF StartRegrade
  <2>4. CASE StartView(c)
    BY <2>4, <1>1 DEF StartView
  <2>5. CASE StartSubmitReview(c)
    BY <2>5, <1>1 DEF StartSubmitReview
  <2>6. CASE StartSubmitReject(c)
    BY <2>6, <1>1 DEF StartSubmitReject
  <2>7. CASE StartCreateGrade(c)
    BY <2>7, <1>1 DEF StartCreateGrade
  <2>8. CASE StartUpdateGrade(c)
    BY <2>8, <1>1 DEF StartUpdateGrade
  <2>9. CASE StartDeleteGrade(c)
    BY <2>9, <1>1 DEF StartDeleteGrade
  <2>10. CASE LoadGrades(c)
    <3>1. /\ \A b \in Reviewers \ {c} : request'[b] = request[b]
          /\ request'[c].op = request[c].op
          /\ request'[c].by = request[c].by
          /\ request'[c].on = request[c].on
          /\ request[c].on \in SUBSET Submissions
      BY <2>10 DEF LoadGrades, TypeOK, RequestType
    <3>2. \A s \in request[c].on : request'[c].rows[s].item = request[c].rows[s].item
      BY <2>10, <3>1 DEF LoadGrades, TypeOK, RequestType, RowType
    <3> QED
      BY <3>1, <3>2 DEF RequestsInformed
  <2> HIDE DEF Operations, GradingOperations, GradedBy, None
  <2> QED
    BY <1>2, <1>4, <2>1, <2>2, <2>3, <2>4, <2>5, <2>6, <2>7, <2>8, <2>9, <2>10
    DEF Reviewer, Respond, CommitApprove, CommitReject, CommitRegrade, CommitView,
        CommitSubmitReview, CommitSubmitReject, CommitCreateGrade, CommitUpdateGrade,
        CommitDeleteGrade, LoadGrades, AbortRequest
<1>5. CASE Restart
  BY <1>5 DEF Restart, RequestsInformed, GradingOperations, NoRequest, None
<1> QED
  BY <1>3, <1>4, <1>5
  DEF Next, Device, StartFirstUpload, StartResubmission, StoreUpload, CommitUpload, AbortUpload,
      Worker, ClaimJob, CloseSuperseded, LoadJob, CommitResult, FailJob, CrashWorker, vars

\* The worker does not work on a job that waits for reviewers.
LEMMA InformedWorker ==
    ASSUME TypeOK, WorkerInformed, [Next]_vars
    PROVE  WorkerInformed'
<1>1. CASE \E d \in Devices : Device(d)
  <2>1. worker' = worker
    BY <1>1
    DEF Device, StartFirstUpload, StartResubmission, StoreUpload, CommitUpload, AbortUpload
  <2> QED
    BY <1>1, <2>1, DeviceJobMoves DEF WorkerInformed, TypeOK
<1>2. CASE \E c \in Reviewers : Reviewer(c)
  <2>1. worker' = worker
    BY <1>2
    DEF Reviewer, Read, Respond, StartApprove, StartReject, StartRegrade, StartView,
        StartSubmitReview, StartSubmitReject, StartCreateGrade, StartUpdateGrade,
        StartDeleteGrade, CommitApprove, CommitReject, CommitRegrade, CommitView,
        CommitSubmitReview, CommitSubmitReject, CommitCreateGrade, CommitUpdateGrade,
        CommitDeleteGrade, LoadGrades, AbortRequest
  <2> QED
    BY <1>2, <2>1, ReviewerJobMoves DEF WorkerInformed, TypeOK
<1>3. CASE ClaimJob
  <2>1. PICK s \in Submissions :
          job[s] = "pending" /\ worker' = [worker EXCEPT !.pc = "claimed", !.sub = s]
    BY <1>3 DEF ClaimJob
  <2>2. worker'.pc = "claimed" /\ worker'.sub = s /\ job' = job
    BY <1>3, <2>1 DEF ClaimJob, TypeOK, WorkerType, db
  <2> QED
    BY <2>1, <2>2 DEF WorkerInformed
<1>4. CASE LoadJob
  <2>1. worker'.pc = "grading" /\ worker'.seen = job[worker.sub] /\ worker.pc = "claimed"
    BY <1>4 DEF LoadJob, TypeOK, WorkerType
  <2> QED
    BY <2>1 DEF WorkerInformed
<1>5. CASE worker' = IdleWorker
  BY <1>5 DEF WorkerInformed, IdleWorker
<1>6. CASE UNCHANGED vars
  BY <1>6 DEF WorkerInformed, vars, db
<1> QED
  BY <1>1, <1>2, <1>3, <1>4, <1>5, <1>6
  DEF Next, Worker, CloseSuperseded, CommitResult, FailJob, CrashWorker, Restart

\* An upload closes only jobs of versions it supersedes.
LEMMA InformedUpload ==
    ASSUME TypeOK, UploadsInformed, [Next]_vars
    PROVE  UploadsInformed'
<1>1. ASSUME NEW d \in Devices, NEW u, upload' = [upload EXCEPT ![d] = u],
             u.unresolved \subseteq u.priors
      PROVE  UploadsInformed'
  BY <1>1 DEF UploadsInformed, TypeOK
<1>2. ASSUME NEW d \in Devices, Device(d)
      PROVE  UploadsInformed'
  <2>1. CASE StartFirstUpload(d) \/ StartResubmission(d)
    <3>1. /\ \A e \in Devices \ {d} : upload'[e] = upload[e]
          /\ upload'[d].unresolved = upload[d].unresolved
          /\ upload'[d].priors = upload[d].priors
      <4>1. CASE StartFirstUpload(d)
        BY <4>1, SMTT(30) DEF StartFirstUpload, TypeOK
      <4>2. CASE StartResubmission(d)
        BY <4>2, SMTT(30) DEF StartResubmission, TypeOK
      <4> QED
        BY <2>1, <4>1, <4>2
    <3> QED
      BY <3>1 DEF UploadsInformed
  <2>2. CASE StoreUpload(d)
    <3>1. PICK s, priors :
            upload' = [upload EXCEPT ![d] = [upload[d] EXCEPT
                         !.id = s,
                         !.root = IF upload[d].root = 0 THEN s ELSE upload[d].root,
                         !.priors = priors,
                         !.unresolved = {q \in priors : job[q] \in Supersedable}]]
      BY <2>2 DEF StoreUpload, TypeOK
    <3>2. /\ \A e \in Devices \ {d} : upload'[e] = upload[e]
          /\ upload'[d].unresolved = {q \in priors : job[q] \in Supersedable}
          /\ upload'[d].priors = priors
      BY <3>1 DEF TypeOK, UploadType
    <3> QED
      BY <3>2 DEF UploadsInformed
  <2>3. CASE upload' = [upload EXCEPT ![d] = NoUpload]
    BY <1>1, <2>3 DEF NoUpload
  <2> QED
    BY <1>2, <2>1, <2>2, <2>3 DEF Device, CommitUpload, AbortUpload
<1>3. CASE UNCHANGED upload
  BY <1>3 DEF UploadsInformed
<1>4. CASE Restart
  BY <1>4 DEF Restart, UploadsInformed, NoUpload
<1> QED
  BY <1>2, <1>3, <1>4, ZenonT(30)
  DEF Next, Worker, ClaimJob, CloseSuperseded, LoadJob, CommitResult, FailJob, CrashWorker,
      vars, Reviewer, Read, Respond, StartApprove, StartReject, StartRegrade, StartView,
      StartSubmitReview, StartSubmitReject, StartCreateGrade, StartUpdateGrade,
      StartDeleteGrade, CommitApprove, CommitReject, CommitRegrade, CommitView,
      CommitSubmitReview, CommitSubmitReject, CommitCreateGrade, CommitUpdateGrade,
      CommitDeleteGrade, LoadGrades, AbortRequest

-----------------------------------------------------------------------------
(* Grades, items and finished jobs: the steps of everybody but the reviewer *)

\* No process but a reviewer takes a grade away, rejects, or approves without a
\* grade, and a job they bring to its end has one or is superseded.
LEMMA OthersLeaveReviews ==
    ASSUME TypeOK, WorkerInformed, UploadsInformed, NEW s \in Submissions,
           \/ \E d \in Devices : Device(d)
           \/ Worker
           \/ CrashWorker
           \/ Restart
           \/ UNCHANGED vars
    PROVE  /\ Graded(s) => Graded(s)'
           /\ item'[s] = "rejected" => item[s] = "rejected"
           /\ item'[s] = "approved" => item[s] = "approved" \/ Graded(s)'
           /\ job'[s] = "final" /\ current'[s]
                => \/ Graded(s)'
                   \/ job[s] = "final" /\ current[s] /\ item'[s] = item[s]
           /\ s \in erased => s \in erased' \/ Graded(s)'
<1>1. CASE UNCHANGED <<grade, item, erased, job, current>>
  BY <1>1 DEF Graded
<1>2. ASSUME NEW d \in Devices, CommitUpload(d)
      PROVE  /\ UNCHANGED <<grade, item, erased>>
             /\ job'[s] = "final" /\ current'[s] => job[s] = "final" /\ current[s]
  <2>1. upload[d].unresolved \subseteq upload[d].priors
    BY DEF UploadsInformed
  <2>2. /\ job'[s] = IF s = upload[d].id THEN "pending"
                     ELSE IF s \in upload[d].unresolved THEN "final" ELSE job[s]
        /\ current'[s] = (s = upload[d].id \/ (s \notin upload[d].priors /\ current[s]))
    BY <1>2 DEF CommitUpload
  <2> QED
    BY <1>2, <2>1, <2>2 DEF CommitUpload, ghosts
<1>3. CASE CloseSuperseded
  <2>1. /\ UNCHANGED <<grade, item, erased, current>>
        /\ s # worker.sub => job'[s] = job[s]
        /\ ~current[worker.sub]
    BY <1>3 DEF CloseSuperseded, ghosts, TypeOK
  <2> QED
    BY <2>1 DEF Graded
<1>4. ASSUME NEW result \in Results, CommitResult(result), s = worker.sub, result = "final"
      PROVE  /\ Graded(s)'
             /\ item'[s] = item[s] \/ item'[s] = "approved"
  <2>1. grade'[s] = [grade[s] EXCEPT !.by = "ai"]
    BY <1>4 DEF CommitResult, TypeOK
  <2>2. grade'[s].by = "ai"
    BY <2>1 DEF TypeOK, GradeType
  <2> QED
    BY <1>4, <2>2 DEF Graded, None, CommitResult, SyncedItem, TypeOK
<1>5. ASSUME NEW result \in Results, CommitResult(result), s = worker.sub, result # "final"
      PROVE  /\ UNCHANGED <<grade, erased>>
             /\ job'[s] = "review_needed"
             /\ item'[s] \in {"pending_review", "in_review"}
  <2>1. result = "review_needed" /\ worker.seen # result
    BY <1>5 DEF Results, WorkerInformed, CommitResult
  <2> QED
    BY <1>5, <2>1 DEF CommitResult, SyncedItem, Write, TypeOK
<1>6. ASSUME NEW result \in Results, CommitResult(result), s # worker.sub
      PROVE  /\ grade'[s] = grade[s] /\ item'[s] = item[s] /\ job'[s] = job[s]
             /\ current' = current
             /\ s \in erased => s \in erased'
  BY <1>6 DEF CommitResult, TypeOK
<1>7. CASE FailJob
  <2>1. /\ UNCHANGED <<grade, item, erased, current>>
        /\ job'[s] = "review_needed" \/ job'[s] = job[s]
    BY <1>7 DEF FailJob, TypeOK
  <2> QED
    BY <2>1 DEF Graded
<1>8. CASE \E d \in Devices : Device(d)
  <2>1. CASE UNCHANGED db /\ UNCHANGED ghosts
    BY <1>1, <2>1 DEF db, ghosts
  <2>2. CASE \E d \in Devices : CommitUpload(d)
    BY <1>2, <2>2 DEF Graded
  <2> QED
    BY <1>8, <2>1, <2>2
    DEF Device, StartFirstUpload, StartResubmission, StoreUpload, AbortUpload
<1>9. CASE Worker
  <2>1. CASE \E result \in Results : CommitResult(result)
    BY <1>4, <1>5, <1>6, <2>1 DEF Graded
  <2>2. CASE ClaimJob \/ LoadJob
    BY <1>1, <2>2 DEF ClaimJob, LoadJob, db, ghosts
  <2> QED
    BY <1>3, <1>7, <1>9, <2>1, <2>2 DEF Worker
<1> QED
  BY <1>1, <1>8, <1>9 DEF CrashWorker, Restart, vars, db, ghosts

-----------------------------------------------------------------------------
(* Grades, items and finished jobs: what a request leaves *)

\* A request that upserts grades leaves a grade on each of its submissions,
\* takes none away, and touches no other.
LEMMA SavedGradesStay ==
    ASSUME TypeOK, RequestsUpToDate, NEW c \in Reviewers, request[c].by # None,
           SaveGrades(c), NEW s \in Submissions
    PROVE  /\ s \in request[c].on => Graded(s)'
           /\ s \notin request[c].on => grade'[s] = grade[s]
           /\ s \in erased => s \in erased' \/ Graded(s)'
<1>1. CASE s \in request[c].on /\ request[c].rows[s].grade.by = None
  <2>1. grade'[s] = [grade[s] EXCEPT !.by = request[c].by]
    BY <1>1 DEF SaveGrades, SavedGrade
  <2>2. grade'[s].by = request[c].by
    BY <2>1 DEF TypeOK, GradeType
  <2> QED
    BY <1>1, <2>2 DEF Graded
<1>2. CASE s \in request[c].on /\ request[c].rows[s].grade.by # None
  <2>1. grade'[s] = [grade[s] EXCEPT !.by = Write(request[c].rows[s].grade.by,
                                                  request[c].by, grade[s].by)]
    BY <1>2 DEF SaveGrades, SavedGrade
  <2>2. grade'[s].by = Write(request[c].rows[s].grade.by, request[c].by, grade[s].by)
    BY <2>1 DEF TypeOK, GradeType
  <2>3. grade[s].by # None
    BY <1>2 DEF RequestsUpToDate, Graded
  <2> QED
    BY <1>2, <2>2, <2>3 DEF Graded, Write
<1>3. CASE s \notin request[c].on
  BY <1>3 DEF SaveGrades, Graded
<1> QED
  BY <1>1, <1>2, <1>3

\* A request that rewrites items or jobs touches only its own, and either gives
\* them the status it assigns or leaves them as they are.
LEMMA ItemsSet ==
    ASSUME TypeOK, NEW c \in Reviewers, NEW status, SetItems(c, status), NEW s \in Submissions
    PROVE  /\ item'[s] \in {item[s], status}
           /\ s \notin request[c].on => item'[s] = item[s]
           /\ s \in request[c].on /\ request[c].rows[s].item # status => item'[s] = status
BY DEF SetItems, Write

LEMMA JobsRequeued ==
    ASSUME TypeOK, NEW c \in Reviewers, RequeueJobs(c), NEW s \in Submissions
    PROVE  /\ job'[s] \in {job[s], "pending"}
           /\ s \notin request[c].on => job'[s] = job[s]
           /\ s \in request[c].on /\ request[c].rows[s].job # "pending" => job'[s] = "pending"
BY DEF RequeueJobs, SetJobs, Write

LEMMA JobsFinalized ==
    ASSUME NEW c \in Reviewers, FinalizeJobs(c), NEW s \in Submissions, s \notin request[c].on
    PROVE  job'[s] = job[s]
BY DEF FinalizeJobs, SetJobs

-----------------------------------------------------------------------------
(* What a request in flight has read is still so when nobody else reviews. *)

\* The steps of other processes do not make it stale.
LEMMA OthersLeaveRequestsUpToDate ==
    ASSUME TypeOK, WorkerInformed, UploadsInformed, RequestsUpToDate, UNCHANGED request,
           \/ \E d \in Devices : Device(d)
           \/ Worker
           \/ CrashWorker
           \/ UNCHANGED vars
    PROVE  RequestsUpToDate'
<1> SUFFICES ASSUME NEW c \in Reviewers, NEW s \in request[c].on
             PROVE  /\ request[c].rows[s].grade.by # None => Graded(s)'
                    /\ request[c].op = "view" => item'[s] # "rejected"
                    /\ request[c].op = "regrade" /\ request[c].rows[s].job = "pending"
                         /\ job'[s] = "final" /\ current'[s] => Graded(s)' \/ s \in erased'
  BY DEF RequestsUpToDate
<1>1. s \in Submissions
  BY DEF TypeOK, RequestType
<1>2. /\ request[c].rows[s].grade.by # None => Graded(s)
      /\ request[c].op = "view" => item[s] # "rejected"
      /\ request[c].op = "regrade" /\ request[c].rows[s].job = "pending"
           /\ job[s] = "final" /\ current[s] => Graded(s) \/ s \in erased
  BY DEF RequestsUpToDate
<1> QED
  BY <1>1, <1>2, OthersLeaveReviews

\* The reviewer's own steps: what is read is so when it is read.
LEMMA ReadUpToDate ==
    ASSUME TypeOK, SingleReviewer, NEW c \in Reviewers, NEW op \in Operations,
           NEW by \in GradedBy \cup {None}, NEW on \in SUBSET Submissions,
           Read(c, op, by, on),
           op = "view" => \A s \in on : item[s] = "pending_review"
    PROVE  RequestsUpToDate'
<1>1. /\ request'[c].op = op
      /\ request'[c].on = on
      /\ \A s \in on : request'[c].rows[s] = Row(s, op)
  BY DEF Read, TypeOK
<1> SUFFICES ASSUME NEW s \in on
             PROVE  /\ Row(s, op).grade.by # None => Graded(s)'
                    /\ op = "view" => item'[s] # "rejected"
                    /\ op = "regrade" /\ Row(s, op).job = "pending"
                         /\ job'[s] = "final" /\ current'[s] => Graded(s)' \/ s \in erased'
  BY <1>1 DEF RequestsUpToDate, SingleReviewer
<1>2. UNCHANGED <<item, grade, job>>
  BY DEF Read, db
<1> QED
  BY <1>2 DEF Row, NoGrade, Graded

LEMMA RequestsStayUpToDate ==
    ASSUME TypeOK, SingleReviewer, WorkerInformed, UploadsInformed, RequestsUpToDate,
           [Next]_vars
    PROVE  RequestsUpToDate'
<1>1. ASSUME NEW c \in Reviewers, request' = [request EXCEPT ![c] = NoRequest]
      PROVE  RequestsUpToDate'
  BY <1>1 DEF SingleReviewer, RequestsUpToDate, TypeOK, NoRequest
<1>2. ASSUME NEW c \in Reviewers, LoadGrades(c)
      PROVE  RequestsUpToDate'
  <2>1. /\ request'[c].op = request[c].op
        /\ request'[c].on = request[c].on
        /\ request[c].on \in SUBSET Submissions
        /\ \A b \in Reviewers : b = c
    BY <1>2 DEF LoadGrades, TypeOK, RequestType, SingleReviewer
  <2>2. \A s \in request[c].on : request'[c].rows[s].grade = grade[s]
    BY <1>2, <2>1 DEF LoadGrades, TypeOK, RequestType, RowType
  <2>3. request[c].op \in LateReaders /\ grade' = grade
    BY <1>2 DEF LoadGrades, db
  <2> QED
    BY <2>1, <2>2, <2>3 DEF RequestsUpToDate, LateReaders, Graded
<1>3. ASSUME NEW c \in Reviewers, Reviewer(c)
      PROVE  RequestsUpToDate'
  <2> USE DEF Operations, GradedBy
  <2>1. CASE StartApprove(c)
    BY <2>1, ReadUpToDate DEF StartApprove
  <2>2. CASE StartReject(c)
    BY <2>2, ReadUpToDate DEF StartReject
  <2>3. CASE StartRegrade(c)
    BY <2>3, ReadUpToDate DEF StartRegrade
  <2>4. CASE StartView(c)
    BY <2>4, ReadUpToDate DEF StartView
  <2>5. CASE StartSubmitReview(c)
    BY <2>5, ReadUpToDate DEF StartSubmitReview
  <2>6. CASE StartSubmitReject(c)
    BY <2>6, ReadUpToDate DEF StartSubmitReject
  <2>7. CASE StartCreateGrade(c)
    BY <2>7, ReadUpToDate DEF StartCreateGrade
  <2>8. CASE StartUpdateGrade(c)
    BY <2>8, ReadUpToDate DEF StartUpdateGrade
  <2>9. CASE StartDeleteGrade(c)
    BY <2>9, ReadUpToDate DEF StartDeleteGrade
  <2> HIDE DEF Operations, GradedBy
  <2> QED
    BY <1>1, <1>2, <1>3, <2>1, <2>2, <2>3, <2>4, <2>5, <2>6, <2>7, <2>8, <2>9
    DEF Reviewer, Respond, CommitApprove, CommitReject, CommitRegrade, CommitView,
        CommitSubmitReview, CommitSubmitReject, CommitCreateGrade, CommitUpdateGrade,
        CommitDeleteGrade, AbortRequest
<1>4. CASE Restart
  BY <1>4 DEF Restart, RequestsUpToDate, NoRequest
<1>5. CASE \/ \E d \in Devices : Device(d)
           \/ Worker
           \/ CrashWorker
           \/ UNCHANGED vars
  <2>1. UNCHANGED request
    BY <1>5
    DEF Device, StartFirstUpload, StartResubmission, StoreUpload, CommitUpload, AbortUpload,
        Worker, ClaimJob, CloseSuperseded, LoadJob, CommitResult, FailJob, CrashWorker, vars
  <2> QED
    BY <1>5, <2>1, OthersLeaveRequestsUpToDate
<1> QED
  BY <1>3, <1>4, <1>5 DEF Next

-----------------------------------------------------------------------------
(* Approvals and finished jobs *)

ReviewInv ==
    /\ RequestsInformed
    /\ RequestsUpToDate
    /\ WorkerInformed
    /\ UploadsInformed
    /\ ApprovedHasGrade
    /\ FinalIsExplained

\* Each commit of the reviewer keeps both properties.
LEMMA ReviewerKeepsOutcome ==
    ASSUME TypeOK, ReviewInv, NEW c \in Reviewers, Reviewer(c)
    PROVE  ApprovedHasGrade' /\ FinalIsExplained'
<1> SUFFICES ASSUME NEW s \in Submissions
             PROVE  /\ item'[s] = "approved" => Graded(s)' \/ s \in erased'
                    /\ job'[s] = "final" /\ current'[s]
                         => Graded(s)' \/ item'[s] = "rejected" \/ s \in erased'
  BY DEF ApprovedHasGrade, FinalIsExplained
<1>1. /\ item[s] = "approved" => Graded(s) \/ s \in erased
      /\ job[s] = "final" /\ current[s] => Graded(s) \/ item[s] = "rejected" \/ s \in erased
  BY DEF ReviewInv, ApprovedHasGrade, FinalIsExplained
<1>2. CASE /\ job'[s] = job[s] /\ item'[s] = item[s] /\ current' = current
           /\ grade'[s] = grade[s]
           /\ s \in erased => s \in erased' \/ Graded(s)'
  BY <1>1, <1>2 DEF Graded
<1>3. ASSUME request[c].op \in GradingOperations, SaveGrades(c)
      PROVE  /\ s \in request[c].on => Graded(s)'
             /\ s \notin request[c].on => grade'[s] = grade[s]
             /\ s \in erased => s \in erased' \/ Graded(s)'
  <2>1. request[c].by # None /\ RequestsUpToDate
    BY <1>3 DEF ReviewInv, RequestsInformed
  <2> QED
    BY <1>3, <2>1, SavedGradesStay
<1> USE DEF Respond, GradingOperations
<1>4. CASE CommitApprove(c)
  <2>1. s \notin request[c].on => job'[s] = job[s] /\ item'[s] = item[s]
    BY <1>4, JobsFinalized DEF CommitApprove
  <2>2. current' = current /\ request[c].op = "approve" /\ SaveGrades(c)
    BY <1>4 DEF CommitApprove
  <2> QED
    BY <1>2, <1>3, <2>1, <2>2
<1>5. CASE CommitReject(c)
  <2>1. s \in request[c].on => item'[s] = "rejected"
    <3>1. s \in request[c].on => request[c].rows[s].item # "rejected"
      BY <1>5 DEF CommitReject, ReviewInv, RequestsInformed, OpenReviewStatuses
    <3> QED
      BY <1>5, <3>1, ItemsSet DEF CommitReject
  <2>2. /\ s \notin request[c].on => /\ job'[s] = job[s] /\ item'[s] = item[s]
                                     /\ grade'[s] = grade[s]
        /\ current' = current /\ erased' = erased
    BY <1>5, JobsFinalized, ItemsSet DEF CommitReject, DeleteGrades
  <2> QED
    BY <1>2, <2>1, <2>2
<1>6. CASE CommitRegrade(c)
  <2>1. /\ item'[s] \in {item[s], "needs_regrade"}
        /\ s \notin request[c].on => item'[s] = item[s]
    BY <1>6, ItemsSet DEF CommitRegrade
  <2>2. /\ job'[s] \in {job[s], "pending"}
        /\ s \in request[c].on /\ request[c].rows[s].job # "pending" => job'[s] = "pending"
    BY <1>6, JobsRequeued DEF CommitRegrade
  <2>3. s \in request[c].on /\ request[c].rows[s].job = "pending" /\ job[s] = "final"
          /\ current[s] => Graded(s) \/ s \in erased
    BY <1>6 DEF CommitRegrade, ReviewInv, RequestsUpToDate
  <2>4. UNCHANGED <<current, grade, erased>>
    BY <1>6 DEF CommitRegrade
  <2> QED
    BY <1>1, <2>1, <2>2, <2>3, <2>4 DEF Graded
<1>7. CASE CommitView(c)
  <2>1. /\ item'[s] \in {item[s], "in_review"}
        /\ s \notin request[c].on => item'[s] = item[s]
    BY <1>7, ItemsSet DEF CommitView
  <2>2. s \in request[c].on => item[s] # "rejected"
    BY <1>7 DEF CommitView, ReviewInv, RequestsUpToDate
  <2>3. UNCHANGED <<job, current, grade, erased>>
    BY <1>7 DEF CommitView
  <2> QED
    BY <1>1, <2>1, <2>2, <2>3 DEF Graded
<1>8. CASE CommitSubmitReview(c)
  <2>1. s \notin request[c].on => job'[s] = job[s]
    BY <1>8, JobsFinalized DEF CommitSubmitReview
  <2>2. UNCHANGED <<item, current>> /\ request[c].op = "submit_review" /\ SaveGrades(c)
    BY <1>8 DEF CommitSubmitReview
  <2> QED
    BY <1>2, <1>3, <2>1, <2>2
<1>9. CASE CommitSubmitReject(c)
  <2>1. job'[s] \in {job[s], "pending"}
    BY <1>9, JobsRequeued DEF CommitSubmitReject
  <2>2. UNCHANGED <<item, current, grade, erased>>
    BY <1>9 DEF CommitSubmitReject
  <2> QED
    BY <1>1, <2>1, <2>2 DEF Graded
<1>10. CASE CommitCreateGrade(c) \/ CommitUpdateGrade(c)
  <2>1. UNCHANGED <<item, current, job>> /\ SaveGrades(c)
          /\ request[c].op \in {"create_grade", "update_grade"}
    BY <1>10 DEF CommitCreateGrade, CommitUpdateGrade
  <2> QED
    BY <1>2, <1>3, <2>1
<1>11. CASE CommitDeleteGrade(c)
  <2>1. s \notin request[c].on => grade'[s] = grade[s]
    BY <1>11 DEF CommitDeleteGrade, DeleteGrades
  <2>2. UNCHANGED <<item, current, job>> /\ erased' = erased \cup request[c].on
    BY <1>11 DEF CommitDeleteGrade
  <2> QED
    BY <1>2, <2>1, <2>2
<1>12. CASE UNCHANGED db /\ UNCHANGED ghosts
  BY <1>2, <1>12 DEF db, ghosts
<1> QED
  BY <1>4, <1>5, <1>6, <1>7, <1>8, <1>9, <1>10, <1>11, <1>12
  DEF Reviewer, Read, StartApprove, StartReject, StartRegrade, StartView,
      StartSubmitReview, StartSubmitReject, StartCreateGrade, StartUpdateGrade,
      StartDeleteGrade, LoadGrades, AbortRequest

\* So does every other step.
LEMMA OthersKeepOutcome ==
    ASSUME TypeOK, ReviewInv,
           \/ \E d \in Devices : Device(d)
           \/ Worker
           \/ CrashWorker
           \/ Restart
           \/ UNCHANGED vars
    PROVE  ApprovedHasGrade' /\ FinalIsExplained'
<1> SUFFICES ASSUME NEW s \in Submissions
             PROVE  /\ item'[s] = "approved" => Graded(s)' \/ s \in erased'
                    /\ job'[s] = "final" /\ current'[s]
                         => Graded(s)' \/ item'[s] = "rejected" \/ s \in erased'
  BY DEF ApprovedHasGrade, FinalIsExplained
<1>1. /\ item[s] = "approved" => Graded(s) \/ s \in erased
      /\ job[s] = "final" /\ current[s] => Graded(s) \/ item[s] = "rejected" \/ s \in erased
  BY DEF ReviewInv, ApprovedHasGrade, FinalIsExplained
<1>2. WorkerInformed /\ UploadsInformed
  BY DEF ReviewInv
<1> QED
  BY <1>1, <1>2, OthersLeaveReviews

\* The invariant holds in every state when there is one reviewer.
LEMMA ReviewInvariant ==
    ASSUME SingleReviewer
    PROVE  Spec => []ReviewInv
<1>1. Init => ReviewInv
  BY DEF Init, ReviewInv, RequestsInformed, RequestsUpToDate, WorkerInformed,
         UploadsInformed, ApprovedHasGrade, FinalIsExplained, NoRequest, NoUpload,
         IdleWorker, GradingOperations, None
<1>2. TypeOK /\ ReviewInv /\ [Next]_vars => ReviewInv'
  <2> SUFFICES ASSUME TypeOK, ReviewInv, [Next]_vars
               PROVE  ReviewInv'
    OBVIOUS
  <2>1. RequestsInformed' /\ WorkerInformed' /\ UploadsInformed'
    BY InformedRequest, InformedWorker, InformedUpload DEF ReviewInv
  <2>2. RequestsUpToDate'
    BY RequestsStayUpToDate DEF ReviewInv
  <2>3. ApprovedHasGrade' /\ FinalIsExplained'
    BY ReviewerKeepsOutcome, OthersKeepOutcome DEF Next
  <2> QED
    BY <2>1, <2>2, <2>3 DEF ReviewInv
<1> QED
  BY <1>1, <1>2, TypeCorrect, PTL DEF Spec

\* With one reviewer, no interleaving of that reviewer's requests, uploads, the
\* worker and crashes leaves an approved review without its grade, unless the
\* teacher has deleted it.
THEOREM ApprovalsAreGraded ==
    ASSUME SingleReviewer
    PROVE  Spec => []ApprovedHasGrade
<1>1. ReviewInv => ApprovedHasGrade
  BY DEF ReviewInv
<1> QED
  BY <1>1, ReviewInvariant, PTL

\* With one reviewer, the grading of a current version ends with a grade, a
\* rejection or a deleted grade, whatever the interleaving.
THEOREM FinalJobsAreExplained ==
    ASSUME SingleReviewer
    PROVE  Spec => []FinalIsExplained
<1>1. ReviewInv => FinalIsExplained
  BY DEF ReviewInv
<1> QED
  BY <1>1, ReviewInvariant, PTL

=============================================================================
