---------------------------- MODULE GradingStatus ----------------------------
(***************************************************************************)
(* The statuses of a grading job and the transitions between them, shared  *)
(* by the pipeline that computes a grade (GradingPipeline) and by the rows *)
(* that requests and the worker change (Grading).                          *)
(***************************************************************************)

GradingJobStatus == {"pending", "ocr_processing", "ocr_complete", "ai_grading",
                     "ai_complete", "review_needed", "reviewed", "final"}

\* _ALLOWED_TRANSITIONS
AllowedTransitions ==
    [pending        |-> {"ocr_processing", "review_needed", "final"},
     ocr_processing |-> {"ocr_complete", "review_needed", "final"},
     ocr_complete   |-> {"ai_grading", "review_needed", "final"},
     ai_grading     |-> {"ai_complete", "review_needed"},
     ai_complete    |-> {"review_needed", "final"},
     review_needed  |-> {"pending", "reviewed"},
     reviewed       |-> {"final"},
     final          |-> {"pending"}]

\* What the pipeline makes of a job.
Results == {"final", "review_needed"}

=============================================================================
