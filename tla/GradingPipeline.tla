--------------------------- MODULE GradingPipeline ---------------------------
(***************************************************************************)
(* process_grading_job (services/grading_worker.py), which the grading     *)
(* worker runs between LoadJob and CommitResult of Grading: OCR, then the  *)
(* AI provider, each called with a timeout and retried with exponential    *)
(* backoff, and the circuit breaker that outlives the job                  *)
(* (services/grading_pipeline.py).  The jobs come one at a time from a     *)
(* single thread, and nobody else uses the breaker.                        *)
(*                                                                         *)
(* Time passes by Tick in whole units: a delay counts down to 0, and ages  *)
(* and durations stop growing at the bound they are compared with.         *)
(***************************************************************************)
EXTENDS GradingStatus, Naturals, Sequences

CONSTANTS
    Attempts,   \* grading_retry_attempts, at least 1
    Backoff,    \* grading_retry_backoff_seconds
    Timeout,    \* ocr_request_timeout_seconds, grading_request_timeout_seconds
    Threshold,  \* ai_circuit_breaker_threshold
    ResetTime   \* ai_circuit_breaker_reset_seconds

ASSUME PipelineAssumption ==
    /\ Attempts \in Nat \ {0}
    /\ Backoff \in Nat
    /\ Timeout \in Nat
    /\ Threshold \in Nat \ {0}
    /\ ResetTime \in Nat \ {0}

VARIABLES
    inHand,   \* the job in hand: [phase, text, keyed, ai]
    steps,    \* the statuses it has gone through, the last one its status
    call,     \* the call of the phase: [state, attempt, clock, delay]
    breaker,  \* ai_circuit_breaker: [failures, open, age]
    streak,   \* history: AI failures since the last success, up to Threshold
    burst,    \* history: those of them each within ResetTime of the one before
    since     \* history: time since the last AI failure, up to ResetTime

pipelineVars == <<inHand, steps, call, breaker, streak, burst, since>>

NoJob   == [phase |-> "idle", text |-> "none", keyed |-> FALSE, ai |-> FALSE]
NoCall  == [state |-> "none", attempt |-> 1, clock |-> 0, delay |-> Backoff]
Closed  == [failures |-> 0, open |-> FALSE, age |-> 0]
FirstCall == [NoCall EXCEPT !.state = "running"]

PipelineInit ==
    /\ inHand = NoJob
    /\ steps = <<>>
    /\ call = NoCall
    /\ breaker = Closed
    /\ streak = 0 /\ burst = 0 /\ since = ResetTime

AtMost(n, bound) == IF n > bound THEN bound ELSE n

-----------------------------------------------------------------------------
(* The circuit breaker *)

\* is_open: a breaker that has been open for the reset time is closed afresh.
IsOpen       == breaker.open /\ breaker.age < ResetTime
BreakerAsked == breaker' = IF breaker.open /\ ~IsOpen THEN Closed ELSE breaker

\* Mutant: the breaker opens one failure too late.
RecordFailureLate ==
    /\ breaker' = [breaker EXCEPT !.failures = @ + 1,
                                  !.open = @ \/ breaker.failures >= Threshold,
                                  !.age  = IF breaker.failures >= Threshold THEN 0 ELSE @]
    /\ streak' = AtMost(streak + 1, Threshold)
    /\ burst'  = IF since = ResetTime THEN 1 ELSE burst + 1
    /\ since'  = 0

RecordFailure ==
    LET failures == breaker.failures + 1
        opens    == failures >= Threshold
    IN  /\ breaker' = [failures |-> failures,
                       open |-> breaker.open \/ opens,
                       age  |-> IF opens THEN 0 ELSE breaker.age]
        /\ streak' = AtMost(streak + 1, Threshold)
        /\ burst'  = IF since = ResetTime THEN 1 ELSE burst + 1
        /\ since'  = 0

RecordSuccess ==
    /\ breaker' = Closed
    /\ streak' = 0 /\ burst' = 0
    /\ UNCHANGED since

Unasked == UNCHANGED <<breaker, streak, burst, since>>

-----------------------------------------------------------------------------
(* The job *)

\* The job is answered, after the given transitions.
Answer(path) ==
    /\ steps' = steps \o path
    /\ inHand' = NoJob
    /\ call' = NoCall

\* The capabilities are looked up once, before OCR, and the assignment has an
\* answer key or not.
StartOcr ==
    /\ inHand.phase = "idle"
    /\ \E ai, keyed \in BOOLEAN :
        inHand' = [phase |-> "ocr", text |-> "none", keyed |-> keyed, ai |-> ai]
    /\ steps' = <<"pending", "ocr_processing">>
    /\ call' = FirstCall
    /\ Unasked

OcrUnavailable ==
    /\ inHand.phase = "idle"
    /\ steps' = <<"pending", "ocr_processing", "review_needed">>
    /\ UNCHANGED <<inHand, call>>
    /\ Unasked

\* The call answers in time.
InTime(phase) ==
    /\ inHand.phase = phase
    /\ call.state = "running"
    /\ call.clock <= Timeout

\* extract_text returns a text, which is empty when OCR has failed: it raises
\* nothing.
OcrReturns ==
    /\ InTime("ocr")
    /\ \E text \in {"read", "failed"} :
        IF IsOpen \/ ~inHand.ai
        THEN Answer(<<"ocr_complete", "ai_grading", "review_needed">>)
        ELSE /\ steps' = steps \o <<"ocr_complete", "ai_grading">>
             /\ inHand' = [inHand EXCEPT !.phase = "ai", !.text = text]
             /\ call' = FirstCall
    /\ BreakerAsked
    /\ UNCHANGED <<streak, burst, since>>

\* Nothing in an empty text matches the answer key, and the confidence in the
\* result is then below the threshold.
Confident ==
    /\ InTime("ai")
    /\ ~(inHand.keyed /\ inHand.text = "failed")
    /\ RecordSuccess
    /\ Answer(<<"ai_complete", "final">>)

Doubtful ==
    /\ InTime("ai")
    /\ RecordSuccess
    /\ Answer(<<"ai_complete", "review_needed">>)

\* The provider answers that it is unavailable: this is not retried.
AiUnavailable ==
    /\ InTime("ai")
    /\ RecordFailure
    /\ Answer(<<"review_needed">>)

\* The call raises, or what it returns comes after the timeout: the executor
\* waits for it all the same, and only then raises TimeoutError.
Retry ==
    /\ call.state = "running"
    /\ call.attempt < Attempts
    /\ call' = [call EXCEPT !.state = "backoff", !.clock = call.delay, !.delay = 2 * @]
    /\ UNCHANGED <<inHand, steps>>
    /\ Unasked

GiveUpOcr ==
    /\ inHand.phase = "ocr"
    /\ call.state = "running"
    /\ call.attempt = Attempts
    /\ Answer(<<"review_needed">>)
    /\ Unasked

GiveUpAi ==
    /\ inHand.phase = "ai"
    /\ call.state = "running"
    /\ call.attempt = Attempts
    /\ RecordFailure
    /\ Answer(<<"review_needed">>)

\* Mutant: every retry is set up as a first call.
CallAgainAfresh ==
    /\ call.state = "backoff"
    /\ call.clock = 0
    /\ call' = FirstCall
    /\ UNCHANGED <<inHand, steps>>
    /\ Unasked

\* The delay is over.
CallAgain ==
    /\ call.state = "backoff"
    /\ call.clock = 0
    /\ call' = [call EXCEPT !.state = "running", !.attempt = @ + 1]
    /\ UNCHANGED <<inHand, steps>>
    /\ Unasked

-----------------------------------------------------------------------------

Tick ==
    /\ call' = CASE call.state = "running" -> [call EXCEPT !.clock = AtMost(@ + 1, Timeout + 1)]
                 [] call.state = "backoff" /\ call.clock > 0 -> [call EXCEPT !.clock = @ - 1]
                 [] OTHER -> call
    /\ breaker' = IF breaker.open THEN [breaker EXCEPT !.age = AtMost(@ + 1, ResetTime)]
                                  ELSE breaker
    /\ since' = AtMost(since + 1, ResetTime)
    /\ UNCHANGED <<inHand, steps, streak, burst>>

\* The process is restarted: the job and the breaker are lost.
RestartPipeline ==
    /\ inHand' = NoJob
    /\ call' = NoCall
    /\ steps' = <<>>
    /\ breaker' = Closed
    /\ streak' = 0 /\ burst' = 0
    /\ UNCHANGED since

\* A running call ends, in one way or another.
CallEnds == \/ OcrReturns \/ Confident \/ Doubtful \/ AiUnavailable
            \/ Retry \/ GiveUpOcr \/ GiveUpAi

PipelineNext ==
    \/ StartOcr \/ OcrUnavailable
    \/ CallEnds
    \/ CallAgain
    \/ Tick
    \/ RestartPipeline

PipelineSpec == PipelineInit /\ [][PipelineNext]_pipelineVars

\* Time passes, and the thread wakes up after a delay.
TimedSpec == PipelineSpec /\ WF_pipelineVars(Tick) /\ WF_pipelineVars(CallAgain)

\* Moreover Tesseract and the provider end every call some time.
FairPipelineSpec == TimedSpec /\ WF_pipelineVars(CallEnds)

-----------------------------------------------------------------------------
(* Properties *)

\* What the worker holds has its type: an attempt is never beyond the last.
PipelineTypeOK ==
    /\ inHand \in [phase : {"idle", "ocr", "ai"}, text : {"none", "read", "failed"},
                   keyed : BOOLEAN, ai : BOOLEAN]
    /\ steps \in Seq(GradingJobStatus)
    /\ call \in [state : {"none", "running", "backoff"}, attempt : 1..Attempts,
                 clock : Nat, delay : Nat]
    /\ breaker \in [failures : 0..Threshold, open : BOOLEAN, age : 0..ResetTime]
    /\ streak \in 0..Threshold
    /\ burst \in Nat
    /\ since \in 0..ResetTime

\* Whatever fails, and in whatever order, each transition is one that
\* transition_job allows: process_grading_job never raises, and what it answers
\* is a result that the worker can store.
LegalSteps ==
    /\ \A i \in 1..(Len(steps) - 1) : steps[i + 1] \in AllowedTransitions[steps[i]]
    /\ inHand.phase = "idle" /\ steps # <<>> => steps[Len(steps)] \in Results

\* The breaker does its work: an ailing provider is asked about at most
\* Threshold jobs before it is left in peace for ResetTime, even when the
\* failures are spread over many jobs and the breaker closes and opens again.
BurstsAreBounded == burst <= Threshold

\* The breaker raises no false alarm: it opens on Threshold consecutive AI
\* failures, with no success in between (docs/admin-guide.md,
\* AI_CIRCUIT_BREAKER_THRESHOLD).
OpensOnStreak == breaker.open => streak = Threshold

\* Every job gets an answer, when every call ends some time.
EveryJobIsAnswered == inHand.phase # "idle" ~> inHand.phase = "idle"

\* Work whose OCR has failed is not graded without a human (docs/admin-guide.md,
\* "OCR failure ... routes work to human review").
OcrFailureIsReviewed ==
    [][inHand.text = "failed" => steps' # steps \o <<"ai_complete", "final">>]_pipelineVars

\* A call that has outlived its timeout is abandoned (docs/admin-guide.md,
\* OCR_REQUEST_TIMEOUT_SECONDS).
OverdueCallIsAbandoned ==
    call.state = "running" /\ call.clock > Timeout ~> call.state # "running"

-----------------------------------------------------------------------------
(* What makes the safety properties inductive (GradingPipelineProofs) *)

\* A call belongs to a job, and one that will be retried is not the last.
CallsConsistent ==
    /\ inHand.phase = "idle" <=> call.state = "none"
    /\ call.state = "backoff" => call.attempt < Attempts

\* The breaker counts what has failed since it was last closed: an open one has
\* counted Threshold failures, the last of them when it opened, and is asked
\* before the provider is.
BreakerConsistent ==
    /\ breaker.open <=> breaker.failures = Threshold
    /\ breaker.failures <= streak
    /\ burst <= breaker.failures \/ since = ResetTime
    /\ breaker.open => inHand.phase # "ai" /\ since = breaker.age

=============================================================================
