------------------------- MODULE GradingPipelineProofs -------------------------
(***************************************************************************)
(* Theorems of GradingPipeline, for every number of attempts, every delay  *)
(* and timeout, and every threshold and reset time of the breaker.         *)
(***************************************************************************)
EXTENDS GradingPipeline, SequenceTheorems, TLAPS

-----------------------------------------------------------------------------
(* The breaker *)

\* The breaker, and what is remembered of the failures.
BreakerInv ==
    /\ breaker \in [failures : 0..Threshold, open : BOOLEAN, age : 0..ResetTime]
    /\ streak \in 0..Threshold
    /\ burst \in Nat
    /\ since \in 0..ResetTime
    /\ BreakerConsistent
    /\ BurstsAreBounded

LEMMA ClosedTyped ==
    /\ Closed \in [failures : 0..Threshold, open : BOOLEAN, age : 0..ResetTime]
    /\ Closed.failures = 0 /\ Closed.open = FALSE /\ Closed.age = 0
BY PipelineAssumption DEF Closed

\* A failure of a provider that was asked is counted, and the breaker opens when
\* there are enough of them.
LEMMA FailureRecorded ==
    ASSUME BreakerInv, inHand.phase = "ai", RecordFailure, inHand' = NoJob
    PROVE  BreakerInv'
<1>1. /\ breaker.open = FALSE
      /\ breaker.failures \in 0..Threshold /\ breaker.failures # Threshold
      /\ breaker.age \in 0..ResetTime
  BY DEF BreakerInv, BreakerConsistent
<1> DEFINE failures == breaker.failures + 1
           opens    == failures >= Threshold
<1>2. breaker' = [failures |-> failures, open |-> opens,
                  age |-> IF opens THEN 0 ELSE breaker.age]
  BY <1>1 DEF RecordFailure
<1>3. /\ failures \in 0..Threshold
      /\ opens <=> failures = Threshold
      /\ opens \in BOOLEAN
  BY <1>1, PipelineAssumption
<1>4. /\ breaker'.failures = failures
      /\ breaker'.open = opens
      /\ breaker'.age = IF opens THEN 0 ELSE breaker.age
  BY <1>2
<1>5. /\ streak' = AtMost(streak + 1, Threshold)
      /\ burst' = IF since = ResetTime THEN 1 ELSE burst + 1
      /\ since' = 0
  BY DEF RecordFailure
<1>6. /\ streak \in 0..Threshold /\ burst \in Nat
      /\ breaker.failures <= streak
      /\ burst <= breaker.failures \/ since = ResetTime
  BY DEF BreakerInv, BreakerConsistent
<1>7. 0 \in 0..ResetTime
  BY PipelineAssumption
<1>8. breaker' \in [failures : 0..Threshold, open : BOOLEAN, age : 0..ResetTime]
  BY <1>1, <1>2, <1>3, <1>7
<1> HIDE DEF failures, opens
<1>9. streak' \in 0..Threshold /\ burst' \in Nat /\ since' \in 0..ResetTime
  BY <1>5, <1>6, <1>7, PipelineAssumption DEF AtMost
<1>10. failures <= streak' /\ burst' <= failures
  BY <1>1, <1>3, <1>5, <1>6, PipelineAssumption DEF AtMost, failures
<1>11. burst' <= Threshold
  BY <1>3, <1>9, <1>10, PipelineAssumption
<1>12. inHand'.phase # "ai"
  BY DEF NoJob
<1> QED
  BY <1>3, <1>4, <1>5, <1>8, <1>9, <1>10, <1>11, <1>12
  DEF BreakerInv, BreakerConsistent, BurstsAreBounded

\* A success, like a restart, closes it.
LEMMA BreakerCleared ==
    ASSUME BreakerInv, breaker' = Closed, streak' = 0, burst' = 0, UNCHANGED since
    PROVE  BreakerInv'
BY ClosedTyped, PipelineAssumption
DEF BreakerInv, BreakerConsistent, BurstsAreBounded

\* Being asked, it closes when it has been open long enough, and the provider is
\* asked only if it is closed then.
LEMMA BreakerAnswers ==
    ASSUME BreakerInv, BreakerAsked, UNCHANGED <<streak, burst, since>>,
           IsOpen => inHand'.phase # "ai"
    PROVE  BreakerInv'
<1>1. CASE breaker.open /\ ~IsOpen
  <2>1. breaker' = Closed
    BY <1>1 DEF BreakerAsked
  <2>2. since = ResetTime
    <3>1. since = breaker.age /\ breaker.age \in 0..ResetTime /\ ~(breaker.age < ResetTime)
      BY <1>1 DEF IsOpen, BreakerInv, BreakerConsistent
    <3> QED
      BY <3>1, PipelineAssumption
  <2> QED
    BY <2>1, <2>2, ClosedTyped, PipelineAssumption
    DEF BreakerInv, BreakerConsistent, BurstsAreBounded
<1>2. CASE ~(breaker.open /\ ~IsOpen)
  <2>1. breaker' = breaker
    BY <1>2 DEF BreakerAsked
  <2> QED
    BY <1>2, <2>1 DEF BreakerInv, BreakerConsistent, BurstsAreBounded
<1> QED
  BY <1>1, <1>2

\* Time passes for the breaker as it does since the last failure.
LEMMA BreakerAges ==
    ASSUME BreakerInv, Tick
    PROVE  BreakerInv'
<1>1. /\ breaker \in [failures : 0..Threshold, open : BOOLEAN, age : 0..ResetTime]
      /\ since \in 0..ResetTime
      /\ breaker.open => since = breaker.age
  BY DEF BreakerInv, BreakerConsistent
<1>2. /\ AtMost(since + 1, ResetTime) \in 0..ResetTime
      /\ AtMost(breaker.age + 1, ResetTime) \in 0..ResetTime
      /\ since = ResetTime => AtMost(since + 1, ResetTime) = ResetTime
  BY <1>1, PipelineAssumption DEF AtMost
<1>3. /\ since' = AtMost(since + 1, ResetTime)
      /\ UNCHANGED <<inHand, streak, burst>>
  BY DEF Tick
<1>4. CASE breaker.open
  <2>1. breaker' = [breaker EXCEPT !.age = AtMost(breaker.age + 1, ResetTime)]
    BY <1>4 DEF Tick
  <2>2. /\ breaker' \in [failures : 0..Threshold, open : BOOLEAN, age : 0..ResetTime]
        /\ breaker'.failures = breaker.failures
        /\ breaker'.open = breaker.open
        /\ breaker'.age = AtMost(breaker.age + 1, ResetTime)
    BY <1>1, <1>2, <2>1
  <2>3. since' = breaker'.age
    BY <1>1, <1>3, <1>4, <2>2
  <2> QED
    BY <1>2, <1>3, <1>4, <2>2, <2>3 DEF BreakerInv, BreakerConsistent, BurstsAreBounded
<1>5. CASE ~breaker.open
  <2>1. breaker' = breaker
    BY <1>5 DEF Tick
  <2> QED
    BY <1>2, <1>3, <1>5, <2>1 DEF BreakerInv, BreakerConsistent, BurstsAreBounded
<1> QED
  BY <1>4, <1>5

\* Whatever the job does without the breaker, as long as it does not start to ask
\* the provider.
LEMMA BreakerLeftAlone ==
    ASSUME BreakerInv, Unasked, inHand'.phase # "ai" \/ inHand'.phase = inHand.phase
    PROVE  BreakerInv'
BY DEF BreakerInv, BreakerConsistent, BurstsAreBounded, Unasked

LEMMA BreakerStep ==
    ASSUME BreakerInv, [PipelineNext]_pipelineVars
    PROVE  BreakerInv'
<1>1. CASE StartOcr \/ OcrUnavailable \/ Retry \/ GiveUpOcr \/ CallAgain
  BY <1>1, BreakerLeftAlone
  DEF StartOcr, OcrUnavailable, Retry, GiveUpOcr, CallAgain, Answer, NoJob
<1>2. CASE OcrReturns
  <2>1. IsOpen => inHand'.phase # "ai"
    BY <1>2 DEF OcrReturns, Answer, NoJob
  <2> QED
    BY <1>2, <2>1, BreakerAnswers DEF OcrReturns
<1>3. CASE Confident \/ Doubtful
  BY <1>3, BreakerCleared DEF Confident, Doubtful, RecordSuccess
<1>4. CASE AiUnavailable \/ GiveUpAi
  BY <1>4, FailureRecorded DEF AiUnavailable, GiveUpAi, Answer, InTime
<1>5. CASE Tick
  BY <1>5, BreakerAges
<1>6. CASE RestartPipeline
  BY <1>6, BreakerCleared DEF RestartPipeline
<1>7. CASE UNCHANGED pipelineVars
  BY <1>7, BreakerLeftAlone DEF pipelineVars, Unasked
<1> QED
  BY <1>1, <1>2, <1>3, <1>4, <1>5, <1>6, <1>7 DEF PipelineNext, CallEnds

\* An ailing provider is asked about at most Threshold jobs before it is left
\* alone for the reset time, and the breaker opens only on that many consecutive
\* failures.
THEOREM BreakerIsSound == PipelineSpec => [](BurstsAreBounded /\ OpensOnStreak)
<1>1. PipelineInit => BreakerInv
  BY ClosedTyped, PipelineAssumption
  DEF PipelineInit, BreakerInv, BreakerConsistent, BurstsAreBounded, NoJob
<1>2. BreakerInv /\ [PipelineNext]_pipelineVars => BreakerInv'
  BY BreakerStep
<1>3. BreakerInv => BurstsAreBounded /\ OpensOnStreak
  BY PipelineAssumption DEF BreakerInv, BreakerConsistent, OpensOnStreak
<1> QED
  BY <1>1, <1>2, <1>3, PTL DEF PipelineSpec

-----------------------------------------------------------------------------
(* The call *)

\* The call in hand, and the job it is for.
CallInv ==
    /\ inHand \in [phase : {"idle", "ocr", "ai"}, text : {"none", "read", "failed"},
                keyed : BOOLEAN, ai : BOOLEAN]
    /\ call \in [state : {"none", "running", "backoff"}, attempt : 1..Attempts,
                 clock : Nat, delay : Nat]
    /\ CallsConsistent

LEMMA FreshCallTyped ==
    /\ NoJob \in [phase : {"idle", "ocr", "ai"}, text : {"none", "read", "failed"},
                  keyed : BOOLEAN, ai : BOOLEAN]
    /\ NoCall \in [state : {"none", "running", "backoff"}, attempt : 1..Attempts,
                   clock : Nat, delay : Nat]
    /\ FirstCall \in [state : {"none", "running", "backoff"}, attempt : 1..Attempts,
                      clock : Nat, delay : Nat]
    /\ NoJob.phase = "idle" /\ NoCall.state = "none" /\ FirstCall.state = "running"
BY PipelineAssumption DEF NoJob, NoCall, FirstCall

LEMMA CallStep ==
    ASSUME CallInv, [PipelineNext]_pipelineVars
    PROVE  CallInv'
<1>1. CASE OcrUnavailable \/ UNCHANGED pipelineVars
  BY <1>1 DEF OcrUnavailable, pipelineVars, CallInv, CallsConsistent
<1>2. CASE StartOcr
  BY <1>2, FreshCallTyped DEF StartOcr, CallInv, CallsConsistent
<1>3. CASE OcrReturns
  <2>1. CASE IsOpen \/ ~inHand.ai
    BY <1>3, <2>1, FreshCallTyped DEF OcrReturns, Answer, CallInv, CallsConsistent
  <2>2. CASE ~(IsOpen \/ ~inHand.ai)
    <3>1. PICK text \in {"read", "failed"} :
              /\ inHand' = [inHand EXCEPT !.phase = "ai", !.text = text]
              /\ call' = FirstCall
      BY <1>3, <2>2 DEF OcrReturns
    <3> QED
      BY <3>1, FreshCallTyped DEF CallInv, CallsConsistent
  <2> QED
    BY <2>1, <2>2
<1>4. CASE Confident \/ Doubtful \/ AiUnavailable \/ GiveUpOcr \/ GiveUpAi \/ RestartPipeline
  BY <1>4, FreshCallTyped
  DEF Confident, Doubtful, AiUnavailable, GiveUpOcr, GiveUpAi, RestartPipeline, Answer,
      CallInv, CallsConsistent
<1>5. CASE Retry
  <2>1. /\ inHand' = inHand
        /\ call' = [call EXCEPT !.state = "backoff", !.clock = call.delay,
                               !.delay = 2 * call.delay]
    BY <1>5 DEF Retry
  <2>2. 2 * call.delay \in Nat
    BY DEF CallInv
  <2>3. /\ call' \in [state : {"none", "running", "backoff"}, attempt : 1..Attempts,
                      clock : Nat, delay : Nat]
        /\ call'.state = "backoff" /\ call'.attempt = call.attempt
    BY <2>1, <2>2 DEF CallInv
  <2> QED
    BY <1>5, <2>1, <2>3 DEF Retry, CallInv, CallsConsistent
<1>6. CASE CallAgain
  <2>1. /\ inHand' = inHand
        /\ call' = [call EXCEPT !.state = "running", !.attempt = call.attempt + 1]
        /\ call.state = "backoff"
    BY <1>6 DEF CallAgain
  <2>2. call.attempt + 1 \in 1..Attempts
    BY <2>1, PipelineAssumption DEF CallInv, CallsConsistent
  <2>3. /\ call' \in [state : {"none", "running", "backoff"}, attempt : 1..Attempts,
                      clock : Nat, delay : Nat]
        /\ call'.state = "running"
    BY <2>1, <2>2 DEF CallInv
  <2> QED
    BY <2>1, <2>3 DEF CallInv, CallsConsistent
<1>7. CASE Tick
  <2>1. AtMost(call.clock + 1, Timeout + 1) \in Nat
    BY PipelineAssumption DEF CallInv, AtMost
  <2>2. inHand' = inHand
    BY <1>7 DEF Tick
  <2>3. CASE call.state = "running"
    <3>1. call' = [call EXCEPT !.clock = AtMost(call.clock + 1, Timeout + 1)]
      BY <1>7, <2>3 DEF Tick
    <3> QED
      BY <2>1, <2>2, <3>1 DEF CallInv, CallsConsistent
  <2>4. CASE call.state = "backoff" /\ call.clock > 0
    <3>1. call' = [call EXCEPT !.clock = call.clock - 1]
      BY <1>7, <2>4 DEF Tick
    <3>2. call.clock - 1 \in Nat
      BY <2>4 DEF CallInv
    <3> QED
      BY <2>2, <3>1, <3>2 DEF CallInv, CallsConsistent
  <2>5. CASE call.state # "running" /\ ~(call.state = "backoff" /\ call.clock > 0)
    <3>1. call' = call
      BY <1>7, <2>5 DEF Tick
    <3> QED
      BY <2>2, <3>1 DEF CallInv, CallsConsistent
  <2> QED
    BY <2>3, <2>4, <2>5
<1> QED
  BY <1>1, <1>2, <1>3, <1>4, <1>5, <1>6, <1>7 DEF PipelineNext, CallEnds

-----------------------------------------------------------------------------
(* The statuses of the job *)

\* Each status follows from the one before, and the last one is given.
Path(s, last) ==
    /\ s \in Seq(GradingJobStatus) /\ s # <<>>
    /\ \A i \in 1..(Len(s) - 1) : s[i + 1] \in AllowedTransitions[s[i]]
    /\ s[Len(s)] = last

LEMMA PathExtended ==
    ASSUME NEW s, NEW a, NEW b \in GradingJobStatus, Path(s, a), b \in AllowedTransitions[a]
    PROVE  Path(s \o <<b>>, b)
<1>1. /\ s \in Seq(GradingJobStatus) /\ Len(s) \in Nat \ {0}
      /\ \A i \in 1..(Len(s) - 1) : s[i + 1] \in AllowedTransitions[s[i]]
      /\ s[Len(s)] = a
  BY EmptySeq DEF Path
<1> DEFINE t == s \o <<b>>
<1>2. /\ t \in Seq(GradingJobStatus) /\ Len(t) = Len(s) + 1
      /\ \A i \in 1..Len(s) : t[i] = s[i]
      /\ t[Len(s) + 1] = b
  BY <1>1
<1> HIDE DEF t
<1>3. ASSUME NEW i \in 1..(Len(t) - 1)
      PROVE  t[i + 1] \in AllowedTransitions[t[i]]
  <2>1. CASE i = Len(s)
    BY <1>1, <1>2, <2>1
  <2>2. CASE i # Len(s)
    <3>1. i \in 1..(Len(s) - 1) /\ i \in 1..Len(s) /\ i + 1 \in 1..Len(s)
      BY <1>1, <1>2, <2>2
    <3> QED
      BY <1>1, <1>2, <3>1
  <2> QED
    BY <2>1, <2>2
<1>4. t # <<>> /\ t[Len(t)] = b
  BY <1>1, <1>2
<1>5. Path(t, b)
  BY <1>2, <1>3, <1>4 DEF Path
<1> QED
  BY <1>5 DEF t

\* Short sequences put together.
LEMMA ShortSequences ==
    ASSUME NEW b \in GradingJobStatus, NEW c \in GradingJobStatus, NEW d \in GradingJobStatus
    PROVE  /\ <<b>> \o <<c>> = <<b, c>>
           /\ <<b, c>> \o <<d>> = <<b, c, d>>
           /\ <<b>> \o <<c, d>> = <<b, c, d>>
<1>1. /\ <<b>> \in Seq(GradingJobStatus) /\ <<c>> \in Seq(GradingJobStatus)
      /\ <<d>> \in Seq(GradingJobStatus)
      /\ <<b, c>> \in Seq(GradingJobStatus) /\ <<c, d>> \in Seq(GradingJobStatus)
      /\ <<b, c, d>> \in Seq(GradingJobStatus)
  OBVIOUS
<1>2. <<b>> \o <<c>> = <<b, c>>
  <2>1. <<b>> \o <<c>> \in Seq(GradingJobStatus) /\ Len(<<b>> \o <<c>>) = 2
    BY <1>1, ConcatProperties
  <2>2. \A i \in 1..2 : (<<b>> \o <<c>>)[i] = <<b, c>>[i]
    BY <1>1, ConcatProperties
  <2> QED
    BY <1>1, <2>1, <2>2, SeqEqual
<1>3. <<b, c>> \o <<d>> = <<b, c, d>>
  <2>1. <<b, c>> \o <<d>> \in Seq(GradingJobStatus) /\ Len(<<b, c>> \o <<d>>) = 3
    BY <1>1, ConcatProperties
  <2>2. \A i \in 1..3 : (<<b, c>> \o <<d>>)[i] = <<b, c, d>>[i]
    BY <1>1, ConcatProperties
  <2> QED
    BY <1>1, <2>1, <2>2, SeqEqual
<1>4. <<b>> \o <<c, d>> = <<b, c, d>>
  <2>1. <<b>> \o <<c, d>> \in Seq(GradingJobStatus) /\ Len(<<b>> \o <<c, d>>) = 3
    BY <1>1, ConcatProperties
  <2>2. \A i \in 1..3 : (<<b>> \o <<c, d>>)[i] = <<b, c, d>>[i]
    BY <1>1, ConcatProperties
  <2> QED
    BY <1>1, <2>1, <2>2, SeqEqual
<1> QED
  BY <1>2, <1>3, <1>4

\* Two transitions at once, and three.
LEMMA PathExtendedTwice ==
    ASSUME NEW s, NEW a, NEW b \in GradingJobStatus, NEW c \in GradingJobStatus,
           Path(s, a), b \in AllowedTransitions[a], c \in AllowedTransitions[b]
    PROVE  Path(s \o <<b, c>>, c)
<1>1. Path((s \o <<b>>) \o <<c>>, c)
  BY PathExtended
<1>2. s \in Seq(GradingJobStatus) /\ <<b>> \in Seq(GradingJobStatus)
      /\ <<c>> \in Seq(GradingJobStatus)
  BY DEF Path
<1>3. (s \o <<b>>) \o <<c>> = s \o (<<b>> \o <<c>>)
  BY <1>2, ConcatAssociative
<1>4. <<b>> \o <<c>> = <<b, c>>
  BY ShortSequences
<1> QED
  BY <1>1, <1>3, <1>4

LEMMA PathExtendedThrice ==
    ASSUME NEW s, NEW a, NEW b \in GradingJobStatus, NEW c \in GradingJobStatus,
           NEW d \in GradingJobStatus, Path(s, a),
           b \in AllowedTransitions[a], c \in AllowedTransitions[b], d \in AllowedTransitions[c]
    PROVE  Path(s \o <<b, c, d>>, d)
<1>1. Path((s \o <<b, c>>) \o <<d>>, d)
  BY PathExtendedTwice, PathExtended
<1>2. s \in Seq(GradingJobStatus) /\ <<b, c>> \in Seq(GradingJobStatus)
      /\ <<d>> \in Seq(GradingJobStatus)
  BY DEF Path
<1>3. (s \o <<b, c>>) \o <<d>> = s \o (<<b, c>> \o <<d>>)
  BY <1>2, ConcatAssociative
<1>4. <<b, c>> \o <<d>> = <<b, c, d>>
  BY ShortSequences
<1> QED
  BY <1>1, <1>3, <1>4

\* The job in hand is where its phase says, and one that is answered ends in a
\* result.
StepsInv ==
    /\ inHand.phase = "ocr"  => Path(steps, "ocr_processing")
    /\ inHand.phase = "ai"   => Path(steps, "ai_grading")
    /\ inHand.phase = "idle" => steps = <<>> \/ \E last \in Results : Path(steps, last)

\* The transitions that process_grading_job makes.
LEMMA PipelineTransitions ==
    /\ {"pending", "ocr_processing", "ocr_complete", "ai_grading", "ai_complete",
        "review_needed", "final"} \subseteq GradingJobStatus
    /\ "ocr_processing" \in AllowedTransitions["pending"]
    /\ {"ocr_complete", "review_needed"} \subseteq AllowedTransitions["ocr_processing"]
    /\ "ai_grading" \in AllowedTransitions["ocr_complete"]
    /\ {"ai_complete", "review_needed"} \subseteq AllowedTransitions["ai_grading"]
    /\ {"review_needed", "final"} \subseteq AllowedTransitions["ai_complete"]
BY DEF GradingJobStatus, AllowedTransitions

LEMMA StartedPath ==
    /\ Path(<<"pending", "ocr_processing">>, "ocr_processing")
    /\ Path(<<"pending", "ocr_processing", "review_needed">>, "review_needed")
<1>1. Path(<<"pending">>, "pending")
  BY PipelineTransitions DEF Path
<1>2. /\ Path(<<"pending">> \o <<"ocr_processing">>, "ocr_processing")
      /\ Path(<<"pending">> \o <<"ocr_processing", "review_needed">>, "review_needed")
  <2>1. /\ "ocr_processing" \in AllowedTransitions["pending"] /\ "review_needed" \in AllowedTransitions["ocr_processing"]
        /\ "ocr_processing" \in GradingJobStatus /\ "review_needed" \in GradingJobStatus /\ "pending" \in GradingJobStatus
    BY PipelineTransitions
  <2>2. Path(<<"pending">> \o <<"ocr_processing">>, "ocr_processing")
    BY <1>1, <2>1, PathExtended
  <2>3. Path(<<"pending">> \o <<"ocr_processing", "review_needed">>, "review_needed")
    BY <1>1, <2>1, PathExtendedTwice
  <2>. QED
    BY <2>2, <2>3
<1>3. /\ <<"pending">> \o <<"ocr_processing">> = <<"pending", "ocr_processing">>
      /\ <<"pending">> \o <<"ocr_processing", "review_needed">>
             = <<"pending", "ocr_processing", "review_needed">>
  <2>1. "pending" \in GradingJobStatus /\ "ocr_processing" \in GradingJobStatus /\ "review_needed" \in GradingJobStatus
    BY DEF GradingJobStatus
  <2>2. \A b, c, d \in GradingJobStatus : <<b>> \o <<c>> = <<b, c>> /\ <<b>> \o <<c, d>> = <<b, c, d>>
    BY ShortSequences
  <2>. QED
    BY <2>1, <2>2, Zenon
<1> QED
  BY <1>2, <1>3

LEMMA StepsStep ==
    ASSUME CallInv, StepsInv, [PipelineNext]_pipelineVars
    PROVE  StepsInv'
<1> USE DEF StepsInv
<1>1. CASE StartOcr
  BY <1>1, StartedPath DEF StartOcr
<1>2. CASE OcrUnavailable
  BY <1>2, StartedPath DEF OcrUnavailable, Results, CallInv
<1>3. CASE OcrReturns
  <2>1. inHand.phase = "ocr" /\ Path(steps, "ocr_processing")
    BY <1>3 DEF OcrReturns, InTime
  <2>2. CASE IsOpen \/ ~inHand.ai
    <3>1. /\ steps' = steps \o <<"ocr_complete", "ai_grading", "review_needed">>
          /\ inHand'.phase = "idle"
      BY <1>3, <2>2 DEF OcrReturns, Answer, NoJob
    <3>2. Path(steps', "review_needed")
      BY <2>1, <3>1, PathExtendedThrice, PipelineTransitions
    <3> QED
      BY <3>1, <3>2 DEF Results
  <2>3. CASE ~(IsOpen \/ ~inHand.ai)
    <3>1. /\ steps' = steps \o <<"ocr_complete", "ai_grading">>
          /\ inHand'.phase = "ai"
      BY <1>3, <2>3 DEF OcrReturns, CallInv
    <3>2. Path(steps', "ai_grading")
      BY <2>1, <3>1, PathExtendedTwice, PipelineTransitions
    <3> QED
      BY <3>1, <3>2
  <2> QED
    BY <2>2, <2>3
<1>4. CASE Confident
  <2>1. /\ Path(steps, "ai_grading")
        /\ steps' = steps \o <<"ai_complete", "final">>
        /\ inHand'.phase = "idle"
    BY <1>4 DEF Confident, InTime, Answer, NoJob
  <2>2. Path(steps', "final")
    BY <2>1, PathExtendedTwice, PipelineTransitions
  <2> QED
    BY <2>1, <2>2 DEF Results
<1>5. CASE Doubtful
  <2>1. /\ Path(steps, "ai_grading")
        /\ steps' = steps \o <<"ai_complete", "review_needed">>
        /\ inHand'.phase = "idle"
    BY <1>5 DEF Doubtful, InTime, Answer, NoJob
  <2>2. Path(steps', "review_needed")
    BY <2>1, PathExtendedTwice, PipelineTransitions
  <2> QED
    BY <2>1, <2>2 DEF Results
<1>6. CASE AiUnavailable \/ GiveUpAi \/ GiveUpOcr
  <2>1. /\ Path(steps, "ai_grading") \/ Path(steps, "ocr_processing")
        /\ steps' = steps \o <<"review_needed">>
        /\ inHand'.phase = "idle"
    BY <1>6 DEF AiUnavailable, GiveUpAi, GiveUpOcr, InTime, Answer, NoJob
  <2>2. Path(steps', "review_needed")
    BY <2>1, PathExtended, PipelineTransitions
  <2> QED
    BY <2>1, <2>2 DEF Results
<1>7. CASE RestartPipeline
  BY <1>7 DEF RestartPipeline, NoJob
<1>8. CASE Retry \/ CallAgain \/ Tick \/ UNCHANGED pipelineVars
  BY <1>8 DEF Retry, CallAgain, Tick, pipelineVars
<1> QED
  BY <1>1, <1>2, <1>3, <1>4, <1>5, <1>6, <1>7, <1>8 DEF PipelineNext, CallEnds

\* What has been proved of the breaker, of the call and of the job holds
\* together.
LEMMA PipelineInvariant == PipelineSpec => [](BreakerInv /\ CallInv /\ StepsInv)
<1>1. PipelineInit => BreakerInv /\ CallInv /\ StepsInv
  BY ClosedTyped, FreshCallTyped, PipelineAssumption
  DEF PipelineInit, BreakerInv, BreakerConsistent, BurstsAreBounded, CallInv,
      CallsConsistent, StepsInv, NoJob
<1>2. BreakerInv /\ CallInv /\ StepsInv /\ [PipelineNext]_pipelineVars
          => (BreakerInv /\ CallInv /\ StepsInv)'
  BY BreakerStep, CallStep, StepsStep
<1> QED
  BY <1>1, <1>2, PTL DEF PipelineSpec

\* What the worker holds has its type, whatever the settings are.
THEOREM PipelineTypeCorrect == PipelineSpec => []PipelineTypeOK
<1>1. BreakerInv /\ CallInv /\ StepsInv => PipelineTypeOK
  <2> SUFFICES ASSUME BreakerInv, CallInv, StepsInv
               PROVE  PipelineTypeOK
    OBVIOUS
  <2>1. steps \in Seq(GradingJobStatus)
    <3>1. inHand.phase = "idle" \/ inHand.phase = "ocr" \/ inHand.phase = "ai"
      BY DEF CallInv
    <3>2. <<>> \in Seq(GradingJobStatus)
      OBVIOUS
    <3> QED
      BY <3>1, <3>2 DEF StepsInv, Path
  <2> QED
    BY <2>1 DEF PipelineTypeOK, BreakerInv, CallInv
<1> QED
  BY <1>1, PipelineInvariant, PTL

\* process_grading_job makes only transitions that transition_job allows, and
\* ends with a result, whatever fails.
THEOREM PipelineIsLegal == PipelineSpec => []LegalSteps
<1>1. CallInv /\ StepsInv => LegalSteps
  BY SMTT(30) DEF CallInv, StepsInv, LegalSteps, Path
<1> QED
  BY <1>1, PipelineInvariant, PTL

=============================================================================
