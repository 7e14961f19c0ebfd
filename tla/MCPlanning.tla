----------------------------- MODULE MCPlanning -----------------------------
(***************************************************************************)
(* Small instances, in one run, of parts that share no state: the grading  *)
(* pipeline, the versions of the submissions, and the family's records and *)
(* plans.  part says which one is at work.  The modules extended here have *)
(* their own variables, and s1, s2, ... are those of the others.  TLC      *)
(* visits the sum of the state spaces.                                     *)
(***************************************************************************)
EXTENDS GradingPipeline, Grading, Calendar, LessonPlans, ReadCache, Schedule, TLC

CONSTANTS
    LastDay, DaysInWeek, Hours, Entries, Calendars, RequiredDays, Writers,   \* Attendance
    Count, Categories, Marks, Lists,                                         \* Gradebook
    Subjects, Titles, Files, Scores, RestoredDates, HourCounts, Choices,     \* PackageRestore
    MaxRows, MaxEdits

VARIABLES
    part,
    s1, s2, s3, s4, s5

partVars     == <<s1, s2, s3, s4, s5>>
planningVars == <<part, pipelineVars, vars, calendarVars, lessonPlansVars, readCacheVars, scheduleVars, partVars>>

Attended == INSTANCE Attendance WITH WeekLength <- DaysInWeek, calendar <- s1, day <- s2, log <- s3

Marked == INSTANCE Gradebook WITH category <- s1, mark <- s2, saved <- s3, mode <- s4, order <- s5

Restored == INSTANCE PackageRestore WITH
    Dates <- RestoredDates, Hours <- HourCounts,
    rows <- s1, package <- s2, previous <- s3, edits <- s4

ASSUME DatedAssumption     == CalendarAssumption
ASSUME CachedAssumption    == ReadCacheAssumption
ASSUME ScheduledAssumption == ScheduleAssumption
ASSUME AttendedAssumption  == Attended!AttendanceAssumption
ASSUME MarkedAssumption    == Marked!GradebookAssumption
ASSUME PlannedAssumption   == LessonPlansAssumption
ASSUME RestoredAssumption  == Restored!PackageRestoreAssumption

PlanningInit ==
    /\ part \in {"pipeline", "submissions", "calendar", "cache", "schedule",
                "attendance", "gradebook", "lessons", "packages"}
    /\ PipelineInit /\ Init /\ CalendarInit /\ LessonPlansInit /\ ReadCacheInit /\ ScheduleInit
    /\ CASE part = "attendance" -> Attended!AttendanceInit /\ s4 = "unused" /\ s5 = "unused"
         [] part = "gradebook" -> Marked!GradebookInit
         [] part = "packages" -> Restored!PackageRestoreInit /\ s5 = "unused"
         [] OTHER -> s1 = "unused" /\ s2 = "unused" /\ s3 = "unused" /\ s4 = "unused" /\ s5 = "unused"

Plans  == <<calendarVars, lessonPlansVars, readCacheVars, scheduleVars>>
Others == UNCHANGED <<part, pipelineVars, vars, Plans>>

PlanningNext ==
    \/ part = "pipeline" /\ PipelineNext /\ UNCHANGED <<part, vars, Plans, partVars>>
    \/ part = "submissions" /\ Next /\ UNCHANGED <<part, pipelineVars, Plans, partVars>>
    \/ /\ UNCHANGED <<part, pipelineVars, vars, partVars>>
       /\ \/ part = "calendar" /\ CalendarNext /\ UNCHANGED <<lessonPlansVars, readCacheVars, scheduleVars>>
          \/ part = "lessons" /\ LessonPlansNext /\ UNCHANGED <<calendarVars, readCacheVars, scheduleVars>>
          \/ part = "cache" /\ ReadCacheNext /\ UNCHANGED <<calendarVars, lessonPlansVars, scheduleVars>>
          \/ part = "schedule" /\ ScheduleNext /\ UNCHANGED <<calendarVars, lessonPlansVars, readCacheVars>>
    \/ part = "attendance" /\ Attended!AttendanceNext /\ UNCHANGED <<s4, s5>> /\ Others
    \/ part = "gradebook" /\ Marked!GradebookNext /\ Others
    \/ part = "packages" /\ Restored!PackageRestoreNext /\ UNCHANGED s5 /\ Others

\* The fairness of the pipeline's FairPipelineSpec, where the pipeline is at work.
PlanningSpec ==
    /\ PlanningInit /\ [][PlanningNext]_planningVars
    /\ WF_pipelineVars(part = "pipeline" /\ Tick)
    /\ WF_pipelineVars(part = "pipeline" /\ CallAgain)
    /\ WF_pipelineVars(part = "pipeline" /\ CallEnds)

-----------------------------------------------------------------------------
(* The properties of the parts, each where it is stated.  Those of the    *)
(* modules that this one extends hold where they rest, and keep their      *)
(* names.                                                                  *)

SummaryAddsUp == part = "attendance" => Attended!SummaryAddsUp
HoursAreKept  == [][part = "attendance" => Attended!KeepsHours]_planningVars

AveragesAreFair == part = "gradebook" => Marked!AveragesAreFair

RestoredIsThere     == part = "packages" => Restored!RestoredIsThere
SecondRestoreIsIdle == [][part = "packages" => Restored!SecondRestoreIsIdle]_planningVars

-----------------------------------------------------------------------------
(* Values for the constants. *)

SomeEntries ==
    {[school |-> 0, hours |-> -2], [school |-> -2, hours |-> -1], [school |-> 1, hours |-> 2]}

\* Two terms, a second year that overlaps the first, and no term at all.
SomeCalendars ==
    LET first  == [first |-> 1, last |-> 2, active |-> TRUE, terms |-> <<[first |-> 1, last |-> 1]>>]
        whole  == [first |-> 1, last |-> 2, active |-> TRUE,
                   terms |-> <<[first |-> 1, last |-> 2], [first |-> 2, last |-> 2]>>]
        second == [first |-> 2, last |-> 3, active |-> FALSE, terms |-> << >>]
    IN  {{first}, {whole, second}}

\* 50, 90 and 60 percent, the last of a large assignment.
SomeMarks == {[score |-> 5, max |-> 10], [score |-> 9, max |-> 10], [score |-> 24, max |-> 40]}

SomeLists ==
    {{[name |-> "homework", weight |-> 6000, drop |-> 1], [name |-> "quiz", weight |-> 4000, drop |-> 0]},
     {[name |-> "quiz", weight |-> 10000, drop |-> 2]}}

OneYear  == {[first |-> 1, last |-> 1]}
TwoSlots == {[from |-> 0, to |-> 1], [from |-> 1, to |-> 2]}

SomeChoices == {{"grades"}, {"submissions"}, {"attendance"}}

UnitsOf == [l \in Lessons |-> IF l = "l3" THEN "u2" ELSE "u1"]
=============================================================================
