---------------------------- MODULE LessonPlans -----------------------------
(***************************************************************************)
(* Lesson plans, pacing targets and the assignments made from the plans    *)
(* (backend/routers/lesson_plans.py), with the handlers of                 *)
(* backend/routers/curriculum.py that add and delete lessons and units.    *)
(* Each handler is one action: its plans are saved, the pacing targets it  *)
(* touches are refreshed, and it commits.  A plan is known by its student  *)
(* and lesson and a target by its student and unit, which are unique.  The *)
(* statuses planned, in_progress and rescheduled are one, unfinished; the  *)
(* dates of plans and targets are left out of the state.                   *)
(***************************************************************************)
EXTENDS Integers, FiniteSets

CONSTANTS
    Learners,  \* the students
    Lessons,   \* bound: the lessons there may be
    UnitOf,    \* lesson -> its unit; the units are of one package
    MaxDays    \* bound: the length of a pacing window

Units == {UnitOf[l] : l \in Lessons}

\* What the constants must satisfy; assumed by the modules that give them values.
LessonPlansAssumption == DOMAIN UnitOf = Lessons /\ MaxDays \in Nat

VARIABLES
    lessons,   \* the curriculum lessons
    units,     \* the curriculum units
    plan,      \* <<student, lesson>> -> status
    assigned,  \* plans with a generated assignment
    pacing,    \* <<student, unit>> -> it has an actual completion date
    stale      \* history: targets not refreshed, or misjudged, since what they depend on changed

lessonPlansVars == <<lessons, units, plan, assigned, pacing, stale>>

finished == {"completed", "skipped"}
Statuses == finished \cup {"unfinished"}

\* No other plan of the student for the lesson, no other target for the unit.
Unique(table, key, own) == key \notin DOMAIN table \ own

WithRow(table, key, value) == [k \in DOMAIN table \cup {key} |-> IF k = key THEN value ELSE table[k]]
Rest(table, gone)      == [k \in DOMAIN table \ gone |-> table[k]]

LessonPlansInit ==
    /\ lessons = {} /\ units = {}
    /\ plan = << >> /\ assigned = {} /\ pacing = << >> /\ stale = {}

InUnit(u) == {l \in lessons : UnitOf[l] = u}

-----------------------------------------------------------------------------
(* _refresh_pacing_targets *)

\* A unit is done when it has lessons and each has a finished plan.  Which unit a
\* plan counts for is what its object says, seen[k]: after an update that gave the
\* plan another lesson, the object still has the lesson of before.
Done(plans, seen, s, u, total) ==
    LET counted == {k \in DOMAIN plans : k[1] = s /\ seen[k] = u}
    IN  /\ total > 0 /\ Cardinality(counted) = total
        /\ \A k \in counted : plans[k] \in finished

UnitOfPlan(k) == UnitOf[k[2]]

Seen(plans) == [k \in DOMAIN plans |-> UnitOfPlan(k)]

\* The targets of some students and units, looked at over plans.
Refreshed(table, plans, seen, students, among) ==
    [k \in DOMAIN table |->
        IF k[1] \in students /\ k[2] \in among
        THEN LET looked == [p \in {q \in DOMAIN plans : UnitOfPlan(q) \in among} |-> plans[p]]
             IN  Done(looked, seen, k[1], k[2], Cardinality(InUnit(k[2])))
        ELSE table[k]]

\* The plans change to plans, and the targets of a student and some units follow.
Saves(plans, students, among) ==
    /\ plan'   = plans
    /\ pacing' = Refreshed(pacing, plans, Seen(plans), students, among)
    /\ stale'  = stale \ (students \X among)

-----------------------------------------------------------------------------
(* Lesson plans. *)

CreatePlan(s, l, status) ==
    /\ l \in lessons /\ Unique(plan, <<s, l>>, {})
    /\ Saves(WithRow(plan, <<s, l>>, status), {s}, {UnitOf[l]})
    /\ UNCHANGED <<lessons, units, assigned>>

\* update_lesson_plan: a plan may be given another lesson and another student.
UpdatePlan(s, l, t, m, status) ==
    LET among == {UnitOf[l], UnitOf[m]}
        plans == WithRow(Rest(plan, {<<s, l>>}), <<t, m>>, status)
        seen  == [Seen(plans) EXCEPT ![<<t, m>>] = UnitOf[l]]
    IN  /\ <<s, l>> \in DOMAIN plan /\ m \in lessons
        /\ Unique(plan, <<t, m>>, {<<s, l>>})
        /\ plan' = plans
        /\ assigned' = IF <<s, l>> \in assigned THEN (assigned \ {<<s, l>>}) \cup {<<t, m>>} ELSE assigned
        /\ pacing' = Refreshed(pacing, plans, seen, {s, t}, among)
        /\ stale' = IF UnitOf[l] = UnitOf[m] THEN stale \ ({s, t} \X among)
                    ELSE stale \cup (DOMAIN pacing \cap ({s, t} \X among))
        /\ UNCHANGED <<lessons, units>>

\* Mutant: the targets are not refreshed.
DeletePlanQuietly(s, l) ==
    /\ <<s, l>> \in DOMAIN plan
    /\ plan' = Rest(plan, {<<s, l>>})
    /\ assigned' = assigned \ {<<s, l>>}
    /\ UNCHANGED <<lessons, units, pacing, stale>>

DeletePlan(s, l) ==
    /\ <<s, l>> \in DOMAIN plan
    /\ assigned' = assigned \ {<<s, l>>}
    /\ Saves(Rest(plan, {<<s, l>>}), {s}, {UnitOf[l]})
    /\ UNCHANGED <<lessons, units>>

\* bulk_update_lesson_plan_status
UpdateStatuses(plans, status) ==
    /\ plans # {} /\ plans \subseteq DOMAIN plan
    /\ LET students == {k[1] : k \in plans}
           after == [k \in DOMAIN plan |-> IF k \in plans THEN status ELSE plan[k]]
           touched == {<<k[1], UnitOfPlan(k)>> : k \in plans}
       IN  /\ plan'   = after
           /\ pacing' = [k \in DOMAIN pacing |->
                            IF k \in touched
                            THEN Done(after, Seen(after), k[1], k[2], Cardinality(InUnit(k[2])))
                            ELSE pacing[k]]
           /\ stale'  = stale \ touched
    /\ UNCHANGED <<lessons, units, assigned>>

\* generate_lesson_plans, when the student's schedule has room for every lesson:
\* plans that are there must be given up, and none may have an assignment.
GeneratePlans(s, overwrite) ==
    LET existing == {k \in DOMAIN plan : k[1] = s}
        among    == {UnitOf[l] : l \in lessons}
        fresh    == [k \in {s} \X lessons |-> "unfinished"]
        plans    == [k \in (DOMAIN plan \ existing) \cup DOMAIN fresh |->
                        IF k \in DOMAIN fresh THEN fresh[k] ELSE plan[k]]
        targets  == [k \in DOMAIN pacing \cup ({s} \X among) |->
                        IF k \in DOMAIN pacing THEN pacing[k] ELSE FALSE]
    IN  /\ lessons # {}
        /\ existing # {} => overwrite
        /\ existing \cap assigned = {}
        /\ plan'   = plans
        /\ pacing' = Refreshed(targets, plans, Seen(plans), {s}, among)
        /\ stale'  = stale \ ({s} \X among)
        /\ UNCHANGED <<lessons, units, assigned>>

\* generate_assignments_from_lesson_plans: a plan that has one gets no second.
GenerateAssignments(plans) ==
    /\ plans # {} /\ plans \subseteq DOMAIN plan
    /\ assigned' = assigned \cup plans
    /\ UNCHANGED <<lessons, units, plan, pacing, stale>>

-----------------------------------------------------------------------------
(* Pacing targets. *)

CreateTarget(s, u) ==
    /\ u \in units /\ Unique(pacing, <<s, u>>, {})
    /\ pacing' = Refreshed(WithRow(pacing, <<s, u>>, FALSE), plan, Seen(plan), {s}, {u})
    /\ UNCHANGED <<lessons, units, plan, assigned, stale>>

\* update_pacing_target: a target that is given another unit is compared with the
\* lessons of the one before, which its object still has.
UpdateTarget(s, u, t, v) ==
    /\ <<s, u>> \in DOMAIN pacing /\ v \in units
    /\ Unique(pacing, <<t, v>>, {<<s, u>>})
    /\ pacing' = WithRow(Rest(pacing, {<<s, u>>}), <<t, v>>,
                     Done(plan, Seen(plan), t, v, Cardinality(InUnit(u))))
    /\ stale' = (stale \ {<<s, u>>, <<t, v>>}) \cup (IF u = v THEN {} ELSE {<<t, v>>})
    /\ UNCHANGED <<lessons, units, plan, assigned>>

DeleteTarget(s, u) ==
    /\ <<s, u>> \in DOMAIN pacing
    /\ pacing' = Rest(pacing, {<<s, u>>})
    /\ stale'  = stale \ {<<s, u>>}
    /\ UNCHANGED <<lessons, units, plan, assigned>>

-----------------------------------------------------------------------------
(* The curriculum: no target is refreshed. *)

CreateUnit(u) ==
    /\ u \notin units /\ units' = units \cup {u}
    /\ UNCHANGED <<lessons, plan, assigned, pacing, stale>>

CreateLesson(l) ==
    /\ UnitOf[l] \in units /\ l \notin lessons
    /\ lessons' = lessons \cup {l}
    /\ stale' = stale \cup (DOMAIN pacing \cap (Learners \X {UnitOf[l]}))
    /\ UNCHANGED <<units, plan, assigned, pacing>>

\* The plans of deleted lessons go by cascade, their assignments stay.
Cascade(gone) ==
    /\ lessons' = lessons \ gone
    /\ plan' = Rest(plan, Learners \X gone)
    /\ assigned' = assigned \ (Learners \X gone)

DeleteLesson(l) ==
    /\ l \in lessons /\ Cascade({l})
    /\ stale' = stale \cup (DOMAIN pacing \cap (Learners \X {UnitOf[l]}))
    /\ UNCHANGED <<units, pacing>>

DeleteUnit(u) ==
    /\ u \in units /\ Cascade(InUnit(u))
    /\ units'  = units \ {u}
    /\ pacing' = Rest(pacing, Learners \X {u})
    /\ stale'  = stale \ (Learners \X {u})

LessonPlansNext ==
    \/ \E u \in Units : CreateUnit(u) \/ DeleteUnit(u)
    \/ \E l \in Lessons : CreateLesson(l) \/ DeleteLesson(l)
    \/ \E s \in Learners, l \in Lessons :
        \/ DeletePlan(s, l)
        \/ \E status \in Statuses :
            CreatePlan(s, l, status) \/ \E t \in Learners, m \in Lessons : UpdatePlan(s, l, t, m, status)
    \/ \E plans \in SUBSET (DOMAIN plan) :
        GenerateAssignments(plans) \/ \E status \in Statuses : UpdateStatuses(plans, status)
    \/ \E s \in Learners, overwrite \in BOOLEAN : GeneratePlans(s, overwrite)
    \/ \E s \in Learners, u \in Units :
        \/ CreateTarget(s, u) \/ DeleteTarget(s, u)
        \/ \E t \in Learners, v \in Units : UpdateTarget(s, u, t, v)

LessonPlansSpec == LessonPlansInit /\ [][LessonPlansNext]_lessonPlansVars

-----------------------------------------------------------------------------
(* _build_pacing_status: a window of days 1..length, today, and the day of *)
(* completion, if any, as a set.  The thresholds are 0.15 of the whole.    *)

Pace(total, done, completed, today, length) ==
    LET elapsed  == IF today > length THEN length ELSE today
        actual   == 100 * done * length
        expected == 100 * elapsed * total
        margin   == 15 * total * length
    IN  CASE \E day \in completed : day < length -> "ahead"
          [] \E day \in completed : day > length -> "behind"
          [] completed = {length} -> "on_track"
          [] completed = {} /\ today > length /\ done < total -> "behind"
          [] completed = {} /\ (today < 1 \/ total = 0) -> "on_track"
          [] OTHER -> IF actual > expected + margin THEN "ahead"
                      ELSE IF actual + margin < expected THEN "behind" ELSE "on_track"

\* _build_pacing_status_payload: the pace of a target that ends on day MaxDays, and
\* was completed on some day if it was.
PaceOf(k, day, today) ==
    LET finishedPlans == {p \in DOMAIN plan : p[1] = k[1] /\ UnitOfPlan(p) = k[2] /\ plan[p] \in finished}
    IN  Pace(Cardinality(InUnit(k[2])), Cardinality(finishedPlans),
             IF pacing[k] THEN {day} ELSE {}, today, MaxDays)

-----------------------------------------------------------------------------

\* A pacing target has a completion date exactly when every lesson of its unit has
\* a plan of the student that is completed or skipped, through every creation,
\* change, deletion and generation of plans and targets; but not after a change of
\* the curriculum itself, nor after an update that takes a plan or a target to
\* another unit (_refresh_pacing_targets then counts by what the session held).  And
\* the page calls a student behind only who has a lesson to finish, or finished late,
\* and ahead only who has finished one.
PacingIsTrue ==
    \A k \in DOMAIN pacing \ stale :
        LET Finished(l) == <<k[1], l>> \in DOMAIN plan /\ plan[<<k[1], l>>] \in finished
        IN  /\ pacing[k] = (InUnit(k[2]) # {} /\ \A l \in InUnit(k[2]) : Finished(l))
            /\ \A day \in 0..MaxDays + 1, today \in 0..MaxDays + 1 :
                  /\ PaceOf(k, day, today) = "behind" =>
                        (pacing[k] /\ day > MaxDays) \/ \E l \in InUnit(k[2]) : ~Finished(l)
                  /\ PaceOf(k, day, today) = "ahead" => \E l \in InUnit(k[2]) : Finished(l)

=============================================================================
