----------------------------- MODULE Gradebook -----------------------------
(***************************************************************************)
(* One student's gradebook in one subject (backend/services/gradebook.py): *)
(* the assignments with their categories and marks, the categories the     *)
(* teacher saved with their weights and drops, and the averages, the       *)
(* overall percentage, its letter and its trend computed on each read.     *)
(* Percentages are in hundredths and weights in ten-thousandths, the       *)
(* digits the code rounds to.  The marks are such that no average lies     *)
(* half way between two hundredths, where the binary number would decide.  *)
(***************************************************************************)
EXTENDS Integers, FiniteSetsExt, Functions, SequencesExt

CONSTANTS
    Count,      \* the assignments are 1..Count, in the order of their due dates
    Categories, \* the categories that assignments and saved lists use
    Marks,      \* the marks given: records with a score and a max
    Lists       \* the category lists a teacher may send

DefaultOrder == <<"homework", "quiz", "test", "project", "participation", "extra_credit", "other">>

\* What the constants must satisfy; assumed by the modules that give them values.
GradebookAssumption ==
    /\ Count \in Nat \ {0}
    /\ Categories \subseteq Range(DefaultOrder)
    /\ \A m \in Marks : m.max > 0 /\ (10000 * m.score) % m.max = 0

VARIABLES
    category,   \* the category of each assignment
    mark,       \* the grade of the current version of the work, or NoMark
    order,      \* the assignments with a grade, as their grades were created
    saved,      \* the categories saved for the subject, none at first
    mode        \* the subject's grading mode

gradebookVars == <<category, mark, order, saved, mode>>

Assignments == 1..Count

NoMark == [score |-> 0, max |-> 0]

Nothing == [num |-> 0, den |-> 0]   \* no percentage at all

\* The sum of a list of categories' weights.
TotalWeight(list) == MapThenSumSet(LAMBDA c : c.weight, list)

GradebookInit ==
    /\ category \in [Assignments -> Categories]
    /\ mark = [a \in Assignments |-> NoMark]
    /\ order = << >>
    /\ saved = {}
    /\ mode \in {"points", "percentage"}

-----------------------------------------------------------------------------
(* The categories of a subject that has none saved. *)

\* The names build_default_grade_categories looks for, one after the other.
Tested == Append(DefaultOrder, "extra_credit")

\* The tests "name in names" that succeed on a generator: a test consumes it up
\* to the first match, or to its end, and the next test sees only the rest.
\* read[k] is how much the first k tests consumed.
FoundInGenerator(names) ==
    LET Matches(from, k) == {i \in from + 1..Len(names) : names[i] = Tested[k]}
        read[k \in 0..Len(Tested)] ==
            IF k = 0 THEN 0
            ELSE IF Matches(read[k - 1], k) = {} THEN Len(names) ELSE Min(Matches(read[k - 1], k))
    IN {k \in 1..Len(Tested) : Matches(read[k - 1], k) # {}}

\* The categories built from the tests that succeeded: equal weights rounded to
\* four digits, the rest to the last one, and extra credit on top with none.
DefaultCategories(found) ==
    LET plain == {k \in found : k < Len(Tested) /\ Tested[k] # "extra_credit"}
        ranks == IF plain = {} THEN {1} ELSE plain
        n == Cardinality(ranks)
        weight == (20000 + n) \div (2 * n)
    IN {[name |-> Tested[k], weight |-> IF k = Max(ranks) THEN 10000 - (n - 1) * weight ELSE weight, drop |-> 0]
            : k \in ranks}
       \cup {[name |-> "extra_credit", weight |-> 0, drop |-> 0] : k \in found \cap {Len(Tested)}}

\* The gradebook passes a generator of them.
GradebookCategories == IF saved # {} THEN saved ELSE DefaultCategories(FoundInGenerator(category))

-----------------------------------------------------------------------------
(* The averages and the overall percentage, as they are with the grades of *)
(* the assignments seen.                                                   *)

\* num / den rounded to a whole number of hundredths.
Rounded(num, den) == (2 * num + den) \div (2 * den)

Percent(a) == (10000 * mark[a].score) \div mark[a].max

Marked == Range(order)

Graded(c, seen) == {a \in Marked \cap seen : category[a] = c.name}

\* Mutant: the fewest points are dropped first, in points mode too.
LowerInPoints(a, b) ==
    \/ mark[a].score < mark[b].score
    \/ mark[a].score = mark[b].score /\ a < b

\* a comes before b when the worst marks are dropped first.
Lower(a, b) ==
    \/ Percent(a) < Percent(b)
    \/ Percent(a) = Percent(b) /\ a < b

\* The drop_lowest lowest of the graded assignments, or all when there are fewer.
Dropped(c, seen) ==
    {a \in Graded(c, seen) : Cardinality({b \in Graded(c, seen) : Lower(b, a)}) < c.drop}

Counted(c, seen) == Graded(c, seen) \ Dropped(c, seen)

\* The average of a non-empty set of marks in the subject's grading mode.
AverageOf(items) ==
    IF mode = "points"
    THEN Rounded(10000 * MapThenSumSet(LAMBDA a : mark[a].score, items), MapThenSumSet(LAMBDA a : mark[a].max, items))
    ELSE Rounded(MapThenSumSet(Percent, items), Cardinality(items))

\* The categories that have an average and weigh something.
ActiveCategories(seen) == {c \in GradebookCategories : Counted(c, seen) # {} /\ c.weight > 0}

\* The overall percentage, a fraction of two integers.
OverallOf(seen) ==
    LET active == ActiveCategories(seen)
        Points(c) == AverageOf(Counted(c, seen)) * c.weight
    IN IF active = {} THEN Nothing ELSE [num |-> MapThenSumSet(Points, active), den |-> TotalWeight(active)]

Overall == OverallOf(Assignments)

-----------------------------------------------------------------------------
(* Letters and trends. *)

\* The scale every family starts with, and every subject that names no other.
DefaultRanges ==
    {[letter |-> "A", min |-> 9000, max |-> 10000], [letter |-> "B", min |-> 8000, max |-> 8999],
     [letter |-> "C", min |-> 7000, max |-> 7999], [letter |-> "D", min |-> 6000, max |-> 6999],
     [letter |-> "F", min |-> 0, max |-> 5999]}

\* The letter of a percentage that is not rounded, or "none" between two ranges.  The
\* arithmetic is exact here, and binary in the code.
Letter(percent) ==
    LET fits == {r \in DefaultRanges : r.min * percent.den <= percent.num /\ percent.num <= r.max * percent.den}
    IN IF percent = Nothing \/ fits = {} THEN "none" ELSE (CHOOSE r \in fits : \A other \in fits : other.min <= r.min).letter

\* The percentage after the first k grades, with the categories of all the assignments.
Running(k) == OverallOf({order[i] : i \in 1..k})

\* The points shown: one for each grade of an assignment in one of the categories, with
\* the percentage of then and the letter of now.
Trend ==
    LET shown == {k \in DOMAIN order :
                    /\ Running(k) # Nothing
                    /\ \E c \in GradebookCategories : c.name = category[order[k]]}
        Point(k) == [assignment |-> order[k], percent |-> Rounded(Running(k).num, Running(k).den), letter |-> Letter(Overall)]
        ranks == SetToSortSeq(shown, <)
    IN [i \in DOMAIN ranks |-> Point(ranks[i])]

-----------------------------------------------------------------------------
(* What changes the rows the gradebook reads. *)

\* A grade that is given again keeps the time it was created.
Grade(a, m) ==
    /\ mark' = [mark EXCEPT ![a] = m]
    /\ order' = IF a \in Marked THEN order ELSE Append(order, a)
    /\ UNCHANGED <<category, saved, mode>>

\* The grade is deleted, or a new version of the work becomes the current one.
LoseGrade(a) ==
    /\ mark[a] # NoMark
    /\ mark' = [mark EXCEPT ![a] = NoMark]
    /\ order' = SelectSeq(order, LAMBDA b : b # a)
    /\ UNCHANGED <<category, saved, mode>>

Recategorize(a, name) ==
    /\ category' = [category EXCEPT ![a] = name]
    /\ UNCHANGED <<mark, order, saved, mode>>

\* save_grade_categories: what is not sent is deleted.  Lists whose weights do
\* not add up are refused, and the table refuses a name twice in a subject.
SaveCategories(list) ==
    /\ list # {}
    /\ TotalWeight(list) = 10000
    /\ \A c, d \in list : c.name = d.name => c = d
    /\ saved' = list
    /\ UNCHANGED <<category, mark, order, mode>>

SetMode(m) ==
    /\ mode' = m
    /\ UNCHANGED <<category, mark, order, saved>>

GradebookNext ==
    \/ \E a \in Assignments, m \in Marks : Grade(a, m)
    \/ \E a \in Assignments : LoseGrade(a)
    \/ \E a \in Assignments, name \in Categories : Recategorize(a, name)
    \/ \E list \in Lists : SaveCategories(list)
    \/ \E m \in {"points", "percentage"} : SetMode(m)

GradebookSpec == GradebookInit /\ [][GradebookNext]_gradebookVars

-----------------------------------------------------------------------------

\* Dropping the lowest marks of a category never lowers its average, in either
\* grading mode: the code drops by percentage and in points mode averages by
\* points, where a low percentage of a large assignment weighs more
\* (_build_category_summary).
DroppingNeverHurts ==
    \A c \in GradebookCategories :
        Counted(c, Assignments) # {} => AverageOf(Counted(c, Assignments)) >= AverageOf(Graded(c, Assignments))

\* The overall percentage lies between the worst and the best mark the student
\* has in the subject: a category without marks, or whose marks are all dropped,
\* takes its weight out of the total (_build_subject_view).
OverallIsWithinMarks ==
    Overall # Nothing =>
        /\ \E a \in Marked : Percent(a) * Overall.den <= Overall.num
        /\ \E a \in Marked : Overall.num <= Percent(a) * Overall.den

\* Marks that all earn one letter give the subject no other one (map_percent_to_grade).
\* It can be none: the percentage is not rounded first, and in binary numbers 90 with
\* weights of 0.2 and 0.1 is 89.99999999999999, in no range.
LettersAreEarned ==
    \A r \in DefaultRanges :
        Overall # Nothing /\ (\A a \in Marked : r.min <= Percent(a) /\ Percent(a) <= r.max) =>
            Letter(Overall) \in {r.letter, "none"}

\* The trend ends at the percentage of the gradebook, and there is one as soon as the
\* gradebook has a percentage: a grade of an assignment in no category is not shown,
\* and changes nothing (_running_progress, build_gradebook_trends).
TrendEndsAtOverall ==
    IF Trend = << >> THEN Overall = Nothing
    ELSE Overall # Nothing /\ Last(Trend).percent = Rounded(Overall.num, Overall.den)

\* The gradebook's numbers are ones a student can have earned, and agree.
AveragesAreFair == DroppingNeverHurts /\ OverallIsWithinMarks /\ LettersAreEarned /\ TrendEndsAtOverall
=============================================================================
