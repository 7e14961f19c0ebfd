-------------------------------- MODULE Records --------------------------------
(***************************************************************************)
(* A student's report cards (services/report_cards.py), transcripts        *)
(* (services/transcripts.py) or compliance reports                         *)
(* (services/compliance_reports.py): documents that copy marks out of the  *)
(* gradebook, are edited as drafts, and are finalized.                     *)
(*                                                                         *)
(* A request reads in one action and commits in another.  A commit writes  *)
(* the columns it has changed, and fails if a row it updates is gone.      *)
(* Each document has a line per course, with the mark copied and what a    *)
(* person sets: the credits of a transcript, the comment of a report card. *)
(* Weights for honors and letter grades are left out.                      *)
(***************************************************************************)
EXTENDS Integers, FiniteSetsExt

CONSTANTS
    Subjects,
    Years,       \* school years; a report card is that of one grading period of a year
    Marks,       \* GPA points
    Settings,    \* what a person sets on a line
    Preset,      \* what a new line has
    Clerks,
    MaxRecords,  \* bound: ids of documents
    MaxSteps     \* bound: requests begun and marks given

All == "all years"   \* where a report card has its year

\* What the constants must satisfy; assumed by the modules that give them values.
RecordsAssumption ==
    /\ Marks \subseteq Nat /\ Settings \subseteq Nat /\ Preset \in Nat /\ {MaxRecords, MaxSteps} \subseteq Nat
    /\ {"none", All} \cap Years = {}

VARIABLES
    kind,      \* the documents at hand: "card", "transcript" or "compliance"
    subjects,
    years,
    marks,     \* <<year, subject>> -> the average in the gradebook, or NoMark
    record,    \* id -> [status, year, edition, totals]
    made,      \* how many documents there have been; ids are not used again
    line,      \* <<id, year, subject>> -> [mark, set]
    clerk,     \* the requests in flight
    late,      \* history: whose request is about what another one has since changed
    raced,     \* history: documents written by a late request, or that lost lines to one
    cut,       \* history: documents that lost lines with a school year
    steps

recordsVars == <<kind, subjects, years, marks, record, made, line, clerk, late, raced, cut, steps>>

NoMark == -1
AtRest == [doing |-> "nothing", year |-> "none"]

Step == steps < MaxSteps /\ steps' = steps + 1

Courses    == years \X subjects
LinesOf(r) == {k \in DOMAIN line : k[1] = r}

\* The lines of a document by course.
EntriesOf(r) == [c \in {c \in Years \X Subjects : <<r, c[1], c[2]>> \in DOMAIN line} |-> line[<<r, c[1], c[2]>>]]

\* calculate_transcript_metrics.
Totals(lines) ==
    LET Credits(c) == lines[c].set
        Points(c)  == lines[c].mark * lines[c].set
        graded     == {c \in DOMAIN lines : lines[c].mark # NoMark}
    IN  [credits |-> MapThenSumSet(Credits, DOMAIN lines),
         graded  |-> MapThenSumSet(Credits, graded),
         points  |-> MapThenSumSet(Points, graded)]

RecordsInit ==
    /\ kind \in {"card", "transcript", "compliance"}
    /\ subjects = Subjects /\ years = Years
    /\ marks = [c \in Years \X Subjects |-> NoMark]
    /\ record = << >> /\ made = 0 /\ line = << >>
    /\ clerk = [t \in Clerks |-> AtRest]
    /\ late = {} /\ raced = {} /\ cut = {} /\ steps = 0

Request(t, request) ==
    Step /\ clerk[t] = AtRest /\ clerk' = [clerk EXCEPT ![t] = request]

Reply(t) == clerk' = [clerk EXCEPT ![t] = AtRest] /\ late' = late \ {t}

\* A commit is news to the other requests about documents of that year, or transcripts.
Settle(t, year) ==
    /\ clerk' = [clerk EXCEPT ![t] = AtRest]
    /\ late' = (late \cup {c \in Clerks : clerk[c].year = year}) \ {t}

Remember(t, r) == raced' = IF t \in late THEN raced \cup {r} ELSE raced

\* SQLAlchemy writes a column whose value differs from the one loaded.
Column(current, read, new) == IF new = read THEN current ELSE new

-----------------------------------------------------------------------------
(* Generation. *)

FinalExists(year) ==
    \E r \in DOMAIN record : record[r].year = year /\ record[r].status = "final"

\* What is generated: the newest draft again, or 0 for a new document.
Draft(year) ==
    LET drafts == {r \in DOMAIN record : record[r].year = year /\ record[r].status = "draft"}
    IN  IF drafts = {} \/ kind = "compliance" THEN {0} ELSE {r \in drafts : \A q \in drafts : q <= r}

\* What is copied: a transcript lists the courses with a grade, of all years.
WithGrade    == [c \in {c \in Courses : marks[c] # NoMark} |-> marks[c]]
OfYear(year) == [c \in {c \in Courses : c[1] = year} |-> marks[c]]

MarksOf(year) == IF kind = "transcript" THEN WithGrade ELSE OfYear(year)

BeginGenerate(t, year) ==
    /\ IF kind = "transcript" THEN year = All /\ DOMAIN MarksOf(year) # {} ELSE year \in years
    /\ kind = "card" => ~FinalExists(year)
    /\ \E of \in Draft(year) :
        Request(t, [doing |-> "generating", of |-> of, year |-> year, copied |-> MarksOf(year),
                    record |-> IF of = 0 THEN << >> ELSE record[of], entries |-> EntriesOf(of)])
    /\ UNCHANGED <<kind, subjects, years, marks, record, made, line, late, raced, cut>>

\* What a person had set on the lines is kept: as it was read, or as it is on lines
\* that another generation made since.
Kept(asked, r, c) ==
    IF <<r, c[1], c[2]>> \notin DOMAIN line THEN Preset
    ELSE IF record[r].edition = asked.record.edition THEN asked.entries[c].set
    ELSE line[<<r, c[1], c[2]>>].set

\* The lines need their subject and year, but a compliance report holds its data itself.
HasCourses(lines) == kind # "compliance" => DOMAIN lines \subseteq Courses

CommitCreate(t) ==
    LET asked == clerk[t]
        r     == made + 1
        lines == [c \in DOMAIN asked.copied |-> [mark |-> asked.copied[c], set |-> Preset]]
        new   == [status |-> "draft", year |-> asked.year, edition |-> 1, totals |-> Totals(lines)]
    IN  /\ asked.doing = "generating" /\ asked.of = 0 /\ Settle(t, asked.year) /\ Remember(t, r)
        /\ r <= MaxRecords /\ made' = r /\ asked.year \in years \cup {All} /\ HasCourses(lines)
        /\ record' = [q \in DOMAIN record \cup {r} |-> IF q = r THEN new ELSE record[q]]
        /\ line' = [k \in DOMAIN line \cup {<<r, c[1], c[2]>> : c \in DOMAIN lines} |->
                        IF k[1] = r THEN lines[<<k[2], k[3]>>] ELSE line[k]]
        /\ UNCHANGED <<kind, subjects, years, marks, cut, steps>>

\* The lines are deleted and made again.
CommitGenerate(t) ==
    LET asked == clerk[t]
        r     == asked.of
        lines == [c \in DOMAIN asked.copied |-> [mark |-> asked.copied[c], set |-> Kept(asked, r, c)]]
        fresh == {<<r, c[1], c[2]>> : c \in DOMAIN lines}
    IN  /\ asked.doing = "generating" /\ r \in DOMAIN record /\ Settle(t, asked.year) /\ Remember(t, r)
        /\ HasCourses(lines)
        /\ record' = [record EXCEPT ![r].edition = @ + 1,
                                    ![r].totals = Column(@, asked.record.totals, Totals(lines))]
        /\ line' = [k \in (DOMAIN line \ LinesOf(r)) \cup fresh |->
                        IF k[1] = r THEN lines[<<k[2], k[3]>>] ELSE line[k]]
        /\ UNCHANGED <<kind, subjects, years, marks, made, cut, steps>>

-----------------------------------------------------------------------------
(* Changes: update_report_card and update_transcript, and finalizing. *)

\* Mutant: only what is archived is immutable.
UntilArchived(status) == status # "archived"

MayEdit(status) == status = "draft"

\* A line gets another setting.
BeginEdit(t, r, c, value) ==
    /\ kind # "compliance" /\ r \in DOMAIN record /\ MayEdit(record[r].status)
    /\ c \in DOMAIN EntriesOf(r) /\ line[<<r, c[1], c[2]>>].set # value
    /\ Request(t, [doing |-> "editing", of |-> r, year |-> record[r].year, record |-> record[r],
               course |-> c, entries |-> [EntriesOf(r) EXCEPT ![c].set = value]])
    /\ UNCHANGED <<kind, subjects, years, marks, record, made, line, late, raced, cut>>

\* A draft gets any status; a final document can only be archived.
BeginStatus(t, r, status) ==
    /\ kind # "compliance" /\ r \in DOMAIN record
    /\ MayEdit(record[r].status) \/ (record[r].status = "final" /\ status = "archived")
    /\ Request(t, [doing |-> "changing", of |-> r, year |-> record[r].year, record |-> record[r],
               status |-> status, entries |-> EntriesOf(r)])
    /\ UNCHANGED <<kind, subjects, years, marks, record, made, line, late, raced, cut>>

BeginFinalize(t, r) ==
    /\ r \in DOMAIN record /\ record[r].status = "draft"
    /\ Request(t, [doing |-> "finalizing", of |-> r, year |-> record[r].year, record |-> record[r], status |-> "final"])
    /\ UNCHANGED <<kind, subjects, years, marks, record, made, line, late, raced, cut>>

\* Mutant: the totals are left as they were.
OldTotals(asked) == asked.record.totals

\* The totals of a transcript follow from the lines this request has seen.
NewTotals(asked) == Totals(asked.entries)

WrittenTotals(asked, current) ==
    IF kind = "transcript" THEN Column(current, asked.record.totals, NewTotals(asked)) ELSE current

CommitEdit(t) ==
    LET asked == clerk[t]
        r     == asked.of
        k     == <<r, asked.course[1], asked.course[2]>>
    IN  /\ asked.doing = "editing" /\ Settle(t, asked.year) /\ Remember(t, r)
        /\ k \in DOMAIN line /\ record[r].edition = asked.record.edition
        /\ line' = [line EXCEPT ![k].set = asked.entries[asked.course].set]
        /\ record' = [record EXCEPT ![r].totals = WrittenTotals(asked, @)]
        /\ UNCHANGED <<kind, subjects, years, marks, made, cut, steps>>

CommitStatus(t) ==
    LET asked == clerk[t]
        r     == asked.of
    IN  /\ asked.doing = "changing" /\ Settle(t, asked.year) /\ Remember(t, r)
        /\ r \in DOMAIN record
        /\ record' = [record EXCEPT ![r].status = Column(@, asked.record.status, asked.status),
                                    ![r].totals = WrittenTotals(asked, @)]
        /\ UNCHANGED <<kind, subjects, years, marks, made, line, cut, steps>>

CommitFinalize(t) ==
    LET asked == clerk[t] IN
    /\ asked.doing = "finalizing" /\ Settle(t, asked.year) /\ Remember(t, asked.of)
    /\ asked.of \in DOMAIN record
    /\ record' = [record EXCEPT ![asked.of].status = "final"]
    /\ UNCHANGED <<kind, subjects, years, marks, made, line, cut, steps>>

\* A row that is gone, a constraint, or a client that has left.
Withdraw(t) ==
    /\ clerk[t] # AtRest /\ Reply(t)
    /\ UNCHANGED <<kind, subjects, years, marks, record, made, line, raced, cut, steps>>

-----------------------------------------------------------------------------
(* What the documents copy, and belong to. *)

Grade(c, mark) ==
    /\ Step /\ c \in Courses /\ marks[c] # mark /\ marks' = [marks EXCEPT ![c] = mark]
    /\ UNCHANGED <<kind, subjects, years, record, made, line, clerk, late, raced, cut>>

\* SQLAlchemy refuses to delete a subject that it finds on lines of a card or transcript;
\* PostgreSQL deletes the lines that were made since.
BeginDeleteSubject(t, s) ==
    /\ s \in subjects
    /\ kind = "compliance" \/ \A k \in DOMAIN line : k[3] # s
    /\ Request(t, [doing |-> "deleting", year |-> "none", subject |-> s])
    /\ UNCHANGED <<kind, subjects, years, marks, record, made, line, late, raced, cut>>

CommitDeleteSubject(t) ==
    LET s    == clerk[t].subject
        gone == IF kind = "compliance" THEN {} ELSE {k \in DOMAIN line : k[3] = s}
    IN  /\ clerk[t].doing = "deleting" /\ s \in subjects /\ Reply(t)
        /\ subjects' = subjects \ {s}
        /\ line' = [k \in DOMAIN line \ gone |-> line[k]]
        /\ raced' = raced \cup {k[1] : k \in gone}
        /\ marks' = [c \in DOMAIN marks |-> IF c[2] = s THEN NoMark ELSE marks[c]]
        /\ UNCHANGED <<kind, years, record, made, cut, steps>>

\* Report cards and compliance reports go with their year, a transcript loses lines.
DeleteYear(y) ==
    LET lines == {k \in DOMAIN line : k[2] = y} IN
    /\ Step /\ y \in years /\ years' = years \ {y}
    /\ line' = [k \in DOMAIN line \ lines |-> line[k]]
    /\ record' = [r \in {r \in DOMAIN record : record[r].year # y} |-> record[r]]
    /\ cut' = cut \cup {k[1] : k \in lines}
    /\ marks' = [c \in DOMAIN marks |-> IF c[1] = y THEN NoMark ELSE marks[c]]
    /\ UNCHANGED <<kind, subjects, made, clerk, late, raced>>

-----------------------------------------------------------------------------

RecordsNext ==
    \/ \E t \in Clerks, y \in Years \cup {All} : BeginGenerate(t, y)
    \/ \E t \in Clerks, r \in 1..MaxRecords : BeginFinalize(t, r)
    \/ \E t \in Clerks, r \in 1..MaxRecords, c \in Years \X Subjects, v \in Settings : BeginEdit(t, r, c, v)
    \/ \E t \in Clerks, r \in 1..MaxRecords, status \in {"final", "archived"} : BeginStatus(t, r, status)
    \/ \E t \in Clerks :
        \/ CommitCreate(t) \/ CommitGenerate(t) \/ CommitEdit(t) \/ CommitStatus(t) \/ CommitFinalize(t)
        \/ CommitDeleteSubject(t) \/ Withdraw(t)
    \/ \E c \in Years \X Subjects, mark \in Marks : Grade(c, mark)
    \/ \E t \in Clerks, s \in Subjects : BeginDeleteSubject(t, s)
    \/ \E y \in Years : DeleteYear(y)

RecordsSpec == RecordsInit /\ [][RecordsNext]_recordsVars

-----------------------------------------------------------------------------

\* The lines of a document that is final or archived never change, but with its school
\* year, and unless a request that overlapped another wrote to it.
LinesStay(r) ==
    /\ {k \in LinesOf(r) : k[2] \in years'} = {k \in DOMAIN line' : k[1] = r}
    /\ \A k \in LinesOf(r) : k[2] \in years' => line'[k] = line[k]

FinalIsFrozen ==
    [][\A r \in DOMAIN record \cap DOMAIN record' : record[r].status # "draft" /\ r \notin raced' => LinesStay(r)]_recordsVars

\* The credits and GPA that a transcript stores are those of its lines, whoever has
\* edited, generated or archived it, unless two of them overlapped or a year was deleted.
TotalsMatchEntries ==
    kind = "transcript" =>
        \A r \in DOMAIN record \ (raced \cup cut) : record[r].totals = Totals(EntriesOf(r))
================================================================================
