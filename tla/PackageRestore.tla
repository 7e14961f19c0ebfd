--------------------------- MODULE PackageRestore ---------------------------
(***************************************************************************)
(* The export package of a backup (services/export_service.py) and its     *)
(* selective restore (services/restore_service.py): what the package says  *)
(* of the family's work, and how its entries find the rows of a family     *)
(* that has gone on working since.                                         *)
(*                                                                         *)
(* The package knows no ids of rows: an entry is matched by the name of a  *)
(* student or subject, the title of an assignment, the date of attendance. *)
(* Entries are in the order of the ids of the rows they were.  A restore   *)
(* is one transaction, and one action.  Students, subjects, titles, files  *)
(* and dates stand for what their names are in lower case.                 *)
(***************************************************************************)
EXTENDS Naturals, FiniteSets

CONSTANTS
    Students, Subjects, Titles, Files, Scores, Dates, Hours,
    Choices,     \* the sets of entity types that a restore may ask for
    MaxRows,     \* bound: ids of assignments and of submissions
    MaxEdits     \* bound: requests of the family

\* What the constants must satisfy; assumed by the modules that give them values.
PackageRestoreAssumption ==
    /\ {MaxRows, MaxEdits} \subseteq Nat /\ Scores \subseteq Nat
    /\ Choices \subseteq SUBSET {"students", "subjects", "assignments", "submissions",
                                 "grades", "attendance"}

VARIABLES
    rows,       \* the family's rows, a record of tables
    package,    \* the package of a backup, or Nothing
    previous,   \* history: the request, when the last thing done was a restore
    edits       \* the number of requests made

packageVars == <<rows, package, previous, edits>>

Nothing == [nothing |-> TRUE]

\* assignment: id -> [title, subject, status]; target: pairs of assignment and
\* student; submission: id -> [of, by, root, version, current, file], root its
\* first version; grade: submission -> score; attendance: <<student, date>> -> hours.
NoRows == [student |-> {}, subject |-> {}, assignment |-> << >>, target |-> {},
           submission |-> << >>, grade |-> << >>, attendance |-> << >>]

PackageRestoreInit ==
    /\ rows = [NoRows EXCEPT !.student = Students, !.subject = Subjects]
    /\ package = Nothing
    /\ previous = Nothing
    /\ edits = 0

Put(table, key, value) == [k \in DOMAIN table \cup {key} |-> IF k = key THEN value ELSE table[k]]
Only(table, keys)      == [k \in DOMAIN table \cap keys |-> table[k]]

Key(assignment) == <<assignment.title, assignment.subject>>

Last(ids)   == CHOOSE i \in ids : \A j \in ids : j <= i
First(ids)  == CHOOSE i \in ids : \A j \in ids : i <= j
After(table) == IF DOMAIN table = {} THEN 1 ELSE Last(DOMAIN table) + 1

-----------------------------------------------------------------------------
(* The family goes on working. *)

Edit(new) ==
    /\ edits < MaxEdits /\ edits' = edits + 1
    /\ rows' = new /\ previous' = Nothing
    /\ UNCHANGED package

Assign(title, subject, students) ==
    LET a == After(rows.assignment) IN
    /\ a <= MaxRows /\ subject \in rows.subject
    /\ students # {} /\ students \subseteq rows.student
    /\ Edit([rows EXCEPT !.assignment = Put(@, a, [title |-> title, subject |-> subject, status |-> "pending"]),
                         !.target = @ \cup ({a} \X students)])

UpdateStatus(a) ==
    /\ a \in DOMAIN rows.assignment
    /\ Edit([rows EXCEPT !.assignment[a].status = "complete"])

\* An upload supersedes what it is a resubmission of, and no other work.
Upload(a, s, root, file) ==
    LET w     == After(rows.submission)
        prior == {v \in DOMAIN rows.submission : rows.submission[v].root = root}
        new   == [of |-> a, by |-> s, root |-> root, current |-> TRUE, file |-> file,
                  version |-> 1 + (IF prior = {} THEN 0 ELSE Last({rows.submission[v].version : v \in prior}))]
    IN  /\ w <= MaxRows
        /\ Edit([rows EXCEPT !.submission =
                    Put([v \in DOMAIN @ |-> [@[v] EXCEPT !.current = @ /\ v \notin prior]], w, new)])

Submit(a, s, file) ==
    <<a, s>> \in rows.target /\ Upload(a, s, After(rows.submission), file)

Resubmit(w, file) ==
    /\ w \in DOMAIN rows.submission
    /\ Upload(rows.submission[w].of, rows.submission[w].by, rows.submission[w].root, file)

GradeWork(w, score) ==
    /\ w \in DOMAIN rows.submission /\ rows.submission[w].current
    /\ Edit([rows EXCEPT !.grade = Put(@, w, score)])

Attend(s, d, hours) ==
    /\ s \in rows.student
    /\ Edit([rows EXCEPT !.attendance = Put(@, <<s, d>>, hours)])

\* What is left when some assignments and students are deleted, with all of theirs.
Without(assignments, students) ==
    LET works == {w \in DOMAIN rows.submission :
                    rows.submission[w].of \notin assignments /\ rows.submission[w].by \notin students}
    IN  [rows EXCEPT !.student = @ \ students,
                     !.assignment = Only(@, DOMAIN @ \ assignments),
                     !.target = {t \in @ : t[1] \notin assignments /\ t[2] \notin students},
                     !.submission = Only(@, works),
                     !.grade = Only(@, works),
                     !.attendance = Only(@, {k \in DOMAIN @ : k[1] \notin students})]

DeleteAssignment(a) == a \in DOMAIN rows.assignment /\ Edit(Without({a}, {}))

DeleteStudent(s) == s \in rows.student /\ Edit(Without({}, {s}))

DeleteSubject(u) ==
    /\ u \in rows.subject
    /\ Edit([Without({a \in DOMAIN rows.assignment : rows.assignment[a].subject = u}, {})
                EXCEPT !.subject = @ \ {u}])

\* A backup exports everything.
Export ==
    /\ package' = rows /\ previous' = Nothing
    /\ UNCHANGED <<rows, edits>>

-----------------------------------------------------------------------------
(* A restore.  An entry whose key finds a row (found) updates it, if asked *)
(* to, and another makes a row.  What is made is not found by the entries  *)
(* after it.                                                               *)

\* Mutant: attendance is restored only for the students who are there.
ClosureOfWork(types) ==
    types \cup (IF types \cap {"assignments", "submissions", "grades"} # {}
                THEN {"students", "subjects", "assignments"} ELSE {})
          \cup (IF "grades" \in types THEN {"submissions"} ELSE {})

\* What an entity needs is restored with it.
Closure(types) ==
    types \cup (IF types \cap {"assignments", "submissions", "grades"} # {}
                THEN {"students", "subjects", "assignments"} ELSE {})
          \cup (IF "grades" \in types THEN {"submissions"} ELSE {})
          \cup (IF "attendance" \in types THEN {"students"} ELSE {})

\* The row of each entry: the one found, or the next id.
RowOf(found, table) ==
    LET made == {i \in DOMAIN found : found[i] = 0} IN
    [i \in DOMAIN found |->
        IF i \in made THEN After(table) + Cardinality({j \in made : j < i}) ELSE found[i]]

\* The row an entry finds among those with its key: the one read last, and the
\* query orders nothing.
Pick(ids, newest) == IF ids = {} THEN 0 ELSE IF newest THEN Last(ids) ELSE First(ids)

\* The table after each entry has been written to its row, the last one last.
Merged(table, row, value, overwrite) ==
    [r \in DOMAIN table \cup {row[i] : i \in DOMAIN row} |->
        LET from == {i \in DOMAIN row : row[i] = r} IN
        IF from = {} \/ (r \in DOMAIN table /\ ~overwrite) THEN table[r] ELSE value[Last(from)]]

\* _ensure_submissions looks for the assignment by its title only: the first of
\* the package, and the row its key was last mapped to.
OwnerByTitle(row, title) ==
    LET first == First({i \in DOMAIN row : package.assignment[i].title = title})
    IN  row[Last({i \in DOMAIN row : Key(package.assignment[i]) = Key(package.assignment[first])})]

\* Mutant: the entries that make a row make a superseded one.
MadeSuperseded(entry, owner, row) ==
    [of |-> owner, by |-> entry.by, root |-> row, version |-> entry.version, current |-> FALSE,
     file |-> entry.file]

\* A restored version has no parent: it is a root of its own.
Made(entry, owner, row) ==
    [of |-> owner, by |-> entry.by, root |-> row, version |-> entry.version, current |-> entry.current,
     file |-> entry.file]

\* The submissions after a restore: an entry finds the current version of its
\* work, of which it overwrites the file and no more.
RestoredSubmissions(row, owner, overwrite) ==
    LET table == rows.submission
        value == [i \in DOMAIN row |->
                    IF row[i] \in DOMAIN table THEN [table[row[i]] EXCEPT !.file = package.submission[i].file]
                    ELSE Made(package.submission[i], owner[i], row[i])]
    IN  Merged(table, row, value, overwrite)

\* _ensure_grades: an entry belongs to the work its title, subject and student
\* lead to, and to the version that work was last mapped to.  A score of 0 in the
\* package overwrites nothing.
RestoredGrades(assigned, row, owner, overwrite) ==
    LET work(i)  == package.submission[i]
        known(i) == package.assignment[work(i).of]
        home(i)  == assigned[Last({j \in DOMAIN assigned : Key(package.assignment[j]) = Key(known(i))})]
        versions(i) == {j \in DOMAIN row : owner[j] = home(i) /\ work(j).by = work(i).by}
        graded   == {i \in DOMAIN package.grade : versions(i) # {}}
        to       == [i \in graded |-> row[Last(versions(i))]]
        from(r)  == {i \in graded : to[i] = r}
        told(r)  == {i \in from(r) : package.grade[i] # 0}
    IN  [r \in DOMAIN rows.grade \cup {to[i] : i \in graded} |->
            IF from(r) = {} \/ (r \in DOMAIN rows.grade /\ ~overwrite) THEN rows.grade[r]
            ELSE IF ~overwrite THEN package.grade[First(from(r))]
            ELSE IF told(r) # {} THEN package.grade[Last(told(r))]
            ELSE IF r \in DOMAIN rows.grade THEN rows.grade[r] ELSE 0]

RestoredAttendance(students, overwrite) ==
    LET known == {k \in DOMAIN package.attendance : k[1] \in students} IN
    [k \in DOMAIN rows.attendance \cup known |->
        IF k \in DOMAIN rows.attendance /\ (~overwrite \/ k \notin known) THEN rows.attendance[k]
        ELSE package.attendance[k]]

Restore(asked, overwrite, newest) ==
    LET types    == Closure(asked)
        students == rows.student \cup (IF "students" \in types THEN package.student ELSE {})
        subjects == rows.subject \cup (IF "subjects" \in types THEN package.subject ELSE {})
        assigned == RowOf([i \in DOMAIN package.assignment |->
                        Pick({a \in DOMAIN rows.assignment : Key(rows.assignment[a]) = Key(package.assignment[i])}, newest)],
                      rows.assignment)
        owner    == [i \in DOMAIN package.submission |->
                        OwnerByTitle(assigned, package.assignment[package.submission[i].of].title)]
        handed   == RowOf([i \in DOMAIN package.submission |->
                        Pick({w \in DOMAIN rows.submission :
                                /\ rows.submission[w].of = owner[i] /\ rows.submission[w].current
                                /\ rows.submission[w].by = package.submission[i].by}, newest)],
                      rows.submission)
        new(type, value, old) == IF type \in types THEN value ELSE old
    IN  /\ package # Nothing
        /\ \A i \in DOMAIN assigned : assigned[i] <= MaxRows
        /\ \A i \in DOMAIN handed : handed[i] <= MaxRows
        /\ rows' = [student    |-> students,
                    subject    |-> subjects,
                    assignment |-> new("assignments",
                        Merged(rows.assignment, assigned, package.assignment, overwrite), rows.assignment),
                    target     |-> new("assignments",
                        rows.target \cup {<<assigned[t[1]], t[2]>> : t \in package.target}, rows.target),
                    submission |-> new("submissions",
                        RestoredSubmissions(handed, owner, overwrite), rows.submission),
                    grade      |-> new("grades", RestoredGrades(assigned, handed, owner, overwrite), rows.grade),
                    attendance |-> new("attendance", RestoredAttendance(students, overwrite), rows.attendance)]
        /\ previous' = [types |-> asked, overwrite |-> overwrite]
        /\ UNCHANGED <<package, edits>>

-----------------------------------------------------------------------------

PackageRestoreNext ==
    \/ \E t \in Titles, u \in Subjects, some \in SUBSET Students : Assign(t, u, some)
    \/ \E a \in 1..MaxRows, s \in Students, f \in Files : Submit(a, s, f)
    \/ \E w \in 1..MaxRows, f \in Files : Resubmit(w, f)
    \/ \E w \in 1..MaxRows, n \in Scores : GradeWork(w, n)
    \/ \E s \in Students, d \in Dates, h \in Hours : Attend(s, d, h)
    \/ \E a \in 1..MaxRows : UpdateStatus(a) \/ DeleteAssignment(a)
    \/ \E s \in Students : DeleteStudent(s)
    \/ \E u \in Subjects : DeleteSubject(u)
    \/ Export
    \/ \E some \in Choices, overwrite, newest \in BOOLEAN : Restore(some, overwrite, newest)

PackageRestoreSpec == PackageRestoreInit /\ [][PackageRestoreNext]_packageVars

-----------------------------------------------------------------------------

\* Titles lead to one assignment, and each work has one current version.
Distinct(tables) ==
    /\ \A a, b \in DOMAIN tables.assignment :
           tables.assignment[a].title = tables.assignment[b].title => a = b
    /\ \A v, w \in DOMAIN tables.submission :
           /\ tables.submission[v].current /\ tables.submission[w].current
           /\ tables.submission[v].of = tables.submission[w].of
           /\ tables.submission[v].by = tables.submission[w].by
           => v = w

\* The same restore once more, with nothing in between, changes nothing: no entry
\* is restored twice and none makes another change its mind, unless the package
\* holds two assignments with one title (then the submissions of both go to one).
SecondRestoreIsIdle ==
    previous # Nothing /\ previous' = previous /\ Distinct(package) /\ Distinct(rows) => UNCHANGED rows

\* After a restore what was asked for is there, whatever had been deleted: the
\* assignments and who has them, the current version of every work with its file,
\* the grades and the attendance, with the values of the package if rows were to
\* be overwritten (but for a score of 0).
RestoredIsThere ==
    previous # Nothing /\ Distinct(package) =>
        LET asked(type) == type \in Closure(previous.types)
            same(a, b)  == a = b \/ ~previous.overwrite
            homes(i)    == {a \in DOMAIN rows.assignment : Key(rows.assignment[a]) = Key(package.assignment[i])}
            versions(i) == {w \in DOMAIN rows.submission :
                              /\ rows.submission[w].of \in homes(package.submission[i].of)
                              /\ rows.submission[w].by = package.submission[i].by
                              /\ rows.submission[w].current}
        IN  /\ asked("assignments") =>
                \A i \in DOMAIN package.assignment : \E a \in homes(i) :
                    /\ same(rows.assignment[a], package.assignment[i])
                    /\ \A s \in Students : <<i, s>> \in package.target => <<a, s>> \in rows.target
            /\ \A i \in DOMAIN package.submission :
                asked("submissions") /\ package.submission[i].current =>
                    \E w \in versions(i) :
                        /\ same(rows.submission[w].file, package.submission[i].file)
                        /\ asked("grades") /\ i \in DOMAIN package.grade =>
                            /\ w \in DOMAIN rows.grade
                            /\ same(rows.grade[w], package.grade[i]) \/ package.grade[i] = 0
            /\ "attendance" \in previous.types =>
                \A k \in DOMAIN package.attendance :
                    k \in DOMAIN rows.attendance /\ same(rows.attendance[k], package.attendance[k])

=============================================================================
