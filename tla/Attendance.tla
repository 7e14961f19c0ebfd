----------------------------- MODULE Attendance -----------------------------
(***************************************************************************)
(* Attendance (backend/routers/attendance.py): the records of the days of  *)
(* each student, the two requests that write them, and the pages that add  *)
(* them up: the summary by day, week, term and year, the hours page, and   *)
(* the count a compliance check makes (backend/services/compliance.py).    *)
(* Requests read the records and write them in a transaction of their own. *)
(* Days are numbered, hours are counted in a unit of which none is split.  *)
(***************************************************************************)
EXTENDS Integers, Sequences, FiniteSets, FiniteSetsExt, TLC

CONSTANTS
    Students,
    LastDay,      \* bound: days are 1..LastDay
    WeekLength,   \* seven; less in small instances
    Hours,        \* the hours a request may log
    Entries,      \* the entries of a daily request
    Calendars,    \* the school years the family may have: sets of [first, last, active, terms]
    RequiredDays, \* the days the state's profile requires
    Writers       \* requests that may be under way

\* What the constants must satisfy; assumed by the modules that give them values.
AttendanceAssumption ==
    /\ {LastDay, RequiredDays} \subseteq Nat
    /\ WeekLength \in Nat \ {0}
    /\ Hours \subseteq Nat
    /\ Entries \subseteq [school : {0, 1, -2}, hours : Hours \cup {-1, -2}]

Day == 1..LastDay

VARIABLES
    calendar,  \* the family's school years
    day,       \* the attendance records: [student, date] -> [school, hours]
    log        \* the requests that write

attendanceVars == <<calendar, day, log>>

Idle == [at |-> "idle"]

\* A record may have no hours; a request may leave a field unset.
NoHours == -1
Unset   == -2

AttendanceInit ==
    /\ calendar \in Calendars
    /\ day = << >>
    /\ log = [w \in Writers |-> Idle]

-----------------------------------------------------------------------------
(* Writing. *)

\* record_daily_attendance and log_instructional_time read the records of their
\* date: for one student or several, only some of which may have a record.
Found(some, date) ==
    [k \in {<<s, date>> : s \in some} \cap DOMAIN day |-> day[k]]

BeginDaily(w, date, entries) ==
    /\ log[w] = Idle
    /\ log' = [log EXCEPT ![w] = [at |-> "daily", entries |-> [k \in (DOMAIN entries) \X {date} |-> entries[k[1]]],
                                  found |-> Found(DOMAIN entries, date)]]
    /\ UNCHANGED <<calendar, day>>

BeginHours(w, date, s, hours) ==
    /\ log[w] = Idle
    /\ log' = [log EXCEPT ![w] = [at |-> "hours", entries |-> (<<s, date>> :> hours), found |-> Found({s}, date)]]
    /\ UNCHANGED <<calendar, day>>

OrElse(value, otherwise) == IF value = Unset THEN otherwise ELSE value

\* _apply_record_entry: a new record takes every field, with the defaults of the
\* schema; an old one those the request has set.
AppliedEntry(old, entry) ==
    [school |-> OrElse(entry.school, old.school), hours |-> OrElse(entry.hours, old.hours)]

\* _apply_hours_log: hours make the day one of instruction, and no hours leave
\* it as it was.
AppliedHours(old, hours) ==
    [school |-> IF hours > 0 THEN 1 ELSE old.school, hours |-> hours]

NewDay == [school |-> 1, hours |-> NoHours]

Applied(request, old, k) ==
    IF request.at = "daily" THEN AppliedEntry(old, request.entries[k])
    ELSE AppliedHours(old, request.entries[k])

\* The update of a record sets the fields that differ from what was read.
Updated(k, read, applied) ==
    [f \in {"school", "hours"} |-> IF applied[f] = read[f] THEN day[k][f] ELSE applied[f]]

Saved(request) ==
    [k \in DOMAIN request.entries |->
        IF k \in DOMAIN request.found
        THEN Updated(k, request.found[k], Applied(request, request.found[k], k))
        ELSE Applied(request, NewDay, k)]

\* A record that the request did not find has been made meanwhile: the insert
\* breaks the unique constraint and nothing is written.
Collides(request) ==
    \E k \in DOMAIN request.entries \ DOMAIN request.found : k \in DOMAIN day

\* Mutant: the insert is an upsert of the whole row.
SaveUpserted(w) ==
    /\ log[w] # Idle
    /\ day' = Saved(log[w]) @@ day
    /\ log' = [log EXCEPT ![w] = Idle]
    /\ UNCHANGED calendar

Save(w) ==
    /\ log[w] # Idle
    /\ ~Collides(log[w])
    /\ day' = Saved(log[w]) @@ day
    /\ log' = [log EXCEPT ![w] = Idle]
    /\ UNCHANGED calendar

SaveFails(w) ==
    /\ log[w] # Idle
    /\ Collides(log[w])
    /\ log' = [log EXCEPT ![w] = Idle]
    /\ UNCHANGED <<calendar, day>>

AttendanceNext ==
    \E w \in Writers :
        \/ \E date \in Day, some \in SUBSET Students \ {{}} :
            \E entries \in [some -> Entries] : BeginDaily(w, date, entries)
        \/ \E date \in Day, s \in Students, hours \in Hours : BeginHours(w, date, s, hours)
        \/ Save(w)
        \/ SaveFails(w)

AttendanceSpec == AttendanceInit /\ [][AttendanceNext]_attendanceVars

-----------------------------------------------------------------------------
(* Adding up: the dates of the records of a student, put into buckets.  A set *)
(* of years is empty or has the one year that a request resolves to.          *)

Within(d, range) == range.first <= d /\ d <= range.last

LastToBegin(years) == {y \in years : \A z \in years : z.first <= y.first}

\* _resolve_school_year without a hint: the one asked for, or the active one.
Resolved(asked) ==
    IF asked # {} THEN asked ELSE LastToBegin({y \in calendar : y.active})

RecordedDays(s, years) ==
    {d \in Day : <<s, d>> \in DOMAIN day /\ \A y \in years : Within(d, y)}

\* A summary by term falls back to a year around the last record.
SummaryYears(s, period, asked) ==
    IF period = "term" /\ Resolved(asked) = {} /\ RecordedDays(s, {}) # {}
    THEN LastToBegin({y \in calendar : Within(Max(RecordedDays(s, {})), y)})
    ELSE Resolved(asked)

Span(r) == [first |-> r.first, last |-> r.last]

\* Mutant: what lies outside every term is not counted.
TermOfDropped(d, year) ==
    LET terms == SelectSeq(year.terms, LAMBDA t : Within(d, t)) IN
    IF terms = << >> THEN {} ELSE {Span(Head(terms))}

\* The first term with the date, or else the whole year.
TermOf(d, year) ==
    LET terms == SelectSeq(year.terms, LAMBDA t : Within(d, t)) IN
    IF terms = << >> THEN {Span(year)} ELSE {Span(Head(terms))}

\* Without a year to summarise: the first to begin of those with the date, or
\* else its calendar year (all days of an instance are of one).
YearOf(d) ==
    LET around == {y \in calendar : Within(d, y)} IN
    IF around = {} THEN {[first |-> 1, last |-> LastDay]}
    ELSE {Span(CHOOSE y \in around : \A z \in around : y.first <= z.first)}

Monday(d) == d - ((d - 1) % WeekLength)

\* The buckets a date is counted in.  (A summary by term with neither a year nor
\* a record has no bucket; the code takes records[0] of it and raises.)
BucketsOf(s, d, period, years) ==
    CASE period = "day"  -> {[first |-> d, last |-> d]}
      [] period = "week" -> {[first |-> Monday(d), last |-> Monday(d) + WeekLength - 1]}
      [] period = "term" /\ years = {} -> {[first |-> Min(RecordedDays(s, {})), last |-> Max(RecordedDays(s, {}))]}
      [] period = "term" -> UNION {TermOf(d, y) : y \in years}
      [] period = "year" /\ years = {} -> YearOf(d)
      [] OTHER -> {Span(y) : y \in years}

Summary(s, period, years) ==
    LET dates == RecordedDays(s, years) IN
    [b \in UNION {BucketsOf(s, d, period, years) : d \in dates} |->
        {d \in dates : b \in BucketsOf(s, d, period, years)}]

HoursOf(s, d) == IF day[<<s, d>>].hours = NoHours THEN 0 ELSE day[<<s, d>>].hours

\* _bucket_from_records, _sum_hours.
Counted(s, dates) ==
    [records |-> Cardinality(dates),
     school  |-> Cardinality({d \in dates : day[<<s, d>>].school = 1}),
     hours   |-> MapThenSumSet(LAMBDA d : HoursOf(s, d), dates)]

\* The totals of a summary, over its buckets.
Totals(s, period, years) ==
    LET summary == Summary(s, period, years)
        Total(F(_)) == MapThenSumSet(LAMBDA b : F(Counted(s, summary[b])), DOMAIN summary) IN
    [records |-> Total(LAMBDA c : c.records), school |-> Total(LAMBDA c : c.school), hours |-> Total(LAMBDA c : c.hours)]

\* get_instructional_hours.
HoursPage(s, years) ==
    LET counted == Counted(s, RecordedDays(s, years)) IN [recorded |-> counted.records, hours |-> counted.hours]

\* AttendanceStateProfileProgress, days_remaining.
DaysRemaining(totals) == Max({RequiredDays - totals.school, 0})

\* _attendance_progress in compliance.py.
ComplianceProgress(s, years) ==
    LET dates == RecordedDays(s, years) IN
    [days  |-> Cardinality({d \in dates : day[<<s, d>>].school = 1}),
     hours |-> MapThenSumSet(LAMBDA d : HoursOf(s, d), dates)]

-----------------------------------------------------------------------------

\* However a summary cuts a school year, and whatever the terms leave uncovered
\* or cover twice, it counts the days and the hours that the hours page and a
\* compliance check count; no day is said to remain exactly when the check finds
\* enough.  Without a year the summaries by day, week and year count every record.
SummaryAddsUp ==
    \A s \in Students, asked \in {{}} \cup {{y} : y \in calendar}, period \in {"day", "week", "term", "year"} :
        LET years  == SummaryYears(s, period, asked)
            totals == Totals(s, period, years) IN
        /\ [recorded |-> totals.records, hours |-> totals.hours] = HoursPage(s, years)
        /\ [days |-> totals.school, hours |-> totals.hours] = ComplianceProgress(s, years)
        /\ (DaysRemaining(totals) = 0) = (ComplianceProgress(s, years).days >= RequiredDays)

\* The records whose hours a request names.
Named(request) ==
    {k \in DOMAIN request.entries : request.at = "hours" \/ request.entries[k].hours # Unset}

\* The hours of a record change by a request that names hours for it, and by no
\* other: one that marks the day alone does not erase them, also when it began
\* before the record was there.
KeepsHours ==
    \A k \in DOMAIN day :
        /\ k \in DOMAIN day'
        /\ day'[k].hours # day[k].hours =>
            \E w \in Writers : log[w] # Idle /\ log'[w] = Idle /\ k \in Named(log[w])

HoursAreKept == [][KeepsHours]_attendanceVars
=============================================================================
