------------------------------ MODULE Calendar ------------------------------
(***************************************************************************)
(* The academic calendar of a family (backend/routers/calendar.py): school *)
(* years, their terms, the grading periods of the terms, and events that   *)
(* make a date a day of instruction or not.  Each handler is one action.   *)
(* Names are unique where the code asks for it, so a year, a term and a    *)
(* period are known by theirs; dates are numbered.                         *)
(***************************************************************************)
EXTENDS Integers, FiniteSets

CONSTANTS
    Dates,     \* bound: the dates, an interval
    Weekdays,  \* those from Monday to Friday
    Years, Terms, Periods, Events

\* What the constants must satisfy; assumed by the modules that give them values.
CalendarAssumption == Dates \subseteq Nat /\ Weekdays \subseteq Dates

VARIABLES
    year,    \* name -> [first, last, active], for the years there are
    term,    \* name -> [of, first, last]
    period,  \* name -> [of, first, last]
    event    \* id -> [of, date, instructional]

calendarVars == <<year, term, period, event>>

Spans == {span \in [first : Dates, last : Dates] : span.first <= span.last}

Inside(inner, outer) == outer.first <= inner.first /\ inner.last <= outer.last

Overlap(a, b) == a.first <= b.last /\ b.first <= a.last

Holds(span, date) == span.first <= date /\ date <= span.last

Put(table, key, row) == [k \in DOMAIN table \cup {key} |-> IF k = key THEN row ELSE table[k]]

Drop(table, gone) == [k \in DOMAIN table \ gone |-> table[k]]

CalendarInit == year = << >> /\ term = << >> /\ period = << >> /\ event = << >>

-----------------------------------------------------------------------------
(* School years. *)

\* _ensure_school_year_active_state: a year that is saved as active is the only one.
Saved(y, row) ==
    [k \in DOMAIN year \cup {y} |->
        IF k = y THEN row ELSE [year[k] EXCEPT !.active = @ /\ ~row.active]]

CreateYear(y, span, active) ==
    /\ y \notin DOMAIN year
    /\ year' = Saved(y, [first |-> span.first, last |-> span.last, active |-> active])
    /\ UNCHANGED <<term, period, event>>

TermsOf(y) == {t \in DOMAIN term : term[t].of = y}

EventsOf(y) == {e \in DOMAIN event : event[e].of = y}

UpdateYear(y, span, active) ==
    /\ y \in DOMAIN year
    /\ \A t \in TermsOf(y) : Inside(term[t], span)
    /\ \A e \in EventsOf(y) : Holds(span, event[e].date)
    /\ year' = Saved(y, [first |-> span.first, last |-> span.last, active |-> active])
    /\ UNCHANGED <<term, period, event>>

\* The deletion of a year takes its terms, their periods and its events.
DeleteYear(y) ==
    /\ y \in DOMAIN year
    /\ year' = Drop(year, {y})
    /\ term' = Drop(term, TermsOf(y))
    /\ period' = Drop(period, {p \in DOMAIN period : period[p].of \in TermsOf(y)})
    /\ event' = Drop(event, EventsOf(y))

-----------------------------------------------------------------------------
(* Terms and grading periods.  Periods may overlap. *)

TermFits(y, span, others) ==
    Inside(span, year[y]) /\ \A t \in TermsOf(y) \cap others : ~Overlap(span, term[t])

CreateTerm(t, y, span) ==
    /\ y \in DOMAIN year /\ t \notin DOMAIN term
    /\ TermFits(y, span, DOMAIN term)
    /\ term' = Put(term, t, [of |-> y, first |-> span.first, last |-> span.last])
    /\ UNCHANGED <<year, period, event>>

\* Mutant: the periods of the term stay as they are, whatever its new dates.
UpdateTermAlone(t, span) ==
    /\ t \in DOMAIN term
    /\ TermFits(term[t].of, span, DOMAIN term \ {t})
    /\ term' = [term EXCEPT ![t].first = span.first, ![t].last = span.last]
    /\ UNCHANGED <<year, period, event>>

UpdateTerm(t, span) ==
    /\ t \in DOMAIN term
    /\ TermFits(term[t].of, span, DOMAIN term \ {t})
    /\ \A p \in DOMAIN period : period[p].of = t => Inside(period[p], span)
    /\ term' = [term EXCEPT ![t].first = span.first, ![t].last = span.last]
    /\ UNCHANGED <<year, period, event>>

DeleteTerm(t) ==
    /\ t \in DOMAIN term
    /\ term' = Drop(term, {t})
    /\ period' = Drop(period, {p \in DOMAIN period : period[p].of = t})
    /\ UNCHANGED <<year, event>>

CreatePeriod(p, t, span) ==
    /\ t \in DOMAIN term /\ p \notin DOMAIN period
    /\ Inside(span, term[t])
    /\ period' = Put(period, p, [of |-> t, first |-> span.first, last |-> span.last])
    /\ UNCHANGED <<year, term, event>>

UpdatePeriod(p, span) ==
    /\ p \in DOMAIN period
    /\ Inside(span, term[period[p].of])
    /\ period' = [period EXCEPT ![p].first = span.first, ![p].last = span.last]
    /\ UNCHANGED <<year, term, event>>

DeletePeriod(p) ==
    /\ p \in DOMAIN period
    /\ period' = Drop(period, {p})
    /\ UNCHANGED <<year, term, event>>

-----------------------------------------------------------------------------
(* Events. *)

CreateEvent(e, y, date, instructional) ==
    /\ y \in DOMAIN year /\ e \notin DOMAIN event
    /\ Holds(year[y], date)
    /\ event' = Put(event, e, [of |-> y, date |-> date, instructional |-> instructional])
    /\ UNCHANGED <<year, term, period>>

UpdateEvent(e, date, instructional) ==
    /\ e \in DOMAIN event
    /\ Holds(year[event[e].of], date)
    /\ event' = [event EXCEPT ![e].date = date, ![e].instructional = instructional]
    /\ UNCHANGED <<year, term, period>>

DeleteEvent(e) ==
    /\ e \in DOMAIN event
    /\ event' = Drop(event, {e})
    /\ UNCHANGED <<year, term, period>>

CalendarNext ==
    \/ \E y \in Years : DeleteYear(y)
    \/ \E y \in Years, span \in Spans, active \in BOOLEAN : CreateYear(y, span, active) \/ UpdateYear(y, span, active)
    \/ \E t \in Terms, span \in Spans : UpdateTerm(t, span) \/ \E y \in Years : CreateTerm(t, y, span)
    \/ \E t \in Terms : DeleteTerm(t)
    \/ \E p \in Periods, span \in Spans : UpdatePeriod(p, span) \/ \E t \in Terms : CreatePeriod(p, t, span)
    \/ \E p \in Periods : DeletePeriod(p)
    \/ \E e \in Events, date \in Dates, instructional \in BOOLEAN :
        UpdateEvent(e, date, instructional) \/ \E y \in Years : CreateEvent(e, y, date, instructional)
    \/ \E e \in Events : DeleteEvent(e)

CalendarSpec == CalendarInit /\ [][CalendarNext]_calendarVars

-----------------------------------------------------------------------------
(* The count of the instructional days of a year. *)

\* event_map: of several events on a date, one that is instructional wins.
Mapped(y) == {event[e].date : e \in EventsOf(y)}

MappedInstructional(y, date) == \E e \in EventsOf(y) : event[e].date = date /\ event[e].instructional

Instructional(y, date) ==
    IF date \in Mapped(y) THEN MappedInstructional(y, date) ELSE date \in Weekdays

\* _calculate_instructional_day_count: the days are counted date by date over the
\* year, the overrides over the events.
DayCount(y) ==
    LET days == {date \in Dates : Holds(year[y], date)} IN
    [instructional |-> Cardinality({date \in days : Instructional(y, date)}),
     weekdays      |-> Cardinality(days \cap Weekdays),
     without       |-> Cardinality({date \in Mapped(y) \cap Weekdays : ~MappedInstructional(y, date)}),
     extra         |-> Cardinality({date \in Mapped(y) \ Weekdays : MappedInstructional(y, date)})]

-----------------------------------------------------------------------------

\* Whatever is created, changed and deleted, in whatever order: one school year
\* at most is active; the terms of a year lie within it and apart from each
\* other, the periods of a term within the term, and the events within their year
\* (the count of its days takes them for its own).
CalendarNests ==
    /\ \A y, z \in DOMAIN year : year[y].active /\ year[z].active => y = z
    /\ \A t \in DOMAIN term :
        /\ term[t].of \in DOMAIN year
        /\ Inside(term[t], year[term[t].of])
        /\ \A u \in TermsOf(term[t].of) \ {t} : ~Overlap(term[t], term[u])
    /\ \A p \in DOMAIN period : period[p].of \in DOMAIN term /\ Inside(period[p], term[period[p].of])
    /\ \A e \in DOMAIN event : event[e].of \in DOMAIN year /\ Holds(year[event[e].of], event[e].date)
=============================================================================
