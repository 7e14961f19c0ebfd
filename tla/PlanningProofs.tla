--------------------------- MODULE PlanningProofs ---------------------------
(***************************************************************************)
(* The calendar nests (Calendar), for any dates and names; the classes of  *)
(* a day lie apart (Schedule), for any schedules, weeks and times; the     *)
(* cached views show what was answered (ReadCache), for any life of an     *)
(* entry; and the pacing of lesson plans is true (LessonPlans), for any    *)
(* lessons and units.                                                      *)
(***************************************************************************)
EXTENDS Calendar, LessonPlans, ReadCache, Schedule, FiniteSetTheorems, TLAPS

-----------------------------------------------------------------------------
(* The calendar. *)

\* What the rows are.  The names of years and terms are whatever the tables hold.
CalendarType ==
    /\ year \in [DOMAIN year -> [first : Dates, last : Dates, active : BOOLEAN]]
    /\ term \in [DOMAIN term -> [of : Years, first : Dates, last : Dates]]
    /\ period \in [DOMAIN period -> [of : Terms, first : Dates, last : Dates]]
    /\ event \in [DOMAIN event -> [of : Years, date : Dates, instructional : BOOLEAN]]

\* The parts of CalendarNests.
OneActive == \A y, z \in DOMAIN year : year[y].active /\ year[z].active => y = z

TermsInside ==
    \A t \in DOMAIN term : term[t].of \in DOMAIN year /\ Inside(term[t], year[term[t].of])

TermsApart ==
    \A t, u \in DOMAIN term : t # u /\ term[t].of = term[u].of => ~Overlap(term[t], term[u])

PeriodsInside ==
    \A p \in DOMAIN period : period[p].of \in DOMAIN term /\ Inside(period[p], term[period[p].of])

EventsInside ==
    \A e \in DOMAIN event : event[e].of \in DOMAIN year /\ Holds(year[event[e].of], event[e].date)

CInv == CalendarType /\ OneActive /\ TermsInside /\ TermsApart /\ PeriodsInside /\ EventsInside

\* Every part of the invariant is a part of the property.
LEMMA CInvNests == CInv => CalendarNests
  BY DEF CInv, CalendarNests, OneActive, TermsInside, TermsApart, PeriodsInside, EventsInside, TermsOf

\* A calendar without rows.
LEMMA CInvInit == CalendarInit => CInv
<1>. SUFFICES ASSUME CalendarInit PROVE CInv
  OBVIOUS
<1>1. DOMAIN year = {} /\ DOMAIN term = {} /\ DOMAIN period = {} /\ DOMAIN event = {}
  BY DEF CalendarInit
<1>. QED
  BY <1>1 DEF CalendarInit, CInv, CalendarType, OneActive, TermsInside, TermsApart, PeriodsInside, EventsInside

\* A year is saved with dates that its terms keep, and if it is active the others are not.
LEMMA SavingKeeps ==
    ASSUME CInv, NEW y, NEW span \in Spans, NEW active \in BOOLEAN,
           y \in DOMAIN year => \A t \in TermsOf(y) : Inside(term[t], span),
           y \in DOMAIN year => \A e \in EventsOf(y) : Holds(span, event[e].date),
           year' = Saved(y, [first |-> span.first, last |-> span.last, active |-> active]),
           UNCHANGED <<term, period, event>>
    PROVE  CInv'
<1>. DEFINE row == [first |-> span.first, last |-> span.last, active |-> active]
<1>1. row \in [first : Dates, last : Dates, active : BOOLEAN]
  BY DEF Spans
<1>a. row.first = span.first /\ row.last = span.last /\ row.active = active
  OBVIOUS
<1>2. /\ DOMAIN year' = DOMAIN year \cup {y}
      /\ \A k \in DOMAIN year' :
            year'[k] = IF k = y THEN row ELSE [year[k] EXCEPT !.active = @ /\ ~row.active]
  BY DEF Saved
<1>. HIDE DEF row
<1>3. \A k \in DOMAIN year' \ {y} :
         /\ k \in DOMAIN year
         /\ year'[k] \in [first : Dates, last : Dates, active : BOOLEAN]
         /\ year'[k].first = year[k].first /\ year'[k].last = year[k].last
         /\ year'[k].active = (year[k].active /\ ~active)
  <2>. TAKE k \in DOMAIN year' \ {y}
  <2>1. k \in DOMAIN year /\ year'[k] = [year[k] EXCEPT !.active = @ /\ ~active]
    BY <1>a, <1>2
  <2>2. year[k] \in [first : Dates, last : Dates, active : BOOLEAN]
    BY <2>1 DEF CInv, CalendarType
  <2>. QED
    BY <2>1, <2>2
<1>4. year'[y] = row /\ year'[y].active = active /\ year'[y].first = span.first /\ year'[y].last = span.last
  BY <1>a, <1>2
<1>5. CalendarType'
  BY <1>1, <1>2, <1>3, <1>4, ZenonT(30) DEF CInv, CalendarType, Saved
<1>6. OneActive'
  BY <1>2, <1>3, <1>4 DEF CInv, OneActive
<1>7. TermsInside'
  BY <1>2, <1>3, <1>4 DEF CInv, TermsInside, Inside, TermsOf
<1>8. EventsInside'
  BY <1>2, <1>3, <1>4 DEF CInv, EventsInside, Holds, EventsOf
<1>. QED
  BY <1>5, <1>6, <1>7, <1>8 DEF CInv, TermsApart, PeriodsInside, Inside, Overlap

\* What is left of the tables is as it was.
LEMMA DroppingKeeps ==
    ASSUME CInv, NEW Y, NEW T, NEW P, NEW E,
           year' = Drop(year, Y), term' = Drop(term, T), period' = Drop(period, P),
           event' = Drop(event, E),
           \A t \in DOMAIN term \ T : term[t].of \notin Y,
           \A p \in DOMAIN period \ P : period[p].of \notin T,
           \A e \in DOMAIN event \ E : event[e].of \notin Y
    PROVE  CInv'
<1>1. /\ DOMAIN year' = DOMAIN year \ Y /\ \A k \in DOMAIN year' : year'[k] = year[k]
      /\ DOMAIN term' = DOMAIN term \ T /\ \A k \in DOMAIN term' : term'[k] = term[k]
      /\ DOMAIN period' = DOMAIN period \ P /\ \A k \in DOMAIN period' : period'[k] = period[k]
      /\ DOMAIN event' = DOMAIN event \ E /\ \A k \in DOMAIN event' : event'[k] = event[k]
  BY DEF Drop
<1>2. CalendarType'
  BY <1>1 DEF CInv, CalendarType, Drop
<1>. QED
  BY <1>1, <1>2 DEF CInv, OneActive, TermsInside, TermsApart, PeriodsInside, EventsInside, Inside, Overlap, Holds

\* A term, new or not, that fits beside the others of its year and around its periods.
LEMMA PlacingTermKeeps ==
    ASSUME CInv, NEW t, NEW y \in Years, NEW span \in Spans,
           y \in DOMAIN year,
           TermFits(y, span, DOMAIN term \ {t}),
           \A p \in DOMAIN period : period[p].of = t => Inside(period[p], span),
           DOMAIN term' = DOMAIN term \cup {t},
           term' \in [DOMAIN term' -> [of : Years, first : Dates, last : Dates]],
           term'[t].of = y, term'[t].first = span.first, term'[t].last = span.last,
           \A u \in DOMAIN term \ {t} : term'[u] = term[u],
           UNCHANGED <<year, period, event>>
    PROVE  CInv'
<1>1. CalendarType'
  BY DEF CInv, CalendarType
<1>2. TermsInside'
  BY DEF CInv, TermsInside, TermFits, Inside
<1>3. TermsApart'
  BY DEF CInv, TermsApart, TermFits, TermsOf, Overlap
<1>4. PeriodsInside'
  BY DEF CInv, PeriodsInside, Inside
<1>. QED
  BY <1>1, <1>2, <1>3, <1>4 DEF CInv, OneActive, EventsInside, Holds

\* A period, new or not, that lies in its term.
LEMMA PlacingPeriodKeeps ==
    ASSUME CInv, NEW p, NEW t \in Terms, NEW span \in Spans,
           t \in DOMAIN term, Inside(span, term[t]),
           DOMAIN period' = DOMAIN period \cup {p},
           period' \in [DOMAIN period' -> [of : Terms, first : Dates, last : Dates]],
           period'[p].of = t, period'[p].first = span.first, period'[p].last = span.last,
           \A q \in DOMAIN period \ {p} : period'[q] = period[q],
           UNCHANGED <<year, term, event>>
    PROVE  CInv'
<1>1. CalendarType'
  BY DEF CInv, CalendarType
<1>2. PeriodsInside'
  BY DEF CInv, PeriodsInside, Inside
<1>. QED
  BY <1>1, <1>2 DEF CInv, OneActive, TermsInside, TermsApart, EventsInside, Holds

\* Every handler keeps the invariant.
LEMMA CInvNext == CInv /\ [CalendarNext]_calendarVars => CInv'
<1>. SUFFICES ASSUME CInv, [CalendarNext]_calendarVars PROVE CInv'
  OBVIOUS
<1>. USE DEF CInv
<1>1. CASE UNCHANGED calendarVars
  BY <1>1 DEF calendarVars, CalendarType, OneActive, TermsInside, TermsApart, PeriodsInside, EventsInside, Inside, Overlap, Holds
<1>2. ASSUME UNCHANGED <<year, term, period>>,
             event' \in [DOMAIN event' -> [of : Years, date : Dates, instructional : BOOLEAN]],
             EventsInside'
      PROVE  CInv'
  BY <1>2 DEF CalendarType, OneActive, TermsInside, TermsApart, PeriodsInside, Inside, Overlap
<1>3. ASSUME NEW y \in Years, DeleteYear(y) PROVE CInv'
  <2>1. \A t \in DOMAIN term \ TermsOf(y) : term[t].of \notin {y}
    BY DEF TermsOf
  <2>2. \A e \in DOMAIN event \ EventsOf(y) : event[e].of \notin {y}
    BY DEF EventsOf
  <2>. QED
    BY <1>3, <2>1, <2>2, DroppingKeeps DEF DeleteYear
<1>4. ASSUME NEW y \in Years, NEW span \in Spans, NEW active \in BOOLEAN, CreateYear(y, span, active) PROVE CInv'
  BY <1>4, SavingKeeps DEF CreateYear
<1>5. ASSUME NEW y \in Years, NEW span \in Spans, NEW active \in BOOLEAN, UpdateYear(y, span, active) PROVE CInv'
  BY <1>5, SavingKeeps DEF UpdateYear
<1>6. ASSUME NEW t \in Terms, NEW span \in Spans, UpdateTerm(t, span) PROVE CInv'
  <2>1. term[t] \in [of : Years, first : Dates, last : Dates]
    BY <1>6 DEF UpdateTerm, CalendarType
  <2>2. /\ DOMAIN term' = DOMAIN term \cup {t}
        /\ term' \in [DOMAIN term' -> [of : Years, first : Dates, last : Dates]]
        /\ term'[t].of = term[t].of /\ term'[t].first = span.first /\ term'[t].last = span.last
        /\ \A u \in DOMAIN term \ {t} : term'[u] = term[u]
    BY <1>6, <2>1 DEF UpdateTerm, CalendarType, Spans
  <2>. QED
    BY <1>6, <2>1, <2>2, PlacingTermKeeps DEF UpdateTerm, TermsInside
<1>7. ASSUME NEW t \in Terms, NEW y \in Years, NEW span \in Spans, CreateTerm(t, y, span) PROVE CInv'
  <2>1. DOMAIN term \ {t} = DOMAIN term
    BY <1>7 DEF CreateTerm
  <2>2. /\ DOMAIN term' = DOMAIN term \cup {t}
        /\ term' \in [DOMAIN term' -> [of : Years, first : Dates, last : Dates]]
        /\ term'[t].of = y /\ term'[t].first = span.first /\ term'[t].last = span.last
        /\ \A u \in DOMAIN term \ {t} : term'[u] = term[u]
    BY <1>7 DEF CreateTerm, Put, CalendarType, Spans
  <2>3. \A p \in DOMAIN period : period[p].of = t => Inside(period[p], span)
    BY <1>7 DEF CreateTerm, PeriodsInside
  <2>. QED
    BY <1>7, <2>1, <2>2, <2>3, PlacingTermKeeps, ZenonT(30) DEF CreateTerm
<1>8. ASSUME NEW t \in Terms, DeleteTerm(t) PROVE CInv'
  <2>1. year' = Drop(year, {}) /\ event' = Drop(event, {})
    BY <1>8 DEF DeleteTerm, Drop, CalendarType
  <2>. QED
    BY <1>8, <2>1, DroppingKeeps DEF DeleteTerm
<1>9. ASSUME NEW p \in Periods, NEW span \in Spans, UpdatePeriod(p, span) PROVE CInv'
  <2>1. period[p] \in [of : Terms, first : Dates, last : Dates]
    BY <1>9 DEF UpdatePeriod, CalendarType
  <2>2. /\ DOMAIN period' = DOMAIN period \cup {p}
        /\ period' \in [DOMAIN period' -> [of : Terms, first : Dates, last : Dates]]
        /\ period'[p].of = period[p].of /\ period'[p].first = span.first /\ period'[p].last = span.last
        /\ \A q \in DOMAIN period \ {p} : period'[q] = period[q]
    BY <1>9, <2>1 DEF UpdatePeriod, CalendarType, Spans
  <2>. QED
    BY <1>9, <2>1, <2>2, PlacingPeriodKeeps DEF UpdatePeriod, PeriodsInside
<1>10. ASSUME NEW p \in Periods, NEW t \in Terms, NEW span \in Spans, CreatePeriod(p, t, span) PROVE CInv'
  <2>1. /\ DOMAIN period' = DOMAIN period \cup {p}
        /\ period' \in [DOMAIN period' -> [of : Terms, first : Dates, last : Dates]]
        /\ period'[p].of = t /\ period'[p].first = span.first /\ period'[p].last = span.last
        /\ \A q \in DOMAIN period \ {p} : period'[q] = period[q]
    BY <1>10 DEF CreatePeriod, Put, CalendarType, Spans
  <2>. QED
    BY <1>10, <2>1, PlacingPeriodKeeps DEF CreatePeriod
<1>11. ASSUME NEW p \in Periods, DeletePeriod(p) PROVE CInv'
  <2>1. year' = Drop(year, {}) /\ term' = Drop(term, {}) /\ event' = Drop(event, {})
    BY <1>11 DEF DeletePeriod, Drop, CalendarType
  <2>. QED
    BY <1>11, <2>1, DroppingKeeps DEF DeletePeriod
<1>12. ASSUME NEW e \in Events, NEW date \in Dates, NEW i \in BOOLEAN, UpdateEvent(e, date, i) PROVE CInv'
  <2>1. event[e] \in [of : Years, date : Dates, instructional : BOOLEAN]
    BY <1>12 DEF UpdateEvent, CalendarType
  <2>2. /\ DOMAIN event' = DOMAIN event
        /\ event' \in [DOMAIN event' -> [of : Years, date : Dates, instructional : BOOLEAN]]
        /\ event'[e].of = event[e].of /\ event'[e].date = date
        /\ \A f \in DOMAIN event \ {e} : event'[f] = event[f]
    BY <1>12, <2>1 DEF UpdateEvent, CalendarType
  <2>. QED
    BY <1>2, <1>12, <2>2 DEF UpdateEvent, EventsInside, Holds
<1>13. ASSUME NEW e \in Events, NEW y \in Years, NEW date \in Dates, NEW i \in BOOLEAN, CreateEvent(e, y, date, i)
       PROVE  CInv'
  <2>1. /\ DOMAIN event' = DOMAIN event \cup {e}
        /\ event' \in [DOMAIN event' -> [of : Years, date : Dates, instructional : BOOLEAN]]
        /\ event'[e].of = y /\ event'[e].date = date
        /\ \A f \in DOMAIN event \ {e} : event'[f] = event[f]
    BY <1>13 DEF CreateEvent, Put, CalendarType
  <2>. QED
    BY <1>2, <1>13, <2>1 DEF CreateEvent, EventsInside, Holds
<1>14. ASSUME NEW e \in Events, DeleteEvent(e) PROVE CInv'
  <2>1. year' = Drop(year, {}) /\ term' = Drop(term, {}) /\ period' = Drop(period, {})
    BY <1>14 DEF DeleteEvent, Drop, CalendarType
  <2>. QED
    BY <1>14, <2>1, DroppingKeeps DEF DeleteEvent
<1>. QED
  BY <1>1, <1>3, <1>4, <1>5, <1>6, <1>7, <1>8, <1>9, <1>10, <1>11, <1>12, <1>13, <1>14 DEF CalendarNext

\* Whatever the family's people create, change and delete (routers/calendar.py), one
\* year at most is active, terms lie in their year and apart, periods in their term, and
\* events in their year.
THEOREM CalendarIsNested == CalendarSpec => []CalendarNests
  BY CInvInit, CInvNext, CInvNests, PTL DEF CalendarSpec
-----------------------------------------------------------------------------
(* The schedules. *)

ScheduleType ==
    /\ schedule \in [DOMAIN schedule -> [student : Students, year : YearDates]]
    /\ block \in [DOMAIN block -> [of : DOMAIN schedule, weekday : 0..(WeekLength - 1), slot : Slots]]
    /\ DOMAIN block \subseteq Blocks
    /\ override \in [DOMAIN override -> [of : DOMAIN schedule, date : Days, type : {"add", "cancel", "reschedule"},
                                         block : DOMAIN block \cup {NoBlock}, slot : Slots \cup {AnySlot}]]
    /\ \A o \in DOMAIN override : override[o].type # "cancel" => override[o].slot \in Slots
    /\ moved \subseteq DOMAIN schedule

\* An override is of the schedule that its block is of.
OverridesOwn ==
    \A o \in DOMAIN override :
        override[o].block # NoBlock => block[override[o].block].of = override[o].of

\* A schedule of the student that covers the date and stayed where it was made.
Stands(k, s, d) ==
    /\ k \in DOMAIN schedule \ moved
    /\ schedule[k].student = s
    /\ schedule[k].year.first <= d /\ d <= schedule[k].year.last

\* Its classes on the date: the blocks that nothing hides, and the overrides.
Shows(b, s, d) ==
    /\ b \in DOMAIN block /\ Stands(block[b].of, s, d) /\ block[b].weekday = Weekday(d)
    /\ \A o \in DOMAIN override : override[o].date = d /\ override[o].type # "add" => override[o].block # b

Extra(o, s, d) ==
    /\ o \in DOMAIN override /\ Stands(override[o].of, s, d)
    /\ override[o].date = d /\ override[o].type # "cancel"

\* No two blocks, hidden or not, no two overrides, and no unexplained clash of both.
BlocksApart ==
    \A b, c \in DOMAIN block :
        /\ b # c /\ block[b].of \notin moved /\ block[c].of \notin moved
        /\ schedule[block[b].of] = schedule[block[c].of] /\ block[b].weekday = block[c].weekday
        => ~Clash(block[b].slot, block[c].slot)

ExtrasApart ==
    \A s \in Students, d \in Days : \A o, p \in DOMAIN override :
        o # p /\ Extra(o, s, d) /\ Extra(p, s, d) => ~Clash(override[o].slot, override[p].slot)

ClashesExposed ==
    \A s \in Students, d \in Days : \A b \in DOMAIN block, o \in DOMAIN override :
        Shows(b, s, d) /\ Extra(o, s, d) /\ Clash(block[b].slot, override[o].slot) => <<b, o>> \in exposed

SInv == ScheduleType /\ OverridesOwn /\ BlocksApart /\ ExtrasApart /\ ClashesExposed

\* The blocks of an agenda that stand are the ones that show: what hides one is of its schedule.
LEMMA SInvExplains == ASSUME ScheduleAssumption, SInv PROVE ClashesAreExplained
<1>1. \A b \in Blocks : b # NoBlock
  BY DEF ScheduleAssumption, NoBlock
<1>2. ASSUME NEW s \in Students, NEW d \in Days, NEW b \in Recurring(s, d), block[b].of \notin moved
      PROVE  b \in DOMAIN block /\ Shows(b, s, d)
  BY <1>1, <1>2 DEF Recurring, Hidden, OverridesOn, SchedulesOn, Shows, Stands, SInv, ScheduleType, OverridesOwn
<1>3. ASSUME NEW s \in Students, NEW d \in Days, NEW o \in Special(s, d), override[o].of \notin moved
      PROVE  o \in DOMAIN override /\ Extra(o, s, d)
  BY <1>3 DEF Special, OverridesOn, SchedulesOn, Extra, Stands
<1>4. ASSUME NEW s \in Students, NEW d \in Days, NEW b \in Recurring(s, d), NEW c \in Recurring(s, d),
             block[b].of \notin moved, block[c].of \notin moved,
             b # c, schedule[block[b].of] = schedule[block[c].of]
      PROVE  ~Clash(block[b].slot, block[c].slot)
  BY <1>4 DEF Recurring, SInv, BlocksApart
<1>5. ASSUME NEW s \in Students, NEW d \in Days, NEW o \in Special(s, d), NEW p \in Special(s, d),
             override[o].of \notin moved, override[p].of \notin moved, o # p
      PROVE  ~Clash(override[o].slot, override[p].slot)
  BY <1>3, <1>5 DEF SInv, ExtrasApart
<1>6. ASSUME NEW s \in Students, NEW d \in Days, NEW b \in Recurring(s, d), NEW o \in Special(s, d),
             block[b].of \notin moved, override[o].of \notin moved, Clash(block[b].slot, override[o].slot)
      PROVE  <<b, o>> \in exposed
  BY <1>2, <1>3, <1>6 DEF SInv, ClashesExposed
<1>. QED
  BY <1>4, <1>5, <1>6 DEF ClashesAreExplained

\* No schedule, and nothing in it.
LEMMA SInvInit == ScheduleInit => SInv
<1>. SUFFICES ASSUME ScheduleInit PROVE SInv
  OBVIOUS
<1>1. DOMAIN schedule = {} /\ DOMAIN block = {} /\ DOMAIN override = {} /\ moved = {}
  BY DEF ScheduleInit
<1>. QED
  BY <1>1 DEF ScheduleInit, SInv, ScheduleType, OverridesOwn, BlocksApart, ExtrasApart, ClashesExposed

\* A schedule that is new, or that changes and is moved, or that goes with what is in it:
\* what stands afterwards stood before, with the same classes.
LEMMA SchedulesKeep ==
    ASSUME SInv, NEW k \in Schedules, NEW s \in Students, NEW y \in YearDates,
           CreateSchedule(k, s, y) \/ UpdateSchedule(k, s, y)
    PROVE  SInv'
<1>1. UNCHANGED <<block, override, exposed>>
  BY DEF CreateSchedule, UpdateSchedule
<1>2. /\ DOMAIN schedule' = DOMAIN schedule \cup {k}
      /\ schedule' \in [DOMAIN schedule' -> [student : Students, year : YearDates]]
      /\ moved \subseteq moved' /\ moved' \subseteq DOMAIN schedule'
      /\ \A j \in DOMAIN schedule \ moved' : schedule'[j] = schedule[j]
  <2>0. schedule \in [DOMAIN schedule -> [student : Students, year : YearDates]] /\ moved \subseteq DOMAIN schedule
    BY DEF SInv, ScheduleType
  <2>1. CASE CreateSchedule(k, s, y)
    BY <2>0, <2>1 DEF CreateSchedule, Entry
  <2>2. CASE UpdateSchedule(k, s, y)
    <3>1. CASE schedule' = schedule
      BY <2>0, <2>2, <3>1 DEF UpdateSchedule
    <3>2. CASE schedule' # schedule
      BY <2>0, <2>2, <3>2 DEF UpdateSchedule
    <3>. QED
      BY <3>1, <3>2
  <2>. QED
    BY <2>1, <2>2
<1>3. \A b \in DOMAIN block : block[b].of \in DOMAIN schedule
  BY DEF SInv, ScheduleType
<1>4. \A o \in DOMAIN override : override[o].of \in DOMAIN schedule
  BY DEF SInv, ScheduleType
<1>5. ScheduleType'
  BY <1>1, <1>2 DEF SInv, ScheduleType
<1>6. OverridesOwn' /\ BlocksApart'
  BY <1>1, <1>2, <1>3 DEF SInv, OverridesOwn, BlocksApart
<1>7. ASSUME NEW t \in Students, NEW d \in Days, NEW b \in DOMAIN block, Shows(b, t, d)' PROVE Shows(b, t, d)
  BY <1>1, <1>2, <1>3, <1>7 DEF Shows, Stands
<1>8. ASSUME NEW t \in Students, NEW d \in Days, NEW o \in DOMAIN override, Extra(o, t, d)' PROVE Extra(o, t, d)
  BY <1>1, <1>2, <1>4, <1>8 DEF Extra, Stands
<1>9. ExtrasApart' /\ ClashesExposed'
  BY <1>1, <1>7, <1>8 DEF SInv, ExtrasApart, ClashesExposed
<1>. QED
  BY <1>5, <1>6, <1>9 DEF SInv

\* What is deleted with a schedule is of that schedule.
LEMMA DeleteScheduleKeeps == ASSUME ScheduleAssumption, SInv, NEW k \in Schedules, DeleteSchedule(k) PROVE SInv'
<1>1. /\ DOMAIN schedule' = DOMAIN schedule \ {k}
      /\ \A j \in DOMAIN schedule' : schedule'[j] = schedule[j]
      /\ schedule' \in [DOMAIN schedule' -> [student : Students, year : YearDates]]
      /\ moved' = moved \ {k}
  BY DEF DeleteSchedule, Without, SInv, ScheduleType
<1>2. /\ DOMAIN block' = {b \in DOMAIN block : block[b].of # k}
      /\ \A b \in DOMAIN block' : block'[b] = block[b]
      /\ block' \in [DOMAIN block' -> [of : DOMAIN schedule', weekday : 0..(WeekLength - 1), slot : Slots]]
  BY <1>1 DEF DeleteSchedule, Without, SInv, ScheduleType
<1>3. /\ DOMAIN override' = {o \in DOMAIN override : override[o].of # k}
      /\ \A o \in DOMAIN override' : override'[o] = override[o]
      /\ override' = [o \in DOMAIN override' |-> override[o]]
  BY DEF DeleteSchedule, Without
<1>4. \A o \in DOMAIN override' : override'[o].block \in DOMAIN block' \cup {NoBlock}
  BY <1>2, <1>3 DEF SInv, ScheduleType, OverridesOwn
<1>5. ScheduleType'
  <2>1. ASSUME NEW o \in DOMAIN override'
        PROVE  override[o] \in [of : DOMAIN schedule', date : Days, type : {"add", "cancel", "reschedule"},
                                 block : DOMAIN block' \cup {NoBlock}, slot : Slots \cup {AnySlot}]
    BY <1>1, <1>3, <1>4 DEF SInv, ScheduleType
  <2>. QED
    <3>1. override' \in [DOMAIN override' -> [of : DOMAIN schedule', date : Days, type : {"add", "cancel", "reschedule"},
                                               block : DOMAIN block' \cup {NoBlock}, slot : Slots \cup {AnySlot}]]
      BY <1>3, <2>1
    <3>2. DOMAIN block' \subseteq Blocks /\ moved' \subseteq DOMAIN schedule'
      BY <1>1, <1>2 DEF SInv, ScheduleType
    <3>3. \A o \in DOMAIN override' : override'[o].type # "cancel" => override'[o].slot \in Slots
      BY <1>3 DEF SInv, ScheduleType
    <3>. QED
      BY <1>1, <1>2, <3>1, <3>2, <3>3 DEF ScheduleType
<1>6. OverridesOwn' /\ BlocksApart'
  BY <1>1, <1>2, <1>3, <1>4 DEF SInv, OverridesOwn, BlocksApart, ScheduleType
<1>7. ASSUME NEW t \in Students, NEW d \in Days, NEW b \in DOMAIN block', Shows(b, t, d)' PROVE Shows(b, t, d)
  <2>1. Stands(block[b].of, t, d)
    BY <1>1, <1>2, <1>7 DEF Shows, Stands
  <2>2. \A o \in DOMAIN override \ DOMAIN override' : override[o].block # b
    <3>1. b \in DOMAIN block /\ b # NoBlock /\ block[b].of # k
      BY <1>2 DEF SInv, ScheduleType, ScheduleAssumption, NoBlock
    <3>2. \A o \in DOMAIN override \ DOMAIN override' : override[o].of = k
      BY <1>3
    <3>. QED
      BY <3>1, <3>2 DEF SInv, OverridesOwn
  <2>. QED
    BY <1>2, <1>3, <1>7, <2>1, <2>2 DEF Shows
<1>8. ASSUME NEW t \in Students, NEW d \in Days, NEW o \in DOMAIN override', Extra(o, t, d)' PROVE Extra(o, t, d)
  BY <1>1, <1>3, <1>8 DEF Extra, Stands
<1>9. ExtrasApart'
  BY <1>3, <1>8 DEF SInv, ExtrasApart
<1>10. ClashesExposed'
  BY <1>2, <1>3, <1>7, <1>8 DEF SInv, ClashesExposed, DeleteSchedule
<1>. QED
  BY <1>5, <1>6, <1>9, <1>10 DEF SInv

\* A block that is set lies apart from those of its day; it may lie over overrides.
LEMMA SetBlockKeeps ==
    ASSUME ScheduleAssumption, SInv, NEW b \in Blocks, NEW k \in DOMAIN schedule,
           NEW w \in 0..(WeekLength - 1), NEW slot \in Slots,
           Free(k, w, slot, DOMAIN block \ {b}),
           b \in DOMAIN block => block[b].of = k,
           block' = Entry(block, b, [of |-> k, weekday |-> w, slot |-> slot]),
           exposed' = exposed \cup ({b} \X DOMAIN override),
           UNCHANGED <<schedule, override, moved>>
    PROVE  SInv'
<1>1. /\ DOMAIN block' = DOMAIN block \cup {b}
      /\ block'[b] = [of |-> k, weekday |-> w, slot |-> slot]
      /\ \A c \in DOMAIN block \ {b} : block'[c] = block[c]
  BY DEF Entry
<1>2. ScheduleType'
  <2>1. block' \in [DOMAIN block' -> [of : DOMAIN schedule, weekday : 0..(WeekLength - 1), slot : Slots]]
    BY <1>1 DEF Entry, SInv, ScheduleType
  <2>2. ASSUME NEW o \in DOMAIN override
        PROVE  override[o] \in [of : DOMAIN schedule, date : Days, type : {"add", "cancel", "reschedule"},
                                 block : DOMAIN block' \cup {NoBlock}, slot : Slots \cup {AnySlot}]
    BY <1>1 DEF SInv, ScheduleType
  <2>. QED
    BY <1>1, <2>1, <2>2 DEF SInv, ScheduleType
<1>3. OverridesOwn'
  <2>1. ASSUME NEW o \in DOMAIN override, override[o].block # NoBlock
        PROVE  block'[override[o].block].of = override[o].of
    <3>1. override[o].block \in DOMAIN block /\ block[override[o].block].of = override[o].of
      BY <2>1 DEF SInv, ScheduleType, OverridesOwn
    <3>. QED
      BY <1>1, <3>1
  <2>. QED
    BY <2>1 DEF OverridesOwn
<1>4. BlocksApart'
  <2>1. ASSUME NEW c \in DOMAIN block \ {b}, schedule[block[c].of] = schedule[k], block[c].weekday = w
        PROVE  ~Clash(block[c].slot, slot) /\ ~Clash(slot, block[c].slot)
    <3>1. block[c].slot \in Slots
      BY DEF SInv, ScheduleType
    <3>. QED
      BY <2>1, <3>1 DEF Free, Clash, ScheduleAssumption
  <2>. QED
    BY <1>1, <2>1 DEF SInv, BlocksApart
<1>5. ASSUME NEW s \in Students, NEW d \in Days, NEW o \in DOMAIN override PROVE Extra(o, s, d)' = Extra(o, s, d)
  BY DEF Extra, Stands
<1>6. ExtrasApart'
  BY <1>5 DEF SInv, ExtrasApart
<1>7. ASSUME NEW s \in Students, NEW d \in Days, NEW c \in DOMAIN block \ {b}, Shows(c, s, d)' PROVE Shows(c, s, d)
  BY <1>1, <1>7 DEF Shows, Stands
<1>8. ClashesExposed'
  BY <1>1, <1>5, <1>7 DEF SInv, ClashesExposed
<1>. QED
  BY <1>2, <1>3, <1>4, <1>6, <1>8 DEF SInv

\* A deleted block is nobody's; what it was to its overrides, no block is.
LEMMA DeleteBlockKeeps == ASSUME ScheduleAssumption, SInv, NEW b \in Blocks, DeleteBlock(b) PROVE SInv'
<1>1. /\ DOMAIN block' = DOMAIN block \ {b}
      /\ \A c \in DOMAIN block' : block'[c] = block[c]
      /\ block' \in [DOMAIN block' -> [of : DOMAIN schedule, weekday : 0..(WeekLength - 1), slot : Slots]]
  BY DEF DeleteBlock, Without, SInv, ScheduleType
<1>2. /\ DOMAIN override' = DOMAIN override
      /\ \A o \in DOMAIN override :
            /\ override'[o].of = override[o].of /\ override'[o].date = override[o].date
            /\ override'[o].type = override[o].type /\ override'[o].slot = override[o].slot
            /\ override'[o].block = IF override[o].block = b THEN NoBlock ELSE override[o].block
      /\ override' \in [DOMAIN override' ->
            [of : DOMAIN schedule, date : Days, type : {"add", "cancel", "reschedule"},
             block : DOMAIN block' \cup {NoBlock}, slot : Slots \cup {AnySlot}]]
  <2>1. override' = [o \in DOMAIN override |->
                       IF override[o].block = b THEN [override[o] EXCEPT !.block = NoBlock] ELSE override[o]]
    BY DEF DeleteBlock
  <2>2. ASSUME NEW o \in DOMAIN override
        PROVE  /\ override'[o].of = override[o].of /\ override'[o].date = override[o].date
               /\ override'[o].type = override[o].type /\ override'[o].slot = override[o].slot
               /\ override'[o].block = IF override[o].block = b THEN NoBlock ELSE override[o].block
               /\ override'[o] \in [of : DOMAIN schedule, date : Days, type : {"add", "cancel", "reschedule"},
                                    block : DOMAIN block' \cup {NoBlock}, slot : Slots \cup {AnySlot}]
    <3>1. override[o] \in [of : DOMAIN schedule, date : Days, type : {"add", "cancel", "reschedule"},
                            block : DOMAIN block \cup {NoBlock}, slot : Slots \cup {AnySlot}]
      BY DEF SInv, ScheduleType
    <3>. QED
      BY <1>1, <2>1, <3>1
  <2>. QED
    BY <2>1, <2>2
<1>3. UNCHANGED <<schedule, moved>> /\ exposed' = {e \in exposed : e[1] # b}
  BY DEF DeleteBlock
<1>4. ScheduleType'
  BY <1>1, <1>2, <1>3 DEF SInv, ScheduleType
<1>5. OverridesOwn'
  BY <1>1, <1>2 DEF SInv, ScheduleType, OverridesOwn
<1>6. BlocksApart'
  BY <1>1, <1>3 DEF SInv, BlocksApart
<1>7. ASSUME NEW s \in Students, NEW d \in Days, NEW o \in DOMAIN override PROVE Extra(o, s, d)' = Extra(o, s, d)
  BY <1>2, <1>3 DEF Extra, Stands
<1>8. ExtrasApart'
  BY <1>2, <1>7 DEF SInv, ExtrasApart
<1>9. ASSUME NEW s \in Students, NEW d \in Days, NEW c \in DOMAIN block', Shows(c, s, d)' PROVE Shows(c, s, d)
  BY <1>1, <1>2, <1>3, <1>9 DEF Shows, Stands
<1>10. ClashesExposed'
  BY <1>1, <1>2, <1>3, <1>7, <1>9 DEF SInv, ClashesExposed
<1>. QED
  BY <1>4, <1>5, <1>6, <1>8, <1>10 DEF SInv

\* A new override fits the agenda, and has the only word on its block.
LEMMA CreateOverrideKeeps ==
    ASSUME ScheduleAssumption, SInv, NEW o \in Overrides, NEW k \in Schedules, NEW d \in Days,
           NEW b \in Blocks \cup {NoBlock}, NEW type \in {"add", "cancel", "reschedule"},
           NEW slot \in Slots \cup {AnySlot}, type # "cancel" => slot \in Slots,
           CreateOverride(o, k, d, type, b, slot)
    PROVE  SInv'
<1>. DEFINE row == [of |-> k, date |-> d, type |-> type, block |-> b, slot |-> slot]
<1>0. UNCHANGED <<schedule, block, moved, exposed>> /\ k \in DOMAIN schedule /\ o \notin DOMAIN override
  BY DEF CreateOverride
<1>1. /\ DOMAIN override' = DOMAIN override \cup {o}
      /\ override'[o] = row
      /\ \A p \in DOMAIN override : override'[p] = override[p]
  BY DEF CreateOverride, Entry
<1>2. b # NoBlock => b \in DOMAIN block /\ block[b].of = k
  BY DEF CreateOverride
<1>3. ScheduleType'
  <2>1. row \in [of : DOMAIN schedule, date : Days, type : {"add", "cancel", "reschedule"},
                  block : DOMAIN block \cup {NoBlock}, slot : Slots \cup {AnySlot}]
    BY <1>0, <1>2
  <2>2. override' = [p \in DOMAIN override \cup {o} |-> IF p = o THEN row ELSE override[p]]
    BY DEF CreateOverride, Entry
  <2>. QED
    BY <1>0, <1>1, <2>1, <2>2 DEF SInv, ScheduleType
<1>4. OverridesOwn' /\ BlocksApart'
  BY <1>0, <1>1, <1>2 DEF SInv, OverridesOwn, BlocksApart
<1>5. ASSUME NEW s \in Students, NEW e \in Days, NEW c \in DOMAIN block, Shows(c, s, e)' PROVE Shows(c, s, e)
  BY <1>0, <1>1, <1>5 DEF Shows, Stands
<1>6. ASSUME NEW s \in Students, NEW e \in Days, NEW p \in DOMAIN override PROVE Extra(p, s, e)' = Extra(p, s, e)
  BY <1>0, <1>1 DEF Extra, Stands
<1>7. ASSUME NEW s \in Students, NEW e \in Days, Extra(o, s, e)'
      PROVE  s = schedule[k].student /\ e = d /\ Fits(k, d, type, b, slot) /\ Stands(k, s, d) /\ slot \in Slots
  BY <1>0, <1>1, <1>7 DEF Extra, Stands, CreateOverride
<1>8. ASSUME NEW s \in Students, NEW e \in Days, NEW c \in DOMAIN block, Shows(c, s, e)', Extra(o, s, e)'
      PROVE  ~Clash(block[c].slot, slot)
  <2>1. c \in Recurring(schedule[k].student, d)
    BY <1>5, <1>7, <1>8 DEF Shows, Stands, Recurring, Hidden, OverridesOn, SchedulesOn
  <2>2. type # "add" => c # b
    BY <1>1, <1>7, <1>8 DEF Shows
  <2>3. c \in Blocks /\ NoBlock \notin Blocks
    BY DEF SInv, ScheduleType, ScheduleAssumption, NoBlock
  <2>. QED
    BY <1>7, <1>8, <2>1, <2>2, <2>3 DEF Fits
<1>9. ASSUME NEW s \in Students, NEW e \in Days, NEW p \in DOMAIN override, Extra(p, s, e), Extra(o, s, e)'
      PROVE  ~Clash(override[p].slot, slot) /\ ~Clash(slot, override[p].slot)
  <2>1. p \in Special(schedule[k].student, d)
    BY <1>7, <1>9 DEF Extra, Stands, Special, OverridesOn, SchedulesOn
  <2>2. override[p].block # NoBlock => override[p].block # b
    BY <1>2, <1>7, <1>9 DEF CreateOverride, Undecided, SInv, OverridesOwn, Extra
  <2>3. override[p].slot \in Slots
    BY <1>9 DEF Extra, SInv, ScheduleType
  <2>4. ~Clash(override[p].slot, slot)
    BY <1>7, <1>9, <2>1, <2>2 DEF Fits
  <2>. QED
    BY <1>7, <1>9, <2>3, <2>4 DEF Clash, ScheduleAssumption
<1>10. ExtrasApart'
  BY <1>1, <1>6, <1>9 DEF SInv, ExtrasApart
<1>11. ClashesExposed'
  BY <1>0, <1>1, <1>5, <1>6, <1>8 DEF SInv, ClashesExposed
<1>. QED
  BY <1>3, <1>4, <1>10, <1>11 DEF SInv

\* Without the override its block shows again, over whatever is there now.
LEMMA DeleteOverrideKeeps == ASSUME ScheduleAssumption, SInv, NEW o \in Overrides, DeleteOverride(o) PROVE SInv'
<1>0. UNCHANGED <<schedule, block, moved>> /\ o \in DOMAIN override
  BY DEF DeleteOverride
<1>1. /\ DOMAIN override' = DOMAIN override \ {o}
      /\ \A p \in DOMAIN override' : override'[p] = override[p]
      /\ override' = [p \in DOMAIN override' |-> override[p]]
  BY DEF DeleteOverride, Without
<1>2. ScheduleType' /\ OverridesOwn' /\ BlocksApart'
  BY <1>0, <1>1 DEF SInv, ScheduleType, OverridesOwn, BlocksApart
<1>3. ASSUME NEW s \in Students, NEW d \in Days, NEW p \in DOMAIN override' PROVE Extra(p, s, d)' = Extra(p, s, d)
  BY <1>0, <1>1 DEF Extra, Stands
<1>4. ExtrasApart'
  BY <1>1, <1>3 DEF SInv, ExtrasApart
<1>5. ASSUME NEW s \in Students, NEW d \in Days, NEW b \in DOMAIN block, Shows(b, s, d)', b # override[o].block
      PROVE  Shows(b, s, d)
  BY <1>0, <1>1, <1>5 DEF Shows, Stands
<1>6. NoBlock \notin DOMAIN block
  BY DEF SInv, ScheduleType, ScheduleAssumption, NoBlock
<1>7. /\ \A e \in exposed : e[2] # o => e \in exposed'
      /\ override[o].block # NoBlock => \A p \in DOMAIN override' : <<override[o].block, p>> \in exposed'
  BY DEF DeleteOverride
<1>8. ClashesExposed'
  BY <1>0, <1>1, <1>3, <1>5, <1>6, <1>7 DEF SInv, ClashesExposed
<1>. QED
  BY <1>2, <1>4, <1>8 DEF SInv

\* Every step keeps the invariant.
LEMMA SInvNext == ASSUME ScheduleAssumption, SInv, [ScheduleNext]_scheduleVars PROVE SInv'
<1>1. CASE UNCHANGED scheduleVars
  BY <1>1 DEF scheduleVars, SInv, ScheduleType, OverridesOwn, BlocksApart, ExtrasApart, ClashesExposed,
              Extra, Shows, Stands
<1>2. ASSUME NEW b \in Blocks, NEW k \in Schedules, NEW w \in 0..(WeekLength - 1), NEW slot \in Slots,
             CreateBlock(b, k, w, slot)
      PROVE  SInv'
  <2>1. DOMAIN block \ {b} = DOMAIN block
    BY <1>2 DEF CreateBlock
  <2>. QED
    BY <1>2, <2>1, SetBlockKeeps DEF CreateBlock
<1>3. ASSUME NEW b \in Blocks, NEW w \in 0..(WeekLength - 1), NEW slot \in Slots, UpdateBlock(b, w, slot)
      PROVE  SInv'
  <2>1. block[b].of \in DOMAIN schedule /\ block[b] \in [of : DOMAIN schedule, weekday : 0..(WeekLength - 1), slot : Slots]
    BY <1>3 DEF UpdateBlock, SInv, ScheduleType
  <2>. QED
    BY <1>3, <2>1, SetBlockKeeps DEF UpdateBlock
<1>4. ASSUME NEW o \in Overrides, NEW k \in Schedules, NEW d \in Days, NEW b \in Blocks \cup {NoBlock},
             \/ \E type \in {"add", "reschedule"}, slot \in Slots : CreateOverride(o, k, d, type, b, slot)
             \/ CreateOverride(o, k, d, "cancel", b, AnySlot)
      PROVE  SInv'
  BY <1>4, CreateOverrideKeeps
<1>. QED
  BY <1>1, <1>2, <1>3, <1>4, SchedulesKeep, DeleteScheduleKeeps, DeleteBlockKeeps, DeleteOverrideKeeps DEF ScheduleNext

\* However schedules, blocks and overrides are set, moved and taken back
\* (routers/schedule.py), two classes of a student are at one time only where a block
\* was set, or shown again, under an override.
THEOREM ScheduleClashesAreExplained ==
    ASSUME ScheduleAssumption
    PROVE  ScheduleSpec => []ClashesAreExplained
<1>1. SInv /\ [ScheduleNext]_scheduleVars => SInv'
  BY SInvNext
<1>2. SInv => ClashesAreExplained
  BY SInvExplains
<1>. QED
  BY SInvInit, <1>1, <1>2, PTL DEF ScheduleSpec

-----------------------------------------------------------------------------
(* The cache. *)

CacheEntry == [view : Int, expires : Nat, crossed : BOOLEAN]

CacheRead == [at : {"ready", "misses", "computes", "served"}, view : Int, began : Nat,
         known : SUBSET Nat, crossed : BOOLEAN]

ReadCacheType ==
    /\ clock \in Nat
    /\ LastWrite \in Nat /\ DOMAIN written = 1..LastWrite
    /\ uncleared \subseteq 1..LastWrite /\ answered \subseteq 1..LastWrite
    /\ entry \in CacheEntry
    /\ reads \in [Requests -> CacheRead]

\* An entry that no invalidation went past while it was computed has every answered write.
EntryIsFresh == entry # NoEntry /\ ~entry.crossed => answered \subseteq 1..entry.view

\* So has a view under computation; what a request knew is answered.
ReadsAreFresh ==
    \A r \in Requests :
        /\ reads[r].known \subseteq answered
        /\ reads[r].at = "computes" /\ ~reads[r].crossed => answered \subseteq 1..reads[r].view
        /\ reads[r].at = "served" /\ ~reads[r].crossed => reads[r].known \subseteq 1..reads[r].view

CacheInv == ReadCacheType /\ EntryIsFresh /\ ReadsAreFresh

\* Nothing is written, cached or read.
LEMMA CacheInit == ReadCacheInit => CacheInv
<1>. SUFFICES ASSUME ReadCacheInit PROVE CacheInv
  OBVIOUS
<1>1. DOMAIN written = {} /\ LastWrite = 0
  BY FS_EmptySet DEF ReadCacheInit, LastWrite
<1>2. 1..0 = {}
  OBVIOUS
<1>. QED
  BY <1>1, <1>2 DEF ReadCacheInit, CacheInv, ReadCacheType, EntryIsFresh, ReadsAreFresh, NoEntry, Ready, CacheEntry, CacheRead

\* A write that commits is the next one, and nobody knows of it.
LEMMA CommitKeepsCache == ASSUME CacheInv, NEW i \in BOOLEAN, Commit(i) PROVE CacheInv'
<1>. DEFINE n == LastWrite + 1
<1>1. n \in Nat /\ 1..LastWrite \subseteq 1..n /\ n \in 1..n
  BY DEF CacheInv, ReadCacheType
<1>2. DOMAIN written' = 1..n
  BY DEF Commit
<1>3. LastWrite' = n
  BY <1>1, <1>2, FS_Interval DEF LastWrite
<1>. QED
  BY <1>1, <1>2, <1>3 DEF CacheInv, ReadCacheType, EntryIsFresh, ReadsAreFresh, Commit

\* An invalidation leaves no entry, and crosses every view under computation.
LEMMA InvalidateKeepsCache == ASSUME CacheInv, NEW w \in uncleared, Invalidate(w) PROVE CacheInv'
<1>1. LastWrite' = LastWrite /\ DOMAIN written' = DOMAIN written
  BY DEF Invalidate, LastWrite
<1>2. \A r \in Requests :
        /\ reads'[r] \in CacheRead
        /\ reads'[r].at = reads[r].at /\ reads'[r].view = reads[r].view /\ reads'[r].known = reads[r].known
        /\ reads'[r].crossed = (reads[r].crossed \/ reads[r].at = "computes")
  BY DEF Invalidate, CacheInv, ReadCacheType, CacheRead
<1>3. ReadCacheType'
  <2>1. reads' \in [Requests -> CacheRead]
    BY <1>2 DEF Invalidate
  <2>. QED
    BY <1>1, <2>1 DEF Invalidate, CacheInv, ReadCacheType, NoEntry, CacheEntry
<1>. QED
  BY <1>1, <1>2, <1>3 DEF Invalidate, CacheInv, ReadCacheType, EntryIsFresh, ReadsAreFresh

\* A request takes one of the steps of a read.
LEMMA ReadKeepsCache ==
    ASSUME ReadCacheAssumption, CacheInv, NEW r \in Requests,
           Hit(r) \/ Miss(r) \/ ReadRows(r) \/ Store(r) \/ Finish(r)
    PROVE  CacheInv'
<1>. USE DEF CacheInv, ReadCacheType, EntryIsFresh, ReadsAreFresh
<1>1. UNCHANGED <<clock, written, uncleared, answered>> /\ LastWrite' = LastWrite
  BY DEF Hit, Miss, ReadRows, Store, Finish, LastWrite
<1>2. answered \subseteq Nat
  OBVIOUS
<1>3. CASE Hit(r)
  <2>1. entry # NoEntry
    BY <1>3 DEF Hit, Expired, NoEntry
  <2>2. reads'[r] = [at |-> "served", view |-> entry.view, began |-> clock, known |-> answered,
                     crossed |-> entry.crossed]
    BY <1>3 DEF Hit
  <2>. QED
    BY <1>1, <1>2, <1>3, <2>1, <2>2 DEF Hit, CacheEntry, CacheRead
<1>4. CASE Miss(r)
  <2>1. reads'[r] = [at |-> "misses", view |-> -1, began |-> clock, known |-> answered, crossed |-> FALSE]
    BY <1>4 DEF Miss, Ready
  <2>2. entry' = NoEntry /\ \A q \in Requests \ {r} : reads'[q] = reads[q]
    BY <1>4 DEF Miss
  <2>3. reads'[r] \in CacheRead /\ reads'[r].at = "misses" /\ reads'[r].known = answered
    BY <1>2, <2>1 DEF CacheRead
  <2>4. reads' \in [Requests -> CacheRead]
    BY <1>4, <2>3 DEF Miss
  <2>. QED
    BY <1>1, <2>2, <2>3, <2>4 DEF NoEntry, CacheEntry
<1>5. CASE ReadRows(r)
  <2>0. reads' = [reads EXCEPT ![r] = [reads[r] EXCEPT !.at = "computes", !.view = LastWrite]]
    BY <1>5 DEF ReadRows
  <2>a. reads[r] \in CacheRead /\ LastWrite \in Int /\ reads'[r] = [reads[r] EXCEPT !.at = "computes", !.view = LastWrite]
    BY <2>0
  <2>. HIDE DEF CacheInv, ReadCacheType, EntryIsFresh, ReadsAreFresh
  <2>b. reads'[r] \in CacheRead
    BY <2>a DEF CacheRead
  <2>c. reads'[r].at = "computes" /\ reads'[r].view = LastWrite /\ reads'[r].known = reads[r].known
    BY <2>a DEF CacheRead
  <2>1. /\ reads'[r] \in CacheRead
        /\ reads'[r].at = "computes" /\ reads'[r].view = LastWrite /\ reads'[r].known = reads[r].known
    BY <2>b, <2>c
  <2>. USE DEF CacheInv, ReadCacheType, EntryIsFresh, ReadsAreFresh
  <2>2. reads' \in [Requests -> CacheRead] /\ entry' = entry /\ \A q \in Requests \ {r} : reads'[q] = reads[q]
    BY <1>5, <2>0, <2>1 DEF ReadRows
  <2>. QED
    BY <1>1, <2>1, <2>2
<1>6. CASE Store(r)
  <2>1. /\ reads'[r] \in CacheRead
        /\ reads'[r].at = "served" /\ reads'[r].view = reads[r].view /\ reads'[r].known = reads[r].known
        /\ reads'[r].crossed = reads[r].crossed
    BY <1>6 DEF Store, CacheRead
  <2>2. entry' = [view |-> reads[r].view, expires |-> clock + Ttl, crossed |-> reads[r].crossed]
        /\ entry' \in CacheEntry
    BY <1>6 DEF Store, CacheEntry, CacheRead, ReadCacheAssumption
  <2>. QED
    BY <1>1, <1>6, <2>1, <2>2 DEF Store
<1>7. CASE Finish(r)
  BY <1>1, <1>7 DEF Finish, Ready, CacheRead
<1>. QED
  BY <1>3, <1>4, <1>5, <1>6, <1>7

\* Every step keeps the invariant.
LEMMA CacheNext ==
    ASSUME ReadCacheAssumption, CacheInv, [ReadCacheNext]_readCacheVars
    PROVE  CacheInv'
<1>1. CASE UNCHANGED readCacheVars
  BY <1>1 DEF readCacheVars, CacheInv, ReadCacheType, EntryIsFresh, ReadsAreFresh, LastWrite
<1>2. CASE Recalculate
  BY <1>2 DEF Recalculate, CacheInv, ReadCacheType, EntryIsFresh, ReadsAreFresh, LastWrite, NoEntry, CacheEntry
<1>3. CASE Pass
  BY <1>3 DEF Pass, CacheInv, ReadCacheType, EntryIsFresh, ReadsAreFresh, LastWrite
<1>. QED
  BY <1>1, <1>2, <1>3, CommitKeepsCache, InvalidateKeepsCache, ReadKeepsCache DEF ReadCacheNext

\* Whatever reads and writes interleave (cache.py get_or_set and invalidate_prefix), and
\* for any life of an entry, a read shows every write that was answered before it, unless
\* an invalidation went past the computation of its view.
THEOREM AnswersAreShown ==
    ASSUME ReadCacheAssumption
    PROVE  ReadCacheSpec => []AnsweredWritesShow
<1>1. CacheInv => AnsweredWritesShow
  BY DEF CacheInv, ReadsAreFresh, AnsweredWritesShow
<1>2. CacheInv /\ [ReadCacheNext]_readCacheVars => CacheInv'
  BY CacheNext
<1>. QED
  BY CacheInit, <1>1, <1>2, PTL DEF ReadCacheSpec

-----------------------------------------------------------------------------
(* The pacing of lesson plans. *)

IsTable(table, keys, values) == DOMAIN table \subseteq keys /\ table \in [DOMAIN table -> values]

IsPlans(plans)   == IsTable(plans, Learners \X lessons, Statuses)
IsTargets(table) == IsTable(table, Learners \X Units, BOOLEAN)

PacingType ==
    /\ lessons \subseteq Lessons /\ IsFiniteSet(lessons) /\ units \subseteq Units
    /\ IsPlans(plan) /\ IsTargets(pacing)

\* Every lesson of a target's unit has a finished plan of its student.
AllFinished(plans, k) ==
    /\ InUnit(k[2]) # {}
    /\ \A p \in {k[1]} \X InUnit(k[2]) : p \in DOMAIN plans /\ plans[p] \in finished

PacingFollows == \A k \in DOMAIN pacing \ stale : pacing[k] = AllFinished(plan, k)

PacingInv == PacingType /\ PacingFollows

\* As many pairs with s as there are elements are all of them.
LEMMA CountingPairs ==
    ASSUME NEW s, NEW X, IsFiniteSet(X), NEW C \in SUBSET ({s} \X X)
    PROVE  Cardinality(C) = Cardinality(X) <=> C = {s} \X X
<1>1. IsFiniteSet({s}) /\ Cardinality({s}) = 1
  BY FS_Singleton
<1>2. IsFiniteSet({s} \X X) /\ Cardinality({s} \X X) = 1 * Cardinality(X)
  BY <1>1, FS_Product
<1>3. Cardinality(X) \in Nat
  BY FS_CardinalityType
<1>4. Cardinality({s} \X X) = Cardinality(X)
  BY <1>2, <1>3
<1>5. Cardinality({s} \X X) = Cardinality(C) => {s} \X X = C
  BY <1>2, FS_Subset
<1>. QED
  BY <1>4, <1>5

\* Counting the finished plans finds out what it should, when the plans' objects have
\* the lessons they are for.
LEMMA DoneIsFinished ==
    ASSUME IsFiniteSet(lessons), NEW plans, IsPlans(plans),
           NEW seen, \A k \in DOMAIN plans : seen[k] = UnitOfPlan(k),
           NEW s \in Learners, NEW u
    PROVE  Done(plans, seen, s, u, Cardinality(InUnit(u))) = AllFinished(plans, <<s, u>>)
<1>. DEFINE counted == {k \in DOMAIN plans : k[1] = s /\ seen[k] = u}
<1>1. \A k \in DOMAIN plans : k = <<k[1], k[2]>> /\ k[2] \in lessons /\ seen[k] = UnitOf[k[2]]
  BY DEF IsPlans, IsTable, UnitOfPlan
<1>2. counted \in SUBSET ({s} \X InUnit(u))
  BY <1>1 DEF InUnit
<1>3. IsFiniteSet(InUnit(u))
  BY FS_Subset DEF InUnit
<1>4. Cardinality(InUnit(u)) \in Nat /\ (Cardinality(InUnit(u)) = 0 <=> InUnit(u) = {})
  BY <1>3, FS_CardinalityType, FS_EmptySet
<1>5. Cardinality(counted) = Cardinality(InUnit(u)) <=> counted = {s} \X InUnit(u)
  <2>. HIDE DEF counted
  <2>. QED
    BY <1>2, <1>3, CountingPairs
<1>6. counted = {s} \X InUnit(u) <=> \A p \in {s} \X InUnit(u) : p \in DOMAIN plans
  <2>1. ASSUME NEW p \in {s} \X InUnit(u), p \in DOMAIN plans PROVE p \in counted
    BY <1>1, <2>1 DEF InUnit
  <2>. QED
    BY <1>2, <2>1
<1>8. Done(plans, seen, s, u, Cardinality(InUnit(u)))
        <=> Cardinality(InUnit(u)) > 0 /\ Cardinality(counted) = Cardinality(InUnit(u)) /\ \A k \in counted : plans[k] \in finished
  BY DEF Done
<1>9. AllFinished(plans, <<s, u>>)
        <=> InUnit(u) # {} /\ \A p \in {s} \X InUnit(u) : p \in DOMAIN plans /\ plans[p] \in finished
  BY DEF AllFinished
<1>10. Done(plans, seen, s, u, Cardinality(InUnit(u))) <=> AllFinished(plans, <<s, u>>)
  <2>. HIDE DEF counted
  <2>. QED
    BY <1>4, <1>5, <1>6, <1>8, <1>9
<1>. QED
  BY <1>10 DEF Done, AllFinished

\* What a refresh leaves in the targets.
Follows(new, table, plans, students, among) ==
    /\ DOMAIN new = DOMAIN table /\ new \in [DOMAIN table -> BOOLEAN]
    /\ \A k \in DOMAIN table :
          new[k] = IF k[1] \in students /\ k[2] \in among THEN AllFinished(plans, k) ELSE table[k]

LEMMA RefreshedPacing ==
    ASSUME IsFiniteSet(lessons), NEW plans, IsPlans(plans),
           NEW table, IsTargets(table), NEW students, NEW among,
           NEW new, new = Refreshed(table, plans, Seen(plans), students, among)
    PROVE  Follows(new, table, plans, students, among)
<1>. DEFINE looked == [p \in {q \in DOMAIN plans : UnitOfPlan(q) \in among} |-> plans[p]]
<1>1. IsPlans(looked)
  BY DEF IsPlans, IsTable
<1>2. \A k \in DOMAIN looked : Seen(plans)[k] = UnitOfPlan(k)
  BY DEF Seen
<1>3. ASSUME NEW s \in Learners, NEW u \in among
      PROVE  AllFinished(looked, <<s, u>>) = AllFinished(plans, <<s, u>>)
  <2>1. \A p \in {s} \X InUnit(u) :
           /\ p \in DOMAIN looked <=> p \in DOMAIN plans
           /\ p \in DOMAIN plans => looked[p] = plans[p]
    BY DEF InUnit, UnitOfPlan
  <2>. HIDE DEF looked
  <2>2. AllFinished(looked, <<s, u>>) <=> AllFinished(plans, <<s, u>>)
    BY <2>1 DEF AllFinished
  <2>. QED
    BY <2>2 DEF AllFinished
<1>4. ASSUME NEW s \in Learners, NEW u \in among
      PROVE  Done(looked, Seen(plans), s, u, Cardinality(InUnit(u))) = AllFinished(plans, <<s, u>>)
  <2>. HIDE DEF looked
  <2>. QED
    BY <1>1, <1>2, <1>3, DoneIsFinished
<1>5. \A k \in DOMAIN table : k[1] \in Learners /\ k = <<k[1], k[2]>> /\ table[k] \in BOOLEAN
  BY DEF IsTargets, IsTable
<1>6. new = [k \in DOMAIN table |->
               IF k[1] \in students /\ k[2] \in among
               THEN Done(looked, Seen(plans), k[1], k[2], Cardinality(InUnit(k[2]))) ELSE table[k]]
  BY DEF Refreshed
<1>7. ASSUME NEW k \in DOMAIN table
      PROVE  /\ new[k] = (IF k[1] \in students /\ k[2] \in among THEN AllFinished(plans, k) ELSE table[k])
             /\ new[k] \in BOOLEAN
  <2>. HIDE DEF looked
  <2>1. CASE k[1] \in students /\ k[2] \in among
    <3>1. Done(looked, Seen(plans), k[1], k[2], Cardinality(InUnit(k[2]))) = AllFinished(plans, k)
      BY <1>4, <1>5, <2>1
    <3>2. AllFinished(plans, k) \in BOOLEAN
      BY DEF AllFinished
    <3>. QED
      BY <1>6, <2>1, <3>1, <3>2
  <2>2. CASE ~(k[1] \in students /\ k[2] \in among)
    BY <1>5, <1>6, <2>2
  <2>. QED
    BY <2>1, <2>2
<1>. QED
  BY <1>6, <1>7 DEF Follows

\* The plans of the others, and for other units, are as they were.
SameElsewhere(plans, students, among) ==
    \A k \in Learners \X lessons :
        \/ k[1] \in students /\ UnitOf[k[2]] \in among
        \/ /\ k \in DOMAIN plans <=> k \in DOMAIN plan
           /\ k \in DOMAIN plan => plans[k] = plan[k]

LEMMA OthersFinishAsBefore ==
    ASSUME NEW plans, NEW students, NEW among, SameElsewhere(plans, students, among),
           NEW k \in Learners \X Units, ~(k[1] \in students /\ k[2] \in among)
    PROVE  AllFinished(plans, k) = AllFinished(plan, k)
<1>1. \A p \in {k[1]} \X InUnit(k[2]) :
         /\ p \in DOMAIN plans <=> p \in DOMAIN plan
         /\ p \in DOMAIN plan => plans[p] = plan[p]
  BY DEF SameElsewhere, InUnit
<1>2. AllFinished(plans, k) <=> AllFinished(plan, k)
  BY <1>1 DEF AllFinished
<1>. QED
  BY <1>2 DEF AllFinished

\* New plans, and the targets that follow them.
LEMMA RefreshingKeeps ==
    ASSUME PacingInv, UNCHANGED lessons, units' \subseteq Units,
           IsPlans(plan'),
           NEW students, NEW among, SameElsewhere(plan', students, among),
           NEW table, IsTargets(table),
           \A k \in DOMAIN table :
              \/ k[1] \in students /\ k[2] \in among
              \/ k \in DOMAIN pacing /\ table[k] = pacing[k] /\ (k \in stale => k \in stale'),
           pacing' = Refreshed(table, plan', Seen(plan'), students, among)
    PROVE  PacingInv'
<1>1. Follows(pacing', table, plan', students, among)
  <2>1. IsFiniteSet(lessons)
    BY DEF PacingInv, PacingType
  <2>. QED
    BY <2>1, RefreshedPacing
<1>2. PacingType'
  BY <1>1 DEF PacingInv, PacingType, IsTable, IsPlans, IsTargets, Follows
<1>3. ASSUME NEW k \in DOMAIN pacing' \ stale' PROVE pacing'[k] = AllFinished(plan', k)
  <2>1. k \in DOMAIN table /\ k \in Learners \X Units
    BY <1>1, <1>3 DEF IsTable, IsTargets, Follows
  <2>2. CASE k[1] \in students /\ k[2] \in among
    BY <1>1, <2>1, <2>2 DEF Follows
  <2>3. CASE ~(k[1] \in students /\ k[2] \in among)
    <3>1. pacing'[k] = pacing[k] /\ k \in DOMAIN pacing \ stale
      BY <1>1, <1>3, <2>1, <2>3 DEF Follows
    <3>2. pacing[k] = AllFinished(plan, k)
      BY <3>1 DEF PacingInv, PacingFollows
    <3>. QED
      BY <2>1, <2>3, <3>1, <3>2, OthersFinishAsBefore
  <2>. QED
    BY <2>2, <2>3
<1>4. \A k : AllFinished(plan, k)' = AllFinished(plan', k)
  BY DEF AllFinished, InUnit
<1>5. PacingFollows'
  BY <1>3, <1>4 DEF PacingFollows
<1>. QED
  BY <1>2, <1>5 DEF PacingInv

LEMMA SavesKeeps ==
    ASSUME PacingInv, UNCHANGED <<lessons, units>>, NEW plans, NEW students, NEW among,
           IsPlans(plans), SameElsewhere(plans, students, among), Saves(plans, students, among)
    PROVE  PacingInv'
<1>1. /\ plan' = plans /\ stale' = stale \ (students \X among)
      /\ pacing' = Refreshed(pacing, plan', Seen(plan'), students, among)
  BY DEF Saves
<1>2. IsTargets(pacing) /\ units \subseteq Units
  BY DEF PacingInv, PacingType
<1>3. \A k \in DOMAIN pacing :
         \/ k[1] \in students /\ k[2] \in among
         \/ k \in DOMAIN pacing /\ pacing[k] = pacing[k] /\ (k \in stale => k \in stale')
  BY <1>1, <1>2 DEF IsTargets, IsTable
<1>. QED
  BY <1>1, <1>2, <1>3, RefreshingKeeps

\* Targets that are as they were.
LEMMA UntouchedKeeps ==
    ASSUME PacingInv, PacingType',
           \A k \in DOMAIN pacing' \ stale' :
              k \in DOMAIN pacing \ stale /\ pacing'[k] = pacing[k] /\ AllFinished(plan, k)' = AllFinished(plan, k)
    PROVE  PacingInv'
BY DEF PacingInv, PacingFollows

LEMMA CreatePlanKeeps ==
    ASSUME PacingInv, NEW s \in Learners, NEW l \in Lessons, NEW status \in Statuses, CreatePlan(s, l, status)
    PROVE  PacingInv'
<1>. DEFINE plans == WithRow(plan, <<s, l>>, status)
<1>1. l \in lessons /\ UNCHANGED <<lessons, units>> /\ Saves(plans, {s}, {UnitOf[l]})
  BY DEF CreatePlan
<1>2. IsPlans(plans)
  BY <1>1 DEF PacingInv, PacingType, IsPlans, IsTable, WithRow
<1>3. SameElsewhere(plans, {s}, {UnitOf[l]})
  BY DEF SameElsewhere, WithRow
<1>. HIDE DEF plans
<1>. QED
  BY <1>1, <1>2, <1>3, SavesKeeps

LEMMA DeletePlanKeeps ==
    ASSUME PacingInv, NEW s \in Learners, NEW l \in Lessons, DeletePlan(s, l)
    PROVE  PacingInv'
<1>. DEFINE plans == Rest(plan, {<<s, l>>})
<1>1. UNCHANGED <<lessons, units>> /\ Saves(plans, {s}, {UnitOf[l]})
  BY DEF DeletePlan
<1>2. IsPlans(plans)
  BY DEF PacingInv, PacingType, IsPlans, IsTable, Rest
<1>3. SameElsewhere(plans, {s}, {UnitOf[l]})
  BY DEF SameElsewhere, Rest
<1>. HIDE DEF plans
<1>. QED
  BY <1>1, <1>2, <1>3, SavesKeeps

\* A plan that stays in its unit is counted there; the targets of two units that it
\* moves between are not looked at again.
LEMMA UpdatePlanKeeps ==
    ASSUME PacingInv, NEW s \in Learners, NEW l \in Lessons, NEW t \in Learners, NEW m \in Lessons,
           NEW status \in Statuses, UpdatePlan(s, l, t, m, status)
    PROVE  PacingInv'
<1>. DEFINE among == {UnitOf[l], UnitOf[m]}
            plans == WithRow(Rest(plan, {<<s, l>>}), <<t, m>>, status)
            seen  == [Seen(plans) EXCEPT ![<<t, m>>] = UnitOf[l]]
<1>1. /\ m \in lessons /\ UNCHANGED <<lessons, units>> /\ plan' = plans
      /\ pacing' = Refreshed(pacing, plans, seen, {s, t}, among)
      /\ stale' = IF UnitOf[l] = UnitOf[m] THEN stale \ ({s, t} \X among)
                  ELSE stale \cup (DOMAIN pacing \cap ({s, t} \X among))
  BY DEF UpdatePlan
<1>2. IsPlans(plans)
  BY <1>1 DEF PacingInv, PacingType, IsPlans, IsTable, WithRow, Rest
<1>3. SameElsewhere(plans, {s, t}, among)
  BY DEF SameElsewhere, WithRow, Rest
<1>4. CASE UnitOf[l] = UnitOf[m]
  <2>1. <<t, m>> \in DOMAIN plans /\ Seen(plans)[<<t, m>>] = UnitOf[m]
    BY DEF Seen, WithRow, UnitOfPlan
  <2>2. seen = Seen(plans)
    <3>1. Seen(plans) = [k \in DOMAIN plans |-> UnitOfPlan(k)]
      BY DEF Seen
    <3>. HIDE DEF plans
    <3>. QED
      BY <1>4, <2>1, <3>1
  <2>3. Saves(plans, {s, t}, among)
    BY <1>1, <1>4, <2>2 DEF Saves
  <2>. HIDE DEF plans, among
  <2>. QED
    BY <1>1, <1>2, <1>3, <2>3, SavesKeeps
<1>5. CASE UnitOf[l] # UnitOf[m]
  <2>. HIDE DEF plans, among, seen
  <2>1. IsTargets(pacing)
    BY DEF PacingInv, PacingType
  <2>2. /\ DOMAIN pacing' = DOMAIN pacing /\ pacing' \in [DOMAIN pacing -> BOOLEAN]
        /\ \A k \in DOMAIN pacing : ~(k[1] \in {s, t} /\ k[2] \in among) => pacing'[k] = pacing[k]
    BY <1>1, <2>1 DEF Refreshed, Done, IsTargets, IsTable
  <2>3. PacingType'
    BY <1>1, <1>2, <2>2 DEF PacingInv, PacingType, IsPlans, IsTargets, IsTable
  <2>4. ASSUME NEW k \in DOMAIN pacing' \ stale'
        PROVE  k \in DOMAIN pacing \ stale /\ pacing'[k] = pacing[k] /\ AllFinished(plan, k)' = AllFinished(plan, k)
    <3>1. k \in DOMAIN pacing \ stale /\ ~(k[1] \in {s, t} /\ k[2] \in among) /\ k \in Learners \X Units
      BY <1>1, <1>5, <2>1, <2>2 DEF IsTargets, IsTable
    <3>2. AllFinished(plans, k) = AllFinished(plan, k)
      BY <1>3, <3>1, OthersFinishAsBefore
    <3>3. AllFinished(plan, k)' = AllFinished(plans, k)
      BY <1>1 DEF AllFinished, InUnit
    <3>. QED
      BY <2>2, <3>1, <3>2, <3>3
  <2>. QED
    BY <2>3, <2>4, UntouchedKeeps
<1>. QED
  BY <1>4, <1>5

LEMMA UpdateStatusesKeeps ==
    ASSUME PacingInv, NEW plans \in SUBSET (DOMAIN plan), NEW status \in Statuses, UpdateStatuses(plans, status)
    PROVE  PacingInv'
<1>. DEFINE after   == [k \in DOMAIN plan |-> IF k \in plans THEN status ELSE plan[k]]
            touched == {<<k[1], UnitOfPlan(k)>> : k \in plans}
<1>1. /\ UNCHANGED <<lessons, units>> /\ plan' = after /\ stale' = stale \ touched
      /\ pacing' = [k \in DOMAIN pacing |->
                       IF k \in touched
                       THEN Done(after, Seen(after), k[1], k[2], Cardinality(InUnit(k[2]))) ELSE pacing[k]]
  BY DEF UpdateStatuses
<1>2. /\ IsTargets(pacing) /\ IsFiniteSet(lessons) /\ units \subseteq Units /\ lessons \subseteq Lessons
      /\ IsPlans(after) /\ DOMAIN after = DOMAIN plan /\ DOMAIN plan \subseteq Learners \X lessons
  BY DEF PacingInv, PacingType, IsPlans, IsTable
<1>3. \A k \in DOMAIN after : Seen(after)[k] = UnitOfPlan(k)
  BY DEF Seen
<1>4. ASSUME NEW k \in DOMAIN pacing
      PROVE  /\ Done(after, Seen(after), k[1], k[2], Cardinality(InUnit(k[2]))) = AllFinished(after, k)
             /\ k \notin touched => AllFinished(after, k) = AllFinished(plan, k)
  <2>1. k[1] \in Learners /\ k = <<k[1], k[2]>>
    BY <1>2 DEF IsTargets, IsTable
  <2>2. Done(after, Seen(after), k[1], k[2], Cardinality(InUnit(k[2]))) = AllFinished(after, k)
    <3>. HIDE DEF after
    <3>. QED
      BY <1>2, <1>3, <2>1, DoneIsFinished
  <2>3. ASSUME k \notin touched PROVE AllFinished(after, k) = AllFinished(plan, k)
    <3>1. ASSUME NEW p \in {k[1]} \X InUnit(k[2]), p \in DOMAIN plan PROVE after[p] = plan[p]
      <4>1. <<p[1], UnitOfPlan(p)>> = k
        BY <2>1 DEF InUnit, UnitOfPlan
      <4>2. p \notin plans
        BY <2>3, <4>1
      <4>. QED
        BY <3>1, <4>2
    <3>. HIDE DEF after
    <3>2. AllFinished(after, k) <=> AllFinished(plan, k)
      BY <1>2, <3>1 DEF AllFinished
    <3>. QED
      BY <3>2 DEF AllFinished
  <2>. QED
    BY <2>2, <2>3
<1>. HIDE DEF after, touched
<1>5. ASSUME NEW k \in DOMAIN pacing PROVE pacing'[k] \in BOOLEAN
  BY <1>1, <1>2, <1>5 DEF Done, IsTargets, IsTable
<1>6. PacingType'
  BY <1>1, <1>2, <1>5 DEF PacingType, IsPlans, IsTargets, IsTable
<1>7. ASSUME NEW k \in DOMAIN pacing' \ stale' PROVE pacing'[k] = AllFinished(plan, k)'
  <2>1. k \in DOMAIN pacing /\ (k \notin touched => k \notin stale)
    BY <1>1, <1>7
  <2>2. AllFinished(plan, k)' = AllFinished(after, k)
    BY <1>1 DEF AllFinished, InUnit
  <2>3. CASE k \in touched
    BY <1>1, <1>4, <2>1, <2>2, <2>3
  <2>4. CASE k \notin touched
    <3>1. pacing[k] = AllFinished(plan, k)
      BY <2>1, <2>4 DEF PacingInv, PacingFollows
    <3>. QED
      BY <1>1, <1>4, <2>1, <2>2, <2>4, <3>1
  <2>. QED
    BY <2>3, <2>4
<1>. QED
  BY <1>6, <1>7 DEF PacingInv, PacingFollows

LEMMA GeneratePlansKeeps ==
    ASSUME PacingInv, NEW s \in Learners, NEW overwrite \in BOOLEAN, GeneratePlans(s, overwrite)
    PROVE  PacingInv'
<1>. DEFINE existing == {k \in DOMAIN plan : k[1] = s}
            among    == {UnitOf[l] : l \in lessons}
            fresh    == [k \in {s} \X lessons |-> "unfinished"]
            plans    == [k \in (DOMAIN plan \ existing) \cup DOMAIN fresh |->
                            IF k \in DOMAIN fresh THEN fresh[k] ELSE plan[k]]
            targets  == [k \in DOMAIN pacing \cup ({s} \X among) |->
                            IF k \in DOMAIN pacing THEN pacing[k] ELSE FALSE]
<1>1. /\ UNCHANGED <<lessons, units>> /\ plan' = plans /\ stale' = stale \ ({s} \X among)
      /\ pacing' = Refreshed(targets, plans, Seen(plans), {s}, among)
  BY DEF GeneratePlans
<1>2. lessons \subseteq Lessons /\ units \subseteq Units /\ IsPlans(plan) /\ IsTargets(pacing)
  BY DEF PacingInv, PacingType
<1>3. IsPlans(plans)
  BY <1>2 DEF IsPlans, IsTable, Statuses
<1>4. SameElsewhere(plans, {s}, among)
  BY <1>2 DEF SameElsewhere, IsPlans, IsTable
<1>5. among \subseteq Units
  BY <1>2 DEF Units
<1>6. IsTargets(targets)
  <2>. HIDE DEF among
  <2>. QED
    BY <1>2, <1>5 DEF IsTargets, IsTable
<1>7. \A k \in DOMAIN targets :
         \/ k[1] \in {s} /\ k[2] \in among
         \/ k \in DOMAIN pacing /\ targets[k] = pacing[k] /\ (k \in stale => k \in stale')
  <2>. HIDE DEF among
  <2>. QED
    BY <1>1, <1>2 DEF IsTargets, IsTable
<1>. HIDE DEF plans, targets, among
<1>. QED
  BY <1>1, <1>2, <1>3, <1>4, <1>6, <1>7, RefreshingKeeps

LEMMA CreateTargetKeeps ==
    ASSUME PacingInv, NEW s \in Learners, NEW u \in Units, CreateTarget(s, u)
    PROVE  PacingInv'
<1>. DEFINE table == WithRow(pacing, <<s, u>>, FALSE)
<1>1. /\ UNCHANGED <<lessons, units, plan, stale>>
      /\ pacing' = Refreshed(table, plan', Seen(plan'), {s}, {u})
  BY DEF CreateTarget
<1>2. units \subseteq Units /\ IsPlans(plan') /\ IsTargets(pacing)
  BY <1>1 DEF PacingInv, PacingType
<1>3. SameElsewhere(plan', {s}, {u})
  BY <1>1 DEF SameElsewhere
<1>. DEFINE keys == DOMAIN pacing \cup {<<s, u>>}
<1>4. table = [k \in keys |-> IF k = <<s, u>> THEN FALSE ELSE pacing[k]]
  BY DEF WithRow
<1>5. keys \subseteq Learners \X Units /\ \A k \in keys : k # <<s, u>> => k \in DOMAIN pacing /\ pacing[k] \in BOOLEAN
  BY <1>2 DEF IsTargets, IsTable
<1>. HIDE DEF keys, table
<1>6. IsTargets(table)
  BY <1>4, <1>5 DEF IsTargets, IsTable
<1>7. ASSUME NEW k \in DOMAIN table
      PROVE  \/ k[1] \in {s} /\ k[2] \in {u}
             \/ k \in DOMAIN pacing /\ table[k] = pacing[k] /\ (k \in stale => k \in stale')
  <2>1. CASE k = <<s, u>>
    BY <2>1
  <2>2. CASE k # <<s, u>>
    BY <1>1, <1>4, <1>5, <2>2
  <2>. QED
    BY <2>1, <2>2
<1>. QED
  BY <1>1, <1>2, <1>3, <1>6, <1>7, RefreshingKeeps

LEMMA UpdateTargetKeeps ==
    ASSUME PacingInv, NEW s \in Learners, NEW u \in Units, NEW t \in Learners, NEW v \in Units, UpdateTarget(s, u, t, v)
    PROVE  PacingInv'
<1>. DEFINE done == Done(plan, Seen(plan), t, v, Cardinality(InUnit(u)))
<1>1. /\ UNCHANGED <<lessons, units, plan>> /\ pacing' = WithRow(Rest(pacing, {<<s, u>>}), <<t, v>>, done)
      /\ stale' = (stale \ {<<s, u>>, <<t, v>>}) \cup (IF u = v THEN {} ELSE {<<t, v>>})
  BY DEF UpdateTarget
<1>2. IsFiniteSet(lessons) /\ IsPlans(plan) /\ IsTargets(pacing)
  BY DEF PacingInv, PacingType
<1>3. done \in BOOLEAN
  BY DEF Done
<1>4. u = v => done = AllFinished(plan, <<t, v>>)
  <2>1. \A k \in DOMAIN plan : Seen(plan)[k] = UnitOfPlan(k)
    BY DEF Seen
  <2>. QED
    BY <1>2, <2>1, DoneIsFinished
<1>. HIDE DEF done
<1>5. /\ DOMAIN pacing' = (DOMAIN pacing \ {<<s, u>>}) \cup {<<t, v>>} /\ pacing'[<<t, v>>] = done
      /\ \A k \in DOMAIN pacing' \ {<<t, v>>} : k \in DOMAIN pacing \ {<<s, u>>} /\ pacing'[k] = pacing[k]
      /\ pacing' = [k \in DOMAIN pacing' |-> pacing'[k]]
  BY <1>1 DEF WithRow, Rest
<1>6. PacingType'
  <2>1. IsTargets(pacing')
    BY <1>2, <1>3, <1>5 DEF IsTargets, IsTable
  <2>. QED
    BY <1>1, <2>1 DEF PacingInv, PacingType, IsPlans, IsTargets, IsTable
<1>7. ASSUME NEW k \in DOMAIN pacing' \ stale' PROVE pacing'[k] = AllFinished(plan, k)'
  <2>1. AllFinished(plan, k)' = AllFinished(plan, k)
    BY <1>1 DEF AllFinished, InUnit
  <2>2. CASE k = <<t, v>>
    BY <1>1, <1>4, <1>5, <1>7, <2>1, <2>2
  <2>3. CASE k # <<t, v>>
    BY <1>1, <1>5, <1>7, <2>1, <2>3 DEF PacingInv, PacingFollows
  <2>. QED
    BY <2>2, <2>3
<1>. QED
  BY <1>6, <1>7 DEF PacingInv, PacingFollows

\* Lessons come and go: the targets of their units are stale, or go too.
LEMMA CurriculumKeepsPacing ==
    ASSUME PacingInv, units' \subseteq Units, NEW gone, NEW come, IsFiniteSet(come), come \subseteq Lessons,
           lessons' = (lessons \ gone) \cup come, gone \subseteq lessons,
           \A k \in DOMAIN pacing' \ stale' :
              /\ k \in DOMAIN pacing \ stale /\ pacing'[k] = pacing[k]
              /\ \A l \in gone \cup come : UnitOf[l] # k[2],
           IsTargets(pacing)', plan' = Rest(plan, Learners \X gone)
    PROVE  PacingInv'
<1>1. IsFiniteSet(lessons')
  <2>1. IsFiniteSet(lessons \ gone)
    BY FS_Subset DEF PacingInv, PacingType
  <2>. QED
    BY <2>1, FS_Union
<1>2. IsPlans(plan)'
  <2>1. IsPlans(plan) /\ DOMAIN plan' = DOMAIN plan \ (Learners \X gone) /\ plan' = [k \in DOMAIN plan' |-> plan[k]]
    BY DEF PacingInv, PacingType, Rest
  <2>2. DOMAIN plan' \subseteq Learners \X lessons'
    BY <2>1 DEF IsPlans, IsTable
  <2>3. plan' \in [DOMAIN plan' -> Statuses]
    BY <2>1 DEF IsPlans, IsTable
  <2>. QED
    BY <2>2, <2>3 DEF IsPlans, IsTable, Statuses, finished
<1>3. PacingType'
  <2>1. lessons' \subseteq Lessons
    BY DEF PacingInv, PacingType
  <2>. QED
    BY <1>1, <1>2, <2>1 DEF PacingType, Units
<1>4. ASSUME NEW k \in DOMAIN pacing' \ stale' PROVE AllFinished(plan, k)' = AllFinished(plan, k)
  <2>1. InUnit(k[2])' = InUnit(k[2]) /\ \A l \in InUnit(k[2]) : l \notin gone
    BY DEF InUnit
  <2>2. \A p \in {k[1]} \X InUnit(k[2]) : p \notin Learners \X gone
    BY <2>1
  <2>3. \A p \in {k[1]} \X InUnit(k[2]) :
           /\ p \in DOMAIN plan' <=> p \in DOMAIN plan
           /\ p \in DOMAIN plan => plan'[p] = plan[p]
    BY <2>2 DEF Rest
  <2>4. AllFinished(plan, k)' <=> AllFinished(plan, k)
    BY <2>1, <2>3 DEF AllFinished
  <2>. QED
    BY <2>4 DEF AllFinished
<1>. QED
  BY <1>3, <1>4, UntouchedKeeps

LessonChanges(l, gone, come) ==
    /\ come \subseteq {l} /\ gone \subseteq {l} /\ gone \subseteq lessons
    /\ lessons' = (lessons \ gone) \cup come /\ plan' = Rest(plan, Learners \X gone)
    /\ stale' = stale \cup (DOMAIN pacing \cap (Learners \X {UnitOf[l]})) /\ UNCHANGED <<units, pacing>>

LEMMA CurriculumStepsKeep ==
    ASSUME PacingInv,
           \/ \E u \in Units : CreateUnit(u) \/ DeleteUnit(u)
           \/ \E l \in Lessons : CreateLesson(l) \/ DeleteLesson(l)
    PROVE  PacingInv'
<1>0. /\ lessons \subseteq Lessons /\ units \subseteq Units /\ IsPlans(plan) /\ IsTargets(pacing)
      /\ \A k \in DOMAIN pacing : k \in Learners \X Units
  BY DEF PacingInv, PacingType, IsTargets, IsTable
<1>1. ASSUME NEW u \in Units, CreateUnit(u) PROVE PacingInv'
  BY <1>1 DEF CreateUnit, PacingInv, PacingType, PacingFollows, IsPlans, IsTargets, IsTable, AllFinished, InUnit
<1>2. ASSUME NEW u \in Units, DeleteUnit(u) PROVE PacingInv'
  <2>1. /\ lessons' = (lessons \ InUnit(u)) \cup {} /\ units' \subseteq Units
        /\ plan' = Rest(plan, Learners \X InUnit(u))
        /\ pacing' = Rest(pacing, Learners \X {u}) /\ stale' = stale \ (Learners \X {u})
    BY <1>0, <1>2 DEF DeleteUnit, Cascade
  <2>2. InUnit(u) \subseteq lessons /\ (\A l \in InUnit(u) \cup {} : UnitOf[l] = u) /\ IsFiniteSet({})
    BY FS_EmptySet DEF InUnit
  <2>3. /\ DOMAIN pacing' = DOMAIN pacing \ (Learners \X {u})
        /\ \A k \in DOMAIN pacing' : pacing'[k] = pacing[k] /\ k[2] # u /\ k \notin Learners \X {u}
    BY <1>0, <2>1 DEF Rest
  <2>4. IsTargets(pacing)'
    BY <1>0, <2>1 DEF IsTargets, IsTable, Rest, Units
  <2>5. \A k \in DOMAIN pacing' \ stale' :
           /\ k \in DOMAIN pacing \ stale /\ pacing'[k] = pacing[k]
           /\ \A l \in InUnit(u) \cup {} : UnitOf[l] # k[2]
    BY <2>1, <2>2, <2>3
  <2>. QED
    BY <2>1, <2>2, <2>4, <2>5, CurriculumKeepsPacing
<1>3. ASSUME NEW l \in Lessons, NEW gone, NEW come, LessonChanges(l, gone, come) PROVE PacingInv'
  <2>. USE <1>3 DEF LessonChanges
  <2>1. IsFiniteSet(come) /\ come \subseteq Lessons
    BY <1>3, FS_Singleton, FS_Subset
  <2>2. ASSUME NEW k \in DOMAIN pacing' \ stale'
        PROVE  /\ k \in DOMAIN pacing \ stale /\ pacing'[k] = pacing[k]
               /\ \A m \in gone \cup come : UnitOf[m] # k[2]
    <3>1. k \in DOMAIN pacing \ stale /\ pacing'[k] = pacing[k] /\ k \notin Learners \X {UnitOf[l]}
      BY <1>3
    <3>. QED
      BY <1>0, <1>3, <3>1
  <2>3. IsTargets(pacing)'
    BY <1>0, <1>3 DEF IsTargets, IsTable, Units
  <2>. QED
    BY <1>0, <1>3, <2>1, <2>2, <2>3, CurriculumKeepsPacing
<1>4. ASSUME NEW l \in Lessons, CreateLesson(l) PROVE PacingInv'
  <2>1. Rest(plan, Learners \X {}) = plan
    BY <1>0 DEF Rest, IsPlans, IsTable
  <2>2. LessonChanges(l, {}, {l})
    BY <1>4, <2>1 DEF CreateLesson, LessonChanges
  <2>. QED
    BY <1>3, <2>2
<1>5. ASSUME NEW l \in Lessons, DeleteLesson(l) PROVE PacingInv'
  <2>1. LessonChanges(l, {l}, {})
    BY <1>5 DEF DeleteLesson, Cascade, LessonChanges
  <2>. QED
    BY <1>3, <2>1
<1>. QED
  BY <1>1, <1>2, <1>4, <1>5

LEMMA PacingInvNext == ASSUME PacingInv, [LessonPlansNext]_lessonPlansVars PROVE PacingInv'
<1>1. CASE UNCHANGED <<lessons, units, plan, pacing, stale>>
  BY <1>1 DEF PacingInv, PacingType, PacingFollows, IsPlans, IsTargets, IsTable, AllFinished, InUnit
<1>2. ASSUME NEW s \in Learners, NEW u \in Units, DeleteTarget(s, u) PROVE PacingInv'
  <2>1. /\ UNCHANGED <<lessons, units, plan>> /\ pacing' = Rest(pacing, {<<s, u>>}) /\ stale' = stale \ {<<s, u>>}
    BY <1>2 DEF DeleteTarget
  <2>2. PacingType'
    BY <2>1 DEF PacingInv, PacingType, IsPlans, IsTargets, IsTable, Rest
  <2>3. \A k \in DOMAIN pacing' \ stale' : k \in DOMAIN pacing \ stale /\ pacing'[k] = pacing[k]
    BY <2>1 DEF Rest
  <2>4. \A k : AllFinished(plan, k)' = AllFinished(plan, k)
    BY <2>1 DEF AllFinished, InUnit
  <2>. QED
    BY <2>2, <2>3, <2>4, UntouchedKeeps
<1>3. ASSUME NEW plans \in SUBSET (DOMAIN plan), GenerateAssignments(plans) PROVE PacingInv'
  BY <1>1, <1>3 DEF GenerateAssignments
<1>4. CASE UNCHANGED lessonPlansVars
  BY <1>1, <1>4 DEF lessonPlansVars
<1>. QED
  BY <1>2, <1>3, <1>4, CurriculumStepsKeep, CreatePlanKeeps, UpdatePlanKeeps, DeletePlanKeeps,
     UpdateStatusesKeeps, GeneratePlansKeeps, CreateTargetKeeps, UpdateTargetKeeps DEF LessonPlansNext

LEMMA PacingInvInit == ASSUME LessonPlansInit PROVE PacingInv
<1>1. DOMAIN plan = {} /\ DOMAIN pacing = {} /\ lessons = {} /\ units = {}
  BY DEF LessonPlansInit
<1>2. plan \in [{} -> Statuses] /\ pacing \in [{} -> BOOLEAN]
  BY DEF LessonPlansInit
<1>. QED
  BY <1>1, <1>2, FS_EmptySet DEF PacingInv, PacingType, PacingFollows, IsPlans, IsTargets, IsTable

\* The pace of a target: of total lessons, done finished.
LEMMA PaceIsFair ==
    ASSUME NEW total \in Nat, NEW done \in Nat, NEW completed, NEW today \in Nat, NEW length \in Nat
    PROVE  /\ total = 0 /\ completed = {} => Pace(total, done, completed, today, length) = "on_track"
           /\ Pace(total, done, completed, today, length) = "ahead" => completed # {} \/ done > 0
           /\ \A day \in Nat : completed = {day} =>
                 (Pace(total, done, completed, today, length) = "behind" => day > length)
<1>. DEFINE elapsed  == IF today > length THEN length ELSE today
            actual   == 100 * done * length
            expected == 100 * elapsed * total
            margin   == 15 * total * length
<1>1. elapsed \in Nat /\ elapsed * total \in Nat /\ total * length \in Nat /\ done * length \in Nat
  OBVIOUS
<1>2. expected \in Nat /\ margin \in Nat /\ (done = 0 => actual = 0) /\ actual \in Nat
  BY <1>1
<1>3. Pace(total, done, completed, today, length) =
        CASE \E day \in completed : day < length -> "ahead"
          [] \E day \in completed : day > length -> "behind"
          [] completed = {length} -> "on_track"
          [] completed = {} /\ today > length /\ done < total -> "behind"
          [] completed = {} /\ (today < 1 \/ total = 0) -> "on_track"
          [] OTHER -> IF actual > expected + margin THEN "ahead"
                      ELSE IF actual + margin < expected THEN "behind" ELSE "on_track"
  BY DEF Pace
<1>. HIDE DEF elapsed, actual, expected, margin
<1>4. completed = {} =>
        Pace(total, done, completed, today, length) =
          IF today > length /\ done < total THEN "behind"
          ELSE IF today < 1 \/ total = 0 THEN "on_track"
          ELSE IF actual > expected + margin THEN "ahead"
          ELSE IF actual + margin < expected THEN "behind" ELSE "on_track"
  BY <1>3
<1>5. \A day \in Nat : completed = {day} =>
        Pace(total, done, completed, today, length) =
          IF day < length THEN "ahead" ELSE IF day > length THEN "behind" ELSE "on_track"
  BY <1>3
<1>. QED
  BY <1>2, <1>4, <1>5

LEMMA PacingInvTells == ASSUME LessonPlansAssumption, PacingInv PROVE PacingIsTrue
<1>. SUFFICES ASSUME NEW k \in DOMAIN pacing \ stale
              PROVE  LET Finished(l) == <<k[1], l>> \in DOMAIN plan /\ plan[<<k[1], l>>] \in finished
                     IN  /\ pacing[k] = (InUnit(k[2]) # {} /\ \A l \in InUnit(k[2]) : Finished(l))
                         /\ \A day \in 0..MaxDays + 1, today \in 0..MaxDays + 1 :
                              /\ PaceOf(k, day, today) = "behind" =>
                                    (pacing[k] /\ day > MaxDays) \/ \E l \in InUnit(k[2]) : ~Finished(l)
                              /\ PaceOf(k, day, today) = "ahead" => \E l \in InUnit(k[2]) : Finished(l)
  BY Zenon DEF PacingIsTrue
<1>. DEFINE Finished(l) == <<k[1], l>> \in DOMAIN plan /\ plan[<<k[1], l>>] \in finished
            all  == InUnit(k[2]) # {} /\ \A l \in InUnit(k[2]) : Finished(l)
            done == {p \in DOMAIN plan : p[1] = k[1] /\ UnitOfPlan(p) = k[2] /\ plan[p] \in finished}
<1>1. k \in DOMAIN pacing /\ pacing[k] \in BOOLEAN /\ IsFiniteSet(lessons) /\ IsPlans(plan)
  BY DEF PacingInv, PacingType, IsTargets, IsTable
<1>2. pacing[k] = all
  <2>1. pacing[k] = AllFinished(plan, k)
    BY DEF PacingInv, PacingFollows
  <2>2. AllFinished(plan, k) <=> all
    <3>1. (\A p \in {k[1]} \X InUnit(k[2]) : p \in DOMAIN plan /\ plan[p] \in finished)
            <=> \A l \in InUnit(k[2]) : Finished(l)
      OBVIOUS
    <3>. HIDE DEF Finished
    <3>. QED
      BY <3>1 DEF AllFinished
  <2>. QED
    BY <1>1, <2>1, <2>2
<1>3. \A p \in done : p[2] \in InUnit(k[2]) /\ Finished(p[2]) /\ p \in {k[1]} \X InUnit(k[2])
  <2>1. \A p \in DOMAIN plan : p = <<p[1], p[2]>> /\ p[2] \in lessons
    BY <1>1 DEF IsPlans, IsTable
  <2>. QED
    BY <2>1 DEF InUnit, UnitOfPlan
<1>. HIDE DEF Finished, done
<1>4. IsFiniteSet(InUnit(k[2])) /\ IsFiniteSet(done)
  <2>1. IsFiniteSet(InUnit(k[2]))
    BY <1>1, FS_Subset DEF InUnit
  <2>2. IsFiniteSet({k[1]} \X InUnit(k[2]))
    BY <2>1, FS_Singleton, FS_Product
  <2>3. done \in SUBSET ({k[1]} \X InUnit(k[2]))
    BY <1>3
  <2>. QED
    BY <2>1, <2>2, <2>3, FS_Subset
<1>5. /\ Cardinality(InUnit(k[2])) \in Nat /\ Cardinality(done) \in Nat
      /\ Cardinality(InUnit(k[2])) = 0 <=> InUnit(k[2]) = {}
      /\ Cardinality(done) > 0 => \E l \in InUnit(k[2]) : Finished(l)
  <2>1. Cardinality(InUnit(k[2])) \in Nat /\ Cardinality(done) \in Nat
    BY <1>4, FS_CardinalityType
  <2>2. (Cardinality(InUnit(k[2])) = 0 <=> InUnit(k[2]) = {}) /\ (Cardinality(done) = 0 <=> done = {})
    BY <1>4, FS_EmptySet
  <2>3. done # {} => \E l \in InUnit(k[2]) : Finished(l)
    BY <1>3
  <2>. QED
    BY <2>1, <2>2, <2>3
<1>6. ASSUME NEW day \in 0..MaxDays + 1, NEW today \in 0..MaxDays + 1
      PROVE  /\ PaceOf(k, day, today) = "behind" =>
                   (pacing[k] /\ day > MaxDays) \/ \E l \in InUnit(k[2]) : ~Finished(l)
             /\ PaceOf(k, day, today) = "ahead" => \E l \in InUnit(k[2]) : Finished(l)
  <2>. DEFINE completed == IF pacing[k] THEN {day} ELSE {}
  <2>1. PaceOf(k, day, today) = Pace(Cardinality(InUnit(k[2])), Cardinality(done), completed, today, MaxDays)
    BY DEF PaceOf, done
  <2>2. day \in Nat /\ today \in Nat /\ MaxDays \in Nat
    BY DEF LessonPlansAssumption
  <2>3. /\ InUnit(k[2]) = {} /\ completed = {} => PaceOf(k, day, today) = "on_track"
        /\ PaceOf(k, day, today) = "ahead" => completed # {} \/ Cardinality(done) > 0
        /\ completed = {day} => (PaceOf(k, day, today) = "behind" => day > MaxDays)
    <3>. DEFINE total == Cardinality(InUnit(k[2]))
                count == Cardinality(done)
    <3>1. total \in Nat /\ count \in Nat /\ (InUnit(k[2]) = {} => total = 0)
      BY <1>5
    <3>. HIDE DEF completed, total, count
    <3>2. /\ total = 0 /\ completed = {} => Pace(total, count, completed, today, MaxDays) = "on_track"
          /\ Pace(total, count, completed, today, MaxDays) = "ahead" => completed # {} \/ count > 0
          /\ completed = {day} => (Pace(total, count, completed, today, MaxDays) = "behind" => day > MaxDays)
      BY <2>2, <3>1, PaceIsFair
    <3>3. PaceOf(k, day, today) = Pace(total, count, completed, today, MaxDays)
      BY <2>1 DEF total, count
    <3>4. count > 0 => Cardinality(done) > 0
      BY DEF count
    <3>. QED
      BY <3>1, <3>2, <3>3, <3>4
  <2>4. CASE pacing[k]
    BY <1>2, <2>3, <2>4
  <2>5. CASE ~pacing[k]
    BY <1>2, <1>5, <2>3, <2>5
  <2>. QED
    BY <2>4, <2>5
<1>. QED
  BY <1>2, <1>6 DEF Finished

\* For any students, lessons and units: a target has its date when the lessons are finished.
THEOREM PacingStaysTrue == ASSUME LessonPlansAssumption PROVE LessonPlansSpec => []PacingIsTrue
<1>1. LessonPlansInit => PacingInv
  BY PacingInvInit
<1>2. PacingInv /\ [LessonPlansNext]_lessonPlansVars => PacingInv'
  BY PacingInvNext
<1>3. PacingInv => PacingIsTrue
  BY PacingInvTells
<1>. QED
  BY <1>1, <1>2, <1>3, PTL DEF LessonPlansSpec
=============================================================================
