------------------------------- MODULE Holidays -------------------------------
(***************************************************************************)
(* The holidays that the school year wizard proposes                       *)
(* (frontend lib/schoolYearWizard.ts): federal, religious and of a state,  *)
(* for the dates of a template.  Dates are days of the proleptic Gregorian *)
(* calendar, counted from March 1 of the year 0, a Wednesday.  One state   *)
(* is a template and the year in which it starts.                          *)
(***************************************************************************)
EXTENDS Integers, FiniteSets

CONSTANTS PlanningYears, Codes  \* the years in question, and the states of the families

VARIABLES planned, template, code

holidaysVars == <<planned, template, code>>

HolidaysAssumption == PlanningYears \subseteq Nat \ {0, 1}

-----------------------------------------------------------------------------
(* JavaScript's Date: months of a year and their days. *)

Day(year, month, day) ==
    LET y == IF month <= 2 THEN year - 1 ELSE year
        m == (month + 9) % 12
    IN  365 * y + y \div 4 - y \div 100 + y \div 400 + (153 * m + 2) \div 5 + day - 1

Sunday   == 0
Monday   == 1
Thursday == 4
Friday   == 5
Saturday == 6

Weekday(date) == (date + 3) % 7

FirstOf(year, month) == Day(year, month, 1)
LastOf(year, month)  == (IF month = 12 THEN Day(year + 1, 1, 1) ELSE Day(year, month + 1, 1)) - 1

-----------------------------------------------------------------------------
(* The rules of the holidays. *)

NthWeekday(year, month, weekday, n) ==
    LET first == FirstOf(year, month) IN first + ((7 + weekday - Weekday(first)) % 7) + (n - 1) * 7

LastWeekday(year, month, weekday) ==
    LET last == LastOf(year, month) IN last - ((7 + Weekday(last) - weekday) % 7)

\* A holiday on a weekend is observed on the nearest weekday.
Observed(year, month, day) ==
    LET date == Day(year, month, day) IN
    CASE Weekday(date) = Sunday   -> date + 1
      [] Weekday(date) = Saturday -> date - 1
      [] OTHER -> date

Easter(year) ==
    LET a == year % 19
        b == year \div 100
        c == year % 100
        d == b \div 4
        e == b % 4
        f == (b + 8) \div 25
        g == (b - f + 1) \div 3
        h == (19 * a + b - d - g + 15) % 30
        i == c \div 4
        k == c % 4
        l == (32 + 2 * e + 2 * i - h - k) % 7
        m == (a + 11 * h + 22 * l) \div 451
        n == h + l - 7 * m + 114
    IN  Day(year, n \div 31, (n % 31) + 1)

Holiday(name, date) == [name |-> name, date |-> date]

Federal(y) ==
    {Holiday("New Year's Day", Observed(y, 1, 1)),
     Holiday("Martin Luther King Jr. Day", NthWeekday(y, 1, Monday, 3)),
     Holiday("Presidents Day", NthWeekday(y, 2, Monday, 3)),
     Holiday("Memorial Day", LastWeekday(y, 5, Monday)),
     Holiday("Juneteenth", Observed(y, 6, 19)),
     Holiday("Independence Day", Observed(y, 7, 4)),
     Holiday("Labor Day", NthWeekday(y, 9, Monday, 1)),
     Holiday("Indigenous Peoples' Day", NthWeekday(y, 10, Monday, 2)),
     Holiday("Veterans Day", Observed(y, 11, 11)),
     Holiday("Thanksgiving Day", NthWeekday(y, 11, Thursday, 4)),
     Holiday("Christmas Day", Observed(y, 12, 25))}

Religious(y) ==
    {Holiday("Good Friday", Easter(y) - 2), Holiday("Easter Monday", Easter(y) + 1)}
    \cup {Holiday("Christmas Break", d) : d \in Day(y, 12, 24)..Day(y + 1, 1, 1)}

OfState(y, state) ==
    CASE state = "AK" -> {Holiday("Alaska Day", Observed(y, 10, 18))}
      [] state = "CA" -> {Holiday("Cesar Chavez Day", Observed(y, 3, 31))}
      [] state = "HI" -> {Holiday("Prince Kuhio Day", Observed(y, 3, 26)), Holiday("Kamehameha Day", Observed(y, 6, 11))}
      [] state = "LA" -> {Holiday("Mardi Gras", Easter(y) - 47)}
      [] state \in {"MA", "ME"} -> {Holiday("Patriots' Day", NthWeekday(y, 4, Monday, 3))}
      [] state = "NV" -> {Holiday("Nevada Day", LastWeekday(y, 10, Friday))}
      [] state = "TX" -> {Holiday("San Jacinto Day", Observed(y, 4, 21))}
      [] state = "UT" -> {Holiday("Pioneer Day", Observed(y, 7, 24))}
      [] OTHER -> {}

HolidaysOf(y) == Federal(y) \cup Religious(y) \cup OfState(y, code)

-----------------------------------------------------------------------------
(* The dates of a template, and the holidays proposed for them. *)

\* getTemplateDefaults.
Span(y, id) ==
    CASE id = "calendar_year" -> [first |-> Day(y, 1, 1), last |-> Day(y, 12, 31), end |-> y]
      [] id = "year_round"    -> [first |-> Day(y, 7, 1), last |-> Day(y + 1, 6, 30), end |-> y + 1]
      [] id = "traditional"   -> [first |-> Day(y, 8, 15), last |-> Day(y + 1, 5, 31), end |-> y + 1]

Within(holidays, span) == {h \in holidays : span.first <= h.date /\ h.date <= span.last}

\* Mutant: only the years of the dates are looked at.
SameYears(y, span) == Within(UNION {HolidaysOf(i) : i \in y..span.end}, span)

\* buildPresetEvents, with every preset on; a year before and a year after are looked at.
Proposed(y, span) == Within(UNION {HolidaysOf(i) : i \in (y - 1)..(span.end + 1)}, span)

HolidaysInit ==
    /\ planned \in PlanningYears /\ code \in Codes /\ template = "traditional"

\* applyTemplate.
ApplyTemplate ==
    /\ template' \in {"calendar_year", "year_round", "traditional"} /\ template' # template
    /\ UNCHANGED <<planned, code>>

HolidaysSpec == HolidaysInit /\ [][ApplyTemplate]_holidaysVars

-----------------------------------------------------------------------------

\* The reference for Easter: the Sunday after the full moon of the ecclesiastical
\* calendar, from the golden number, the century's corrections and the epact.
EasterByMoon(y) ==
    LET golden  == (y % 19) + 1
        century == y \div 100 + 1
        solar   == (3 * century) \div 4 - 12
        lunar   == (8 * century + 5) \div 25 - 5
        epact   == (11 * golden + 20 + lunar - solar) % 30
        fixed   == IF (epact = 25 /\ golden > 11) \/ epact = 24 THEN epact + 1 ELSE epact
        moon    == Day(y, 3, IF 44 - fixed < 21 THEN 74 - fixed ELSE 44 - fixed)
    IN  moon + 7 - Weekday(moon)

\* Whatever year is planned, Easter is where the church has it, and the days off are on
\* the weekdays they are for; and the holidays proposed for a template are all those of
\* any year that are observed within its dates, New Year's Day on December 31 included.
HolidaysAreRight ==
    LET span == Span(planned, template) IN
    /\ Easter(planned) = EasterByMoon(planned)
    /\ \A h \in Federal(planned) : Weekday(h.date) \notin {Saturday, Sunday}
    /\ Proposed(planned, span) = Within(UNION {HolidaysOf(i) : i \in (planned - 2)..(planned + 4)}, span)
===============================================================================
