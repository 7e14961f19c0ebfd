--------------------------- MODULE SchoolYearWizard ---------------------------
(***************************************************************************)
(* The wizard that sets up a school year in the browser                    *)
(* (frontend components/features/SchoolYearSetupWizard.tsx and             *)
(* lib/schoolYearWizard.ts) and the calendar's server (Calendar), to which *)
(* it sends a request for the year, one for each term and one for each     *)
(* holiday.  A request or its answer may be lost.  Dates are numbered, and *)
(* 0 is a date that is not filled in; names of terms and of days off are   *)
(* numbers too.                                                            *)
(***************************************************************************)
EXTENDS Integers, SequencesExt

CONSTANTS
    Dates, Weekdays,
    Skipped, Repeated,  \* days of which the clock skips, and repeats, an hour
    Names,              \* of school years
    Templates,          \* spans of dates
    Presets,            \* preset -> its holidays, [date, name]
    Drafts,             \* bound: what a person fills in for a term or a break
    Suggestions,        \* the breaks that are suggested
    MaxTerms, MaxBreaks,
    MaxEdits, MaxSaves  \* bounds: terms, breaks, changes of the form, saves

VARIABLES
    form,       \* what is filled in, and the step that is shown
    saving,     \* what is being saved
    told,       \* the message shown
    promised,   \* name -> what was reviewed, for the years told to be ready
    edits, saves,
    year, term, period, event  \* the server

serverVars == <<year, term, period, event>>
wizardVars == <<form, saving, told, promised, edits, saves, year, term, period, event>>

Blank  == 0
Draft0 == [name |-> Blank, first |-> Blank, last |-> Blank]
NotSaving   == [name |-> ""]

Server == INSTANCE Calendar WITH Years <- Names, Terms <- {}, Periods <- {}, Events <- {}

\* What a person can have filled in for a term or a break, wholly or in part.
Filling == [name : Nat, first : Nat, last : Nat]

\* What the constants must satisfy; assumed by the modules that give them values.
SchoolYearWizardAssumption ==
    /\ Dates \subseteq Nat \ {Blank} /\ Weekdays \subseteq Dates
    /\ Skipped \subseteq Dates /\ Repeated \subseteq Dates /\ Templates \subseteq Server!Spans
    /\ Drafts \subseteq Filling /\ Suggestions \subseteq Filling

Complete(draft) == draft.name # Blank /\ draft.first # Blank /\ draft.last # Blank

-----------------------------------------------------------------------------
(* What follows from the form: lib/schoolYearWizard.ts. *)

\* differenceInDaysInclusive divides the milliseconds between two midnights.
Hours(a, b) ==
    24 * (b - a) - Cardinality({d \in Skipped : a <= d /\ d < b}) + Cardinality({d \in Repeated : a <= d /\ d < b})

DaysFrom(a, b)   == (Hours(a, b) \div 24) + 1
Enumerated(a, b) == a..(a + DaysFrom(a, b) - 1)

IsRange(s) == s.first # Blank /\ s.last # Blank /\ s.first <= s.last

Segments(kind) == CASE kind = "semester" -> 2 [] kind = "trimester" -> 3 [] kind = "quarter" -> 4

\* The terms by their places; of the custom ones, those that are filled in.
Generated(f) ==
    IF ~IsRange(f) THEN << >>
    ELSE IF f.kind = "custom" THEN [i \in {i \in DOMAIN f.terms : Complete(f.terms[i])} |-> f.terms[i]]
    ELSE LET n == Segments(f.kind)
             total == DaysFrom(f.first, f.last)
         IN  [i \in 1..n |->
                 [name  |-> i,
                  first |-> f.first + (total * (i - 1)) \div n,
                  last  |-> IF i = n THEN f.last ELSE f.first + (total * i) \div n - 1]]

BreakDays(b) == {[date |-> d, name |-> b.name] : d \in Enumerated(b.first, b.last)}

\* buildPresetEvents, expandCustomBreaks and mergeEvents.
DaysOff(f) ==
    {e \in UNION {Presets[p] : p \in f.presets} : IsRange(f) /\ Server!Holds(f, e.date)}
    \cup UNION {BreakDays(b) : b \in {b \in ToSet(f.breaks) : Complete(b)}}

\* buildInstructionalDayPreview.
Preview(f) ==
    Cardinality(Enumerated(f.first, f.last) \cap Weekdays) - Cardinality({e.date : e \in DaysOff(f)} \cap Weekdays)

\* validateCustomTerms and validateCustomBreaks ignore what is not filled in at all.
Fits(draft, f) == Complete(draft) /\ draft.first <= draft.last /\ Server!Inside(draft, f)

TermsAreValid(f) ==
    LET filled == {i \in DOMAIN f.terms : f.terms[i] # Draft0} IN
    /\ filled # {}
    /\ \A i \in filled : Fits(f.terms[i], f) /\ \A j \in filled \ {i} : ~Server!Overlap(f.terms[i], f.terms[j])

StepIsValid(f) ==
    CASE f.step = "template"  -> IsRange(f) /\ f.name # ""
      [] f.step = "structure" -> f.kind = "custom" => IsRange(f) /\ TermsAreValid(f)
      [] f.step = "holidays"  -> IsRange(f) /\ \A b \in ToSet(f.breaks) : b = Draft0 \/ Fits(b, f)
      [] f.step = "review"    -> TRUE

-----------------------------------------------------------------------------
(* Filling in the form.  A save that is under way does not keep a person   *)
(* from going back and changing it.                                        *)

Steps == <<"template", "structure", "holidays", "review">>

Cleared(span, active) ==
    [step |-> "template", name |-> "first", first |-> span.first, last |-> span.last, auto |-> FALSE,
     active |-> active, kind |-> "semester", presets |-> DOMAIN Presets, breaks |-> << >>,
     terms |-> <<[name |-> 1, first |-> span.first, last |-> span.last]>>]

WizardInit ==
    /\ \E span \in Templates : form = Cleared(span, TRUE)
    /\ saving = NotSaving /\ told = "" /\ promised = << >> /\ edits = 0 /\ saves = 0
    /\ Server!CalendarInit

Display(new, message) == form' = new /\ told' = message /\ UNCHANGED <<saving, promised, saves, serverVars>>

\* setError('') alone.
WithoutError == IF told = "ready" THEN told ELSE ""

Filled(new, message) == edits < MaxEdits /\ edits' = edits + 1 /\ Display(new, message)

\* A new year takes the name that its dates suggest, unless the person has named it.
ApplyTemplate(span) ==
    /\ form.step = "template"
    /\ Filled([form EXCEPT !.first = span.first, !.last = span.last, !.auto = FALSE, !.name = "first",
                           !.terms = <<[name |-> 1, first |-> span.first, last |-> span.last]>>], "")

SetName(n)   == form.step = "template" /\ Filled([form EXCEPT !.name = n], "")
ToggleActive == form.step = "template" /\ Filled([form EXCEPT !.active = ~@], told)

SetStart(d) ==
    LET follows == d # Blank /\ (form.last = Blank \/ form.auto) IN
    /\ form.step = "template" /\ (follows => d + 1 \in Dates)
    /\ Filled([form EXCEPT !.first = d, !.last = IF follows THEN d + 1 ELSE @, !.auto = @ \/ follows], "")

SetEnd(d) == form.step = "template" /\ Filled([form EXCEPT !.last = d, !.auto = FALSE], "")

SetKind(kind) == form.step = "structure" /\ Filled([form EXCEPT !.kind = kind], WithoutError)

\* addCustomTerm names the term by the number of terms.
AddTerm ==
    /\ form.step = "structure" /\ form.kind = "custom" /\ Len(form.terms) < MaxTerms
    /\ Filled([form EXCEPT !.terms = Append(@, [name |-> Len(@) + 1, first |-> form.first, last |-> form.last])], told)

ChangeTerm(i, draft) ==
    /\ form.step = "structure" /\ form.kind = "custom" /\ i \in DOMAIN form.terms
    /\ Filled([form EXCEPT !.terms[i] = draft], told)

RemoveTerm(i) ==
    /\ form.step = "structure" /\ form.kind = "custom" /\ i \in DOMAIN form.terms /\ Len(form.terms) > 1
    /\ Filled([form EXCEPT !.terms = RemoveAt(@, i)], told)

TogglePreset(p) ==
    /\ form.step = "holidays"
    /\ Filled([form EXCEPT !.presets = IF p \in @ THEN @ \ {p} ELSE @ \cup {p}], WithoutError)

Clamp(d, a, b) == IF d < a THEN a ELSE IF d > b THEN b ELSE d

\* addCustomBreak, with a suggestion or without.
Suggested(s) ==
    LET from == Clamp(s.first, form.first, form.last)
    IN  IF s = Draft0 THEN s ELSE [s EXCEPT !.first = from, !.last = Clamp(@, from, form.last)]

AddBreak(s) ==
    /\ form.step = "holidays" /\ Len(form.breaks) < MaxBreaks
    /\ Filled([form EXCEPT !.breaks = Append(@, Suggested(s))], told)

ChangeBreak(i, draft) ==
    /\ form.step = "holidays" /\ i \in DOMAIN form.breaks
    /\ Filled([form EXCEPT !.breaks[i] = draft], told)

RemoveBreak(i) ==
    /\ form.step = "holidays" /\ i \in DOMAIN form.breaks
    /\ Filled([form EXCEPT !.breaks = RemoveAt(@, i)], told)

GoOn ==
    /\ saving = NotSaving /\ UNCHANGED edits
    /\ \E i \in 1..3 :
        /\ form.step = Steps[i]
        /\ IF StepIsValid(form) THEN Display([form EXCEPT !.step = Steps[i + 1]], "") ELSE Display(form, "invalid")

\* The steps at the top clear an error, the button does not.
Jump(i, j) ==
    /\ form.step = Steps[i] /\ UNCHANGED edits
    /\ \E message \in {told, WithoutError} : Display([form EXCEPT !.step = Steps[j]], message)

JumpBack(i, j) == j < i /\ Jump(i, j)

Reset(span, active) == saving = NotSaving /\ Filled(Cleared(span, active), "")

ChangeForm ==
    \/ \E span \in Templates : ApplyTemplate(span) \/ \E active \in BOOLEAN : Reset(span, active)
    \/ \E n \in Names \cup {""} : SetName(n)
    \/ \E d \in Dates \cup {Blank} : SetStart(d) \/ SetEnd(d)
    \/ \E kind \in {"semester", "trimester", "quarter", "custom"} : SetKind(kind)
    \/ \E i \in 1..MaxTerms : RemoveTerm(i) \/ \E draft \in Drafts : ChangeTerm(i, draft)
    \/ \E i \in 1..MaxBreaks : RemoveBreak(i) \/ \E draft \in Drafts : ChangeBreak(i, draft)
    \/ \E p \in DOMAIN Presets : TogglePreset(p)
    \/ \E s \in Suggestions \cup {Draft0} : AddBreak(s)
    \/ \E i, j \in 1..4 : JumpBack(i, j)
    \/ ToggleActive \/ AddTerm \/ GoOn

-----------------------------------------------------------------------------
(* Saving. *)

StartSave ==
    /\ form.step = "review" /\ saving = NotSaving /\ saves < MaxSaves
    /\ saving' = [name |-> form.name, first |-> form.first, last |-> form.last, active |-> form.active,
                  created |-> FALSE, terms |-> Generated(form), dates |-> DaysOff(form),
                  reviewed |-> [days |-> Preview(form), terms |-> Cardinality(DOMAIN Generated(form)),
                                exact |-> DaysFrom(form.first, form.last) = form.last - form.first + 1]]
    /\ told' = "" /\ saves' = saves + 1
    /\ UNCHANGED <<form, promised, edits, serverVars>>

\* The catch of handleSave: whatever has been made stays.
StopSaving ==
    /\ saving' = NotSaving /\ told' = IF saving.created THEN "needs attention" ELSE "not created"
    /\ UNCHANGED <<form, promised, edits, saves>>

Sent(answered, next) ==
    IF answered THEN saving' = next /\ UNCHANGED <<form, told, promised, edits, saves>> ELSE StopSaving

CreateYear(answered) ==
    /\ saving # NotSaving /\ ~saving.created
    /\ Server!CreateYear(saving.name, saving, saving.active)
    /\ Sent(answered, [saving EXCEPT !.created = TRUE])

CreateTerm(answered) ==
    /\ saving # NotSaving /\ saving.created
    /\ \E i \in DOMAIN saving.terms :
        LET next == saving.terms[i] IN
        /\ \A j \in DOMAIN saving.terms : i <= j
        /\ next.first <= next.last
        /\ Server!CreateTerm(<<saving.name, next.name>>, saving.name, next)
        /\ Sent(answered, [saving EXCEPT !.terms = Server!Drop(@, {i})])

CreateEvent(answered) ==
    /\ saving # NotSaving /\ saving.created /\ DOMAIN saving.terms = {}
    /\ \E e \in saving.dates :
        /\ \A other \in saving.dates : e.date <= other.date
        /\ Server!CreateEvent(<<saving.name, e.date, e.name>>, saving.name, e.date, FALSE)
        /\ Sent(answered, [saving EXCEPT !.dates = @ \ {e}])

\* The server refuses, or the request does not get there.
Fail == saving # NotSaving /\ StopSaving /\ UNCHANGED serverVars

\* Mutant: the days off are not waited for.
SayReadyEarly(span) ==
    /\ saving # NotSaving /\ saving.created /\ DOMAIN saving.terms = {}
    /\ form' = Cleared(span, FALSE) /\ saving' = NotSaving /\ told' = "ready"
    /\ promised' = IF saving.name \in DOMAIN year THEN Server!Put(promised, saving.name, saving.reviewed) ELSE promised
    /\ UNCHANGED <<edits, saves, serverVars>>

SayReady(span) ==
    /\ saving # NotSaving /\ saving.created /\ DOMAIN saving.terms = {} /\ saving.dates = {}
    /\ form' = Cleared(span, FALSE) /\ saving' = NotSaving /\ told' = "ready"
    /\ promised' = IF saving.name \in DOMAIN year THEN Server!Put(promised, saving.name, saving.reviewed) ELSE promised
    /\ UNCHANGED <<edits, saves, serverVars>>

\* A person deletes a year.
LoseYear(y) ==
    /\ Server!DeleteYear(y) /\ promised' = Server!Drop(promised, {y})
    /\ UNCHANGED <<form, saving, told, edits, saves>>

WizardNext ==
    \/ ChangeForm
    \/ StartSave \/ Fail
    \/ \E answered \in BOOLEAN : CreateYear(answered) \/ CreateTerm(answered) \/ CreateEvent(answered)
    \/ \E span \in Templates : SayReady(span)
    \/ \E y \in Names : LoseYear(y)

WizardSpec == WizardInit /\ [][WizardNext]_wizardVars

-----------------------------------------------------------------------------

\* A year that is told to be ready has all its terms, and the server counts the days of
\* instruction that were reviewed, unless clocks changed between its ends.
ReadyIsAsReviewed ==
    \A y \in DOMAIN promised :
        /\ Cardinality(Server!TermsOf(y)) = promised[y].terms
        /\ promised[y].exact => Server!DayCount(y).instructional = promised[y].days
===============================================================================
