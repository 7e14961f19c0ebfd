------------------------------ MODULE Schedule ------------------------------
(***************************************************************************)
(* The weekly schedules of the students and the agenda of a day            *)
(* (backend/routers/schedule.py): schedules hold blocks that recur on a    *)
(* weekday, and overrides that cancel, move or add a class on one date.    *)
(* Each handler is one action: two requests at once are not interleaved.   *)
(* The names of schedules, which must be unique, and the subjects are left *)
(* out.                                                                    *)
(***************************************************************************)
EXTENDS Integers, FiniteSets

CONSTANTS
    Students,
    YearDates,   \* the school years: their dates [first, last]
    Days,
    WeekLength,  \* seven; less in small instances
    Slots,       \* the times of a day: [from, to]
    Schedules, Blocks, Overrides  \* bounds: the ids

\* What the constants must satisfy; assumed by the modules that give them values.
ScheduleAssumption ==
    /\ Days \subseteq Nat /\ WeekLength \in Nat \ {0}
    /\ YearDates \subseteq [first : Nat, last : Nat]
    /\ Slots \subseteq [from : Nat, to : Nat] /\ \A slot \in Slots : slot.from < slot.to
    /\ 0 \notin Blocks

VARIABLES
    schedule,  \* id -> [student, year]
    block,     \* id -> [of, weekday, slot]
    override,  \* id -> [of, date, type, block, slot]
    moved,     \* history: schedules given to another student or year
    exposed    \* history: [block, override], the block set or shown again after the override

scheduleVars == <<schedule, block, override, moved, exposed>>

NoBlock == 0
Weekday(date) == date % WeekLength
Clash(a, b)   == a.from < b.to /\ a.to > b.from
Entry(table, key, row) == [k \in DOMAIN table \cup {key} |-> IF k = key THEN row ELSE table[k]]
Without(table, gone)   == [k \in DOMAIN table \ gone |-> table[k]]

ScheduleInit ==
    /\ schedule = << >> /\ block = << >> /\ override = << >>
    /\ moved = {} /\ exposed = {}

-----------------------------------------------------------------------------
(* The agenda. *)

SchedulesOn(student, date) ==
    {k \in DOMAIN schedule :
        /\ schedule[k].student = student
        /\ schedule[k].year.first <= date /\ date <= schedule[k].year.last}

OverridesOn(student, date) ==
    {o \in DOMAIN override : override[o].of \in SchedulesOn(student, date) /\ override[o].date = date}

\* The blocks that a cancellation or a move takes off the agenda.
Hidden(student, date) ==
    {override[o].block : o \in {p \in OverridesOn(student, date) : override[p].type # "add"}}

Recurring(student, date) ==
    {b \in DOMAIN block :
        /\ block[b].of \in SchedulesOn(student, date)
        /\ block[b].weekday = Weekday(date)
        /\ b \notin Hidden(student, date)}

Special(student, date) == {o \in OverridesOn(student, date) : override[o].type # "cancel"}

-----------------------------------------------------------------------------
(* Schedules. *)

CreateSchedule(k, student, year) ==
    /\ k \notin DOMAIN schedule
    /\ schedule' = Entry(schedule, k, [student |-> student, year |-> year])
    /\ UNCHANGED <<block, override, moved, exposed>>

\* The blocks and the overrides of the schedule go with it, unchecked.
UpdateSchedule(k, student, year) ==
    /\ k \in DOMAIN schedule
    /\ schedule' = [schedule EXCEPT ![k] = [student |-> student, year |-> year]]
    /\ moved' = IF schedule' = schedule THEN moved ELSE moved \cup {k}
    /\ UNCHANGED <<block, override, exposed>>

DeleteSchedule(k) ==
    /\ k \in DOMAIN schedule
    /\ schedule' = Without(schedule, {k})
    /\ block'    = Without(block, {b \in DOMAIN block : block[b].of = k})
    /\ override' = Without(override, {o \in DOMAIN override : override[o].of = k})
    /\ moved'    = moved \ {k}
    /\ exposed'  = {e \in exposed : e[1] \in DOMAIN block' /\ e[2] \in DOMAIN override'}

-----------------------------------------------------------------------------
(* Blocks. *)

\* _ensure_block_no_conflicts: the blocks of the weekday in the student's schedules
\* of the year.  Overrides are not looked at.
Free(k, weekday, slot, others) ==
    \A b \in others :
        ~ /\ schedule[block[b].of] = schedule[k]
          /\ block[b].weekday = weekday
          /\ Clash(block[b].slot, slot)

CreateBlock(b, k, weekday, slot) ==
    /\ b \notin DOMAIN block /\ k \in DOMAIN schedule
    /\ Free(k, weekday, slot, DOMAIN block)
    /\ block' = Entry(block, b, [of |-> k, weekday |-> weekday, slot |-> slot])
    /\ exposed' = exposed \cup ({b} \X DOMAIN override)
    /\ UNCHANGED <<schedule, override, moved>>

UpdateBlock(b, weekday, slot) ==
    /\ b \in DOMAIN block
    /\ Free(block[b].of, weekday, slot, DOMAIN block \ {b})
    /\ block' = Entry(block, b, [of |-> block[b].of, weekday |-> weekday, slot |-> slot])
    /\ exposed' = exposed \cup ({b} \X DOMAIN override)
    /\ UNCHANGED <<schedule, override, moved>>

\* ON DELETE SET NULL: an override outlives its block.
DeleteBlock(b) ==
    /\ b \in DOMAIN block
    /\ block' = Without(block, {b})
    /\ override' = [o \in DOMAIN override |->
                       IF override[o].block = b THEN [override[o] EXCEPT !.block = NoBlock]
                       ELSE override[o]]
    /\ exposed' = {e \in exposed : e[1] # b}
    /\ UNCHANGED <<schedule, moved>>

-----------------------------------------------------------------------------
(* Overrides. *)

\* _ensure_override_no_duplicates
Undecided(k, date, b) ==
    b # NoBlock => \A o \in DOMAIN override :
        ~(override[o].of = k /\ override[o].date = date /\ override[o].block = b)

\* Mutant: the agenda is looked at without the overrides it has.
FitsBlocks(k, date, type, b, slot) ==
    \A c \in Recurring(schedule[k].student, date) \ {b} : ~Clash(block[c].slot, slot)

\* _ensure_override_no_conflicts: the day's agenda, without the block that is moved.
Fits(k, date, type, b, slot) ==
    LET student == schedule[k].student
        own     == IF type = "reschedule" THEN b ELSE NoBlock
    IN  /\ \A c \in Recurring(student, date) \ {own} : ~Clash(block[c].slot, slot)
        /\ \A o \in Special(student, date) :
              override[o].block = NoBlock \/ override[o].block # own
                  => ~Clash(override[o].slot, slot)

CreateOverride(o, k, date, type, b, slot) ==
    /\ o \notin DOMAIN override /\ k \in DOMAIN schedule
    /\ b # NoBlock => b \in DOMAIN block /\ block[b].of = k
    /\ type # "add" => b # NoBlock
    /\ schedule[k].year.first <= date /\ date <= schedule[k].year.last
    /\ Undecided(k, date, b)
    /\ type # "cancel" => Fits(k, date, type, b, slot)
    /\ override' = Entry(override, o,
            [of |-> k, date |-> date, type |-> type, block |-> b, slot |-> slot])
    /\ UNCHANGED <<schedule, block, moved, exposed>>

\* Its block is back on the agenda.
DeleteOverride(o) ==
    /\ o \in DOMAIN override
    /\ override' = Without(override, {o})
    /\ exposed' = {e \in exposed : e[2] # o}
                    \cup (({override[o].block} \ {NoBlock}) \X DOMAIN override')
    /\ UNCHANGED <<schedule, block, moved>>

\* A cancellation has no times of its own.
AnySlot == CHOOSE slot \in Slots : TRUE

ScheduleNext ==
    \/ \E k \in Schedules, s \in Students, y \in YearDates : CreateSchedule(k, s, y) \/ UpdateSchedule(k, s, y)
    \/ \E k \in Schedules : DeleteSchedule(k)
    \/ \E b \in Blocks, w \in 0..(WeekLength - 1), slot \in Slots :
        UpdateBlock(b, w, slot) \/ \E k \in Schedules : CreateBlock(b, k, w, slot)
    \/ \E b \in Blocks : DeleteBlock(b)
    \/ \E o \in Overrides, k \in Schedules, d \in Days, b \in Blocks \cup {NoBlock} :
        \/ \E type \in {"add", "reschedule"}, slot \in Slots : CreateOverride(o, k, d, type, b, slot)
        \/ CreateOverride(o, k, d, "cancel", b, AnySlot)
    \/ \E o \in Overrides : DeleteOverride(o)

ScheduleSpec == ScheduleInit /\ [][ScheduleNext]_scheduleVars

-----------------------------------------------------------------------------

\* Where the agenda of a day has two classes at one time, in schedules of one year
\* that stayed where they were made, one is a recurring block and the other an
\* override, and the block was set, or shown again by a cancellation or a move
\* that was taken back, after the override: no two blocks, no two overrides, and
\* no override over a block that stood there.
ClashesAreExplained ==
    \A s \in Students, d \in Days :
        LET still == SchedulesOn(s, d) \ moved
            blocks == {b \in Recurring(s, d) : block[b].of \in still}
            extras == {o \in Special(s, d) : override[o].of \in still}
        IN  /\ \A b, c \in blocks :
                  b # c /\ schedule[block[b].of] = schedule[block[c].of]
                      => ~Clash(block[b].slot, block[c].slot)
            /\ \A o, p \in extras : o # p => ~Clash(override[o].slot, override[p].slot)
            /\ \A b \in blocks, o \in extras :
                  Clash(block[b].slot, override[o].slot) => <<b, o>> \in exposed

=============================================================================
