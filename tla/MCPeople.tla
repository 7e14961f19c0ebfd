------------------------------ MODULE MCPeople ------------------------------
(***************************************************************************)
(* Small instances, in one run, of what several people do at once: the     *)
(* reviewers of submissions, the members of a family and their requests,   *)
(* those who keep a student's portfolio and records and those who set up a *)
(* school year.                                                            *)
(* part says which one is at work; each has variables of its own.          *)
(***************************************************************************)
EXTENDS Grading, Membership, Portfolio, Records, FrontDoor, SchoolYearWizard, TLC

CONSTANTS PlanningYears, Codes  \* of the holidays

VARIABLES part, planned, template, code

holidaysVars == <<planned, template, code>>
peopleVars   == <<part, vars, membershipVars, portfolioVars, recordsVars, frontDoorVars, wizardVars, holidaysVars>>

Holidays == INSTANCE Holidays

Planned == 1990..2060

\* The form proposes the whole year, a holiday on the second day, two terms or breaks
\* that fit into the year and one that is cut off at its end.
WholeYear  == {[first |-> 1, last |-> 4]}
SecondDay  == "federal" :> {[date |-> 2, name |-> 7]}
FillIns    == {[name |-> 0, first |-> 0, last |-> 0], [name |-> 1, first |-> 2, last |-> 3],
               [name |-> 2, first |-> 1, last |-> 1]}
BeyondYear == {[name |-> 2, first |-> 3, last |-> 5]}

\* Maintenance may be scheduled for one hour; a request of a kind a span, and one more is too many.
OneHour == {[from |-> 1, to |-> 2]}
OneEach == [rule \in {"auth", "general"} |-> 1]

ASSUME MembersAssumption   == MembershipAssumption
ASSUME PagesAssumption     == PortfolioAssumption
ASSUME DocumentsAssumption == RecordsAssumption
ASSUME WizardAssumption    == SchoolYearWizardAssumption
ASSUME HolidaysAssumption  == Holidays!HolidaysAssumption
ASSUME DoorAssumption      == FrontDoorAssumption

NobodyJoins ==
    /\ user = << >> /\ member = << >> /\ invitation = << >> /\ groups = {} /\ client = << >>
    /\ renamed = {} /\ asks = 0

\* The door is closed, and nobody has come.
NobodyCame ==
    /\ FrontDoorInit /\ jar = [b \in Browsers |-> NoSession] /\ \A u \in Users : account[u].role = "parent"

PeopleInit ==
    /\ part \in {"reviewers", "members", "portfolio", "records", "wizard", "holidays", "door"}
    /\ Init
    /\ PortfolioInit
    /\ IF part = "members" THEN MembershipInit ELSE NobodyJoins
    /\ RecordsInit /\ (part # "records" => kind = "card")
    /\ IF part = "door" THEN FrontDoorInit ELSE NobodyCame
    /\ WizardInit
    /\ IF part = "holidays" THEN Holidays!HolidaysInit ELSE planned = 0 /\ template = "none" /\ code = "none"

\* Bounds of the parts.  The second submission is a resubmission, and then nothing crashes;
\* a form that is saved again is saved as it is; members change, and the server restarts,
\* before the last request arrives.
OneLineage     == root[MaxSubmissions] = 0 \/ (root[MaxSubmissions] = 1 /\ restarts = 0)
SavesAgain     == saves = MaxSaves => edits' = edits
UpsetsTheFirst == sends = MaxSends => upsets' = upsets

PeopleNext ==
    \/ /\ part = "reviewers" /\ Next /\ OneLineage'
       /\ UNCHANGED <<part, membershipVars, portfolioVars, recordsVars, frontDoorVars, wizardVars, holidaysVars>>
    \/ /\ part = "members" /\ MembershipNext
       /\ UNCHANGED <<part, vars, portfolioVars, recordsVars, frontDoorVars, wizardVars, holidaysVars>>
    \/ /\ part = "portfolio" /\ PortfolioNext
       /\ UNCHANGED <<part, vars, membershipVars, recordsVars, frontDoorVars, wizardVars, holidaysVars>>
    \/ /\ part = "records" /\ RecordsNext
       /\ UNCHANGED <<part, vars, membershipVars, portfolioVars, frontDoorVars, wizardVars, holidaysVars>>
    \/ /\ part = "door" /\ FrontDoorNext /\ UpsetsTheFirst
       /\ UNCHANGED <<part, vars, membershipVars, portfolioVars, recordsVars, wizardVars, holidaysVars>>
    \/ /\ part = "wizard" /\ WizardNext /\ SavesAgain
       /\ UNCHANGED <<part, vars, membershipVars, portfolioVars, recordsVars, frontDoorVars, holidaysVars>>
    \/ /\ part = "holidays" /\ Holidays!ApplyTemplate
       /\ UNCHANGED <<part, vars, membershipVars, portfolioVars, recordsVars, frontDoorVars, wizardVars>>

PeopleSpec == PeopleInit /\ [][PeopleNext]_peopleVars

-----------------------------------------------------------------------------
(* The holidays are right where they are proposed; the properties of the   *)
(* other parts hold where these rest, too, and keep their names.           *)

HolidaysAreRight == part = "holidays" => Holidays!HolidaysAreRight

Interchangeable == Permutations(Reviewers) \cup Permutations(Clients) \cup Permutations(Emails)
=============================================================================
