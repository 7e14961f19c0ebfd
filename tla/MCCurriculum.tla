----------------------------- MODULE MCCurriculum -----------------------------
(***************************************************************************)
(* Small instances, in one run, of what a family does with curricula: the  *)
(* AI's drafts until they are imported, the page that imports them, the    *)
(* gate that compares them, and the packages it teaches from.  They share  *)
(* no state, and part says which one is at work: TLC visits the sum of the *)
(* state spaces.                                                           *)
(***************************************************************************)
EXTENDS CurriculumImport, CurriculumPackages, CurriculumWizard, Integers, TLC

CONSTANTS
    MaxImported,   \* CurriculumDuplicates
    EditedFirst    \* bound: the texts of the page with two analyses

VARIABLES part, family, lastImported

othersVars     == <<part, family, lastImported>>
curriculumVars == <<vars, packagesVars, wizardVars, othersVars>>

\* A curriculum matches one with the same content.
SameContent == {<<content, content>> : content \in Contents}

OneLesson == [c \in Curricula |-> [s \in Subjects |-> [package |-> "grade 1", lessons |-> {<<"u1", "l1">>}]]]

\* Documents that differ in the names of their lessons and units, in the grades, the
\* editions and the standards that a curriculum and its subject state, or in the subjects.
NoEdition == <<"", "">>
Add       == {<<"adding", "Adding">>}
Added     == {<<"adding", "ADDING">>}
Subtract  == {<<"subtracting", "Subtracting">>}
Quiz      == {<<"quiz", "Quiz">>}
Unit(taught)  == [name |-> <<"fractions", "Fractions">>, lessons |-> taught]
Again(taught) == [name |-> <<"fractions", "Fractions!">>, lessons |-> taught]
Math(grades, edition, extension, outline) ==
    [name |-> <<"math", "Math">>, grades |-> grades, edition |-> edition, extension |-> extension, units |-> outline]
Maths(grades) == [Math(grades, NoEdition, NoEdition, {Unit(Add)}) EXCEPT !.name = <<"math", "MATH">>]
Document(grades, standards, edition, extension, taught) ==
    [grades |-> grades, standards |-> standards, edition |-> edition, extension |-> extension, subjects |-> taught]
Grades    == {{}, {<<"4", "4th grade">>}, {<<"4", "4">>}, {<<"5", "5">>}, {<<"", "grade">>}}
Editions  == {NoEdition, <<"2", "2">>, <<"2", "2.">>, <<"3", "3">>, <<"", "-">>}
Standards == {{}, {<<"ccss", "CCSS">>}, {<<"ccss", "ccss">>, <<"teks", "TEKS">>}, {<<"teks", "TEKS">>}}
Outlines  == {{Unit(Add \cup Subtract)}, {Unit(Added \cup Subtract)}, {Unit(Add)}, {Unit(Quiz)}, {Unit(Add \cup Quiz)},
              {Again(Add \cup Subtract \cup Quiz)}, {Unit(Add), Again(Subtract)}}

SomeDocuments ==
    {Document({}, {}, e, NoEdition, {Math({}, NoEdition, NoEdition, outline)}) : e \in Editions, outline \in Outlines}
    \cup {Document(g, {}, NoEdition, NoEdition, {Math(h, NoEdition, NoEdition, {Unit(Add)})}) : g, h \in Grades}
    \cup {Document({}, {}, NoEdition, x, {Math({}, e, f, {Unit(Add)})}) : x, e, f \in Editions}
    \cup {Document({}, s, NoEdition, NoEdition, {Math({}, NoEdition, NoEdition, {Unit(Add)})}) : s \in Standards}
    \cup {Document({}, {}, NoEdition, NoEdition, {Math(g, NoEdition, NoEdition, {Unit(Add)}), Maths(h)}) : g, h \in Grades}

Gate == INSTANCE CurriculumDuplicates WITH
    Documents <- SomeDocuments, Generic <- {"quiz"}, MaxCurricula <- MaxImported, lastId <- lastImported

ASSUME PackagesAssumption == CurriculumPackagesAssumption
ASSUME GateAssumption     == Gate!CurriculumDuplicatesAssumption
ASSUME WizardAssumption   == CurriculumWizardAssumption

CurriculumInit ==
    /\ part \in {"drafts", "packages", "gate", "analyses", "texts"}
    /\ Init /\ CurriculumPackagesInit /\ WizardInit /\ Gate!DuplicatesInit
    /\ part # "packages" => subjects = {}

\* Bounds of the parts.  A session is created when the other one is gone, or is purged by it.
\* The page has two analyses, one text and one check at a time; or one analysis.
FollowsAPurge == \A s, t \in Sessions : status[s] = None /\ status'[s] # None /\ Exists(t) => age[t] = "purgeable"
OneText       == page'.text \in EditedFirst \cup {NoText} /\ \A c, d \in checks' : c = d
OneAnalysis   == run'[MaxAnalyses] = "unused"

CurriculumNext ==
    \/ part = "drafts" /\ Next /\ FollowsAPurge /\ UNCHANGED <<packagesVars, wizardVars, othersVars>>
    \/ part = "packages" /\ CurriculumPackagesNext /\ UNCHANGED <<vars, wizardVars, othersVars>>
    \/ part = "analyses" /\ WizardNext /\ OneText /\ UNCHANGED <<vars, packagesVars, othersVars>>
    \/ part = "texts" /\ WizardNext /\ OneAnalysis /\ UNCHANGED <<vars, packagesVars, othersVars>>
    \/ part = "gate" /\ Gate!DuplicatesNext /\ UNCHANGED <<part, vars, packagesVars, wizardVars>>

CurriculumSpec == CurriculumInit /\ [][CurriculumNext]_curriculumVars

\* What the gate catches; the properties of the modules that this one extends hold where
\* they rest, and keep their names.
CopiesAreCaught == part = "gate" => Gate!CopiesAreCaught

\* The requests of the packages are the clients of the drafts.
CurriculumSymmetry == Permutations(Clients) \cup Permutations(Sessions)
=============================================================================
