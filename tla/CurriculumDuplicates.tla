------------------------- MODULE CurriculumDuplicates -------------------------
(***************************************************************************)
(* How the gate of a curriculum import decides that a document repeats a   *)
(* curriculum of the family (services/curriculum_duplicates.py); for       *)
(* CurriculumImport its answer is a parameter.  A name is a pair: its      *)
(* normal form and its spelling.  Titles, which CurriculumImport has, and  *)
(* the order of siblings do not count; the names shown to the teacher are  *)
(* left out.                                                               *)
(***************************************************************************)
EXTENDS Naturals, FiniteSets

CONSTANTS
    Documents,     \* that the family may import
    Generic,       \* the normal forms of lesson names such as "lesson 1" and "quiz"
    MaxCurricula   \* bound: imports

VARIABLES
    family,        \* its curricula: the document of each, and the matches its import was told of
    lastId

duplicatesVars == <<family, lastId>>

Unstated   == <<"", "">>
MinPartial == 2

\* What the constants must satisfy; assumed by the modules that give them values.
CurriculumDuplicatesAssumption ==
    /\ MaxCurricula \in Nat
    /\ \A d \in Documents : \A s \in d.subjects : \A u \in s.units : u.lessons # {} /\ IsFiniteSet(u.lessons)

-----------------------------------------------------------------------------
(* The structure that is compared.  An edition has a field of its own, and *)
(* may be among the extensions of the metadata: those of a subject are     *)
(* read from its row, and not from the payload.                            *)

Normal(name) == name[1]

\* Names whose normal form is empty say nothing.
NormalSet(names) == {Normal(n) : n \in names} \ {""}

EditionOf(metadata) == IF metadata.edition # Unstated THEN metadata.edition ELSE metadata.extension

Inherited(own, whole) == IF own # Unstated THEN own ELSE whole

SubjectGrades(s, document) ==
    IF NormalSet(s.grades) # {} THEN NormalSet(s.grades) ELSE NormalSet(document.grades)

Unit(u) == [key |-> Normal(u.name), name |-> u.name, lessons |-> {Normal(l) : l \in u.lessons}]

SubjectOf(s, document, edition) ==
    [key |-> Normal(s.name), name |-> s.name, grades |-> SubjectGrades(s, document),
     edition |-> Normal(edition), units |-> {Unit(u) : u \in s.units}]

\* The payload of an import.
CandidateStructure(document) ==
    [standards |-> NormalSet(document.standards),
     subjects  |-> {SubjectOf(s, document, Inherited(s.edition, EditionOf(document))) : s \in document.subjects}]

\* What load_family_curricula reads of the rows that the import of the document made.
StoredStructure(document) ==
    [standards |-> NormalSet(document.standards),
     subjects  |-> {SubjectOf(s, document, Inherited(EditionOf(s), EditionOf(document))) : s \in document.subjects}]

-----------------------------------------------------------------------------
(* The comparison of a candidate c with a curriculum e. *)

SubjectsCompatible(s, t) ==
    /\ s.grades # {} /\ t.grades # {} => s.grades = t.grades
    /\ s.edition # "" /\ t.edition # "" => s.edition = t.edition

CurriculaCompatible(c, e) == c.standards # {} /\ e.standards # {} => c.standards \cap e.standards # {}

Pairs(c, e) == {p \in c.subjects \X e.subjects : p[1].key = p[2].key}

CompatiblePairs(c, e) == {p \in Pairs(c, e) : SubjectsCompatible(p[1], p[2])}

Triples(c) == UNION {UNION {{s.key} \X {u.key} \X u.lessons : u \in s.units} : s \in c.subjects}

\* Mutant: all lessons must be specific, and not any.
IsExactAndSpecific(c, e) ==
    /\ \A t \in Triples(c) : t[3] \notin Generic
    /\ Triples(c) = Triples(e)
    /\ CompatiblePairs(c, e) = Pairs(c, e)

\* Both have the same lessons, one of them specific, and no two subjects stand apart.
IsExact(c, e) ==
    /\ \E t \in Triples(c) : t[3] \notin Generic
    /\ Triples(c) = Triples(e)
    /\ CompatiblePairs(c, e) = Pairs(c, e)

SharedLessons(s, unit) ==
    {l \in unit.lessons \ Generic : \E u \in s.units : u.key = unit.key /\ l \in u.lessons}

IsPartial(c, e) ==
    \E p \in CompatiblePairs(c, e) : \E unit \in p[2].units : Cardinality(SharedLessons(p[1], unit)) >= MinPartial

Compare(c, e) ==
    IF ~CurriculaCompatible(c, e) \/ CompatiblePairs(c, e) = {} THEN "different"
    ELSE IF IsExact(c, e) THEN "exact_curriculum"
    ELSE IF IsPartial(c, e) THEN "partial_overlap"
    ELSE "different"

FindDuplicateMatches(document) ==
    LET compared == {[id |-> k.id, reason |-> Compare(CandidateStructure(document), StoredStructure(k.document))] :
                        k \in family}
    IN  {m \in compared : m.reason # "different"}

\* Siblings must differ, as they are spelled: find_internal_duplicate_paths.
HasInternalDuplicates(document) ==
    \/ \E s, t \in document.subjects : s # t /\ s.name = t.name
    \/ \E s \in document.subjects : \E u, v \in s.units : u # v /\ u.name = v.name

-----------------------------------------------------------------------------

DuplicatesInit == family = {} /\ lastId = 0

\* check_import_gates, once the client has acknowledged all it is told of; otherwise the
\* import is refused, and nothing changes.
Import(document) ==
    /\ lastId < MaxCurricula /\ ~HasInternalDuplicates(document)
    /\ lastId' = lastId + 1
    /\ family' = family \cup {[id |-> lastId + 1, document |-> document, told |-> FindDuplicateMatches(document)]}

Delete(k) == family' = family \ {k} /\ UNCHANGED lastId

DuplicatesNext ==
    \/ \E document \in Documents : Import(document)
    \/ \E k \in family : Delete(k)

DuplicatesSpec == DuplicatesInit /\ [][DuplicatesNext]_duplicatesVars

-----------------------------------------------------------------------------

\* No two siblings differ in their spelling alone, and no subject states its edition among
\* the extensions.
IsTidy(document) ==
    /\ \A s, t \in document.subjects : s # t => Normal(s.name) # Normal(t.name)
    /\ \A s \in document.subjects :
        s.extension = Unstated /\ \A u, v \in s.units : u # v => Normal(u.name) # Normal(v.name)

\* The content of a document, as the normal forms of its names.
Content(document) ==
    [grades  |-> {Normal(g) : g \in document.grades}, standards |-> {Normal(g) : g \in document.standards},
     edition |-> Normal(document.edition), extension |-> Normal(document.extension),
     subjects |-> {[name |-> Normal(s.name), grades |-> {Normal(g) : g \in s.grades}, edition |-> Normal(s.edition),
                    units |-> {[name |-> Normal(u.name), lessons |-> {Normal(l) : l \in u.lessons}] : u \in s.units}] :
                        s \in document.subjects}]

HasSpecificLesson(document) ==
    \E s \in document.subjects : \E u \in s.units : \E l \in u.lessons : Normal(l) \notin Generic

\* Nobody imports the same material again, however it is spelled, without being told that
\* the family has exactly this.
CopiesAreCaught ==
    \A j, k \in family :
        /\ j.id < k.id /\ IsTidy(j.document) /\ IsTidy(k.document)
        /\ Content(j.document) = Content(k.document) /\ HasSpecificLesson(k.document)
        => [id |-> j.id, reason |-> "exact_curriculum"] \in k.told
===============================================================================
