------------------------- MODULE CurriculumPackages -------------------------
(***************************************************************************)
(* The curriculum a family teaches from (routers/curriculum.py): packages  *)
(* of units and lessons, the resources of the lessons with their files on  *)
(* disk, and the activation of an imported curriculum, which builds        *)
(* packages from it.                                                       *)
(*                                                                         *)
(* Names are unique where the tables say so, so units, lessons and         *)
(* resources are known by theirs: a lesson is <<package, unit, lesson>>.   *)
(* A request reads and commits in one action, but for the activation, the  *)
(* creation of a resource and its deletion: those do work in between, on   *)
(* what they have read or on disk.  A commit that breaks a constraint      *)
(* fails and leaves the tables as they were.                               *)
(***************************************************************************)
EXTENDS Naturals, FiniteSets

CONSTANTS
    Years, Subjects, PackageNames, Units, Lessons, Resources,   \* names
    Curricula,     \* what has been imported
    Outline,       \* curriculum -> what each of its subjects is made of: name of the
                   \* subject -> [package |-> its package's name, lessons |-> <<unit, lesson>> pairs]
    Files,         \* names of files
    Requests,      \* that are under way
    MaxPackages    \* bound: ids of packages

Types == {"file", "link", "note"}

\* What the constants must satisfy; assumed by the modules that give them values.
CurriculumPackagesAssumption ==
    /\ MaxPackages \in Nat /\ "none" \notin Files
    /\ \A c \in Curricula : \A s \in DOMAIN Outline[c] :
           /\ s \in Subjects
           /\ Outline[c][s] \in [package : PackageNames, lessons : SUBSET (Units \X Lessons)]
           /\ \A r \in DOMAIN Outline[c] : Outline[c][r].package = Outline[c][s].package => r = s

VARIABLES
    years, subjects,   \* those there are
    package,           \* id -> [year, name, subject]
    units,             \* pairs of package and unit
    lessons,           \* <<package, unit, lesson>>
    link,              \* pairs of a lesson and a resource
    resource,          \* name -> [type, file]
    disk,              \* the files that are stored
    imported,          \* curriculum -> "gone", "stored" or "activated"
    client             \* the requests in flight

packagesVars == <<years, subjects, package, units, lessons, link, resource, disk, imported, client>>
treeVars     == <<package, units, lessons, link>>

Idle == [doing |-> "nothing"]
NoFile == "none"

CurriculumPackagesInit ==
    /\ years = Years /\ subjects \in SUBSET Subjects
    /\ package = << >> /\ units = {} /\ lessons = {} /\ link = {}
    /\ resource = << >> /\ disk = {}
    /\ imported = [c \in Curricula |-> "stored"]
    /\ client = [t \in Requests |-> Idle]

Put(table, key, value) == [k \in DOMAIN table \cup {key} |-> IF k = key THEN value ELSE table[k]]
Only(table, keys)      == [k \in DOMAIN table \cap keys |-> table[k]]

\* _ensure_unique_package_name, and the constraint behind it.
PackageNameIsFree(year, name, self) ==
    ~\E p \in DOMAIN package : p # self /\ package[p].year = year /\ package[p].name = name

NextPackage(p) == p \in 1..MaxPackages /\ p \notin DOMAIN package /\ \A q \in 1..p - 1 : q \in DOMAIN package

-----------------------------------------------------------------------------
(* Packages, units and lessons. *)

CreatePackage(p, year, subject, name) ==
    /\ NextPackage(p) /\ year \in years /\ subject \in subjects /\ PackageNameIsFree(year, name, p)
    /\ package' = Put(package, p, [year |-> year, name |-> name, subject |-> subject])
    /\ UNCHANGED <<years, subjects, units, lessons, link, resource, disk, imported, client>>

UpdatePackage(p, year, subject, name) ==
    /\ p \in DOMAIN package /\ year \in years /\ subject \in subjects /\ PackageNameIsFree(year, name, p)
    /\ package' = [package EXCEPT ![p] = [year |-> year, name |-> name, subject |-> subject]]
    /\ UNCHANGED <<years, subjects, units, lessons, link, resource, disk, imported, client>>

\* Packages go with all they hold; the resources stay.
Drop(gone) ==
    /\ package' = Only(package, DOMAIN package \ gone)
    /\ units' = {u \in units : u[1] \notin gone}
    /\ lessons' = {l \in lessons : l[1] \notin gone}
    /\ link' = {k \in link : k[1][1] \notin gone}

DeletePackage(p) ==
    /\ p \in DOMAIN package /\ Drop({p})
    /\ UNCHANGED <<years, subjects, resource, disk, imported, client>>

DeleteYear(y) ==
    /\ y \in years /\ years' = years \ {y}
    /\ Drop({p \in DOMAIN package : package[p].year = y})
    /\ UNCHANGED <<subjects, resource, disk, imported, client>>

DeleteSubject(s) ==
    /\ s \in subjects /\ subjects' = subjects \ {s}
    /\ Drop({p \in DOMAIN package : package[p].subject = s})
    /\ UNCHANGED <<years, resource, disk, imported, client>>

\* The clone has units and lessons of its own and shares the resources.
ClonePackage(p, q, year, name) ==
    LET moved(path) == [path EXCEPT ![1] = q] IN
    /\ p \in DOMAIN package /\ NextPackage(q) /\ year \in years /\ PackageNameIsFree(year, name, q)
    /\ package' = Put(package, q, [package[p] EXCEPT !.year = year, !.name = name])
    /\ units' = units \cup {moved(u) : u \in {v \in units : v[1] = p}}
    /\ lessons' = lessons \cup {moved(l) : l \in {m \in lessons : m[1] = p}}
    /\ link' = link \cup {<<moved(k[1]), k[2]>> : k \in {j \in link : j[1][1] = p}}
    /\ UNCHANGED <<years, subjects, resource, disk, imported, client>>

CreateUnit(p, u) ==
    /\ p \in DOMAIN package /\ <<p, u>> \notin units
    /\ units' = units \cup {<<p, u>>}
    /\ UNCHANGED <<years, subjects, package, lessons, link, resource, disk, imported, client>>

UpdateUnit(p, u, v) ==
    LET moved(path) == IF path[1] = p /\ path[2] = u THEN [path EXCEPT ![2] = v] ELSE path IN
    /\ <<p, u>> \in units /\ <<p, v>> \notin units \ {<<p, u>>}
    /\ units' = {moved(x) : x \in units}
    /\ lessons' = {moved(l) : l \in lessons}
    /\ link' = {<<moved(k[1]), k[2]>> : k \in link}
    /\ UNCHANGED <<years, subjects, package, resource, disk, imported, client>>

DeleteUnit(p, u) ==
    /\ <<p, u>> \in units /\ units' = units \ {<<p, u>>}
    /\ lessons' = {l \in lessons : <<l[1], l[2]>> # <<p, u>>}
    /\ link' = {k \in link : <<k[1][1], k[1][2]>> # <<p, u>>}
    /\ UNCHANGED <<years, subjects, package, resource, disk, imported, client>>

CreateLesson(p, u, n) ==
    /\ <<p, u>> \in units /\ <<p, u, n>> \notin lessons
    /\ lessons' = lessons \cup {<<p, u, n>>}
    /\ UNCHANGED <<years, subjects, package, units, link, resource, disk, imported, client>>

UpdateLesson(l, n) ==
    LET moved(path) == IF path = l THEN [path EXCEPT ![3] = n] ELSE path IN
    /\ l \in lessons /\ [l EXCEPT ![3] = n] \notin lessons \ {l}
    /\ lessons' = {moved(m) : m \in lessons}
    /\ link' = {<<moved(k[1]), k[2]>> : k \in link}
    /\ UNCHANGED <<years, subjects, package, units, resource, disk, imported, client>>

DeleteLesson(l) ==
    /\ l \in lessons /\ lessons' = lessons \ {l}
    /\ link' = {k \in link : k[1] # l}
    /\ UNCHANGED <<years, subjects, package, units, resource, disk, imported, client>>

LinkResource(l, r) ==
    /\ l \in lessons /\ r \in DOMAIN resource /\ link' = link \cup {<<l, r>>}
    /\ UNCHANGED <<years, subjects, package, units, lessons, resource, disk, imported, client>>

UnlinkResource(l, r) ==
    /\ l \in lessons /\ link' = link \ {<<l, r>>}
    /\ UNCHANGED <<years, subjects, package, units, lessons, resource, disk, imported, client>>

-----------------------------------------------------------------------------
(* Resources and their files. *)

\* _store_resource_file gives the file a name of its own before the row is there.
StoreResourceFile(t, r, type, f) ==
    /\ client[t] = Idle
    /\ IF type = "file" THEN f \in Files \ disk ELSE f = NoFile
    /\ disk' = disk \cup ({f} \ {NoFile})
    /\ client' = [client EXCEPT ![t] = [doing |-> "creating", name |-> r, type |-> type, file |-> f]]
    /\ UNCHANGED <<years, subjects, treeVars, resource, imported>>

\* The name may be taken: then the request fails, and its file stays.
CommitResource(t) ==
    /\ client[t].doing = "creating" /\ client' = [client EXCEPT ![t] = Idle]
    /\ resource' = IF client[t].name \in DOMAIN resource THEN resource
                   ELSE Put(resource, client[t].name, [type |-> client[t].type, file |-> client[t].file])
    /\ UNCHANGED <<years, subjects, treeVars, disk, imported>>

\* A file resource that becomes another type keeps its file, and may come back.
UpdateResource(r, n, type) ==
    /\ r \in DOMAIN resource /\ n \notin DOMAIN resource \ {r}
    /\ type = "file" => resource[r].file # NoFile
    /\ resource' = [k \in (DOMAIN resource \ {r}) \cup {n} |->
                        IF k = n THEN [resource[r] EXCEPT !.type = type] ELSE resource[k]]
    /\ link' = {IF k[2] = r THEN <<k[1], n>> ELSE k : k \in link}
    /\ UNCHANGED <<years, subjects, package, units, lessons, disk, imported, client>>

\* Mutant: the file goes first, and the commit may fail.
RemoveFileFirst(t, r) ==
    /\ client[t] = Idle /\ r \in DOMAIN resource
    /\ disk' = disk \ {resource[r].file}
    /\ client' = [client EXCEPT ![t] = [doing |-> "deleting", file |-> resource[r].file]]
    /\ UNCHANGED <<years, subjects, treeVars, resource, imported>>

DeleteResource(t, r) ==
    /\ client[t] = Idle /\ r \in DOMAIN resource
    /\ resource' = Only(resource, DOMAIN resource \ {r})
    /\ link' = {k \in link : k[2] # r}
    /\ client' = [client EXCEPT ![t] = [doing |-> "deleting", file |-> resource[r].file]]
    /\ UNCHANGED <<years, subjects, package, units, lessons, disk, imported>>

\* _remove_resource_file, after the commit.
RemoveFile(t) ==
    /\ client[t].doing = "deleting" /\ client' = [client EXCEPT ![t] = Idle]
    /\ disk' = disk \ {client[t].file}
    /\ UNCHANGED <<years, subjects, treeVars, resource, imported>>

-----------------------------------------------------------------------------
(* Activation. *)

MayActivate(c) == imported[c] = "stored"

\* What a request has read: the year, the family's subject for each of the
\* curriculum's, and a name that is free for each lesson's resource.
BeginActivation(t, c, year, to, names) ==
    /\ client[t] = Idle /\ MayActivate(c) /\ year \in years
    /\ to \in [DOMAIN Outline[c] -> Subjects]
    /\ \A s \in DOMAIN to : to[s] \in subjects \cup {s} /\ PackageNameIsFree(year, Outline[c][s].package, 0)
    /\ names \in [UNION {{s} \X Outline[c][s].lessons : s \in DOMAIN to} -> Resources \ DOMAIN resource]
    /\ \A k, l \in DOMAIN names : names[k] = names[l] => k = l
    /\ client' = [client EXCEPT ![t] =
                     [doing |-> "activating", of |-> c, year |-> year, to |-> to, names |-> names, knew |-> subjects]]
    /\ UNCHANGED <<years, subjects, treeVars, resource, disk, imported>>

\* The subjects that were missing are made, then a package for each subject, its
\* units and lessons, and a resource for each lesson.
CommitActivation(t, row) ==
    LET asked   == client[t]
        c       == asked.of
        made    == {asked.to[s] : s \in DOMAIN asked.to} \ asked.knew
        entries == DOMAIN asked.names
        path(k) == <<row[k[1]], k[2][1], k[2][2]>>
    IN  /\ asked.doing = "activating"
        /\ row \in [DOMAIN asked.to -> 1..MaxPackages \ DOMAIN package]
        /\ \A r, s \in DOMAIN row : row[r] = row[s] => r = s
        /\ imported[c] # "gone" /\ asked.year \in years
        /\ made \cap subjects = {} /\ {asked.to[s] : s \in DOMAIN row} \subseteq subjects \cup made
        /\ \A s \in DOMAIN row : PackageNameIsFree(asked.year, Outline[c][s].package, 0)
        /\ \A k \in entries : asked.names[k] \notin DOMAIN resource
        /\ subjects' = subjects \cup made
        /\ package' = [p \in DOMAIN package \cup {row[s] : s \in DOMAIN row} |->
                          IF p \in DOMAIN package THEN package[p]
                          ELSE LET s == CHOOSE s \in DOMAIN row : row[s] = p IN
                               [year |-> asked.year, name |-> Outline[c][s].package, subject |-> asked.to[s]]]
        /\ units' = units \cup {<<path(k)[1], path(k)[2]>> : k \in entries}
        /\ lessons' = lessons \cup {path(k) : k \in entries}
        /\ resource' = [r \in DOMAIN resource \cup {asked.names[k] : k \in entries} |->
                           IF r \in DOMAIN resource THEN resource[r] ELSE [type |-> "link", file |-> NoFile]]
        /\ link' = link \cup {<<path(k), asked.names[k]>> : k \in entries}
        /\ imported' = [imported EXCEPT ![c] = "activated"]
        /\ client' = [client EXCEPT ![t] = Idle]
        /\ UNCHANGED <<years, disk>>

\* A subject that is not mapped, a name or a row that is gone or taken.
AbortActivation(t) ==
    /\ client[t].doing = "activating" /\ client' = [client EXCEPT ![t] = Idle]
    /\ UNCHANGED <<years, subjects, treeVars, resource, disk, imported>>

\* delete_imported_curriculum: what was built from it stays.
DeleteImported(c) ==
    /\ imported[c] # "gone" /\ imported' = [imported EXCEPT ![c] = "gone"]
    /\ UNCHANGED <<years, subjects, treeVars, resource, disk, client>>

-----------------------------------------------------------------------------

CurriculumPackagesNext ==
    \/ \E p \in 1..MaxPackages, y \in Years, s \in Subjects, n \in PackageNames :
        CreatePackage(p, y, s, n) \/ UpdatePackage(p, y, s, n)
    \/ \E p, q \in 1..MaxPackages, y \in Years, n \in PackageNames : ClonePackage(p, q, y, n)
    \/ \E p \in 1..MaxPackages : DeletePackage(p)
    \/ \E y \in Years : DeleteYear(y)
    \/ \E s \in Subjects : DeleteSubject(s)
    \/ \E p \in 1..MaxPackages, u \in Units : CreateUnit(p, u) \/ DeleteUnit(p, u)
    \/ \E p \in 1..MaxPackages, u, v \in Units : UpdateUnit(p, u, v)
    \/ \E p \in 1..MaxPackages, u \in Units, n \in Lessons : CreateLesson(p, u, n)
    \/ \E l \in lessons, n \in Lessons : UpdateLesson(l, n)
    \/ \E l \in lessons : DeleteLesson(l)
    \/ \E l \in lessons, r \in Resources : LinkResource(l, r) \/ UnlinkResource(l, r)
    \/ \E r, n \in Resources, type \in Types : UpdateResource(r, n, type)
    \/ \E t \in Requests, r \in Resources, type \in Types, f \in Files \cup {NoFile} :
        StoreResourceFile(t, r, type, f)
    \/ \E t \in Requests, r \in Resources : DeleteResource(t, r)
    \/ \E t \in Requests : CommitResource(t) \/ RemoveFile(t) \/ AbortActivation(t)
    \/ \E t \in Requests, c \in Curricula, y \in Years :
        \E to \in [DOMAIN Outline[c] -> Subjects],
           names \in [UNION {{s} \X Outline[c][s].lessons : s \in DOMAIN Outline[c]} -> Resources] :
            BeginActivation(t, c, y, to, names)
    \/ \E t \in Requests, c \in Curricula :
        \E row \in [DOMAIN Outline[c] -> 1..MaxPackages] : client[t].doing = "activating" /\ client[t].of = c /\ CommitActivation(t, row)
    \/ \E c \in Curricula : DeleteImported(c)

CurriculumPackagesSpec == CurriculumPackagesInit /\ [][CurriculumPackagesNext]_packagesVars

-----------------------------------------------------------------------------

\* A resource of type file can be opened: its file is on disk, through every
\* creation, change of type, failure and deletion, and no two resources share one.
ResourceHasFile ==
    \A r \in DOMAIN resource :
        /\ resource[r].type = "file" => resource[r].file # NoFile
        /\ resource[r].file # NoFile =>
            resource[r].file \in disk /\ \A s \in DOMAIN resource : resource[s].file = resource[r].file => r = s

=============================================================================
