\* Two sessions, one after the other, and their tasks against two clients; packages with
\* two requests; two imports of any documents; a page with two analyses, or with one and
\* several texts.
SPECIFICATION CurriculumSpec
CONSTANTS
    Sessions = {s1, s2}
    Clients = {c1, c2}
    Names = {n}
    Contents = {x}
    Matching <- SameContent
    MaxCurricula = 1
    Years = {y1, y2}
    Subjects = {"math"}
    PackageNames = {"grade 1"}
    Units = {"u1"}
    Lessons = {"l1"}
    Resources = {r1}
    Curricula = {k1}
    Outline <- OneLesson
    Files = {f1, f2}
    Requests = {c1, c2}
    MaxPackages = 2
    MaxImported = 2
    Texts = {t1, t2, broken}
    Valid = {t1, t2}
    MaxAnalyses = 2
    EditedFirst = {t1}
SYMMETRY CurriculumSymmetry
INVARIANTS
    DeletedStaysDeleted
    ResourceHasFile
    CopiesAreCaught
    NothingIsLeftBehind
    ImportsWhatWasChecked
PROPERTY FollowsLifecycle
CHECK_DEADLOCK FALSE
