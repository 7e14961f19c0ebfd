\* The background services of a family, one at a time.
SPECIFICATION ServicesSpec
CONSTANTS
    Drafts = {s1, s2}
    Teachers = {c1, c2}
    Activities = {a1}
    Days = {m1, m2}
    MaxRows = 1
    MaxRevision = 1
    Works = {w1}
    Runners = {c1, c2}
    MaxJobs = 3
    MaxMoment = 7
    MaxTokens = 1
    MaxKeep = 2
    Keys = {k1}
    Clients = {c1, c2}
    BatchSize = 1
    FileRows = 2
    MaxImports = 2
    Rows = {"assignment", "card"}
    TableOf <- SomeTables
    Tables = 2
    DocumentTables = {2}
    MaxVersion = 2
    MaxTime = 1
    Years = {"y1", "y2"}
    Rules <- SomeRules
    Progress <- SomeProgress
    Window <- NoWindow
    Senders = {c1, c2}
    MaxFacts = 1
    CheckTime = 1
    MaxSent = 2
SYMMETRY Interchangeable
INVARIANTS
    OneAssignmentPerActivity
    ArtifactsAreWhole
    RowsImportedOnce
    NothingFallsBetween
    NoticeOnce
PROPERTIES
    DeletionIsKept
    NewestArtifactIsKept
CHECK_DEADLOCK FALSE
