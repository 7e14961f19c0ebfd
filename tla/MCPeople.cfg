\* Two reviewers, one device and the worker;
\* two clients of a family and of its records; two entries of two students and a collection;
\* a school year of four days that is set up.
SPECIFICATION PeopleSpec
CONSTANTS
    MaxSubmissions = 2
    Devices = {d1}
    Reviewers = {r1, r2}
    MaxRequests = 2
    MaxRestarts = 1
    Clients = {c1, c2}
    Families = {"home", "other"}
    Default = "home"
    Roles = {"parent", "student_viewer"}
    Emails = {e1, e2}
    Externals = {x1}
    ScimIds = {i1}
    MaxUsers = 3
    MaxInvitations = 1
    MaxAsks = 4
    Students = {ann, bob}
    Entries = {n1, n2}
    Collections = {k1}
    Editors = {p1, p2}
    MaxChanges = 5
    Clerks = {c1, c2}
    Subjects = {"math"}
    Years = {"y1", "y2"}
    Marks = {3, 4}
    Settings = {0, 2}
    Preset = 1
    MaxRecords = 2
    MaxSteps = 4
    Dates = {1, 2, 3, 4}
    Weekdays = {1, 2, 3}
    Skipped = {2}
    Repeated = {}
    Names = {"first"}
    Templates <- WholeYear
    Presets <- SecondDay
    Drafts <- FillIns
    Suggestions <- BeyondYear
    MaxTerms = 2
    MaxBreaks = 1
    MaxEdits = 3
    MaxSaves = 2
    PlanningYears <- Planned
    Codes = {"AK", "CA", "HI", "LA", "MA", "NV", "TX", "UT", "OH"}
    Browsers = {b1}
    Users = {"u1", "u2"}
    FirstUser = "u1"
    Requests = {c1, c2}
    FamilyRoles = {"parent", "tutor"}
    AppRoleSets = {{}, {"admin"}}
    Windows <- OneHour
    EnvMaintenance = FALSE
    MaxAge = 2
    RotateAfter = 1
    RateSpan = 2
    Limit <- OneEach
    LockoutThreshold = 2
    LockFor = 1
    MaxClock = 2
    MaxSends = 2
    MaxUpsets = 1
SYMMETRY Interchangeable
INVARIANTS
    ReviewNeededHasItem
    MembershipIsSound
    PortfolioIsKept
    TotalsMatchEntries
    ReadyIsAsReviewed
    HolidaysAreRight
    NobodyIsShutOut
PROPERTIES
    KeepsTheDoor
    FinalIsFrozen
CHECK_DEADLOCK FALSE
