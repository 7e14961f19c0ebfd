\* The pipeline with a fair provider, one device's versions, records and plans.
SPECIFICATION PlanningSpec
CONSTANTS
    Attempts = 3
    Backoff = 1
    Timeout = 2
    Threshold = 3
    ResetTime = 4
    MaxSubmissions = 4
    Devices = {d1}
    Reviewers = {}
    MaxRequests = 0
    MaxRestarts = 0
    Students = {p}
    LastDay = 2
    DaysInWeek = 2
    Hours = {2}
    Entries <- SomeEntries
    Calendars <- SomeCalendars
    RequiredDays = 2
    Writers = {w1, w2}
    Count = 3
    Categories = {"homework", "quiz"}
    Marks <- SomeMarks
    Lists <- SomeLists
    Requests = {q1, q2}
    Ttl = 2
    MaxCompute = 1
    MaxWrites = 2
    MaxTime = 2
    Dates = {1, 2}
    Weekdays = {1}
    Years = {y1, y2}
    Terms = {t1, t2}
    Periods = {p1}
    Events = {e1}
    YearDates <- OneYear
    Days = {1, 2}
    WeekLength = 1
    Slots <- TwoSlots
    Schedules = {1, 2}
    Blocks = {1, 2}
    Overrides = {1, 2}
    Learners = {p}
    Lessons = {"l1", "l2", "l3"}
    UnitOf <- UnitsOf
    MaxDays = 6
    Subjects = {u1}
    Titles = {t1}
    Files = {f1, f2}
    Scores = {0, 5}
    RestoredDates = {m1}
    HourCounts = {1, 2}
    Choices <- SomeChoices
    MaxRows = 3
    MaxEdits = 4
INVARIANTS
    BurstsAreBounded
    SummaryAddsUp
    AveragesAreFair
    AnsweredWritesShow
    CalendarNests
    ClashesAreExplained
    PacingIsTrue
    RestoredIsThere
PROPERTIES
    EveryJobIsAnswered
    PublishesVersions
    HoursAreKept
    SecondRestoreIsIdle
CHECK_DEADLOCK FALSE
