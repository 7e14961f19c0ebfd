\* One reviewer, one device, and a worker that keeps running.
SPECIFICATION FairSpec
CONSTANTS
    MaxSubmissions = 2
    Devices = {d1}
    Reviewers = {r1}
    MaxRequests = 2
    MaxRestarts = 1
INVARIANTS
    ApprovedHasGrade
    FinalIsExplained
PROPERTIES
    PendingIsServed
    RegradeIsAnswered
CHECK_DEADLOCK FALSE
