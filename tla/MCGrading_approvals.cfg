\* Two reviewers decide on the same review item at once.
SPECIFICATION Spec
CONSTANTS
    MaxSubmissions = 1
    Devices = {d1}
    Reviewers = {r1, r2}
    MaxRequests = 3
    MaxRestarts = 0
INVARIANT ApprovedHasGrade
CHECK_DEADLOCK FALSE
