\* Two devices resubmit at once.
SPECIFICATION Spec
CONSTANTS
    MaxSubmissions = 3
    Devices = {d1, d2}
    Reviewers = {}
    MaxRequests = 0
    MaxRestarts = 0
INVARIANT NewestIsCurrent
CHECK_DEADLOCK FALSE
