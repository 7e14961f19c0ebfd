\* One reviewer; the worker may fail while it grades.
SPECIFICATION Spec
CONSTANTS
    MaxSubmissions = 2
    Devices = {d1}
    Reviewers = {r1}
    MaxRequests = 2
    MaxRestarts = 0
INVARIANT ReviewWorkIsListed
CHECK_DEADLOCK FALSE
