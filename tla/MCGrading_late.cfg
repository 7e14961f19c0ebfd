\* Uploads and the worker only: what grades a version is the worker.
SPECIFICATION Spec
CONSTANTS
    MaxSubmissions = 3
    Devices = {d1}
    Reviewers = {}
    MaxRequests = 0
    MaxRestarts = 0
PROPERTY GradesTheCurrentVersion
CHECK_DEADLOCK FALSE
