\* A call may never return.
SPECIFICATION TimedSpec
CONSTANTS
    Attempts = 3
    Backoff = 1
    Timeout = 2
    Threshold = 3
    ResetTime = 4
PROPERTY OverdueCallIsAbandoned
