SPECIFICATION Spec
CONSTANTS
    Workers = {w1, w2}
    MaxJobs = 3
    Cadences = {1, 3}
    BatchSize = 2
    CallTime = 1
    Lease = 3
    MaxAttempts = 2
    RetryBase = 1
    RetryMax = 2
    MaxCrashes = 1
    None = None
PROPERTY
    EveryJobCloses
