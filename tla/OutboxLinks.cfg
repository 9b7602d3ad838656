SPECIFICATION Spec
CONSTANTS
    Users = {alice}
    Workers = {w1}
    Clients = {c1, c2}
    None = None
    Lease = 1
    TokenLife <- MCTokenLife
    MaxAttempts = 2
    RetryBase = 1
    RetryMax = 2
    InlineDelivery = FALSE
    MaxJobs = 3
    MaxTokens = 2
    MaxTime = 1
    MaxCrashes = 1
CHECK_DEADLOCK FALSE
SYMMETRY Symmetry
INVARIANTS
    OneLiveLink
    VerifiedNeedsNoLink
    NoRecoverySurvivesChange
PROPERTY
    ImplementsActionChallenge
