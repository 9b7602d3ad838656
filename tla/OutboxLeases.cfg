SPECIFICATION Spec
CONSTANTS
    Users = {alice, bob}
    Workers = {w1, w2}
    Clients = {}
    None = None
    Lease = 1
    TokenLife <- MCTokenLife
    MaxAttempts = 2
    RetryBase = 1
    RetryMax = 2
    InlineDelivery = TRUE
    MaxJobs = 2
    MaxTokens = 2
    MaxTime = 2
    MaxCrashes = 0
CHECK_DEADLOCK FALSE
SYMMETRY Symmetry
INVARIANTS
    TypeOK
    OneOpenChallenge
    LeaseFences
    LiveLinkIsCurrent
    NoticeNotLost
PROPERTY
    ClosedStaysClosed
