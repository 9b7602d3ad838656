SPECIFICATION Spec
CONSTANTS
    Tabs = {t1, t2}
    None = None
    MaxSessions = 1
    MaxTokens = 3
    MaxLosses = 1
CHECK_DEADLOCK FALSE
INVARIANT
    PairWorks
