SPECIFICATION Spec
CONSTANTS
    Tabs = {t1}
    None = None
    MaxSessions = 2
    MaxTokens = 5
    MaxLosses = 3
CHECK_DEADLOCK FALSE
INVARIANTS
    TypeOK
    MisfitIsUnheard
