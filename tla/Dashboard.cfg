SPECIFICATION Spec
CONSTANTS
    Files = {a, b}
    None = None
    MaxCalls = 3
    MaxActions = 3
CHECK_DEADLOCK FALSE
INVARIANTS
    TypeOK
    RowsBelongToDialog
    ShownIsCurrent
PROPERTY
    LoadingEnds
