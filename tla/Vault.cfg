SPECIFICATION Spec
CONSTANTS
    Users = {alice, bob, carol}
    Requests = {r1, r2, r3}
    None = None
    MaxFiles = 1
    MaxGrants = 2
    MaxCrashes = 1
SYMMETRY Symmetry
CHECK_DEADLOCK FALSE
INVARIANTS
    TypeOK
    GrantsAreSound
    KeptUntilDeleted
    DeletedIsGone
    BytesMatchRows
PROPERTY
    DeletedIsNeverServed
    ImplementsFileAccess
