SPECIFICATION Spec
CONSTANTS
    Users = {alice, bob}
    Passwords = {p, q}
    Logins = {l1}
    Requests = {r1, r2}
    None = None
    MaxSessions = 3
    MaxChanges = 2
SYMMETRY Symmetry
CHECK_DEADLOCK FALSE
INVARIANTS
    TypeOK
    LiveSessionsAreCurrent
PROPERTY
    ReplacementEndsOnlyItsSessions
