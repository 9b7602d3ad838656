SPECIFICATION Spec
CONSTANTS
    Requests = {r1, r2}
    Calls = {"login", "upload", "verification_request"}
    Peers = {p1}
    Subjects = {s1, s2}
    Limit <- MCLimit
SYMMETRY Symmetry
INVARIANTS
    TypeOK
    EveryLimitIsCharged
    FailuresBounded
    FailuresAreCharged
