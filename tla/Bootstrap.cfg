SPECIFICATION Spec
CONSTANTS
    Operators = {o1, o2}
    None = None
SYMMETRY Symmetry
INVARIANTS
    TypeOK
    RevisionIsTrue
    Resumable
    RowsSurvive
    UnknownNeverTouched
PROPERTY
    SuccessIsHead
