SPECIFICATION Spec
CONSTANTS
    Txns = {t1, t2}
    Kinds <- AllKinds
    None = None
INVARIANT
    NoDeadlock
