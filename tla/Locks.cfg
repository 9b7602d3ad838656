SPECIFICATION FairSpec
CONSTANTS
    Txns = {t1, t2, t3}
    Kinds <- UserFirstKinds
    None = None
INVARIANTS
    TypeOK
    NoDeadlock
PROPERTY
    EveryTransactionEnds
