SPECIFICATION FairSpec
CONSTANTS
    Tasks = {t1, t2, t3}
    MaxForeign = 1
    Nobody = Nobody
    NoSnapshot = NoSnapshot
INVARIANT SectionsAreIsolated
PROPERTY ImplementsTransactions
PROPERTY EveryCallReturns
CHECK_DEADLOCK FALSE
