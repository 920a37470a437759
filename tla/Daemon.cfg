SPECIFICATION FairSpec
CONSTANTS
    Msgs = {m1, m2, m3}
    Blank = {m3}
    BatchLimit = 2
    RateMax = 2
    MaxCrashes = 1
    MaxMerges = 1
    NoFile = NoFile
    Torn = Torn
INVARIANT TypeOK
PROPERTY ImplementsPromise
PROPERTY EveryMessageIsDealtWith
CHECK_DEADLOCK FALSE
