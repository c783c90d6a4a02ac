SPECIFICATION FairSpec
CONSTANTS
    MinimumInterval = 2
    InitialInterval = 11
    MaxChunks = 2
INVARIANT TypeOK
INVARIANT NoThreadOutlivesBroker
INVARIANT ExitsOnlyOnStop
PROPERTY StopCompletes
CHECK_DEADLOCK FALSE
