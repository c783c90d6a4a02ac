SPECIFICATION FairSpec
CONSTANTS
    c1 = c1
    c2 = c2
    Clients <- TwoClients
    MaxPublishers = 1
    MaxInvalid = 1
    Secured = TRUE
    Orderly = TRUE
    MaxPackets = 3
INVARIANT TypeOK
INVARIANT StopPreventsReading
INVARIANT CountExact
INVARIANT ResponseTellsTruth
INVARIANT PurgedForStreak
INVARIANT LimitExceededOnlyByOverlap
PROPERTY StopCompletes
CHECK_DEADLOCK FALSE
