SPECIFICATION FairSpec
CONSTANTS
    c1 = c1
    Clients <- OneClient
    MaxPublishers = 1
    MaxInvalid = 1
    MaxImport = 1
    MaxPackets = 5
INVARIANT TypeOK
INVARIANT ResumeExact
INVARIANT QuietAfterStop
PROPERTY StopCompletes
CHECK_DEADLOCK FALSE
