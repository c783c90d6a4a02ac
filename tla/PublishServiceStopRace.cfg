SPECIFICATION Spec
CONSTANTS
    c1 = c1
    c2 = c2
    Clients <- TwoClients
    MaxPublishers = 1
    MaxInvalid = 1
    Secured = FALSE
    Orderly = FALSE
    MaxPackets = 3
SYMMETRY Symmetry
INVARIANT StopPreventsReading
CHECK_DEADLOCK FALSE
