SPECIFICATION Spec
CONSTANTS
    c1 = c1
    c2 = c2
    Clients <- TwoClients
    MaxPublishers = 2
    MaxInvalid = 1
    Secured = FALSE
    Orderly = TRUE
    MaxPackets = 2
SYMMETRY Symmetry
INVARIANT ShutdownNamesLast
CHECK_DEADLOCK FALSE
