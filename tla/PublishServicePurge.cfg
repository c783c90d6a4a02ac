SPECIFICATION Spec
CONSTANTS
    c1 = c1
    c2 = c2
    Clients <- TwoClients
    MaxPublishers = 2
    MaxInvalid = 2
    Secured = FALSE
    Orderly = TRUE
    MaxPackets = 3
SYMMETRY Symmetry
INVARIANT PurgedAtMaximum
CHECK_DEADLOCK FALSE
