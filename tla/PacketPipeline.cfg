SPECIFICATION FairSpec
CONSTANTS
    p1 = p1
    p2 = p2
    Publishers <- TwoPublishers
    MaxImport = 2
    MaxPublish = 2
    MaxStore = 2
    FirstNumber = 5
    PublishThread = TRUE
    MaxPackets = 3
INVARIANT TypeOK
INVARIANT QueuesBounded
INVARIANT NothingVanishes
INVARIANT NumbersDense
INVARIANT FanOutAgrees
INVARIANT PublisherOrder
INVARIANT OverflowCounted
PROPERTY ImplementsFeed
PROPERTY ImportDrains
PROPERTY PropagatorStops
CHECK_DEADLOCK FALSE
