SPECIFICATION Spec
CONSTANTS
    Base = 4
    Width = 2
    SeqWidth = 2
    Dash = 1
    ToUpper <- UpperA
    Unset = Unset
    Identifiers <- SomeIdentifiers
    Times = {1, 2}
    FirstNumber = 2
    LastNumber = 5
    ChunkSizes = {1, 2}
    Starts = {0, 4}
    MaxAsked = 2
INVARIANT TypeOK
INVARIANT ListingExact
PROPERTY ImplementsPacketStore
