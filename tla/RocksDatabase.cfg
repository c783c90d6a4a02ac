SPECIFICATION Spec
CONSTANTS
    s1 = s1
    s2 = s2
    u1 = u1
    Absent = Absent
    StreamKeys <- TwoStreams
    Unkeyable <- OneUnkeyable
    Retention = 2
    WALSettings = {TRUE, FALSE}
    SingleWriter = TRUE
    ChunkSizes = {1, 2}
    MaxSeq <- SmallerWithoutWAL
    MaxTime = 2
SYMMETRY Symmetry
INVARIANT TypeOK
INVARIANT RegistryCoversLive
INVARIANT NumbersUniqueWithWAL
INVARIANT FlushedSurvives
PROPERTY TruncatesOldestFirst
