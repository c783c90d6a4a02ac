SPECIFICATION Spec
CONSTANTS
    s1 = s1
    s2 = s2
    u1 = u1
    Absent = Absent
    StreamKeys <- TwoStreams
    Unkeyable = {}
    Retention = 2
    WALSettings = {FALSE}
    SingleWriter = TRUE
    ChunkSizes = {1, 2}
    MaxSeq <- SmallerWithoutWAL
    MaxTime = 2
SYMMETRY Symmetry
INVARIANT SequenceNumbersUnique
