\* Two streams, batches of up to two entries, every kind of fault once.
SPECIFICATION FairSpec
CONSTANTS
    Streams = {1, 2}
    Count = 2
    MaxEntries = 2
    MaxFaults <- OneOfEach
INVARIANTS
    AckedWasProcessed
    LossBounded
PROPERTIES
    ReadsForward
    EntriesAreRead
