SPECIFICATION Spec
CONSTANTS
    none = none
    None = none
    Corpora <- SomeCorpora
    SplitThreshold = 5
    StubLength = 2
INVARIANTS
    ChunkedOnce
    PartsFit
    RowsWhole
    ChunksCite
    NothingUnaccounted
    SignpostsLead
    ShownOnce
    ChangesTold
CHECK_DEADLOCK FALSE
