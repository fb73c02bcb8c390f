CONSTANTS
    Batch <- MCBatch
    Size <- MCSize
    Rows <- MCRows
    ColumnCount = 2
    MaxBatches = 3
    Projections <- MCProjections

SPECIFICATION Spec

INVARIANTS
    TypeOK
    ChunksHoldBatches
    AcceptedMeansComplete
    FinalizedMeansPublished

PROPERTIES
    PublishedIsFinal
    CompleteNeverRejected
    ImplementsArchive

CHECK_DEADLOCK FALSE
