CONSTANTS
    Batch <- MCBatch
    Size <- MCSize
    Rows <- MCRows
    ColumnCount = 2
    MaxBatches = 2
    Projections <- MCProjections

SPECIFICATION Spec

INVARIANT FinalizeMeansWritten

CHECK_DEADLOCK FALSE
