CONSTANTS
    Column <- MCColumn
    Row <- MCRow
    sort_columns <- MCSortColumns
    RowGroup <- MCRowGroup
    Constraint <- MCConstraint
    Tables <- MCTables
    Accepts <- MCAccepts
    Limits = {0, 1, 2, 6}
    Offsets = {0, 1, 3}
    MaxRows = 6

SPECIFICATION Spec

INVARIANTS
    TypeOK
    SkippedHoldNothing
    HeapHoldsFirst
    ResultIsFirstRows
    FileHoldsAnswer

PROPERTY QueryEnds

CHECK_DEADLOCK FALSE
