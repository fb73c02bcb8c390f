CONSTANTS
    ColumnTypes <- MCColumnTypes
    Files <- MCFiles
    SchemaFiles <- MCSchemaFiles
    BlockSize = 2
    AnyLength = 5
    RowLength = 6
    QuoteLength = 9

SPECIFICATION ConvertSpec

INVARIANTS
    ImportTypeOK
    ConvertedIsWhole
    SealedIsFirstRows
    BufferBounded
    ParsersAgree
    OnlyShortRowsMisalign

PROPERTY ConversionEnds

CHECK_DEADLOCK FALSE
