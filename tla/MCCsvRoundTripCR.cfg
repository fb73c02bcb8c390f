CONSTANTS
    ColumnTypes <- MCColumnTypes
    Files <- NoFiles
    Tables <- MCTables
    BlockSize = 5
    TextChars <- CarriageReturn

SPECIFICATION RoundSpec

INVARIANT ComesBack


CHECK_DEADLOCK FALSE
