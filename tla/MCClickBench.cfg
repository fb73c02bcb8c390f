CONSTANTS
    Piece <- MCPiece
    PieceSize <- MCPieceSize
    PieceRank <- MCPieceRank
    PieceHolds <- MCPieceHolds
    Literal <- MCLiteral
    HitsSchema <- MCHitsSchema
    Files <- MCFiles

SPECIFICATION Spec

INVARIANTS
    NoQueryFails
    FailureLeavesNoRows
    AnswerIsMeaning
    BatchesConsistent

