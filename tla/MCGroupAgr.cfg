CONSTANTS
    Value <- MCValue
    NotSelfEqual <- MCNotSelfEqual
    Encoded <- MCEncoded
    Encode <- MCEncode
    Hash <- MCHash
    Row <- MCRow
    kInitialCapacity = 2
    Reserves = {0, 1, 2}
    kInitialCompactGroupReserve = 2
    MaxBatch = 3
    MaxRows = 5

SPECIFICATION Spec

INVARIANTS
    TypeOK
    ProbeChainsIntact
    SlotsAndGroupsMatch
    GroupsDistinct
    FreeSlotExists
    ResultConsistent

PROPERTIES
    RefinesGroupBy
    RowsFinish

CHECK_DEADLOCK FALSE
