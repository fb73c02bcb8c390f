CONSTANTS
    ByteBits = 4
    WordBytes = 2
    ExponentBits = 4
    MaxRows = 4
    ColumnsOf <- MCColumnsOf

SPECIFICATION CodecSpec

INVARIANTS
    RoundTrip
    PayloadConsumed

CHECK_DEADLOCK FALSE
