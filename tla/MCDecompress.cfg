SPECIFICATION Spec
CONSTANTS
    LitWidth = 2
    MaxWidth = 4
    HiModulus = 64
    Pow2 <- MCPow2
    Offered = {0, 4, 5, 9, 15}
    RoomSizes = {2, 100}
    ByteSize = 8
    Cuts = {0, 1, 2}
    Int8Max = 2
    LZWInputs <- MCLZWInputs
    ByteInputs <- MCByteInputs
    FaxInputs <- MCFaxInputs
    FaxNoise <- MCFaxNoise
INVARIANTS
    PrefixesDescend
    RoomForEveryCode
    PanicOnlyWhenFull
    RoundTrip
PROPERTIES
    DecodesAll
    FaxRowsAligned
CHECK_DEADLOCK FALSE
