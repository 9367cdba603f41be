SPECIFICATION Spec
CONSTANTS
    Ifds <- MCIfds
    Requests <- MCRequests
    WholeImage = WholeImage
    Cuts = {0, 1, 6}
INVARIANTS
    PixelsFromTheirSamples
    CompleteOrError
    PanicOnlyUnchecked
    ErrorOnlyWhenShort
    ConfigForetells
PROPERTIES
    WritesOnce
CHECK_DEADLOCK FALSE
