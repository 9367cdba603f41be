SPECIFICATION SlicesSpec
CONSTANTS
    Data <- MCData
    Bytes = {0, 1, 2}
    Blank = 0
    MaxOffset = 4
    Rects <- MCRects
    Cuts <- MCCuts
    Kinds <- MCKinds
    Colours <- MCColours
    Overflow = {255}
    MaxImages = 3
    MaxCalls = 4
INVARIANTS
    AcceptedIsKept
    SeenAsPainted
    PanicOnlyOffColumnZero
CHECK_DEADLOCK FALSE
