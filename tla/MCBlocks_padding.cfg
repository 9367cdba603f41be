SPECIFICATION Spec
CONSTANTS
    Ifds <- MCPadded
    Requests <- MCRequests
    WholeImage = WholeImage
    Cuts = {0}
INVARIANT TilesLikeStrips
CHECK_DEADLOCK FALSE
