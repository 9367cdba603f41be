SPECIFICATION Spec
CONSTANTS
    Base <- MCBase
    Ints <- MCInts
    Strings <- MCStrings
    SetTwice <- MCSetTwice
    MaxSets = 2
    Images <- MCImages
    PaletteSize = 3
    Palette <- MCPalette
INVARIANTS
    SetThenGet
    WrittenReadsBack
    GettersReadTheirTags
    EncodedReadsBack
    LayoutApart
    CutFileFails
    PanicOnlyOnCutImages
CHECK_DEADLOCK FALSE
