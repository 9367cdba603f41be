SPECIFICATION OptSpec
CONSTANTS
    Magic <- MCMagic
    SubIFDTag <- MCSubIFDTag
    BMagic <- MCMagic
    BSubIFDTag <- MCSubIFDTag
    MaxAdaptiveReads = 2
    MaxIFDEntrySize = 4
    MaxEntries = 200
    MaxIFDs = 4
    MaxChain = 3
    MaxBatchGap = 4
    RangePadding = 3
    EstimatedIFDSize = 6
    SubIFDPadding = 4
    ClusterGap = 8
    ClusterPadding = 7
    MaxClusterSize = 20
    MaxBatchSize = 24
    MetadataBound = 60
    Files <- CutFiles
    Sources = {"seeker", "buffered"}
    ShortCounts = {1, 3}
    IOErrors = TRUE
    BufferSizes = {7, 14}
    Fallbacks = {TRUE, FALSE}
INVARIANTS
    BufferMatchesFile
    ReadBudget
PROPERTIES
    OpeningEnds
CHECK_DEADLOCK FALSE
