SPECIFICATION OptSpec
CONSTANTS
    Magic <- MCMagic
    SubIFDTag <- MCSubIFDTag
    BMagic <- MCMagic
    BSubIFDTag <- MCSubIFDTag
    MaxAdaptiveReads = 2
    MaxIFDEntrySize = 4
    MaxEntries = 200
    MaxIFDs = 4
    MaxChain = 3
    MaxBatchGap = 4
    RangePadding = 3
    EstimatedIFDSize = 6
    SubIFDPadding = 4
    ClusterGap = 8
    ClusterPadding = 7
    MaxClusterSize = 20
    MaxBatchSize = 24
    MetadataBound = 60
    Files <- LoopFiles
    Sources = {"seeker"}
    ShortCounts = {}
    IOErrors = FALSE
    BufferSizes = {32}
    Fallbacks = {TRUE}
PROPERTIES
    LoopsAreBroken
CHECK_DEADLOCK FALSE
