SPECIFICATION SweepSpec
CONSTANTS
    MaxBatchGap = 1
    ClusterGap = 2
    RangeSlices <- MCRangeSlices
    OffsetSlices <- MCOffsetSlices
INVARIANTS
    MergeIsDefinition
    ClustersAreDefinition
CHECK_DEADLOCK FALSE
