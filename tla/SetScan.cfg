CONSTANTS
    TTLs = {1, 2, 3}
    Never = 4
    Sizes = {0, 1, 2}
    Edges <- MCEdges
    Configs <- MCConfigs
    Targets <- MCTargets
    MaxScans = 3
    MaxResults = 3
CHECK_DEADLOCK FALSE
SPECIFICATION Spec
INVARIANTS ScanTypeOK HistogramsAreRecords BytesScrapeConsistent RangeIsLastScan CapRespected ReadsKeepTTL QuantilesRankTheScan WeightedQuantilesCover QuantilesWithinGauges
PROPERTIES SummarySpec
