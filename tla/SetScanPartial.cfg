CONSTANTS
    TTLs = {1, 2, 3}
    Never = 4
    Sizes = {0, 1}
    Edges <- MCEdges
    Configs <- MCPartial
    Targets <- MCTargets
    MaxScans = 3
    MaxResults = 3
CHECK_DEADLOCK FALSE
SPECIFICATION Spec
INVARIANTS PartialScansNeverExport
