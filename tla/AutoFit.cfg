CONSTANTS
    Last = 3
    MaxCount = 2
    Widths <- MCWidths
    Bins = 2
    Settings <- MCSettings
CHECK_DEADLOCK FALSE
SPECIFICATION Spec
INVARIANTS FitTypeOK FitCovers FitIsSnug UnitFitsRange
PROPERTIES FitGrowsWithRange DriftMovesOneUnit
