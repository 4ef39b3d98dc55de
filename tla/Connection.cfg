CONSTANTS
    Configs <- MCConfigs
    MaxCalls = 1
    MaxChanges = 3
CHECK_DEADLOCK FALSE
SPECIFICATION Spec
INVARIANTS ConnectionTypeOK ConnectsPerOutage
PROPERTIES JobsRecover
