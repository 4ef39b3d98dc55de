CONSTANTS
    Configs <- MCLocalOnly
    MaxCalls = 1
    MaxChanges = 2
CHECK_DEADLOCK FALSE
SPECIFICATION Safety
PROPERTIES MissingNodeReported
