CONSTANTS
    Sets <- MCSets
    Files <- MCBlockFiles
CHECK_DEADLOCK FALSE
SPECIFICATION Spec
PROPERTIES MalformedBlocksFailOnLoad
