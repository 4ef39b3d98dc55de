CONSTANTS
    Sets <- MCSets
    Files <- MCFiles
CHECK_DEADLOCK FALSE
SPECIFICATION Spec
INVARIANTS ConfigTypeOK EffectiveValid UnsetIsHarmless
