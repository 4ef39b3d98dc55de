CONSTANTS
    Namespaces = {n1}
    Sets = {s1}
    NullSet = NULLSET
    EffectiveSets <- MCStable
    SetGauges <- MCLastUpdated
    NoKey <- MCNoKey
    NoNs = NoNs
    MaxEvents = 1
    MaxBuilds = 2
    Runners = {r1}
    Percent <- MCPercent
SPECIFICATION Spec
PROPERTIES StaleSeriesDropped
