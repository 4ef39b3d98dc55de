CONSTANTS
    Namespaces = {n1}
    Sets = {s1}
    NullSet = NULLSET
    EffectiveSets <- MCEffectiveSets
    SetGauges = {}
    NoKey <- MCNoKey
    NoNs = NoNs
    MaxEvents = 1
    MaxBuilds = 2
SPECIFICATION DiscoverySpec
PROPERTIES DefaultTTLDropped
