CONSTANTS
    Namespaces = {n1, n2}
    Sets = {s1}
    NullSet = NULLSET
    EffectiveSets <- MCEffectiveSets
    SetGauges = {"min_ttl_seconds"}
    NoKey <- MCNoKey
    NoNs = NoNs
    MaxEvents = 1
    MaxBuilds = 2
SPECIFICATION MCSpec
INVARIANTS DiscoveryTypeOK PublishedIsRegistered IdleIsPublished
PROPERTIES SteadySetsKept Convergence
