CONSTANTS
    Namespaces = {n1}
    Sets = {s1}
    NullSet = NULLSET
    EffectiveSets <- MCDrifting
    SetGauges = {}
    NoKey <- MCNoKey
    NoNs = NoNs
    MaxEvents = 1
    MaxBuilds = 2
    Runners = {r1, r2}
    Percent <- MCPercent
SPECIFICATION MCSpec
INVARIANTS ExporterTypeOK OneCycle PolicyIsOwn
PROPERTIES QuantilesOfOwnScan RebuiltStartsEmpty ScansRecur
