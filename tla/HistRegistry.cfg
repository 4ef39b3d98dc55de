CONSTANTS
    Namespaces = {n1}
    Sets = {s1}
    NullSet = NULLSET
    EffectiveSets <- MCEffectiveSets
    SetGauges = {"min_ttl_seconds"}
    NoKey <- MCNoKey
    MaxBuilds = 3
SPECIFICATION RegistrySpec
INVARIANTS RegistryTypeOK ExposedIsRegistry NoDuplicateDesc WantedIsRegistered
PROPERTIES NoChurn CatalogSpec
