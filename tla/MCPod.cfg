SPECIFICATION Spec
CONSTANTS
    Resolvers = {r1, r2, r3}
    Threshold = 2
    Cooldown = 2
    MaxStep = 1
    Callers = {c1, c2}
    Keys = {k1, k2}
    none = none
    Values = {v}
    Searches = {s1, s2}
    WarmKeys <- KeysInTurn
    MaxVersion = 2
    MaxRemovals = 1
    Claims <- AlikeClaims
    UserKeys <- AlikeNames
    Raws <- Acts
    PageSizes = {0, 1, 2, 3}
    Threads = 1
    Probes <- RedisThenFedlex
INVARIANTS
    FreshOrRaced
    LoadsAreNeeded
    WalkIsWhole
PROPERTIES
    KeepsPolicy
    RecoversWhenHealthy
    NobodyWaitsForever
    KeepsApart
    ToldInTime
    RoutedAsReady
