SPECIFICATION Spec
CONSTANTS
    k1 = k1
    k2 = k2
    a = a
    b = b
    noKid = noKid
    noAlg = noAlg
    NoKid = noKid
    NoAlg = noAlg
    Jwks <- SomeJwks
    Documents <- SomeDocuments
    Tokens <- SomeTokens
    MaxDocs = 3
    MaxStarts = 2
PROPERTIES
    KeepsTrust
    FollowsProvider
