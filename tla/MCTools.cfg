SPECIFICATION ToolsSpec
CONSTANTS
    none = none
    Links <- LinkPredicates
    MaxRows = 4
    MaxVersions = 3
    MaxDrafts = 3
    Themes <- AllThemes
    Known <- KnownFacts
    Later <- LaterFacts
    Requests <- SomeRequests
    Languages = {"de", "fr", "it", "en", "rm", "roh"}
    InTitle <- Words
    Elis <- AllElis
    Days <- AllDays
    DefaultLimit = 2
    LargestLimit = 3
    opaque = opaque
    Environments <- MCEnvironments
    Redeployed <- MCRedeployed
    Kids = {"k1"}
    Messages <- MCMessages
    Dated = {"2024-01-01"}
    Sources = {"eli/cc/1", "eli/cc/2"}
INVARIANTS
    VersionsAgree
    SrNumberDecided
    CitationsMirror
    PapersOfDrafts
    HitsLeadBack
    HandshakeHolds
    ListedIsCallable
    AnswersMatch
    TrustAsConfigured
PROPERTY LogTellsTheCall
