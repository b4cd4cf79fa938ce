SPECIFICATION PartSpec
CONSTANTS
    w1 = w1
    w2 = w2
    none = none
    Writers = {w1, w2}
    NoVersion = none
    Unreadable = none
    Drafts <- SomeDrafts
    Days = {1, 2}
    MaxVersions = 2
    Characters <- SomeCharacters
    MaxRows = 2
    MaxCharacters = 3
SYMMETRY Interchangeable
INVARIANT ComesBack
PROPERTIES
    KeepsHistory
    NeverRegresses
