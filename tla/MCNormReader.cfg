SPECIFICATION Spec
CONSTANTS
    c1 = c1
    c2 = c2
    v1 = v1
    v2 = v2
    de = de
    none = none
    Calls = {c1, c2}
    Versions = {v1, v2}
    Langs = {de}
    Days = {1, 2}
    From <- FromDay
    NoVersion = none
    Requests <- EveryOutcome
    MaxCalls = 3
SYMMETRY Interchangeable
INVARIANTS
    LoadIsPaid
PROPERTY
    KeepsPromise
