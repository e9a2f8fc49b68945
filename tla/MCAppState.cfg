\* Patches applied in any order, again and at the same time, with calls that fail
\* and keys that come late or never.
SPECIFICATION Spec
CONSTANTS
    k1 = k1
    k2 = k2
    Keys = {k1, k2}
    Indexes = {x, y}
    Values = {a, b}
    KeysOf <- OwnKeys
    MaxPatches = 2
    MaxMutations = 2
    MaxFailures = 1
INVARIANTS
    HashOfRecords
    HashTellsDivergence
PROPERTIES
    VersionMeansRecords
