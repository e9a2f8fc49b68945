\* Patches applied in any order.
SPECIFICATION Spec
CONSTANTS
    k1 = k1
    k2 = k2
    Keys = {k1, k2}
    Indexes = {x, y}
    Values = {a, b}
    KeysOf <- OwnKeys
    MaxPatches = 2
    MaxMutations = 1
    MaxFailures = 0
PROPERTIES
    VersionMonotonic
