\* The key of an index is rotated.
SPECIFICATION Spec
CONSTANTS
    k1 = k1
    k2 = k2
    Keys = {k1, k2}
    Indexes = {x, y}
    Values = {a, b}
    KeysOf <- Rotated
    MaxPatches = 2
    MaxMutations = 1
    MaxFailures = 0
INVARIANTS
    HashOfRecords
