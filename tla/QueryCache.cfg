SPECIFICATION Spec
CONSTANTS
    k1 = k1
    k2 = k2
    k3 = k3
    v1 = v1
    v2 = v2
    None = None
    Keys <- MCKeys
    Values <- MCValues
    MaxEntries = 2
    TTL = 2
    MaxTime = 5
SYMMETRY MCSymmetry
INVARIANTS
    TypeOK
    ListMatchesMap
    Capacity
    RetainsRecent
PROPERTIES
    ImplementsTTLStore
