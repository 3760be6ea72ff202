SPECIFICATION Spec
CONSTANTS
    Clients = {c1, c2}
    Keys = {k1, k2}
    Values = {v1, v2}
    TTLs = {0, 1}
    SweepThreshold = 1
    MaxTime = 3
    NoValue = NoValue
INVARIANTS HitsAreJustified
PROPERTIES GrowsOnlyWithLiveEntries
