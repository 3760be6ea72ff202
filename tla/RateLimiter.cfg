SPECIFICATION LimiterSpec
CONSTANTS
    Replicas = {p1}
    Addresses = {k1, k2}
    Requests = {r1, r2}
    MaxSettings = {0, 2}
    DefaultMax = 1
    Window = 3
    WindowsThreshold = 2
    MaxLag = 1
    MaxFaults = 1
INVARIANTS QuotaHolds
PROPERTIES RefusedOnlyWhenSpent
