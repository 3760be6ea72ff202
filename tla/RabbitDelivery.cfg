SPECIFICATION FairSpec
CONSTANTS
    Users = {m1, c1, c2}
    Messages = {m1}
    Consumers = {c1, c2}
    MaxDrops = 1
    MaxFaults = 1
    MaxBackoff = 3
    None = None
INVARIANTS NoLeakedConnection OneFaultIsSurvived AckedWasProcessed
PROPERTIES NothingVanishes UsesConnection EveryCopySettles
CHECK_DEADLOCK FALSE
