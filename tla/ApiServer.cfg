SPECIFICATION FairSpec
CONSTANTS
    Requests = {q1, q2}
    Routes = {"docs", "update", "login", "health"}
    QueryTimeout = 1
    ProbeTimeout = 1
    RedisTimeout = 1
    BrokerTimeout = 1
    Budget = 3
    Deployments <- MCDeployments
INVARIANTS ShutdownIsOrderly DegradedHasACause
PROPERTIES OnlyLongRequestsForce EverythingEnds
CHECK_DEADLOCK FALSE
