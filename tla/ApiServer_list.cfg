SPECIFICATION FairSpec
CONSTANTS
    Requests = {q1}
    Routes = {"list"}
    QueryTimeout = 1
    ProbeTimeout = 1
    RedisTimeout = 1
    Deployments <- MCDeployments
    BrokerTimeout = 3
    Budget = 3
PROPERTIES ListSucceeds
CHECK_DEADLOCK FALSE
