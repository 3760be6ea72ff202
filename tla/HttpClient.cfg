SPECIFICATION FairSpec
CONSTANTS
    Calls = {c1, c2}
    Hosts = {"api", "other", "localhost"}
    InternalHosts = {"localhost"}
    AllowedHosts = {"api", "localhost"}
    Addrs = {"public", "private"}
    InternalAddrs = {"private"}
    AllowPrivate = FALSE
    MaxRetries = 1
    Trip = 2
    Timeout = 2
    CBTimeout = 1
    MaxVia = 2
INVARIANT
    OnlyCheckedTargets
    BodyIsWhole
    ProbeInFlight
PROPERTY
    EveryCallReturns
