SPECIFICATION FairSpec
CONSTANTS
    NoWorker = NoWorker
    NoJob = NoJob
    NoKind = NoKind
    Jobs = {j1}
    Kinds = {k1, k2}
    Procs = {p1, p2}
    Concurrency = 1
    Workers <- MCWorkers
    ProcOf <- MCProcOf
    Registered <- MCRegisteredSome
    MaxAttempts = 2
    VisibilityTimeout = 1
    RetryBase = 1
    RetryMax = 2
    RetryDelay <- MCRetryDelay
    StartDelays = {0, 1}
    MaxOverdue = 1
    MaxFaults = 2
    Punctual = FALSE
INVARIANTS ClaimsAreDistinct FailsOnlyWhenExhausted
PROPERTIES ReleasedOnlyByHolderOrExpiry EveryJobSettles
