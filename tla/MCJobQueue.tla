----------------------------- MODULE MCJobQueue -----------------------------
(* Small instances of JobQueue for TLC. *)
EXTENDS JobQueue, Backoff

CONSTANTS
    RetryBase, RetryMax,  \* Options, in ticks
    Concurrency           \* goroutines per process

MCRetryDelay == [a \in 1 .. MaxAttempts |-> RetryDelayOf(RetryBase, RetryMax, a)]

MCWorkers == Procs \X (1 .. Concurrency)
MCProcOf == [w \in MCWorkers |-> w[1]]

\* Every process handles every kind.
MCRegisteredAll == [p \in Procs |-> Kinds]

\* A rolling deployment: one process does not know one of the kinds yet.
MCRegisteredSome ==
    [p \in Procs |-> IF p = CHOOSE q \in Procs : TRUE
                     THEN Kinds \ {CHOOSE k \in Kinds : TRUE} ELSE Kinds]
=============================================================================
